------------------------------- MODULE NixDb -------------------------------
(***************************************************************************)
(* The Nix store database (/nix/var/nix/db/db.sqlite) as `oranc push' sees *)
(* it.  oranc only reads it, one SELECT at a time and never two in one     *)
(* transaction, while other processes may register paths, collect garbage  *)
(* and add signatures.  The writers are Nix, which is not part of the      *)
(* repository: they are external, modelled from the schema the queries of  *)
(* nix.rs rely on.                                                         *)
(*                                                                         *)
(* A row is one row of ValidPaths.  Its id is never used again once the    *)
(* row is deleted (autoincrement), the rows of Refs it owns vanish with it *)
(* (on delete cascade), and it cannot be deleted while another row refers  *)
(* to it (on delete restrict).                                             *)
(***************************************************************************)
EXTENDS Naturals, FiniteSets, Sequences

CONSTANTS
  Rows,         \* the rows ValidPaths may ever hold
  Refs,         \* Refs[r]: the rows r refers to, while r is in the table
  SigNames,     \* key names a signature may carry
  OwnName,      \* the name of ORANC_SIGNING_KEY
  Malformed,    \* stands for a signature without a colon
  LateSigners,  \* names other processes may sign with while oranc runs
  InitialSigs   \* the `sigs' columns considered at the start

ASSUME RowsAssumption == IsFiniteSet(Rows)
ASSUME RefsAssumption == Refs \in [Rows -> SUBSET Rows]
ASSUME SigsAssumption ==
  /\ {OwnName, Malformed} \subseteq SigNames
  /\ LateSigners \subseteq SigNames \ {Malformed}
  /\ InitialSigs \subseteq [Rows -> SUBSET SigNames]

VARIABLES
  valid,    \* the rows in ValidPaths now
  deleted,  \* the rows that were in it and are gone for good
  sigs      \* sigs[r]: the names in r's `sigs' column

dbVars == <<valid, deleted, sigs>>

\* The foreign keys of Refs: a row in the table refers only to rows in it.
RefsIntact == \A r \in valid : Refs[r] \subseteq valid

DbTypeOK ==
  /\ valid \in SUBSET Rows
  /\ deleted \in SUBSET Rows
  /\ valid \cap deleted = {}
  /\ sigs \in [Rows -> SUBSET SigNames]

DbInit ==
  /\ valid \in SUBSET Rows
  /\ RefsIntact
  /\ deleted = {}
  /\ sigs \in InitialSigs

----------------------------------------------------------------------------
(* What the queries of nix.rs return.                                      *)

\* SELECT reference FROM Refs WHERE referrer = ?  No row, no references: a
\* missing row is not an error here.
QueryReferences(r) == IF r \in valid THEN Refs[r] ELSE {}

----------------------------------------------------------------------------
(* The other users of the database.                                        *)

\* A build or a substitution registers a path whose references are there.
Register(r) ==
  /\ r \notin valid \cup deleted
  /\ Refs[r] \subseteq valid \cup {r}
  /\ valid' = valid \cup {r}
  /\ UNCHANGED <<deleted, sigs>>

\* Garbage collection removes a path no other path refers to.
Delete(r) ==
  /\ r \in valid
  /\ \A s \in valid \ {r} : r \notin Refs[s]
  /\ valid' = valid \ {r}
  /\ deleted' = deleted \cup {r}
  /\ UNCHANGED sigs

\* `nix store sign' adds a signature.
Sign(r, n) ==
  /\ r \in valid
  /\ n \notin sigs[r]
  /\ sigs' = [sigs EXCEPT ![r] = @ \cup {n}]
  /\ UNCHANGED <<valid, deleted>>

DbNext ==
  \E r \in Rows :
    \/ Register(r)
    \/ Delete(r)
    \/ \E n \in LateSigners : Sign(r, n)
=============================================================================
