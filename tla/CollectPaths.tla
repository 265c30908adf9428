---------------------------- MODULE CollectPaths ----------------------------
(***************************************************************************)
(* The first half of `oranc push' (push.rs): read the input paths until    *)
(* stdin ends, resolve them to rows of the Nix database, compute the       *)
(* closure under references, read the signing key, and drop the paths the  *)
(* signature filter excludes.  One step per SELECT; the database moves     *)
(* between two of them.                                                    *)
(***************************************************************************)
EXTENDS NixDb

CONSTANT ExcludedNames  \* key names that match --excluded-signing-key-pattern

ASSUME ExcludedAssumption == ExcludedNames \subseteq SigNames \ {Malformed}

VARIABLES
  options,  \* the command line flags that matter here
  stdin,    \* whether its writer keeps it open, ended it, or it broke
  input,    \* the canonical input paths, each named by its row
  stray,    \* what canonicalization does of the other lines of the input
  pc,       \* where push() is
  todo,     \* input paths not yet resolved, then ids not yet filtered
  queue,    \* the work queue of compute_closure
  result,   \* the ids found so far
  filtered  \* the ids that passed filter_id

pushVars == <<options, stdin, input, stray, pc, todo, queue, result, filtered>>
vars == <<dbVars, pushVars>>

TypeOK ==
  /\ DbTypeOK
  /\ options \in [no_closure : BOOLEAN, already_signed : BOOLEAN]
  /\ stdin \in {"open", "ended", "broken"}
  /\ input \in SUBSET Rows
  /\ stray \in SUBSET {"rejected", "circular"}
  /\ pc \in {"open", "read", "canonicalize", "circling", "resolve", "closure", "key",
             "filter", "ready", "failed"}
  /\ todo \in SUBSET Rows
  /\ queue \in Seq(Rows)
  /\ result \in SUBSET Rows
  /\ filtered \in SUBSET Rows

Init ==
  /\ DbInit
  /\ options \in [no_closure : BOOLEAN, already_signed : BOOLEAN]
  /\ stdin = "open"
  /\ input = {}
  /\ stray = {}
  /\ pc = "open"
  /\ todo = {}
  /\ queue = <<>>
  /\ result = {}
  /\ filtered = {}

----------------------------------------------------------------------------

\* The sequences that hold the elements of S: the order in which a HashSet
\* is iterated, or a SELECT without ORDER BY returns its rows.
Orders(S) ==
  { s \in [1..Cardinality(S) -> S] : \A x \in S : \E i \in DOMAIN s : s[i] = x }

\* Whoever writes the input ends it: with lines that canonicalize to paths,
\* lines that are rejected, and lines that lead into circular links (module
\* StorePathInput tells which are which).  Or reading a line fails, an I/O
\* error or a line that is not UTF-8, and the lines before it are lost.
EndOfInput ==
  /\ stdin = "open"
  /\ pc \in {"open", "read"}
  /\ \/ /\ stdin' = "ended"
        /\ input' \in SUBSET Rows
        /\ stray' \in SUBSET {"rejected", "circular"}
     \/ /\ stdin' = "broken"
        /\ UNCHANGED <<input, stray>>
  /\ UNCHANGED <<dbVars, options, pc, todo, queue, result, filtered>>

\* Where push() goes while it only moves on.
Goto(l) ==
  /\ pc' = l
  /\ UNCHANGED <<dbVars, options, stdin, input, stray, todo, queue, result, filtered>>

\* Any `?' of push() returns the error to main; what was collected is dropped.
Fail ==
  /\ pc' = "failed"
  /\ input' = {}
  /\ stray' = {}
  /\ todo' = {}
  /\ queue' = <<>>
  /\ result' = {}
  /\ filtered' = {}
  /\ UNCHANGED <<dbVars, options, stdin>>

\* nix_db_connection: nothing is read from the database yet.
OpenDb ==
  /\ pc = "open"
  /\ Goto("read") \/ Fail

\* Every line of stdin is read before anything is done with the first.
ReadInput ==
  /\ pc = "read"
  /\ \/ stdin = "ended" /\ Goto("canonicalize")
     \/ stdin = "broken" /\ Fail

\* canonicalize_store_path_input on each line in the order of a HashSet: the
\* first line that is no store path ends push() or never lets go of it.
Canonicalize ==
  /\ pc = "canonicalize"
  /\ \/ "rejected" \in stray /\ Fail
     \/ "circular" \in stray /\ Goto("circling")
     \/ /\ stray = {}
        /\ pc' = "resolve"
        /\ todo' = input
        /\ UNCHANGED <<dbVars, options, stdin, input, stray, queue, result, filtered>>

\* The loop over circular links goes round and round.
Circle ==
  /\ pc = "circling"
  /\ UNCHANGED vars

\* query_path_id for one path.  Each SELECT may fail (an sqlite error); this
\* one also fails with NoPathInfo when the path is not in the table.
Resolve(r) ==
  /\ pc = "resolve"
  /\ r \in todo
  /\ \/ Fail
     \/ /\ r \in valid
        /\ todo' = todo \ {r}
        /\ result' = result \cup {r}
        /\ UNCHANGED <<dbVars, options, stdin, input, stray, pc, queue, filtered>>

\* All paths are resolved: with --no-closure these ids are the result,
\* otherwise they are the initial queue of compute_closure.
Resolved ==
  /\ pc = "resolve"
  /\ todo = {}
  /\ IF options.no_closure
       THEN /\ pc' = "key"
            /\ UNCHANGED <<queue, result>>
       ELSE /\ pc' = "closure"
            /\ queue' \in Orders(result)
            /\ result' = {}
  /\ UNCHANGED <<dbVars, options, stdin, input, stray, todo, filtered>>

\* Mutant: front() in place of pop_front().
Peeked == queue

\* What pop_front leaves.
Popped == Tail(queue)

\* An id that is queued twice is skipped the second time.
Skip ==
  /\ pc = "closure"
  /\ queue # <<>>
  /\ Head(queue) \in result
  /\ queue' = Popped
  /\ UNCHANGED <<dbVars, options, stdin, input, stray, pc, todo, result, filtered>>

\* Mutant: the references are pushed as one element.
PushedAsOne(refs) == Append(Popped, refs)

\* queue.extend(references).
Extended(refs) == Popped \o refs

\* A new id joins the result and its references join the queue.
Visit ==
  /\ pc = "closure"
  /\ queue # <<>>
  /\ Head(queue) \notin result
  /\ \/ Fail
     \/ /\ result' = result \cup {Head(queue)}
        /\ \E refs \in Orders(QueryReferences(Head(queue))) :
             queue' = Extended(refs)
        /\ UNCHANGED <<dbVars, options, stdin, input, stray, pc, todo, filtered>>

ClosureDone ==
  /\ pc = "closure"
  /\ queue = <<>>
  /\ pc' = "key"
  /\ UNCHANGED <<dbVars, options, stdin, input, stray, todo, queue, result, filtered>>

\* get_nix_key_pair: ORANC_SIGNING_KEY may be missing or malformed.
ReadKey ==
  /\ pc = "key"
  /\ \/ Fail
     \/ /\ pc' = "filter"
        /\ todo' = result
        /\ UNCHANGED <<dbVars, options, stdin, input, stray, queue, result, filtered>>

\* Mutant: --already-signed is ignored.
ExcludedOwnAlways(names) == names \cap (ExcludedNames \cup {OwnName}) # {}

\* filter_id_single on a well-formed list: some signature excludes the path.
Excluded(names) ==
  \/ names \cap ExcludedNames # {}
  \/ OwnName \in names /\ ~options.already_signed

\* Mutant: a missing row is taken for one that is there.
RowOptional(r) == TRUE

\* query_row wants a row.
RowThere(r) == r \in valid

\* Mutant: what does not parse is dropped from the list.
DropsMalformed(r) == TRUE

\* NixSignatureList::from_optional_str: one malformed signature fails the list.
Parses(r) == Malformed \notin sigs[r]

\* filter_id for one id: an error when the row is gone (query_row wants one)
\* or when a signature does not parse.
Filter(r) ==
  /\ pc = "filter"
  /\ r \in todo
  /\ \/ Fail
     \/ /\ RowThere(r)
        /\ Parses(r)
        /\ todo' = todo \ {r}
        /\ filtered' = IF Excluded(sigs[r]) THEN filtered ELSE filtered \cup {r}
        /\ UNCHANGED <<dbVars, options, stdin, input, stray, pc, queue, result>>

\* Every id went through the filter: the push tasks start (module PushTasks).
FilterDone ==
  /\ pc = "filter"
  /\ todo = {}
  /\ pc' = "ready"
  /\ UNCHANGED <<dbVars, options, stdin, input, stray, todo, queue, result, filtered>>

----------------------------------------------------------------------------

Collect ==
  \/ OpenDb
  \/ ReadInput
  \/ Canonicalize
  \/ Circle
  \/ \E r \in Rows : Resolve(r) \/ Filter(r)
  \/ Resolved
  \/ Skip
  \/ Visit
  \/ ClosureDone
  \/ ReadKey
  \/ FilterDone

\* The collection ended; nothing else happens in this half.
Ended ==
  /\ pc \in {"ready", "failed"}
  /\ UNCHANGED vars

Next ==
  \/ Collect
  \/ EndOfInput
  \/ DbNext /\ UNCHANGED pushVars
  \/ Ended

Spec == Init /\ [][Next]_vars

\* push() runs on its own thread, and what it waits for, but for the end of
\* stdin, is local: a file or a query, which return.  Nothing is assumed of
\* those who write the input or the database.
FairSpec == Spec /\ WF_vars(Collect)

----------------------------------------------------------------------------
(* Properties.                                                             *)

ClosedUnderRefs(S) == \A r \in S : Refs[r] \subseteq S

\* C is the closure of S: the least set that holds S and all references.
IsClosure(C, S) ==
  /\ S \subseteq C
  /\ ClosedUnderRefs(C)
  /\ \A D \in SUBSET Rows : S \subseteq D /\ ClosedUnderRefs(D) => C \subseteq D

\* Whatever garbage collection did between the queries, a push that reaches
\* its tasks has the exact closure of its input.  A row deleted while the
\* closure was computed reads as one without references (query_references
\* returns no row and no error); the filter meets every id again and fails on
\* it, so the truncated closure is never pushed.
ClosureExact ==
  pc = "ready" =>
    IF options.no_closure THEN result = input ELSE IsClosure(result, input)

\* A path of the closure that is not pushed carries, when the tasks start, a
\* signature by a name of the excluded pattern, or the signing key's own while
\* --already-signed is off: no path is left out for another reason, whatever
\* was signed while filter_id went through the closure.
ExclusionJustified ==
  pc = "ready" =>
    \A r \in result \ filtered :
      \E n \in sigs[r] :
        n \in ExcludedNames \/ (n = OwnName /\ ~options.already_signed)

\* Once the input has ended, with no line that leads into circular links, the
\* collection ends, also when a path refers to itself and while the database
\* changes.
CollectEnds ==
  (stdin # "open" /\ "circular" \notin stray) ~> (pc \in {"ready", "failed"})

\* README.md, "Direct push": "Only unsigned paths will be pushed, if you
\* manually signed store paths, use the argument `--already-signed`".
OnlyUnsignedPushed ==
  pc = "ready" /\ ~options.already_signed => \A r \in filtered : sigs[r] = {}
=============================================================================
