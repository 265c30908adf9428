--------------------------- MODULE StorePathInput ---------------------------
(***************************************************************************)
(* nix::canonicalize_store_path_input: what `oranc push' makes of a line   *)
(* of its input.  A path in the store directory is taken as it is; for any *)
(* other one the symbolic links are followed.                              *)
(***************************************************************************)
CONSTANTS
  Locations,   \* the paths that occur, as text read from the current directory
  StorePaths,  \* those that begin with --store-dir
  Nowhere      \* stands for the target of what is not a link

ASSUME LocationsAssumption ==
  /\ StorePaths \subseteq Locations
  /\ Nowhere \notin Locations

VARIABLES
  fs,      \* fs[l]: what is at l, and the text of the link if it is one
  input,   \* the line
  path,    \* the loop's path
  outcome  \* what the call returned

vars == <<fs, input, path, outcome>>

Entries ==
  [kind : {"missing", "other"}, target : {Nowhere}]
    \cup [kind : {"symlink"}, target : Locations]

IsLink(l) == fs[l].kind = "symlink"

TypeOK ==
  /\ fs \in [Locations -> Entries]
  /\ input \in Locations
  /\ path \in Locations
  /\ outcome \in {"running", "ok", "invalid_store_path", "io_error"}

Init ==
  /\ fs \in [Locations -> Entries]
  /\ input \in Locations
  /\ path = input
  /\ outcome = "running"

----------------------------------------------------------------------------

\* The loop tests the line, not the path it has arrived at.
InStore == input \in StorePaths

Accept ==
  /\ outcome = "running"
  /\ InStore
  /\ outcome' = "ok"
  /\ UNCHANGED <<fs, input, path>>

\* Mutant: the line's link is read again and again.
FollowInput ==
  /\ outcome = "running"
  /\ ~InStore
  /\ IsLink(path)
  /\ path' = fs[input].target
  /\ UNCHANGED <<fs, input, outcome>>

\* The text of the link becomes the path; a relative one is from then on
\* relative to the current directory.
Follow ==
  /\ outcome = "running"
  /\ ~InStore
  /\ IsLink(path)
  /\ path' = fs[path].target
  /\ UNCHANGED <<fs, input, outcome>>

\* Mutant: the end is looked up under the line, not under the path reached.
RejectByLine ==
  /\ outcome = "running"
  /\ ~InStore
  /\ ~IsLink(path)
  /\ outcome' = IF fs[input].kind = "missing" THEN "io_error" ELSE "invalid_store_path"
  /\ UNCHANGED <<fs, input, path>>

\* symlink_metadata fails on what is not there; what is there and no link is no
\* store path.
Reject ==
  /\ outcome = "running"
  /\ ~InStore
  /\ ~IsLink(path)
  /\ outcome' = IF fs[path].kind = "missing" THEN "io_error" ELSE "invalid_store_path"
  /\ UNCHANGED <<fs, input, path>>

Canonicalize == Accept \/ Follow \/ Reject

Ended ==
  /\ outcome # "running"
  /\ UNCHANGED vars

Next == Canonicalize \/ Ended

\* Nothing the loop calls waits for anyone.
Spec == Init /\ [][Next]_vars /\ WF_vars(Canonicalize)

----------------------------------------------------------------------------
(* Properties.                                                             *)

\* The links from l go on for ever: l is in a set of links whose targets are
\* in the set.
Endless(l) ==
  \E S \in SUBSET Locations :
    /\ l \in S
    /\ \A k \in S : IsLink(k) /\ fs[k].target \in S

\* The links from l arrive in T: l is in every set that has the members of T and
\* each link to a member of its own.
LeadsTo(l, T) ==
  \A S \in SUBSET Locations :
    T \subseteq S /\ (\A k \in Locations : IsLink(k) /\ fs[k].target \in S => k \in S)
      => l \in S

Missing == { l \in Locations : fs[l].kind = "missing" }
NoLinks == { l \in Locations : fs[l].kind = "other" }

\* The outcome is about where the chain of links arrives, however long it is:
\* what is accepted is a path in the store that the line leads to, an I/O error
\* means that it leads nowhere, and an invalid store path that it leads to what
\* is no link (which may well be in the store: see ResultLinkAccepted).
OutcomeOfChain ==
  /\ outcome = "ok" => path \in StorePaths /\ LeadsTo(input, {path})
  /\ outcome = "io_error" => LeadsTo(input, Missing)
  /\ outcome = "invalid_store_path" => LeadsTo(input, NoLinks)

\* The loop has no count of the links it followed (the system's own limit
\* applies to one call, not to a chain the program walks by itself): it ends
\* on every line but one whose links go round in a circle.
EndsUnlessCircular == Endless(input) \/ <>(outcome # "running")

\* README.md:74 pushes `./result', a link into the store: such a line is not
\* called an invalid store path.
ResultLinkAccepted == LeadsTo(input, StorePaths) => outcome # "invalid_store_path"
=============================================================================
