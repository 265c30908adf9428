----------------------------- MODULE PushSystem -----------------------------
(***************************************************************************)
(* One `oranc push' from its input to its verdict: the collection of the   *)
(* paths (CollectPaths) and then the tasks (PushTasks), on one database.   *)
(* What PushTasks assumes of the paths it is given is here what the filter *)
(* let through, however long ago.                                          *)
(***************************************************************************)
EXTENDS CollectPaths

CONSTANTS Nars, NarOf, Garbled, NoInfo, Disks, Parallel, MaxRetry, MaxRuns, MaxLate

VARIABLES
  wanted, dryRun, disk, status, attempt, draft, failed, verdict, runs, nars, infos, late

\* PushTasks, by way of the module that has its theorems.
Tasks == INSTANCE PushTasks_proofs

\* As in PushTasks; and there is one process, so push() runs once.
ASSUME SystemAssumption ==
  /\ Garbled \in Nars
  /\ NarOf \in [Rows -> Nars \ {Garbled}]
  /\ NoInfo \notin Tasks!NarInfos \cup Nars
  /\ Disks \subseteq [Rows -> {"intact", "garbled", "resized"}]
  /\ {Parallel, MaxRetry, MaxLate} \subseteq Nat
  /\ MaxRuns = 1

taskVars ==
  <<wanted, dryRun, disk, status, attempt, draft, failed, verdict, runs, nars, infos, late>>
systemVars == <<vars, taskVars>>

SystemInit == Init /\ Tasks!Init

\* Mutant: the tasks are made of the unfiltered ids.
AllOfClosure == result

\* `filtered.into_iter()'.
TaskIds == filtered

\* The collection returned: its paths become tasks.
Begin ==
  /\ pc = "ready"
  /\ Tasks!StartWith(TaskIds)
  /\ UNCHANGED pushVars

System ==
  \/ Collect /\ UNCHANGED taskVars
  \/ Begin
  \/ Tasks!Push /\ UNCHANGED pushVars

\* oranc is killed while it pushes, or a write arrives late.
Accident ==
  /\ Tasks!Crash \/ \E w \in late : Tasks!ApplyLate(w)
  /\ UNCHANGED pushVars

Over ==
  /\ pc = "failed" \/ verdict \notin {"idle", "running"}
  /\ UNCHANGED systemVars

SystemNext ==
  \/ System
  \/ Accident
  \/ EndOfInput /\ UNCHANGED taskVars
  \/ DbNext /\ UNCHANGED <<pushVars, taskVars>>
  \/ Over

SystemSpec == SystemInit /\ [][SystemNext]_systemVars

\* As for the two halves: nothing but oranc's own steps is fair.
FairSystemSpec == SystemSpec /\ WF_systemVars(System)

----------------------------------------------------------------------------
(* Properties.                                                             *)

\* The tasks begin after the collection, with what it found, and both halves
\* keep their types.
SystemTypeOK ==
  /\ TypeOK
  /\ Tasks!TypeOK
  /\ verdict # "idle" => pc = "ready" /\ wanted = filtered

Closure(C) == IF options.no_closure THEN C = input ELSE IsClosure(C, input)

\* What the user of `oranc push' relies on (README.md, "Direct push"): after
\* Ok each path of the closure of the input is listed in this cache or carries
\* a signature that excluded it, of a cache of the excluded pattern or, without
\* --already-signed, the key's own (which says that it was signed, not that any
\* cache has it); and whatever the verdict, nothing outside the closure was
\* listed.  (While the push runs a path may well be listed before its
\* references: the tasks have no order.)
ClosurePublished ==
  \E C \in SUBSET Rows :
    /\ pc = "ready" => Closure(C)
    /\ \A r \in Rows : Tasks!Published(r) => r \in C /\ pc = "ready"
    /\ verdict = "ok" /\ ~dryRun =>
         \A r \in C :
           \/ Tasks!Published(r)
           \/ \E n \in sigs[r] :
                n \in ExcludedNames \/ (n = OwnName /\ ~options.already_signed)

\* The second half behaves as PushTasks says, which assumes that every path
\* it is given was once in the table and that its signatures parse.
TasksBehave == Tasks!Spec

\* Once its input has ended, with no line that leads into circular links, a push
\* ends, with an error of the collection or with a verdict.
SystemEnds ==
  (stdin # "open" /\ "circular" \notin stray)
    ~> (pc = "failed" \/ verdict \notin {"idle", "running"})
=============================================================================
