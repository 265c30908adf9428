------------------------- MODULE PushSystem_proofs -------------------------
(***************************************************************************)
(* What holds of a whole `oranc push' for every database, input and disk:  *)
(* both halves behave as their modules say, and the theorems about them    *)
(* together say what the user gets.                                        *)
(***************************************************************************)
EXTENDS PushSystem, CollectPaths_proofs

\* What the filter let through was in the table then, and its signatures
\* parsed; no process adds one that does not.
FilterPassed ==
  /\ filtered \subseteq valid \cup deleted
  /\ \A r \in filtered : Malformed \notin sigs[r]

\* The filter keeps ids that were found, and begins when they all were.
FilteredFound ==
  /\ filtered \subseteq result
  /\ pc \in {"open", "read", "canonicalize", "resolve"} => filtered = {}

\* The tasks begin once, when the collection is over, with what it found.
Handover ==
  /\ verdict # "idle" => pc = "ready" /\ wanted = filtered /\ runs = 1
  /\ verdict = "idle" => wanted = {} /\ runs = 0

\* Nothing but the wanted paths is listed or on its way to be.
OnlyWanted ==
  /\ \A r \in Rows : Tasks!Published(r) => r \in wanted
  /\ \A w \in late : w.kind = "info" => w.row \in wanted

SInv ==
  /\ IInv
  /\ RejectedJustified
  /\ Tasks!TypeOK
  /\ Tasks!Reported
  /\ FilterPassed
  /\ FilteredFound
  /\ Handover
  /\ OnlyWanted

LEMMA TasksAssumptions ==
  /\ Tasks!RowsAssumption
  /\ Tasks!RefsAssumption
  /\ Tasks!SigsAssumption
  /\ Tasks!PushAssumption
BY SystemAssumption, RowsAssumption, RefsAssumption, SigsAssumption
DEF IsFiniteSet, Tasks!IsFiniteSet

----------------------------------------------------------------------------
(* The two halves.                                                         *)

\* The collection does not touch the database, and takes no step once it is
\* over.
LEMMA CollectFacts ==
  ASSUME Collect
  PROVE  UNCHANGED dbVars /\ pc \notin {"ready", "failed"}
BY DEF Collect, OpenDb, ReadInput, Canonicalize, Circle, Resolve, Filter, Resolved, Skip, Visit,
       ClosureDone, ReadKey, FilterDone, Goto, Fail, vars

LEMMA PushFacts ==
  ASSUME Tasks!Push
  PROVE  /\ verdict = "running" /\ verdict' \in {"running", "ok", "failed"}
         /\ UNCHANGED <<valid, deleted, sigs, wanted, dryRun, disk, runs>>
BY DEF Tasks!Push, Tasks!Task, Tasks!Begin, Tasks!Fail, Tasks!ReadInfo, Tasks!ReadRefs,
       Tasks!Encode, Tasks!PutOk, Tasks!PutDry, Tasks!PutFails, Tasks!GiveUp, Tasks!Conclude,
       Tasks!At, Tasks!Putting, Tasks!Finish, Tasks!Advance, Tasks!Progress, Tasks!dbVars,
       Tasks!runVars

LEMMA AccidentFacts ==
  ASSUME Accident
  PROVE  /\ verdict' \in {verdict, "crashed"} /\ (verdict' # verdict => verdict = "running")
         /\ UNCHANGED <<valid, deleted, sigs, wanted, dryRun, disk, runs>>
BY DEF Accident, Tasks!Crash, Tasks!ApplyLate, Tasks!dbVars, Tasks!runVars, Tasks!taskVars

LEMMA BeginFacts ==
  ASSUME Begin
  PROVE  /\ pc = "ready" /\ wanted' = filtered /\ runs' = runs + 1 /\ runs < MaxRuns
         /\ verdict # "running" /\ verdict' = "running"
         /\ UNCHANGED <<valid, deleted, sigs, nars, infos, late>>
BY DEF Begin, TaskIds, Tasks!StartWith, Tasks!dbVars, Tasks!registryVars

LEMMA CollectStep == [SystemNext]_systemVars => [Next]_vars
<1> SUFFICES ASSUME [SystemNext]_systemVars PROVE [Next]_vars
  OBVIOUS
<1>1. CASE Collect \/ EndOfInput \/ (DbNext /\ UNCHANGED pushVars)
  BY <1>1 DEF Next
<1>2. CASE Begin
  BY <1>2, BeginFacts DEF Begin, vars, dbVars
<1>3. CASE Tasks!Push /\ UNCHANGED pushVars
  BY <1>3, PushFacts DEF vars, dbVars
<1>4. CASE Accident
  BY <1>4, AccidentFacts DEF Accident, vars, dbVars
<1>5. CASE UNCHANGED systemVars
  BY <1>5 DEF systemVars
<1> QED BY <1>1, <1>2, <1>3, <1>4, <1>5 DEF SystemNext, System, Over

LEMMA TasksStep == FilterPassed /\ [SystemNext]_systemVars => [Tasks!Next]_(Tasks!vars)
<1> SUFFICES ASSUME FilterPassed, [SystemNext]_systemVars
    PROVE  Tasks!Next \/ UNCHANGED Tasks!vars
  OBVIOUS
<1> USE DEF Tasks!vars, Tasks!dbVars, Tasks!runVars, Tasks!taskVars, Tasks!registryVars
<1>1. CASE Collect /\ UNCHANGED taskVars
  BY <1>1, CollectFacts DEF taskVars, dbVars
<1>2. CASE Begin
  <2>1. filtered \in SUBSET Tasks!Filterable
    <3>1. filtered \subseteq valid \cup deleted /\ \A r \in filtered : Malformed \notin sigs[r]
      BY DEF FilterPassed
    <3> QED BY <3>1 DEF Tasks!Filterable
  <2>2. Tasks!Start
    BY <1>2, <2>1 DEF Begin, TaskIds, Tasks!Start
  <2> QED BY <2>2 DEF Tasks!Next
<1>3. CASE Tasks!Push \/ Accident
  BY <1>3 DEF Accident, Tasks!Next
<1>4. CASE DbNext /\ UNCHANGED taskVars
  <2>1. Tasks!DbNext
    BY <1>4
    DEF DbNext, Register, Delete, Sign, Tasks!DbNext, Tasks!Register, Tasks!Delete, Tasks!Sign
  <2> QED BY <1>4, <2>1 DEF taskVars, Tasks!Next
<1>5. CASE EndOfInput /\ UNCHANGED taskVars
  BY <1>5 DEF EndOfInput, taskVars, dbVars
<1>6. CASE UNCHANGED systemVars
  BY <1>6 DEF systemVars, vars, dbVars, taskVars
<1> QED BY <1>1, <1>2, <1>3, <1>4, <1>5, <1>6 DEF SystemNext, System, Over

----------------------------------------------------------------------------
(* The invariant.                                                          *)

LEMMA InitSInv == SystemInit => SInv
<1> SUFFICES ASSUME SystemInit PROVE SInv
  OBVIOUS
<1>1. IInv /\ RejectedJustified
  BY InitIInv DEF SystemInit, Init, RejectedJustified
<1>2. Tasks!TypeOK /\ Tasks!Reported
  BY TasksAssumptions, Tasks!InitTypes, Tasks!InitReported DEF SystemInit
<1>3. /\ filtered = {} /\ verdict = "idle" /\ runs = 0 /\ wanted = {} /\ late = {}
      /\ \A r \in Rows : infos[r] = NoInfo
  BY DEF SystemInit, Init, Tasks!Init
<1> QED
  BY <1>1, <1>2, <1>3 
  DEF SInv, FilterPassed, FilteredFound, Handover, OnlyWanted, Tasks!Published

LEMMA NextFilterPassed == SInv /\ [Next]_vars => FilterPassed'
<1> SUFFICES ASSUME SInv, [Next]_vars PROVE FilterPassed'
  OBVIOUS
<1> USE DEF SInv, IInv
<1>1. ASSUME NEW r \in Rows, Filter(r)
      PROVE  FilterPassed'
  <2>1. CASE Fail
    BY <2>1 DEF Fail, FilterPassed
  <2>2. CASE ~Fail
    <3>1. /\ r \in valid /\ Malformed \notin sigs[r] /\ filtered' \subseteq filtered \cup {r}
          /\ UNCHANGED dbVars
      BY <1>1, <2>2 DEF Filter, RowThere, Parses
    <3> QED BY <3>1 DEF FilterPassed, dbVars
  <2> QED BY <2>1, <2>2
<1>2. CASE UNCHANGED <<dbVars, filtered>>
  BY <1>2 DEF FilterPassed, dbVars
<1>3. CASE DbNext /\ UNCHANGED pushVars
  <2>1. valid \cup deleted \subseteq valid' \cup deleted' /\ filtered' = filtered
    BY <1>3 DEF DbNext, Register, Delete, Sign, pushVars
  <2>2. \A r \in Rows : Malformed \notin sigs[r] => Malformed \notin sigs'[r]
    BY <1>3, SigsAssumption DEF DbNext, Register, Delete, Sign, TypeOK, DbTypeOK
  <2> QED BY <2>1, <2>2 DEF FilterPassed, TypeOK
<1>4. CASE Fail
  BY <1>4 DEF Fail, FilterPassed
<1> QED
  BY <1>1, <1>2, <1>3, <1>4
  DEF Next, Collect, OpenDb, ReadInput, Canonicalize, Circle, EndOfInput, Resolve, Resolved,
      Skip, Visit, ClosureDone, ReadKey, FilterDone, Goto, Fail, Ended, vars, pushVars

LEMMA NextFilteredFound == SInv /\ [Next]_vars => FilteredFound'
<1> SUFFICES ASSUME SInv, [Next]_vars PROVE FilteredFound'
  OBVIOUS
<1> USE DEF SInv, FilteredFound
<1>1. ASSUME NEW r \in Rows, Filter(r)
      PROVE  FilteredFound'
  <2>1. CASE Fail
    BY <2>1 DEF Fail
  <2>2. CASE ~Fail
    <3>1. r \in result
      BY <1>1 DEF Filter, IInv, Screened
    <3>2. /\ filtered' \subseteq filtered \cup {r}
          /\ UNCHANGED <<pc, result>> /\ pc = "filter"
      BY <1>1, <2>2 DEF Filter
    <3> QED BY <3>1, <3>2
  <2> QED BY <2>1, <2>2
<1>2. ASSUME NEW r \in Rows, Resolve(r)
      PROVE  FilteredFound'
  BY <1>2 DEF Resolve, Fail
<1>3. CASE OpenDb \/ ReadInput \/ Canonicalize \/ EndOfInput
  BY <1>3 DEF OpenDb, ReadInput, Canonicalize, EndOfInput, Goto, Fail
<1>4. CASE Resolved
  BY <1>4 DEF Resolved
<1>5. CASE Visit
  BY <1>5 DEF Visit, Fail
<1>6. CASE Skip \/ ClosureDone \/ ReadKey \/ FilterDone
  BY <1>6 DEF Skip, ClosureDone, ReadKey, FilterDone, Fail
<1>7. CASE UNCHANGED pushVars
  BY <1>7 DEF pushVars
<1> QED
  BY <1>1, <1>2, <1>3, <1>4, <1>5, <1>6, <1>7 DEF Next, Collect, Circle, Ended, vars

LEMMA NextHandover == SInv /\ [SystemNext]_systemVars => Handover'
<1> SUFFICES ASSUME SInv, [SystemNext]_systemVars PROVE Handover'
  OBVIOUS
<1> USE DEF SInv, Handover
<1>1. CASE Collect /\ UNCHANGED taskVars
  BY <1>1, CollectFacts DEF taskVars
<1>2. CASE Begin
  <2>1. runs = 0
    BY <1>2, BeginFacts, SystemAssumption
  <2> QED BY <1>2, <2>1, BeginFacts DEF Begin, pushVars
<1>3. CASE Tasks!Push /\ UNCHANGED pushVars
  BY <1>3, PushFacts DEF pushVars
<1>4. CASE Accident
  BY <1>4, AccidentFacts DEF Accident, pushVars
<1>5. CASE EndOfInput /\ UNCHANGED taskVars
  BY <1>5 DEF EndOfInput, taskVars
<1>6. CASE UNCHANGED <<pushVars, taskVars>>
  BY <1>6 DEF pushVars, taskVars
<1> QED BY <1>1, <1>2, <1>3, <1>4, <1>5, <1>6 DEF SystemNext, System, Over, systemVars, vars

\* A write for a wanted path keeps the registry to the wanted paths.
LEMMA ApplyOnlyWanted ==
  ASSUME SInv, NEW w \in Tasks!Writes, Tasks!Apply(w), w.kind = "info" => w.row \in wanted
  PROVE  \A r \in Rows : Tasks!Published(r)' => r \in wanted
<1>1. CASE w.kind = "nar"
  BY <1>1, TasksAssumptions, Tasks!ApplyTypes DEF SInv, OnlyWanted, Tasks!Published
<1>2. CASE w.kind = "info"
  <2>1. infos' = [infos EXCEPT ![w.row] = w.info]
    BY <1>2, TasksAssumptions, Tasks!ApplyTypes DEF SInv
  <2> QED
    BY <1>2, <2>1 DEF SInv, OnlyWanted, Tasks!Published, Tasks!TypeOK
<1> QED BY <1>1, <1>2 DEF Tasks!Apply

LEMMA PushOnlyWanted == SInv /\ Tasks!Push => OnlyWanted'
<1> SUFFICES ASSUME SInv, Tasks!Push PROVE OnlyWanted'
  OBVIOUS
<1> USE DEF SInv
<1>1. wanted' = wanted
  BY PushFacts
<1>2. ASSUME NEW r \in Rows, Tasks!PutOk(r) \/ Tasks!PutFails(r)
      PROVE  OnlyWanted'
  <2>1. r \in wanted /\ Tasks!Putting(r)
    BY <1>2 DEF Tasks!PutOk, Tasks!PutFails, Tasks!Putting
  <2>2. /\ Tasks!ItemOf(r) \in Tasks!Writes
        /\ Tasks!ItemOf(r).kind = "info" => Tasks!ItemOf(r).row \in wanted
    BY <2>1, TasksAssumptions, Tasks!ItemTypes
  <2>3. CASE Tasks!PutOk(r)
    BY <1>1, <2>2, <2>3, ApplyOnlyWanted DEF Tasks!PutOk, OnlyWanted
  <2>4. CASE Tasks!PutFails(r)
    BY <1>1, <2>2, <2>4 DEF Tasks!PutFails, OnlyWanted, Tasks!Published
  <2> QED BY <1>2, <2>3, <2>4
<1>3. CASE UNCHANGED <<infos, late>>
  BY <1>1, <1>3 DEF OnlyWanted, Tasks!Published
<1> QED
  BY <1>2, <1>3
  DEF Tasks!Push, Tasks!Task, Tasks!Begin, Tasks!Fail, Tasks!ReadInfo, Tasks!ReadRefs,
      Tasks!Encode, Tasks!PutDry, Tasks!GiveUp, Tasks!Conclude, Tasks!registryVars

LEMMA AccidentOnlyWanted == SInv /\ Accident => OnlyWanted'
<1> SUFFICES ASSUME SInv, Accident PROVE OnlyWanted'
  OBVIOUS
<1> USE DEF SInv
<1>1. wanted' = wanted
  BY AccidentFacts
<1>2. CASE Tasks!Crash
  <2>1. PICK S \in SUBSET { r \in wanted :
                 Tasks!Putting(r) /\ Tasks!AttemptLeft(r) /\ ~Tasks!SkipsPush } :
          late' = late \cup { Tasks!ItemOf(r) : r \in S }
    BY <1>2 DEF Tasks!Crash
  <2>2. \A r \in S : r \in Rows /\ r \in wanted /\ Tasks!Putting(r)
    BY <2>1 DEF Tasks!TypeOK
  <2>3. \A r \in S : Tasks!ItemOf(r).kind = "info" => Tasks!ItemOf(r).row \in wanted
    BY <2>2, TasksAssumptions, Tasks!ItemTypes
  <2> QED
    BY <1>1, <1>2, <2>1, <2>3 DEF Tasks!Crash, OnlyWanted, Tasks!Published
<1>3. ASSUME NEW w \in late, Tasks!ApplyLate(w)
      PROVE  OnlyWanted'
  <2>1. w \in Tasks!Writes /\ Tasks!Apply(w) /\ late' = late \ {w}
    BY <1>3 DEF Tasks!ApplyLate, Tasks!TypeOK
  <2>2. \A r \in Rows : Tasks!Published(r)' => r \in wanted
    BY <2>1, ApplyOnlyWanted DEF OnlyWanted
  <2> QED BY <1>1, <2>1, <2>2 DEF OnlyWanted
<1> QED BY <1>2, <1>3 DEF Accident

LEMMA NextOnlyWanted == SInv /\ [SystemNext]_systemVars => OnlyWanted'
<1> SUFFICES ASSUME SInv, [SystemNext]_systemVars PROVE OnlyWanted'
  OBVIOUS
<1>1. CASE Begin
  <2>1. runs < 1 /\ wanted' = filtered /\ UNCHANGED <<infos, late>>
    BY <1>1, BeginFacts, SystemAssumption
  <2>2. wanted = {}
    BY <2>1 DEF SInv, Handover
  <2> QED BY <2>1, <2>2 DEF SInv, OnlyWanted, Tasks!Published
<1>2. CASE Tasks!Push
  BY <1>2, PushOnlyWanted
<1>3. CASE Accident
  BY <1>3, AccidentOnlyWanted
<1>4. CASE UNCHANGED taskVars
  BY <1>4 DEF taskVars, SInv, OnlyWanted, Tasks!Published
<1> QED
  BY <1>1, <1>2, <1>3, <1>4 DEF SystemNext, System, Over, systemVars

LEMMA NextSInv == SInv /\ [SystemNext]_systemVars => SInv'
<1> SUFFICES ASSUME SInv, [SystemNext]_systemVars PROVE SInv'
  OBVIOUS
<1>1. [Next]_vars /\ [Tasks!Next]_(Tasks!vars)
  BY CollectStep, TasksStep DEF SInv
<1>2. IInv' /\ RejectedJustified'
  BY <1>1, NextIInv, NextRejects DEF SInv
<1>3. Tasks!TypeOK' /\ Tasks!Reported'
  BY <1>1, TasksAssumptions, Tasks!NextTypes, Tasks!NextReported DEF SInv
<1>4. FilterPassed' /\ FilteredFound'
  BY <1>1, NextFilterPassed, NextFilteredFound
<1> QED
  BY <1>2, <1>3, <1>4, NextHandover, NextOnlyWanted DEF SInv

----------------------------------------------------------------------------

\* Both halves keep their types, and the second has what the first found.
THEOREM SystemTypeCorrect == SystemSpec => []SystemTypeOK
<1>1. SInv => SystemTypeOK
  BY DEF SInv, IInv, Handover, SystemTypeOK
<1> QED BY <1>1, InitSInv, NextSInv, PTL DEF SystemSpec

\* What the filter lets through is what PushTasks assumes, also when rows were
\* deleted and signatures added since.
THEOREM SystemTasksBehave == SystemSpec => TasksBehave
<1>1. SystemInit => Tasks!Init
  BY DEF SystemInit
<1>2. SInv => FilterPassed
  BY DEF SInv
<1> QED
  BY <1>1, <1>2, InitSInv, NextSInv, TasksStep, PTL
  DEF SystemSpec, TasksBehave, Tasks!Spec

\* For every database, input, disk and interleaving, after Ok the whole closure
\* of the input can be found, and nothing outside it is ever listed.
THEOREM PushPublishesClosure == SystemSpec => []ClosurePublished
<1>1. SInv => ClosurePublished
  <2> SUFFICES ASSUME SInv PROVE ClosurePublished
    OBVIOUS
  <2>1. ClosureExact /\ result \in SUBSET Rows
    BY IInvClosureExact DEF SInv, IInv, TypeOK
  <2>2. pc = "ready" => Closure(result)
    BY <2>1 DEF ClosureExact, Closure
  <2>3. pc = "ready" => filtered \subseteq result /\ todo = {}
    BY DEF SInv, IInv, Screened, FilteredFound
  <2>4. \A r \in Rows : Tasks!Published(r) => r \in wanted
    BY DEF SInv, OnlyWanted
  <2>5. \A r \in Rows : Tasks!Published(r) => pc = "ready" /\ r \in result
    BY <2>3, <2>4 DEF SInv, Handover
  <2>6. ASSUME verdict = "ok", ~dryRun, NEW r \in result
        PROVE  \/ Tasks!Published(r)
               \/ \E n \in sigs[r] :
                    n \in ExcludedNames \/ (n = OwnName /\ ~options.already_signed)
    <3>1. pc = "ready" /\ wanted = filtered /\ todo = {}
      BY <2>3, <2>6 DEF SInv, Handover
    <3>2. CASE r \in filtered
      <4>1. status[r] = "ok"
        BY <2>6, <3>1, <3>2 DEF SInv, Tasks!Reported, Tasks!Finished
      <4> QED BY <2>6, <3>1, <3>2, <4>1 DEF SInv, Tasks!Reported
    <3>3. CASE r \notin filtered
      BY <2>6, <3>1, <3>3 DEF SInv, RejectedJustified, Justified
    <3> QED BY <3>2, <3>3
  <2> QED
    BY <2>1, <2>2, <2>5, <2>6 DEF ClosurePublished
<1> QED BY <1>1, InitSInv, NextSInv, PTL DEF SystemSpec
=============================================================================
