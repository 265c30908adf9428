-------------------------- MODULE PushTasks_proofs --------------------------
(***************************************************************************)
(* What holds of PushTasks for every database, disk, --parallel and        *)
(* --max-retry, and any number of runs, crashes and late writes.           *)
(***************************************************************************)
EXTENDS PushTasks, TLAPS

\* A narinfo may reach the registry from `infos', from a late write or from a
\* task that is about to put it: in each place its NAR is there already.
Backed ==
  /\ NarInfoHasNar
  /\ \A w \in late : w.kind = "info" => w.info.nar \in nars
  /\ \A r \in Rows : status[r] = "put_info" /\ ~dryRun => draft[r].nar \in nars

\* In each of these places the narinfo describes its path.
Exact(r, i) == i.nar = NarOf[r] /\ i.refs = Refs[r]

Presigned(r) == OwnName \notin LateSigners /\ OwnName \in sigs[r]

Describes(r, i) ==
  /\ i.nar = NarOf[r] \/ disk[r] = "garbled"
  /\ i.refs = Refs[r] \/ r \in deleted
  /\ Presigned(r) => Exact(r, i)

\* What a task has read is what the database said, or the row is gone.
DraftRead(r) ==
  /\ status[r] \in Working => r \in valid \cup deleted
  /\ status[r] = "encode" => draft[r].refs = Refs[r] \/ r \in deleted
  /\ status[r] \in {"refs", "encode"} /\ Presigned(r) => OwnName \in draft[r].sigs
  /\ status[r] \in {"put_nar", "put_info"} => Describes(r, draft[r])

Faithful ==
  /\ wanted \subseteq valid \cup deleted
  /\ \A r \in Rows : Published(r) => Describes(r, infos[r])
  /\ \A w \in late : w.kind = "info" => Describes(w.row, w.info)
  /\ \A r \in Rows : DraftRead(r)

\* The flag is set exactly when a task had an error of its own.
Reported ==
  /\ failed => \E r \in wanted : status[r] = "err"
  /\ ~failed => \A r \in wanted : status[r] \notin {"err", "early"}
  /\ ~dryRun => \A r \in wanted : status[r] = "ok" => Published(r)
  /\ verdict = "ok" => ~failed /\ \A r \in wanted : status[r] \in Finished
  /\ verdict = "failed" => failed

----------------------------------------------------------------------------
(* Types.                                                                  *)

LEMMA DraftTypes == EmptyDraft \in NarInfos
BY PushAssumption DEF EmptyDraft, NarInfos

LEMMA ItemTypes ==
  ASSUME TypeOK, NEW r \in Rows, Putting(r)
  PROVE  /\ ItemOf(r) \in Writes
         /\ ItemOf(r).kind = "info" => status[r] = "put_info" /\ ItemOf(r).row = r
                                        /\ ItemOf(r).info = draft[r]
         /\ ItemOf(r).kind = "nar" => status[r] = "put_nar" /\ ItemOf(r).nar = draft[r].nar
<1>1. draft[r] \in NarInfos
  BY DEF TypeOK
<1>2. draft[r].nar \in Nars
  BY <1>1 DEF NarInfos
<1>3. CASE status[r] = "put_nar"
  BY <1>2, <1>3 DEF ItemOf, Writes, NarTurn
<1>4. CASE status[r] = "put_info"
  BY <1>1, <1>4 DEF ItemOf, Writes, NarTurn
<1> QED BY <1>3, <1>4 DEF Putting

\* A write adds its own item and withdraws nothing.
LEMMA ApplyTypes ==
  ASSUME TypeOK, NEW w \in Writes, Apply(w)
  PROVE  /\ nars' \in SUBSET Nars
         /\ infos' \in [Rows -> NarInfos \cup {NoInfo}]
         /\ nars \subseteq nars'
         /\ w.kind = "nar" => nars' = nars \cup {w.nar} /\ infos' = infos
         /\ w.kind = "info" => /\ nars' = nars
                               /\ w.row \in Rows /\ w.info \in NarInfos
                               /\ infos' = [infos EXCEPT ![w.row] = w.info]
         /\ \A r \in Rows : Published(r) => Published(r)'
<1>1. CASE w.kind = "nar"
  <2>1. w.nar \in Nars /\ nars' = nars \cup {w.nar} /\ infos' = infos
    BY <1>1 DEF Apply, Writes
  <2> QED BY <1>1, <2>1 DEF TypeOK, Published
<1>2. CASE w.kind = "info"
  <2>1. /\ w.row \in Rows /\ w.info \in NarInfos /\ nars' = nars
        /\ infos' = [infos EXCEPT ![w.row] = w.info]
    BY <1>2 DEF Apply, Writes
  <2>2. w.info # NoInfo
    BY <2>1, PushAssumption
  <2> QED BY <1>2, <2>1, <2>2 DEF TypeOK, Published
<1> QED BY <1>1, <1>2 DEF Apply

LEMMA InitTypes == Init => TypeOK
<1> SUFFICES ASSUME Init PROVE TypeOK
  OBVIOUS
<1>1. DbTypeOK
  BY SigsAssumption DEF Init, DbInit, DbTypeOK
<1>2. wanted \in SUBSET Rows
  BY <1>1 DEF Init, Filterable, DbTypeOK
<1> QED
  BY <1>1, <1>2, DraftTypes, PushAssumption DEF Init, TypeOK

\* The steps of a task on its own variables.
LEMMA FinishTypes ==
  ASSUME TypeOK, NEW r \in Rows, NEW s \in Finished, Finish(r, s)
  PROVE  /\ status' \in [Rows -> {"waiting"} \cup Working \cup Finished]
         /\ attempt' \in [Rows -> Nat]
         /\ \A q \in Rows : attempt'[q] = 1 \/ attempt'[q] \in 1..MaxRetry
         /\ draft' \in [Rows -> NarInfos]
         /\ failed' \in BOOLEAN
         /\ verdict' = verdict
BY DraftTypes DEF TypeOK, Finish, FlagAfter

LEMMA AdvanceTypes ==
  ASSUME TypeOK, NEW r \in Rows, NEW s \in Working, NEW d \in NarInfos, Advance(r, s, d)
  PROVE  /\ status' \in [Rows -> {"waiting"} \cup Working \cup Finished]
         /\ draft' \in [Rows -> NarInfos]
         /\ UNCHANGED <<attempt, failed, verdict>>
BY DEF TypeOK, Advance

LEMMA ProgressTypes ==
  ASSUME TypeOK, NEW r \in Rows, Progress(r)
  PROVE  /\ status' \in [Rows -> {"waiting"} \cup Working \cup Finished]
         /\ attempt' \in [Rows -> Nat]
         /\ \A q \in Rows : attempt'[q] = 1 \/ attempt'[q] \in 1..MaxRetry
         /\ draft' \in [Rows -> NarInfos]
         /\ failed' \in BOOLEAN
         /\ verdict' = verdict
<1>1. CASE status[r] = "put_nar"
  BY <1>1 DEF Progress, TypeOK, Working
<1>2. CASE status[r] # "put_nar"
  BY <1>2, FinishTypes DEF Progress, Finished
<1> QED BY <1>1, <1>2

LEMMA TaskTypes ==
  ASSUME TypeOK, NEW r \in Rows, Task(r)
  PROVE  TypeOK'
<1>1. CASE Begin(r)
  BY <1>1 DEF Begin, TypeOK, DbTypeOK, dbVars, runVars, registryVars, Working, Finished
<1>2. CASE Fail(r)
  BY <1>2, FinishTypes DEF Fail, TypeOK, DbTypeOK, dbVars, runVars, registryVars, Finished
<1>3. CASE ReadInfo(r)
  <2>1. [draft[r] EXCEPT !.sigs = sigs[r]] \in NarInfos
    BY DEF TypeOK, DbTypeOK, NarInfos
  <2> QED
    BY <1>3, <2>1, AdvanceTypes
    DEF ReadInfo, TypeOK, DbTypeOK, dbVars, runVars, registryVars, Working
<1>4. CASE ReadRefs(r)
  <2>1. QueryReferences(r) \in SUBSET Rows
    BY RefsAssumption DEF QueryReferences
  <2>2. [draft[r] EXCEPT !.refs = QueryReferences(r)] \in NarInfos
    BY <2>1 DEF TypeOK, NarInfos
  <2> QED
    BY <1>4, <2>2, AdvanceTypes
    DEF ReadRefs, TypeOK, DbTypeOK, dbVars, runVars, registryVars, Working
<1>5. CASE Encode(r)
  <2>1. Encoded(r) \in Nars /\ OwnName \in SigNames
    BY PushAssumption, SigsAssumption DEF Encoded
  <2>2. [draft[r] EXCEPT !.nar = Encoded(r), !.sigs = @ \cup {OwnName}] \in NarInfos
    <3>1. draft[r] \in [nar : Nars, refs : SUBSET Rows, sigs : SUBSET SigNames]
      BY DEF TypeOK, NarInfos
    <3>2. draft[r].sigs \cup {OwnName} \in SUBSET SigNames
      BY <2>1, <3>1
    <3> QED BY <2>1, <3>1, <3>2 DEF NarInfos
  <2> QED
    BY <1>5, <2>2, AdvanceTypes
    DEF Encode, TypeOK, DbTypeOK, dbVars, runVars, registryVars, Working
<1>6. CASE PutOk(r)
  <2>1. ItemOf(r) \in Writes
    BY <1>6, ItemTypes DEF PutOk
  <2>2. nars' \in SUBSET Nars /\ infos' \in [Rows -> NarInfos \cup {NoInfo}]
    BY <1>6, <2>1, ApplyTypes DEF PutOk
  <2> QED
    BY <1>6, <2>2, ProgressTypes DEF PutOk, TypeOK, DbTypeOK, dbVars, runVars
<1>7. CASE PutDry(r)
  BY <1>7, ProgressTypes DEF PutDry, TypeOK, DbTypeOK, dbVars, runVars, registryVars
<1>8. CASE PutFails(r)
  <2>1. ItemOf(r) \in Writes
    BY <1>8, ItemTypes DEF PutFails
  <2>2. late' \in SUBSET Writes
    BY <1>8, <2>1 DEF PutFails, TypeOK
  <2>3. attempt[r] \in Nat /\ attempt[r] >= 1 /\ attempt[r] < MaxRetry /\ MaxRetry \in Nat
    BY <1>8, PushAssumption DEF PutFails, AttemptLeft, TypeOK
  <2>4. attempt[r] + 1 \in 1..MaxRetry
    BY <2>3
  <2>5. /\ attempt' \in [Rows -> Nat]
        /\ \A q \in Rows : attempt'[q] = 1 \/ attempt'[q] \in 1..MaxRetry
    BY <1>8, <2>4 DEF PutFails, TypeOK, NextAttempt
  <2> QED
    BY <1>8, <2>2, <2>5 DEF PutFails, TypeOK, DbTypeOK, dbVars, runVars
<1>9. CASE GiveUp(r)
  BY <1>9, FinishTypes DEF GiveUp, TypeOK, DbTypeOK, dbVars, runVars, registryVars, Finished
<1> QED
  BY <1>1, <1>2, <1>3, <1>4, <1>5, <1>6, <1>7, <1>8, <1>9 DEF Task

LEMMA CrashTypes == TypeOK /\ Crash => TypeOK'
<1> SUFFICES ASSUME TypeOK, Crash PROVE TypeOK'
  OBVIOUS
<1>1. PICK S \in SUBSET { r \in wanted : Putting(r) /\ AttemptLeft(r) /\ ~dryRun } :
        late' = late \cup { ItemOf(r) : r \in S }
  BY DEF Crash, SkipsPush
<1>2. \A r \in S : r \in Rows /\ Putting(r)
  BY <1>1 DEF TypeOK
<1>3. late' \in SUBSET Writes
  BY <1>1, <1>2, ItemTypes DEF TypeOK
<1> QED
  BY <1>3 DEF Crash, TypeOK, DbTypeOK, dbVars, runVars

\* A run begins with paths from the filter and forgets all of the last one.
LEMMA StartFacts ==
  ASSUME Start
  PROVE  /\ wanted' \subseteq Filterable
         /\ verdict # "running" /\ verdict' = "running"
         /\ runs' = runs + 1 /\ dryRun' \in BOOLEAN /\ failed' = FALSE
         /\ status' = [r \in Rows |-> "waiting"]
         /\ attempt' = [r \in Rows |-> 1]
         /\ draft' = [r \in Rows |-> EmptyDraft]
         /\ UNCHANGED <<dbVars, disk, registryVars>>
BY DEF Start, StartWith

LEMMA StartTypes == TypeOK /\ Start => TypeOK'
<1> SUFFICES ASSUME TypeOK, Start PROVE TypeOK'
  OBVIOUS
<1>1. DbTypeOK' /\ wanted' \in SUBSET Rows /\ runs' \in Nat
  BY StartFacts DEF Filterable, TypeOK, DbTypeOK, dbVars
<1>2. /\ dryRun' \in BOOLEAN /\ failed' \in BOOLEAN /\ verdict' = "running"
      /\ status' \in [Rows -> {"waiting"} \cup Working \cup Finished]
      /\ attempt' \in [Rows -> Nat]
      /\ \A r \in Rows : attempt'[r] = 1
      /\ draft' \in [Rows -> NarInfos]
  BY StartFacts, DraftTypes
<1>3. UNCHANGED <<disk, nars, infos, late>>
  BY StartFacts DEF registryVars
<1> QED
  BY <1>1, <1>2, <1>3 DEF TypeOK

LEMMA LateTypes ==
  ASSUME TypeOK, NEW w \in late, ApplyLate(w)
  PROVE  TypeOK'
<1>1. w \in Writes
  BY DEF TypeOK
<1> QED
  BY <1>1, ApplyTypes DEF ApplyLate, TypeOK, DbTypeOK, dbVars, runVars, taskVars

LEMMA DbTypes ==
  ASSUME TypeOK, DbNext
  PROVE  /\ DbTypeOK'
         /\ valid \cup deleted \subseteq valid' \cup deleted'
         /\ deleted \subseteq deleted'
         /\ \A r \in Rows : Presigned(r)' => Presigned(r)
BY SigsAssumption DEF TypeOK, DbTypeOK, DbNext, Register, Delete, Sign, Presigned

LEMMA NextTypes == TypeOK /\ [Next]_vars => TypeOK'
<1> SUFFICES ASSUME TypeOK, [Next]_vars PROVE TypeOK'
  OBVIOUS
<1>1. CASE \E r \in Rows : Task(r)
  BY <1>1, TaskTypes
<1>2. CASE Conclude
  BY <1>2 DEF Conclude, TypeOK, DbTypeOK, dbVars, runVars, registryVars
<1>3. CASE Crash
  BY <1>3, CrashTypes
<1>4. CASE Start
  BY <1>4, StartTypes
<1>5. CASE \E w \in late : ApplyLate(w)
  BY <1>5, LateTypes
<1>6. CASE DbNext /\ UNCHANGED <<runVars, taskVars, registryVars>>
  BY <1>6, DbTypes DEF TypeOK, runVars, taskVars, registryVars
<1>7. CASE UNCHANGED vars
  BY <1>7 DEF vars, TypeOK, DbTypeOK, dbVars, runVars, taskVars, registryVars
<1> QED
  BY <1>1, <1>2, <1>3, <1>4, <1>5, <1>6, <1>7 DEF Next, Push, Ended

\* The state of a push has its type; in particular no loop of registry::put
\* counts beyond max_retry.
THEOREM PushTypeCorrect == Spec => []TypeOK
BY InitTypes, NextTypes, PTL DEF Spec

----------------------------------------------------------------------------
(* NarInfoHasNar.                                                          *)

LEMMA InitBacked == Init => Backed
<1>1. Init => \A r \in Rows : infos[r] = NoInfo /\ status[r] = "waiting"
  BY DEF Init
<1> QED BY <1>1 DEF Init, Backed, NarInfoHasNar, Published

\* A write whose narinfo is backed keeps the registry backed.
LEMMA ApplyBacked ==
  ASSUME TypeOK, NarInfoHasNar, NEW w \in Writes, Apply(w),
         w.kind = "info" => w.info.nar \in nars
  PROVE  NarInfoHasNar' /\ nars \subseteq nars'
<1>1. CASE w.kind = "nar"
  BY <1>1, ApplyTypes DEF NarInfoHasNar, Published
<1>2. CASE w.kind = "info"
  <2>1. /\ nars' = nars /\ w.row \in Rows
        /\ infos' = [infos EXCEPT ![w.row] = w.info]
    BY <1>2, ApplyTypes
  <2>2. \A r \in Rows : infos'[r] = IF r = w.row THEN w.info ELSE infos[r]
    BY <2>1 DEF TypeOK
  <2> QED BY <1>2, <2>1, <2>2 DEF NarInfoHasNar, Published
<1> QED BY <1>1, <1>2 DEF Apply

LEMMA PutOkBacked ==
  ASSUME TypeOK, Backed, NEW r \in Rows, PutOk(r)
  PROVE  Backed'
<1>1. /\ Putting(r) /\ ~dryRun /\ Apply(ItemOf(r)) /\ Progress(r)
      /\ UNCHANGED <<dryRun, late>>
  BY DEF PutOk, runVars, SkipsPush
<1>2. ItemOf(r) \in Writes
  BY <1>1, ItemTypes
<1>3. ItemOf(r).kind = "info" => ItemOf(r).info.nar \in nars
  BY <1>1, ItemTypes DEF Backed
<1>4. NarInfoHasNar' /\ nars \subseteq nars'
  BY <1>1, <1>2, <1>3, ApplyBacked DEF Backed
<1>5. ASSUME NEW q \in Rows, status'[q] = "put_info"
      PROVE  draft'[q].nar \in nars'
  <2>1. CASE status[r] = "put_nar"
    <3>1. /\ status' = [status EXCEPT ![r] = "put_info"] /\ draft' = draft
          /\ nars' = nars \cup {draft[r].nar}
      BY <1>1, <2>1, ItemTypes, <1>2, ApplyTypes DEF Progress, ItemOf
    <3>2. CASE q = r
      BY <3>1, <3>2
    <3>3. CASE q # r
      BY <1>1, <1>5, <3>1, <3>3 DEF Backed, TypeOK
    <3> QED BY <3>2, <3>3
  <2>2. CASE status[r] = "put_info"
    <3>1. Finish(r, "ok")
      BY <1>1, <2>2 DEF Progress
    <3>2. q # r /\ status[q] = "put_info" /\ draft'[q] = draft[q]
      BY <1>5, <3>1 DEF Finish, TypeOK
    <3> QED BY <1>1, <1>4, <3>2 DEF Backed
  <2> QED BY <1>1, <2>1, <2>2 DEF Putting
<1> QED
  BY <1>1, <1>4, <1>5 DEF Backed

LEMMA TaskBacked ==
  ASSUME TypeOK, Backed, NEW r \in Rows, Task(r)
  PROVE  Backed'
<1>1. CASE Begin(r)
  BY <1>1 DEF Begin, Backed, NarInfoHasNar, Published, TypeOK, runVars, registryVars
<1>2. CASE Fail(r) \/ GiveUp(r)
  BY <1>2
  DEF Fail, GiveUp, Finish, Backed, NarInfoHasNar, Published, TypeOK, runVars, registryVars
<1>3. CASE ReadInfo(r) \/ ReadRefs(r) \/ Encode(r)
  BY <1>3
  DEF ReadInfo, ReadRefs, Encode, Advance, Backed, NarInfoHasNar, Published, TypeOK, runVars,
      registryVars
<1>4. CASE PutOk(r)
  BY <1>4, PutOkBacked
<1>5. CASE PutDry(r)
  BY <1>5 DEF PutDry, Backed, NarInfoHasNar, Published, runVars, registryVars, SkipsPush
<1>6. CASE PutFails(r)
  <2>1. Putting(r) /\ ~dryRun
    BY <1>6 DEF PutFails, SkipsPush
  <2>2. ItemOf(r).kind = "info" => ItemOf(r).info.nar \in nars
    BY <2>1, ItemTypes DEF Backed
  <2>3. UNCHANGED <<dryRun, nars, infos, status, draft>> /\ late' \subseteq late \cup {ItemOf(r)}
    BY <1>6 DEF PutFails, runVars
  <2> QED BY <2>2, <2>3 DEF Backed, NarInfoHasNar, Published
<1> QED
  BY <1>1, <1>2, <1>3, <1>4, <1>5, <1>6 DEF Task

LEMMA NextBacked == TypeOK /\ Backed /\ [Next]_vars => Backed'
<1> SUFFICES ASSUME TypeOK, Backed, [Next]_vars PROVE Backed'
  OBVIOUS
<1>1. CASE \E r \in Rows : Task(r)
  BY <1>1, TaskBacked
<1>2. CASE Conclude
  BY <1>2 DEF Conclude, Backed, NarInfoHasNar, Published, runVars, registryVars
<1>3. CASE Crash
  <2>1. PICK S \in SUBSET { r \in wanted : Putting(r) /\ AttemptLeft(r) /\ ~dryRun } :
          late' = late \cup { ItemOf(r) : r \in S }
    BY <1>3 DEF Crash, SkipsPush
  <2>2. \A r \in S : r \in Rows /\ Putting(r) /\ ~dryRun
    BY <2>1 DEF TypeOK
  <2>3. \A r \in S : ItemOf(r).kind = "info" => ItemOf(r).info.nar \in nars
    BY <2>2, ItemTypes DEF Backed
  <2>4. UNCHANGED <<dryRun, nars, infos, status, draft>>
    BY <1>3 DEF Crash, runVars
  <2> QED BY <2>1, <2>3, <2>4 DEF Backed, NarInfoHasNar, Published
<1>4. CASE Start
  <2>1. \A r \in Rows : status'[r] = "waiting"
    BY <1>4, StartFacts
  <2>2. UNCHANGED <<nars, infos, late>>
    BY <1>4, StartFacts DEF registryVars
  <2> QED BY <2>1, <2>2 DEF Backed, NarInfoHasNar, Published
<1>5. CASE \E w \in late : ApplyLate(w)
  <2>1. PICK w \in late : ApplyLate(w)
    BY <1>5
  <2>2. /\ w \in Writes /\ Apply(w) /\ late' = late \ {w}
        /\ UNCHANGED <<dryRun, status, draft>>
    BY <2>1 DEF ApplyLate, TypeOK, runVars, taskVars
  <2>3. NarInfoHasNar' /\ nars \subseteq nars'
    BY <2>2, ApplyBacked DEF Backed
  <2> QED BY <2>2, <2>3 DEF Backed
<1>6. CASE DbNext /\ UNCHANGED <<runVars, taskVars, registryVars>>
  BY <1>6 DEF Backed, NarInfoHasNar, Published, runVars, taskVars, registryVars
<1>7. CASE UNCHANGED vars
  BY <1>7 DEF vars, Backed, NarInfoHasNar, Published, runVars, taskVars, registryVars
<1> QED
  BY <1>1, <1>2, <1>3, <1>4, <1>5, <1>6, <1>7 DEF Next, Push, Ended

\* No reader ever finds a narinfo whose NAR is missing, for any number of
\* tasks, retries, crashes, runs and late writes.
THEOREM NarInfoAlwaysHasNar == Spec => []NarInfoHasNar
<1>1. Backed => NarInfoHasNar
  BY DEF Backed
<1> QED
  BY <1>1, InitTypes, NextTypes, InitBacked, NextBacked, PTL DEF Spec

----------------------------------------------------------------------------
(* DescribesStore and PresignedExact.                                      *)

LEMMA InitFaithful == Init => Faithful
<1> SUFFICES ASSUME Init PROVE Faithful
  OBVIOUS
<1>1. \A r \in Rows : infos[r] = NoInfo /\ status[r] = "waiting"
  BY DEF Init
<1>2. wanted \subseteq valid
  BY DEF Init, Filterable
<1> QED
  BY <1>1, <1>2 DEF Init, Faithful, Published, DraftRead, Working

\* A description stays true while the database changes.
LEMMA DescribesStable ==
  ASSUME TypeOK, NEW r \in Rows, NEW i, Describes(r, i),
         deleted \subseteq deleted', disk' = disk, Presigned(r)' => Presigned(r)
  PROVE  Describes(r, i)'
BY DEF Describes, Exact

\* A step that changes neither the database nor the disk, adds no write and
\* leaves the drafts of the other tasks alone.
LEMMA OwnDraftFaithful ==
  ASSUME TypeOK, Faithful, NEW r \in Rows,
         UNCHANGED <<dbVars, runVars, infos>>, late' \subseteq late,
         \A q \in Rows \ {r} : status'[q] = status[q] /\ draft'[q] = draft[q],
         DraftRead(r)'
  PROVE  Faithful'
<1>1. \A q \in Rows \ {r} : DraftRead(q)'
  BY DEF Faithful, DraftRead, Describes, Presigned, Exact, dbVars, runVars
<1> QED
  BY <1>1 DEF Faithful, Published, Describes, Presigned, Exact, dbVars, runVars

LEMMA ReadingFaithful ==
  ASSUME TypeOK, Faithful, NEW r \in Rows, ReadInfo(r) \/ ReadRefs(r) \/ Encode(r)
  PROVE  Faithful'
<1>1. /\ UNCHANGED <<dbVars, runVars, infos>> /\ late' \subseteq late
      /\ \A q \in Rows \ {r} : status'[q] = status[q] /\ draft'[q] = draft[q]
  BY DEF ReadInfo, ReadRefs, Encode, Advance, registryVars, TypeOK
<1>2. draft[r] \in [nar : Nars, refs : SUBSET Rows, sigs : SUBSET SigNames]
  BY DEF TypeOK, NarInfos
<1>3. status[r] \in Working /\ r \in valid \cup deleted
  BY DEF ReadInfo, ReadRefs, Encode, At, Working, Faithful, DraftRead
<1>4. CASE ReadInfo(r)
  <2>1. status'[r] = "refs" /\ draft'[r].sigs = sigs[r]
    BY <1>2, <1>4 DEF ReadInfo, Advance, TypeOK
  <2>2. DraftRead(r)'
    BY <1>1, <1>3, <2>1 DEF DraftRead, Presigned, dbVars
  <2> QED BY <1>1, <2>2, OwnDraftFaithful
<1>5. CASE ReadRefs(r)
  <2>1. /\ status[r] = "refs" /\ status'[r] = "encode"
        /\ draft'[r].refs = QueryReferences(r) /\ draft'[r].sigs = draft[r].sigs
    BY <1>2, <1>5 DEF ReadRefs, Advance, At, TypeOK
  <2>2. draft'[r].refs = Refs[r] \/ r \in deleted
    BY <1>3, <2>1 DEF QueryReferences
  <2>3. Presigned(r) => OwnName \in draft[r].sigs
    BY <2>1 DEF Faithful, DraftRead
  <2>4. DraftRead(r)'
    BY <1>1, <1>3, <2>1, <2>2, <2>3 DEF DraftRead, Presigned, dbVars
  <2> QED BY <1>1, <2>4, OwnDraftFaithful
<1>6. CASE Encode(r)
  <2>1. /\ status[r] = "encode" /\ disk[r] # "resized" /\ OwnSignatureMatches(r, Encoded(r))
        /\ status'[r] = "put_nar"
        /\ draft'[r].nar = Encoded(r) /\ draft'[r].refs = draft[r].refs
    BY <1>2, <1>6 DEF Encode, Advance, At, TypeOK, SizeMatches
  <2>2. Encoded(r) = NarOf[r] \/ disk[r] = "garbled"
    BY <2>1 DEF Encoded, TypeOK
  <2>3. /\ draft[r].refs = Refs[r] \/ r \in deleted
        /\ Presigned(r) => OwnName \in draft[r].sigs
    BY <2>1 DEF Faithful, DraftRead
  <2>4. Describes(r, draft'[r])
    BY <2>1, <2>2, <2>3 DEF Describes, Exact, OwnSignatureMatches
  <2>5. Describes(r, draft[r])'
    BY <1>1, <2>4 DEF Describes, Exact, Presigned, dbVars, runVars
  <2>6. DraftRead(r)'
    BY <1>1, <1>3, <2>1, <2>5 DEF DraftRead, dbVars
  <2> QED BY <1>1, <2>6, OwnDraftFaithful
<1> QED BY <1>4, <1>5, <1>6

\* The item of a task describes its path when it is a narinfo.
LEMMA ItemDescribes ==
  ASSUME TypeOK, Faithful, NEW r \in Rows, Putting(r), ItemOf(r).kind = "info"
  PROVE  ItemOf(r).row = r /\ Describes(r, ItemOf(r).info)
BY ItemTypes DEF Faithful, DraftRead

\* The registry carries out a write.
LEMMA ApplyDescribes ==
  ASSUME TypeOK, Faithful, NEW w \in Writes, Apply(w),
         w.kind = "info" => Describes(w.row, w.info)
  PROVE  \A r \in Rows : infos'[r] # NoInfo => Describes(r, infos'[r])
<1>1. CASE w.kind = "nar"
  BY <1>1, ApplyTypes DEF Faithful, Published
<1>2. CASE w.kind = "info"
  <2>1. infos' = [infos EXCEPT ![w.row] = w.info]
    BY <1>2, ApplyTypes
  <2> QED BY <1>2, <2>1 DEF Faithful, Published, TypeOK
<1> QED BY <1>1, <1>2 DEF Apply

LEMMA PutFaithful ==
  ASSUME TypeOK, Faithful, NEW r \in Rows, PutOk(r) \/ PutDry(r) \/ PutFails(r)
  PROVE  Faithful'
<1>1. Putting(r) /\ UNCHANGED <<dbVars, runVars>>
  BY DEF PutOk, PutDry, PutFails
<1>2. \A q \in Rows : Published(q)' => Describes(q, infos'[q])
  <2>1. CASE PutOk(r)
    <3>1. \A q \in Rows : infos'[q] # NoInfo => Describes(q, infos'[q])
      BY <1>1, <2>1, ItemTypes, ItemDescribes, ApplyDescribes DEF PutOk
    <3> QED BY <3>1 DEF Published
  <2>2. CASE PutDry(r) \/ PutFails(r)
    BY <2>2 DEF PutDry, PutFails, registryVars, Faithful, Published
  <2> QED BY <2>1, <2>2
<1>3. \A w \in late' : w.kind = "info" => Describes(w.row, w.info)
  <2>1. late' \subseteq late \cup {ItemOf(r)}
    BY DEF PutOk, PutDry, PutFails, registryVars
  <2>2. ItemOf(r).kind = "info" => Describes(ItemOf(r).row, ItemOf(r).info)
    BY <1>1, ItemDescribes
  <2> QED BY <2>1, <2>2 DEF Faithful
<1>4. /\ \A q \in Rows \ {r} : status'[q] = status[q] /\ draft'[q] = draft[q]
      /\ \/ status'[r] \in {"put_nar", "put_info"} /\ draft'[r] = draft[r]
         \/ status'[r] = "ok"
  <2>1. CASE PutFails(r)
    BY <2>1 DEF PutFails, Putting
  <2>2. CASE Progress(r)
    BY <1>1, <2>2 DEF Progress, Finish, TypeOK, Putting
  <2> QED BY <2>1, <2>2 DEF PutOk, PutDry
<1>5. \A q \in Rows : DraftRead(q)'
  <2>1. \A q \in Rows \ {r} : DraftRead(q)'
    BY <1>1, <1>4 DEF Faithful, DraftRead, Describes, Presigned, Exact, dbVars, runVars
  <2>2. DraftRead(r)'
    BY <1>1, <1>4
    DEF Faithful, DraftRead, Describes, Presigned, Exact, dbVars, runVars, Working, Putting
  <2> QED BY <2>1, <2>2
<1> QED
  BY <1>1, <1>2, <1>3, <1>5
  DEF Faithful, Published, Describes, Presigned, Exact, dbVars, runVars

LEMMA TaskFaithful ==
  ASSUME TypeOK, Faithful, NEW r \in Rows, Task(r)
  PROVE  Faithful'
<1>1. CASE Begin(r)
  <2>1. /\ r \in wanted /\ status'[r] \in {"info", "early"}
        /\ UNCHANGED <<dbVars, runVars, infos>> /\ late' \subseteq late
        /\ \A q \in Rows \ {r} : status'[q] = status[q] /\ draft'[q] = draft[q]
    BY <1>1 DEF Begin, registryVars, TypeOK
  <2>2. DraftRead(r)'
    BY <2>1 DEF DraftRead, Working, Faithful, dbVars
  <2> QED BY <2>1, <2>2, OwnDraftFaithful
<1>2. CASE Fail(r) \/ GiveUp(r)
  <2>1. /\ status'[r] = "err"
        /\ UNCHANGED <<dbVars, runVars, infos>> /\ late' \subseteq late
        /\ \A q \in Rows \ {r} : status'[q] = status[q] /\ draft'[q] = draft[q]
    BY <1>2 DEF Fail, GiveUp, Finish, registryVars, TypeOK
  <2>2. DraftRead(r)'
    BY <2>1 DEF DraftRead, Working
  <2> QED BY <2>1, <2>2, OwnDraftFaithful
<1>3. CASE ReadInfo(r) \/ ReadRefs(r) \/ Encode(r)
  BY <1>3, ReadingFaithful
<1>4. CASE PutOk(r) \/ PutDry(r) \/ PutFails(r)
  BY <1>4, PutFaithful
<1> QED BY <1>1, <1>2, <1>3, <1>4 DEF Task

LEMMA NextFaithful == TypeOK /\ Faithful /\ [Next]_vars => Faithful'
<1> SUFFICES ASSUME TypeOK, Faithful, [Next]_vars PROVE Faithful'
  OBVIOUS
<1>1. CASE \E r \in Rows : Task(r)
  BY <1>1, TaskFaithful
<1>2. CASE Conclude \/ UNCHANGED vars
  BY <1>2
  DEF Conclude, vars, taskVars, registryVars, Faithful, Published, DraftRead, Describes,
      Presigned, Exact, dbVars, runVars
<1>3. CASE Crash
  <2>1. PICK S \in SUBSET { r \in wanted : Putting(r) /\ AttemptLeft(r) /\ ~dryRun } :
          late' = late \cup { ItemOf(r) : r \in S }
    BY <1>3 DEF Crash, SkipsPush
  <2>2. \A r \in S : r \in Rows /\ Putting(r)
    BY <2>1 DEF TypeOK
  <2>3. \A w \in late' : w.kind = "info" => Describes(w.row, w.info)
    BY <2>1, <2>2, ItemDescribes DEF Faithful
  <2> QED
    BY <1>3, <2>3
    DEF Crash, Faithful, Published, DraftRead, Describes, Presigned, Exact, dbVars, runVars
<1>4. CASE Start
  <2>1. \A r \in Rows : status'[r] = "waiting"
    BY <1>4, StartFacts
  <2>2. wanted' \subseteq valid \cup deleted
    BY <1>4, StartFacts DEF Filterable
  <2>3. \A r \in Rows : DraftRead(r)'
    BY <2>1 DEF DraftRead, Working
  <2>4. UNCHANGED <<valid, deleted, sigs, disk, infos, late>>
    BY <1>4, StartFacts DEF dbVars, registryVars
  <2> QED
    BY <2>2, <2>3, <2>4 DEF Faithful, Published, Describes, Presigned, Exact
<1>5. CASE \E w \in late : ApplyLate(w)
  <2>1. PICK w \in late : ApplyLate(w)
    BY <1>5
  <2>2. /\ w \in Writes /\ Apply(w) /\ late' = late \ {w}
        /\ UNCHANGED <<dbVars, runVars, taskVars>>
    BY <2>1 DEF ApplyLate, TypeOK
  <2>3. \A r \in Rows : infos'[r] # NoInfo => Describes(r, infos'[r])
    BY <2>2, ApplyDescribes DEF Faithful
  <2> QED
    BY <2>2, <2>3
    DEF Faithful, Published, DraftRead, Describes, Presigned, Exact, dbVars, runVars, taskVars
<1>6. CASE DbNext /\ UNCHANGED <<runVars, taskVars, registryVars>>
  <2>1. /\ deleted \subseteq deleted'
        /\ valid \cup deleted \subseteq valid' \cup deleted'
        /\ \A r \in Rows : Presigned(r)' => Presigned(r)
        /\ UNCHANGED <<wanted, disk, status, draft, infos, late>>
    BY <1>6, DbTypes DEF runVars, taskVars, registryVars
  <2>2. \A r \in Rows : Published(r)' => Describes(r, infos[r])'
    BY <2>1, DescribesStable DEF Faithful, Published
  <2>3. \A w \in late' : w.kind = "info" => Describes(w.row, w.info)'
    <3>1. \A w \in late : w.kind = "info" => w.row \in Rows
      BY DEF TypeOK, Writes
    <3> QED BY <2>1, <3>1, DescribesStable DEF Faithful
  <2>4. \A r \in Rows : DraftRead(r)'
    <3> SUFFICES ASSUME NEW r \in Rows PROVE DraftRead(r)'
      OBVIOUS
    <3>1. DraftRead(r)
      BY DEF Faithful
    <3>2. Describes(r, draft[r]) => Describes(r, draft[r])'
      BY <2>1 DEF Describes, Exact
    <3> QED BY <2>1, <3>1, <3>2 DEF DraftRead
  <2> QED BY <2>1, <2>2, <2>3, <2>4 DEF Faithful
<1> QED
  BY <1>1, <1>2, <1>3, <1>4, <1>5, <1>6 DEF Next, Push, Ended

\* Every narinfo describes its path as the database had it, but for files
\* changed in place and rows deleted while they were read.
THEOREM NarInfosDescribeStore == Spec => []DescribesStore
<1>1. Faithful => DescribesStore
  BY DEF Faithful, DescribesStore, Describes, Presigned, Exact
<1> QED
  BY <1>1, InitTypes, NextTypes, InitFaithful, NextFaithful, PTL DEF Spec

\* The narinfo of a path that oranc's key had signed before describes it
\* exactly: the signature is compared, so neither gap is open.
THEOREM PresignedNarInfosExact == Spec => []PresignedExact
<1>1. Faithful => PresignedExact
  BY DEF Faithful, PresignedExact, Describes, Presigned, Exact
<1> QED
  BY <1>1, InitTypes, NextTypes, InitFaithful, NextFaithful, PTL DEF Spec

----------------------------------------------------------------------------
(* VerdictHonest.                                                          *)

LEMMA InitReported == Init => Reported
BY DEF Init, Filterable, DbInit, Reported, Finished

\* While the run is on, the task of one row moves and nothing is withdrawn.
LEMMA MoveReported ==
  ASSUME TypeOK, Reported, NEW r \in wanted, verdict = "running",
         UNCHANGED <<wanted, dryRun, verdict>>,
         \A q \in wanted \ {r} : status'[q] = status[q],
         \A q \in Rows : Published(q) => Published(q)',
         status[r] \notin Finished,
         failed' <=> failed \/ status'[r] = "err",
         status'[r] = "early" => failed,
         status'[r] = "ok" /\ ~dryRun => Published(r)'
  PROVE  Reported'
<1>1. failed' => \E q \in wanted : status'[q] = "err"
  BY DEF Reported, Finished
<1>2. ~failed' => \A q \in wanted : status'[q] \notin {"err", "early"}
  BY DEF Reported
<1>3. ~dryRun => \A q \in wanted : status'[q] = "ok" => Published(q)'
  BY DEF Reported, TypeOK
<1> QED BY <1>1, <1>2, <1>3 DEF Reported

LEMMA TaskReported ==
  ASSUME TypeOK, Reported, NEW r \in Rows, Task(r)
  PROVE  Reported'
<1>1. /\ r \in wanted /\ verdict = "running"
      /\ UNCHANGED <<wanted, dryRun, verdict>>
      /\ status[r] \notin Finished
      /\ \A q \in wanted \ {r} : status'[q] = status[q]
  BY DEF Task, Begin, Fail, ReadInfo, ReadRefs, Encode, PutOk, PutDry, PutFails, GiveUp, At,
         Putting, Finish, Advance, Progress, Finished, runVars, TypeOK
<1>2. CASE Begin(r)
  <2>1. /\ status'[r] = IF failed THEN "early" ELSE "info"
        /\ failed' = failed /\ infos' = infos
    BY <1>2 DEF Begin, TypeOK, registryVars, StopsEarly
  <2>2. /\ failed' <=> failed \/ status'[r] = "err"
        /\ status'[r] = "early" => failed
        /\ status'[r] # "ok"
    BY <2>1
  <2>3. \A q \in Rows : Published(q) => Published(q)'
    BY <2>1 DEF Published
  <2> QED BY <1>1, <2>2, <2>3, MoveReported
<1>3. CASE Fail(r) \/ GiveUp(r)
  <2>1. status'[r] = "err" /\ failed' = TRUE /\ infos' = infos
    BY <1>3 DEF Fail, GiveUp, Finish, TypeOK, registryVars, FlagAfter
  <2>2. \A q \in Rows : Published(q) => Published(q)'
    BY <2>1 DEF Published
  <2> QED BY <1>1, <2>1, <2>2, MoveReported
<1>4. CASE ReadInfo(r) \/ ReadRefs(r) \/ Encode(r) \/ PutFails(r)
  <2>1. status'[r] \in Working /\ failed' = failed /\ infos' = infos
    BY <1>4
    DEF ReadInfo, ReadRefs, Encode, PutFails, Advance, Putting, TypeOK, registryVars, Working
  <2>2. status'[r] \notin {"err", "early", "ok"}
    BY <2>1 DEF Working
  <2>3. \A q \in Rows : Published(q) => Published(q)'
    BY <2>1 DEF Published
  <2> QED BY <1>1, <2>1, <2>2, <2>3, MoveReported
<1>5. CASE PutOk(r) \/ PutDry(r)
  <2>1. Putting(r) /\ Progress(r)
    BY <1>5 DEF PutOk, PutDry
  <2>2. \A q \in Rows : Published(q) => Published(q)'
    BY <1>5, <2>1, ItemTypes, ApplyTypes DEF PutOk, PutDry, registryVars, Published
  <2>3. CASE status[r] = "put_nar"
    <3>1. status'[r] = "put_info" /\ failed' = failed
      BY <2>1, <2>3 DEF Progress, TypeOK
    <3> QED BY <1>1, <2>2, <3>1, MoveReported DEF TypeOK
  <2>4. CASE status[r] = "put_info"
    <3>1. status'[r] = "ok" /\ failed' = failed
      BY <2>1, <2>4 DEF Progress, Finish, TypeOK, FlagAfter
    <3>2. ~dryRun => Published(r)'
      <4> SUFFICES ASSUME ~dryRun PROVE Published(r)'
        OBVIOUS
      <4>1. Apply(ItemOf(r)) /\ ItemOf(r) \in Writes /\ ItemOf(r).kind = "info" /\ ItemOf(r).row = r
        BY <1>5, <2>1, <2>4, ItemTypes DEF PutOk, PutDry, ItemOf, NarTurn, SkipsPush
      <4>2. ItemOf(r).info \in NarInfos /\ infos' = [infos EXCEPT ![r] = ItemOf(r).info]
        BY <4>1, ApplyTypes
      <4> QED BY <4>2, PushAssumption DEF Published, TypeOK
    <3> QED BY <1>1, <2>2, <3>1, <3>2, MoveReported DEF TypeOK
  <2> QED BY <2>1, <2>3, <2>4 DEF Putting
<1> QED BY <1>2, <1>3, <1>4, <1>5 DEF Task

LEMMA NextReported == TypeOK /\ Reported /\ [Next]_vars => Reported'
<1> SUFFICES ASSUME TypeOK, Reported, [Next]_vars PROVE Reported'
  OBVIOUS
<1>1. CASE \E r \in Rows : Task(r)
  BY <1>1, TaskReported
<1>2. CASE Conclude
  BY <1>2 DEF Conclude, Reported, Published, runVars, registryVars
<1>3. CASE Crash
  BY <1>3 DEF Crash, Reported, Published, runVars
<1>4. CASE Start
  <2>1. wanted' \subseteq Rows /\ \A r \in Rows : status'[r] = "waiting"
    BY <1>4, StartFacts DEF Filterable, TypeOK, DbTypeOK
  <2>2. ~failed' /\ verdict' = "running"
    BY <1>4, StartFacts
  <2> QED BY <2>1, <2>2 DEF Reported
<1>5. CASE \E w \in late : ApplyLate(w)
  <2>1. PICK w \in late : ApplyLate(w)
    BY <1>5
  <2>2. w \in Writes /\ Apply(w) /\ UNCHANGED <<runVars, taskVars>>
    BY <2>1 DEF ApplyLate, TypeOK
  <2>3. \A r \in Rows : Published(r) => Published(r)'
    BY <2>2, ApplyTypes
  <2> QED BY <2>2, <2>3 DEF Reported, runVars, taskVars, TypeOK
<1>6. CASE UNCHANGED <<runVars, taskVars, registryVars>>
  BY <1>6 DEF Reported, Published, runVars, taskVars, registryVars
<1> QED
  BY <1>1, <1>2, <1>3, <1>4, <1>5, <1>6 DEF Next, Push, Ended, vars

\* A push that returns Ok has listed every path the filter let through, and
\* one that returns an error has one to report.
THEOREM VerdictIsHonest == Spec => []VerdictHonest
<1>1. Reported => VerdictHonest
  BY DEF Reported, VerdictHonest, Finished
<1> QED
  BY <1>1, InitTypes, NextTypes, InitReported, NextReported, PTL DEF Spec

----------------------------------------------------------------------------
(* PushTasks implements BinaryCache.                                       *)

Content(r) == IF Published(r) THEN infos[r].nar ELSE NoInfo
Listing == [r \in Rows |-> Content(r)]
Announced == IF verdict = "ok" /\ ~dryRun THEN wanted ELSE {}

LEMMA InitCache == Init => Cache!Init
<1> SUFFICES ASSUME Init PROVE Cache!Init
  OBVIOUS
<1>1. \A r \in Rows : ~Published(r)
  BY DEF Init, Published
<1> QED BY <1>1 DEF Init, Cache!Init

\* What the readers do not see.
LEMMA HiddenCache ==
  ASSUME UNCHANGED <<nars, infos>>, Announced' = Announced
  PROVE  UNCHANGED Cache!cacheVars
BY DEF Cache!cacheVars, Published, Announced

\* A new announcement names listed paths only.
LEMMA AnnounceCache ==
  ASSUME TypeOK, UNCHANGED <<nars, infos>>,
         Announced' \in SUBSET Rows, \A r \in Announced' : Published(r)
  PROVE  Cache!Next
<1>1. \A r \in Announced' : Listing[r] # NoInfo
  BY PushAssumption DEF Listing, Content, TypeOK, Published, NarInfos
<1>2. Announced' \subseteq Cache!Listed
  BY <1>1 DEF Cache!Listed, Listing, Content
<1>3. Cache!Announce(Announced')
  BY <1>2 DEF Cache!Announce, Announced, Published
<1> QED BY <1>3 DEF Cache!Next

\* The registry carries out a write: a NAR is uploaded, or a path is listed
\* with a NAR that is there.
LEMMA ApplyCache ==
  ASSUME TypeOK, NEW w \in Writes, Apply(w), Announced' = Announced,
         w.kind = "info" => w.info.nar \in nars
  PROVE  Cache!Next
<1>1. CASE w.kind = "nar"
  <2>1. w.nar \in Nars /\ nars' = nars \cup {w.nar} /\ infos' = infos
    BY <1>1, ApplyTypes DEF Writes
  <2>2. Cache!Upload(w.nar)
    BY <2>1 DEF Cache!Upload, Published, Announced
  <2> QED BY <2>1, <2>2 DEF Cache!Next
<1>2. CASE w.kind = "info"
  <2>1. /\ w.row \in Rows /\ w.info \in NarInfos /\ nars' = nars
        /\ infos' = [infos EXCEPT ![w.row] = w.info]
    BY <1>2, ApplyTypes
  <2>2. w.info.nar \in Nars /\ w.info # NoInfo
    BY <2>1, PushAssumption DEF NarInfos
  <2>3. \A r \in Rows : Content(r)' = IF r = w.row THEN w.info.nar ELSE Content(r)
    BY <2>1, <2>2 DEF Content, Published, TypeOK
  <2>4. Listing' = [Listing EXCEPT ![w.row] = w.info.nar]
    BY <2>1, <2>3 DEF Listing
  <2>5. Cache!List(w.row, w.info.nar)
    BY <1>2, <2>1, <2>4 DEF Cache!List, Listing, Content, Announced
  <2> QED BY <2>1, <2>2, <2>5 DEF Cache!Next
<1> QED BY <1>1, <1>2 DEF Apply

LEMMA NextCache ==
  TypeOK /\ Backed /\ Reported /\ [Next]_vars => [Cache!Next]_(Cache!cacheVars)
<1> SUFFICES ASSUME TypeOK, Backed, Reported, [Next]_vars
    PROVE  Cache!Next \/ UNCHANGED Cache!cacheVars
  OBVIOUS
<1>1. ASSUME NEW r \in Rows, Task(r)
      PROVE  Cache!Next \/ UNCHANGED Cache!cacheVars
  <2>1. Announced' = Announced
    BY <1>1
    DEF Task, Begin, Fail, ReadInfo, ReadRefs, Encode, PutOk, PutDry, PutFails, GiveUp, At,
        Putting, Finish, Advance, Progress, runVars, Announced
  <2>2. CASE PutOk(r)
    <3>1. Putting(r) /\ ~dryRun /\ Apply(ItemOf(r))
      BY <2>2 DEF PutOk, SkipsPush
    <3>2. ItemOf(r) \in Writes /\ (ItemOf(r).kind = "info" => ItemOf(r).info.nar \in nars)
      BY <3>1, ItemTypes DEF Backed
    <3> QED BY <2>1, <3>1, <3>2, ApplyCache
  <2>3. CASE ~PutOk(r)
    <3>1. UNCHANGED <<nars, infos>>
      BY <1>1, <2>3
      DEF Task, Begin, Fail, ReadInfo, ReadRefs, Encode, PutDry, PutFails, GiveUp, registryVars
    <3> QED BY <2>1, <3>1, HiddenCache
  <2> QED BY <2>2, <2>3
<1>2. CASE Conclude
  <2>1. UNCHANGED <<nars, infos, failed, status>> /\ UNCHANGED <<wanted, dryRun>>
    BY <1>2 DEF Conclude, registryVars, runVars
  <2>2. Announced' \in SUBSET Rows
    BY <2>1 DEF Announced, TypeOK
  <2>3. \A r \in Announced' : Published(r)
    BY <1>2, <2>1 DEF Conclude, Announced, Reported, Finished
  <2> QED BY <2>1, <2>2, <2>3, AnnounceCache
<1>3. CASE Crash
  <2>1. UNCHANGED <<nars, infos>> /\ Announced' = Announced
    BY <1>3 DEF Crash, Announced
  <2> QED BY <2>1, HiddenCache
<1>4. CASE Start
  <2>1. UNCHANGED <<nars, infos>> /\ Announced' = {}
    BY <1>4, StartFacts DEF Announced, registryVars
  <2> QED BY <2>1, AnnounceCache
<1>5. CASE \E w \in late : ApplyLate(w)
  <2>1. PICK w \in late : ApplyLate(w)
    BY <1>5
  <2>2. w \in Writes /\ Apply(w) /\ UNCHANGED <<wanted, dryRun, verdict>>
    BY <2>1 DEF ApplyLate, TypeOK, runVars, taskVars
  <2>3. Announced' = Announced
    BY <2>2 DEF Announced
  <2>4. w.kind = "info" => w.info.nar \in nars
    BY <2>1 DEF Backed
  <2> QED BY <2>2, <2>3, <2>4, ApplyCache
<1>6. CASE UNCHANGED <<runVars, taskVars, registryVars>>
  <2>1. UNCHANGED <<nars, infos>> /\ Announced' = Announced
    BY <1>6 DEF runVars, taskVars, registryVars, Announced
  <2> QED BY <2>1, HiddenCache
<1> QED
  BY <1>1, <1>2, <1>3, <1>4, <1>5, <1>6 DEF Next, Push, Ended, vars

\* oranc push implements the cache its readers rely on: what is listed can be
\* fetched, nothing is withdrawn, and what a successful push announces is
\* listed.
THEOREM PushImplementsCache == Spec => ImplementsCache
BY InitTypes, NextTypes, InitBacked, NextBacked, InitReported, NextReported, InitCache,
   NextCache, PTL
DEF Spec, ImplementsCache, Cache!Spec

----------------------------------------------------------------------------
(* What a step may not do.                                                 *)

LEMMA NextStarts == TypeOK /\ [Next]_vars => (failed => Active' \subseteq Active)
<1> SUFFICES ASSUME TypeOK, [Next]_vars, failed PROVE Active' \subseteq Active
  OBVIOUS
<1>1. ASSUME NEW r \in Rows, Task(r)
      PROVE  Active' \subseteq Active
  <2>1. wanted' = wanted
    BY <1>1
    DEF Task, Begin, Fail, ReadInfo, ReadRefs, Encode, PutOk, PutDry, PutFails, GiveUp, runVars
  <2>2. CASE Begin(r)
    <3>1. status'[r] = "early" /\ \A q \in Rows \ {r} : status'[q] = status[q]
      BY <2>2 DEF Begin, StopsEarly, TypeOK
    <3> QED BY <2>1, <3>1 DEF Active, Working, TypeOK
  <2>3. CASE ~Begin(r)
    <3>1. r \in Active /\ \A q \in Rows \ {r} : status'[q] = status[q]
      BY <1>1, <2>3
      DEF Task, Fail, ReadInfo, ReadRefs, Encode, PutOk, PutDry, PutFails, GiveUp, At, Putting,
          Finish, Advance, Progress, Active, Working, TypeOK
    <3> QED BY <2>1, <3>1 DEF Active, TypeOK
  <2> QED BY <2>2, <2>3
<1>2. CASE Start
  <2>1. wanted' \subseteq Rows /\ \A r \in Rows : status'[r] = "waiting"
    BY <1>2, StartFacts DEF Filterable, TypeOK, DbTypeOK
  <2> QED BY <2>1 DEF Active, Working
<1>3. CASE UNCHANGED <<wanted, status>>
  BY <1>3 DEF Active
<1> QED
  BY <1>1, <1>2, <1>3
  DEF Next, Push, Conclude, Crash, ApplyLate, Ended, vars, runVars, taskVars

\* After the first failure no further path is begun.
THEOREM NothingBeginsAfterFailure == Spec => NothingStartsAfterFailure
<1>1. TypeOK /\ [Next]_vars => [failed => Active' \subseteq Active]_vars
  BY NextStarts
<1> QED BY <1>1, InitTypes, NextTypes, PTL DEF Spec, NothingStartsAfterFailure

LEMMA NextDry ==
  TypeOK /\ [Next]_vars =>
    (dryRun => /\ late' \subseteq late
               /\ <<nars, infos>>' # <<nars, infos>> => late' # late)
<1> SUFFICES ASSUME TypeOK, [Next]_vars, dryRun
    PROVE  \/ late' = late /\ UNCHANGED <<nars, infos>>
           \/ \E w \in late : late' = late \ {w}
  OBVIOUS
<1>1. ASSUME NEW r \in Rows, Task(r)
      PROVE  late' = late /\ UNCHANGED <<nars, infos>>
  BY <1>1
  DEF Task, Begin, Fail, ReadInfo, ReadRefs, Encode, PutOk, PutDry, PutFails, GiveUp, SkipsPush,
      registryVars
<1>2. CASE Crash
  BY <1>2 DEF Crash, SkipsPush
<1>3. CASE Start
  BY <1>3, StartFacts DEF registryVars
<1>4. CASE \E w \in late : ApplyLate(w)
  BY <1>4 DEF ApplyLate
<1>5. CASE UNCHANGED registryVars
  BY <1>5 DEF registryVars
<1> QED BY <1>1, <1>2, <1>3, <1>4, <1>5 DEF Next, Push, Conclude, Ended, vars

\* A dry run writes nothing; what changes was sent by an earlier run.
THEOREM DryRunsWriteNothing == Spec => DryRunWritesNothing
<1>1. TypeOK /\ [Next]_vars =>
        [dryRun => /\ late' \subseteq late
                   /\ <<nars, infos>>' # <<nars, infos>> => late' # late]_vars
  BY NextDry
<1> QED BY <1>1, InitTypes, NextTypes, PTL DEF Spec, DryRunWritesNothing
=============================================================================
