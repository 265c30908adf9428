----------------------------- MODULE PushTasks -----------------------------
(***************************************************************************)
(* The second half of `oranc push' (push.rs): one task per path that the   *)
(* filter let through, at most --parallel of them under way, each reading  *)
(* the database and the disk on a thread of its own and then putting two   *)
(* items into the OCI registry, the NAR first and then the narinfo.        *)
(*                                                                         *)
(* The registry is external: a put that the client sees fail may have had  *)
(* its effect all the same, or have it later, even after oranc is gone.    *)
(***************************************************************************)
EXTENDS NixDb

CONSTANTS
  Nars,      \* contents of store paths
  NarOf,     \* NarOf[r]: the content r was registered with
  Garbled,   \* a content of the same size as any other, registered for no path
  NoInfo,    \* stands for the absent narinfo
  Disks,     \* the states of the store on disk considered
  Parallel,  \* --parallel
  MaxRetry,  \* --max-retry
  MaxRuns,   \* bound: how often `oranc push' is run
  MaxLate    \* bound: registry requests under way without a waiting client

\* A narinfo: the fields its signatures cover, and the names that signed it.
NarInfos == [nar : Nars, refs : SUBSET Rows, sigs : SUBSET SigNames]

ASSUME PushAssumption ==
  /\ Garbled \in Nars
  /\ NarOf \in [Rows -> Nars \ {Garbled}]
  /\ NoInfo \notin NarInfos \cup Nars
  /\ Disks \subseteq [Rows -> {"intact", "garbled", "resized"}]
  /\ {Parallel, MaxRetry, MaxRuns, MaxLate} \subseteq Nat

VARIABLES
  wanted,   \* the rows the filter let through
  dryRun,   \* --dry-run
  disk,     \* disk[r]: how the files of r compare with what was registered
  status,   \* status[r]: where the task of r is
  attempt,  \* attempt[r]: the loop variable of registry::put
  draft,    \* draft[r]: what the task of r read and computed so far
  failed,   \* the shared flag `failed'
  verdict,  \* "idle" before the first run, "running", how push() returned, or "crashed"
  runs,     \* how many runs have begun
  nars,     \* the NARs in the registry
  infos,    \* infos[r]: the narinfo of r in the registry
  late      \* the writes of requests the registry may still carry out

registryVars == <<nars, infos, late>>
runVars == <<wanted, dryRun, disk, runs>>
taskVars == <<status, attempt, draft, failed, verdict>>
vars == <<dbVars, runVars, taskVars, registryVars>>

Working == {"info", "refs", "encode", "put_nar", "put_info"}
Finished == {"ok", "err", "early"}

\* A write is the item of one put: a NAR, or the narinfo of a row.
Writes ==
  [kind : {"nar"}, nar : Nars] \cup [kind : {"info"}, row : Rows, info : NarInfos]

EmptyDraft == [nar |-> Garbled, refs |-> {}, sigs |-> {}]

TypeOK ==
  /\ DbTypeOK
  /\ wanted \in SUBSET Rows
  /\ dryRun \in BOOLEAN
  /\ disk \in [Rows -> {"intact", "garbled", "resized"}]
  /\ status \in [Rows -> {"waiting"} \cup Working \cup Finished]
  /\ attempt \in [Rows -> Nat]
  /\ \A r \in Rows : attempt[r] = 1 \/ attempt[r] \in 1..MaxRetry
  /\ draft \in [Rows -> NarInfos]
  /\ failed \in BOOLEAN
  /\ verdict \in {"idle", "running", "ok", "failed", "crashed"}
  /\ runs \in Nat
  /\ nars \in SUBSET Nars
  /\ infos \in [Rows -> NarInfos \cup {NoInfo}]
  /\ late \in SUBSET Writes

\* What the filter may let through (module CollectPaths): rows it found in the
\* table, though some may be gone again, whose signatures parse.
Filterable == { r \in valid \cup deleted : Malformed \notin sigs[r] }

Init ==
  /\ DbInit
  /\ wanted = {}
  /\ dryRun = FALSE
  /\ disk \in Disks
  /\ status = [r \in Rows |-> "waiting"]
  /\ attempt = [r \in Rows |-> 1]
  /\ draft = [r \in Rows |-> EmptyDraft]
  /\ failed = FALSE
  /\ verdict = "idle"
  /\ runs = 0
  /\ nars = {}
  /\ infos = [r \in Rows |-> NoInfo]
  /\ late = {}

----------------------------------------------------------------------------
(* The tasks.                                                              *)

Active == { r \in wanted : status[r] \in Working }

\* Mutant: the task does not look at `failed'.
NeverStops == FALSE

\* not_failed() in push_one.
StopsEarly == failed

\* buffer_unordered polls a task for the first time when it has room, and
\* the task looks at `failed' then, and never again.
Begin(r) ==
  /\ verdict = "running"
  /\ r \in wanted
  /\ status[r] = "waiting"
  /\ Cardinality(Active) < Parallel
  /\ status' = [status EXCEPT ![r] = IF StopsEarly THEN "early" ELSE "info"]
  /\ UNCHANGED <<dbVars, runVars, attempt, draft, failed, verdict, registryVars>>

At(r, s) ==
  /\ verdict = "running"
  /\ r \in wanted
  /\ status[r] = s

\* Mutant: the flag follows the last result.
FlagOfLast(s) == s = "err"

\* Only an error other than EarlyStop sets the flag, and nothing resets it.
FlagAfter(s) == failed \/ s = "err"

\* The task returns and handle_push_result takes its result.
Finish(r, s) ==
  /\ status' = [status EXCEPT ![r] = s]
  /\ attempt' = [attempt EXCEPT ![r] = 1]
  /\ draft' = [draft EXCEPT ![r] = EmptyDraft]
  /\ failed' = FlagAfter(s)
  /\ UNCHANGED verdict

Advance(r, s, d) ==
  /\ status' = [status EXCEPT ![r] = s]
  /\ draft' = [draft EXCEPT ![r] = d]
  /\ UNCHANGED <<attempt, failed, verdict>>

\* Each step of the blocking part may fail: opening the database, a query,
\* a file that cannot be read, a size or a signature that does not match.
Fail(r) ==
  /\ \E s \in {"info", "refs", "encode"} : At(r, s)
  /\ Finish(r, "err")
  /\ UNCHANGED <<dbVars, runVars, registryVars>>

\* The first SELECT of query_path_info; no row is an error (Fail).
ReadInfo(r) ==
  /\ At(r, "info")
  /\ r \in valid
  /\ Advance(r, "refs", [draft[r] EXCEPT !.sigs = sigs[r]])
  /\ UNCHANGED <<dbVars, runVars, registryVars>>

\* The second SELECT, not in one transaction with the first; no row is no
\* reference.
ReadRefs(r) ==
  /\ At(r, "refs")
  /\ Advance(r, "encode", [draft[r] EXCEPT !.refs = QueryReferences(r)])
  /\ UNCHANGED <<dbVars, runVars, registryVars>>

\* The NAR that is made from the disk.
Encoded(r) == IF disk[r] = "intact" THEN NarOf[r] ELSE Garbled

\* Mutant: a signature of ours that is there is kept without a look.
OwnSignatureKept(r, nar) == TRUE

\* Our own signature, where the database has one, was made for the path as
\* it was registered; merge() compares it with the one just made.
OwnSignatureMatches(r, nar) ==
  OwnName \in draft[r].sigs => nar = NarOf[r] /\ draft[r].refs = Refs[r]

\* Mutant: the sizes are not compared.
AnySize(r) == TRUE

\* nar_size != expected_nar_size is an error.
SizeMatches(r) == disk[r] # "resized"

\* Encode, hash, compare the size, sign, merge the signatures.
Encode(r) ==
  /\ At(r, "encode")
  /\ SizeMatches(r)
  /\ Malformed \notin draft[r].sigs
  /\ OwnSignatureMatches(r, Encoded(r))
  /\ Advance(r, "put_nar", [draft[r] EXCEPT !.nar = Encoded(r), !.sigs = @ \cup {OwnName}])
  /\ UNCHANGED <<dbVars, runVars, registryVars>>

----------------------------------------------------------------------------
(* registry::put, on the NAR and then on the narinfo.                      *)

Putting(r) ==
  /\ verdict = "running"
  /\ r \in wanted
  /\ status[r] \in {"put_nar", "put_info"}

\* Mutant: the narinfo comes first in the list.
NarLast(r) == status[r] = "put_info"

\* The NAR comes first in the list.
NarTurn(r) == status[r] = "put_nar"

ItemOf(r) ==
  IF NarTurn(r)
    THEN [kind |-> "nar", nar |-> draft[r].nar]
    ELSE [kind |-> "info", row |-> r, info |-> draft[r]]

\* The registry carries out a write; the last one to the same key stays.
Apply(w) ==
  \/ /\ w.kind = "nar"
     /\ nars' = nars \cup {w.nar}
     /\ UNCHANGED infos
  \/ /\ w.kind = "info"
     /\ infos' = [infos EXCEPT ![w.row] = w.info]
     /\ UNCHANGED nars

\* Mutant: 1..=max_retry.
AttemptLeftInclusive(r) == attempt[r] <= MaxRetry

\* `for attempt in 1..max_retry': the last value is max_retry - 1.
AttemptLeft(r) == attempt[r] < MaxRetry

\* Mutant: dry_run is not looked at.
NeverSkips == FALSE

\* `if ctx.options.dry_run', inside the loop.
SkipsPush == dryRun

\* Mutant: an attempt that fails is not counted.
SameAttempt(r) == attempt[r]

NextAttempt(r) == attempt[r] + 1

\* put() returned Ok: the loop over the two items goes on.
Progress(r) ==
  IF status[r] = "put_nar"
    THEN /\ status' = [status EXCEPT ![r] = "put_info"]
         /\ attempt' = [attempt EXCEPT ![r] = 1]
         /\ UNCHANGED <<draft, failed, verdict>>
    ELSE Finish(r, "ok")

PutOk(r) ==
  /\ Putting(r)
  /\ AttemptLeft(r)
  /\ ~SkipsPush
  /\ Apply(ItemOf(r))
  /\ Progress(r)
  /\ UNCHANGED <<dbVars, runVars, late>>

PutDry(r) ==
  /\ Putting(r)
  /\ AttemptLeft(r)
  /\ SkipsPush
  /\ Progress(r)
  /\ UNCHANGED <<dbVars, runVars, registryVars>>

\* The client sees an error.  The write is lost, or it is still under way.
PutFails(r) ==
  /\ Putting(r)
  /\ AttemptLeft(r)
  /\ ~SkipsPush
  /\ late' \in {late, late \cup {ItemOf(r)}}
  /\ Cardinality(late') <= MaxLate
  /\ attempt' = [attempt EXCEPT ![r] = NextAttempt(r)]
  /\ UNCHANGED <<dbVars, runVars, status, draft, failed, verdict, nars, infos>>

\* The loop is over: RetryAllFails, or InvalidMaxRetry when it is zero.
GiveUp(r) ==
  /\ Putting(r)
  /\ ~AttemptLeft(r)
  /\ Finish(r, "err")
  /\ UNCHANGED <<dbVars, runVars, registryVars>>

\* The registry carries out a write whose client has given up.
ApplyLate(w) ==
  /\ w \in late
  /\ late' = late \ {w}
  /\ Apply(w)
  /\ UNCHANGED <<dbVars, runVars, taskVars>>

----------------------------------------------------------------------------
(* The run.                                                                *)

\* for_each ends and the flag decides.  buffer_unordered(0) polls nothing,
\* not even to find that there is nothing to poll: it waits for ever.
Conclude ==
  /\ verdict = "running"
  /\ Parallel >= 1
  /\ \A r \in wanted : status[r] \in Finished
  /\ verdict' = IF failed THEN "failed" ELSE "ok"
  /\ UNCHANGED <<dbVars, runVars, status, attempt, draft, failed, registryVars>>

\* The process is killed; the requests it was waiting for may still arrive.
Crash ==
  /\ verdict = "running"
  /\ verdict' = "crashed"
  /\ late' \in { late \cup { ItemOf(r) : r \in S } :
                   S \in SUBSET { r \in wanted : Putting(r) /\ AttemptLeft(r) /\ ~SkipsPush } }
  /\ Cardinality(late') <= MaxLate
  /\ UNCHANGED <<dbVars, runVars, status, attempt, draft, failed, nars, infos>>

\* `oranc push' is run, for the first time or again.  Only the registry
\* remembers an earlier run.
StartWith(S) ==
  /\ verdict # "running"
  /\ runs < MaxRuns
  /\ runs' = runs + 1
  /\ wanted' = S
  /\ dryRun' \in BOOLEAN
  /\ status' = [r \in Rows |-> "waiting"]
  /\ attempt' = [r \in Rows |-> 1]
  /\ draft' = [r \in Rows |-> EmptyDraft]
  /\ failed' = FALSE
  /\ verdict' = "running"
  /\ UNCHANGED <<dbVars, disk, registryVars>>

Start == \E S \in SUBSET Filterable : StartWith(S)

Task(r) ==
  \/ Begin(r)
  \/ Fail(r)
  \/ ReadInfo(r)
  \/ ReadRefs(r)
  \/ Encode(r)
  \/ PutOk(r)
  \/ PutDry(r)
  \/ PutFails(r)
  \/ GiveUp(r)

Push == (\E r \in Rows : Task(r)) \/ Conclude

Ended ==
  /\ verdict # "running"
  /\ UNCHANGED vars

Next ==
  \/ Push
  \/ Crash
  \/ Start
  \/ \E w \in late : ApplyLate(w)
  \/ DbNext /\ UNCHANGED <<runVars, taskVars, registryVars>>
  \/ Ended

Spec == Init /\ [][Next]_vars

\* The executor polls every task that can go on, and a request to the
\* registry ends, with an answer or an error.
FairSpec == Spec /\ WF_vars(Push)

----------------------------------------------------------------------------
(* Properties.                                                             *)

Published(r) == infos[r] # NoInfo

\* "push nar first" (push.rs:193): at no moment, whatever was retried, lost,
\* delayed or interrupted, does a reader find a narinfo whose NAR is missing.
NarInfoHasNar == \A r \in Rows : Published(r) => infos[r].nar \in nars

\* A narinfo describes its path as it was registered, but for two things the
\* code cannot tell: files that changed and kept their size (the hash column
\* of the database is never read), and a row deleted between the two queries
\* of query_path_info, which then reads as one without references.
DescribesStore ==
  \A r \in Rows : Published(r) =>
    /\ infos[r].nar = NarOf[r] \/ disk[r] = "garbled"
    /\ infos[r].refs = Refs[r] \/ r \in deleted

\* A path the signing key had signed before (test.sh:81-82, "oranc will check
\* its signature matches already exists signature") is published exactly as
\* it was registered, or not at all: both gaps of DescribesStore are closed.
PresignedExact ==
  OwnName \notin LateSigners =>
    \A r \in Rows : Published(r) /\ OwnName \in sigs[r] =>
      infos[r].nar = NarOf[r] /\ infos[r].refs = Refs[r]

\* push() returns Ok only when every path the filter let through is listed
\* (unless it is a dry run), and an error only when some task had an error of
\* its own, not just EarlyStop.
VerdictHonest ==
  /\ verdict = "ok" /\ ~dryRun => \A r \in wanted : Published(r)
  /\ verdict = "ok" => \A r \in wanted : status[r] = "ok"
  /\ verdict = "failed" => \E r \in wanted : status[r] = "err"

\* After the first failure no further path is begun: what is under way goes
\* on, and the rest stops early.
NothingStartsAfterFailure == [][failed => Active' \subseteq Active]_vars

\* During a dry run the registry changes only by requests of an earlier run.
DryRunWritesNothing ==
  [][dryRun =>
       /\ late' \subseteq late
       /\ <<nars, infos>>' # <<nars, infos>> => late' # late]_vars

\* The readers' view: a push that reported success announces its paths.
Cache == INSTANCE BinaryCache WITH
  Paths <- Rows,
  Contents <- Nars,
  Nothing <- NoInfo,
  stored <- nars,
  listing <- [r \in Rows |-> IF Published(r) THEN infos[r].nar ELSE NoInfo],
  announced <- IF verdict = "ok" /\ ~dryRun THEN wanted ELSE {}

\* oranc push, crashes and late writes included, is a pusher in the sense of
\* BinaryCache.
ImplementsCache == Cache!Spec

\* Every run ends, whatever fails, also while the database changes (--parallel
\* is not 0 in the runs: see Conclude).
PushEnds == []<>(verdict # "running")
=============================================================================
