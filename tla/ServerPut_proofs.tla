-------------------------- MODULE ServerPut_proofs --------------------------
(***************************************************************************)
(* What holds of concurrent PUTs and a lookup for any number of clients,   *)
(* any request, any --max-retry and any registry.                          *)
(***************************************************************************)
EXTENDS ServerPut, LayerLookup_proofs

HandlerTypes ==
  /\ fault \in [Clients -> Faults]
  /\ phase \in [Clients -> {"extract", "try", "written", "done"}]
  /\ tries \in [Clients -> Nat \ {0}]
  /\ code \in [Clients -> {Nothing, 200, 400, 404, 413, HungUp, 500}]
  /\ late \in [Clients -> Nat]
  /\ troubled \in SUBSET Clients
  /\ before \in [Clients -> SUBSET Clients]
  /\ early \in SUBSET Clients

\* What is known of c's handler: when it is answered, how many writes its
\* tries may have left, and that none is left if it met no trouble.
Handler(c) ==
  /\ (phase[c] = "done") <=> (code[c] # Nothing)
  /\ phase[c] = "written" \/ code[c] = 200 => tries[c] < maxRetry
  /\ late[c] <= tries[c]
  /\ phase[c] # "done" => late[c] < tries[c]
  /\ c \notin troubled => tries[c] = 1 /\ late[c] = 0
  /\ phase[c] = "extract" \/ code[c] \in {400, 404, 413} => c \notin troubled

Handlers == HandlerTypes /\ \A c \in Clients : Handler(c)

\* c's manifest is, or was, under the main reference by a try c waited for.
Wrote(c) == phase[c] = "written" \/ code[c] = 200

\* Once a PUT wrote, the main reference holds the item of one that did, or of
\* one that met trouble.
Held ==
  \A c \in Clients :
    Wrote(c) => \E d \in Clients : store[Main] = d /\ (Wrote(d) \/ d \in troubled)

\* A PUT that began after d was told 200 hides d, unless d may still write.
Ordered ==
  \A c, d \in Clients :
    d \in before[c] =>
      /\ code[d] = 200
      /\ Wrote(c) /\ d \notin troubled => store[Main] # d

\* Where the lookup is.
Place ==
  /\ \A i \in unknown : i < ref
  /\ outcome = NotDone \/ maxRetry < 1 \/ outcome.at = ref \/ ref > Encodings

\* What the early acknowledgements mean for the lookup.
EarlySeen ==
  /\ \A c \in early : code[c] = 200
  /\ FailuresSaySo /\ early # {} =>
       /\ Main \notin unknown
       /\ outcome.at = Main => outcome.result \in Items

PInv ==
  /\ IInv
  /\ Handlers
  /\ Held
  /\ Ordered
  /\ Place
  /\ EarlySeen

----------------------------------------------------------------------------
(* The PUTs as seen by the lookup.                                         *)

LEMMA MainIsReference == Main \in References /\ References \subseteq Nat
BY LookupAssumption DEF Main, References

\* A write of c: the registry as seen by the lookup is another client's.
LEMMA WriteStep ==
  ASSUME NEW c \in Clients, Write(c),
         UNCHANGED <<maxRetry, envelopes, ref, attempt, refErrors, errors, unknown, outcome>>
  PROVE  [Next]_vars
<1>1. CASE store' = store
  BY <1>1 DEF vars
<1>2. CASE store' # store
  BY <1>2 DEF Write, PutReference, Clients, OtherPut, Next
<1> QED BY <1>1, <1>2

LEMMA PutStep == [PutNext]_allVars => [Next]_vars
<1> SUFFICES ASSUME [PutNext]_allVars PROVE [Next]_vars
  OBVIOUS
<1>1. ASSUME NEW c \in Clients, Land(c) \/ LandLate(c)
      PROVE  [Next]_vars
  BY <1>1, WriteStep DEF Land, LandLate
<1>2. ASSUME NEW c \in Clients, Handle(c) \/ HangUp(c)
      PROVE  [Next]_vars
  BY <1>2 DEF Handle, HangUp, Extract, PutOk, PutFails, GiveUp
<1>3. CASE Lookup
  BY <1>3 DEF Next
<1>4. CASE UNCHANGED allVars
  BY <1>4 DEF allVars
<1> QED BY <1>1, <1>2, <1>3, <1>4 DEF PutNext, Over

----------------------------------------------------------------------------
(* The handlers.                                                           *)

LEMMA FaultCodes ==
  \A f \in Faults \ {"none"} : FaultCode[f] \in {400, 404, 413, 500}
BY PutAssumption DEF FaultCode

LEMMA AbandonTypes ==
  ASSUME HandlerTypes, NEW c \in Clients, Abandon(c)
  PROVE  /\ late' \in [Clients -> Nat]
         /\ \A d \in Clients : d # c => late'[d] = late[d]
         /\ late'[c] = late[c] \/ late'[c] = late[c] + 1
         /\ phase[c] = "written" \/ phase[c] = "extract" => late'[c] = late[c]
<1>1. PICK n \in IF phase[c] = "try" /\ tries[c] < maxRetry THEN {0, 1} ELSE {0} :
        late' = [late EXCEPT ![c] = @ + n]
  BY DEF Abandon
<1>2. n \in {0, 1} /\ (phase[c] # "try" => n = 0)
  BY <1>1
<1>3. late[c] \in Nat /\ late \in [Clients -> Nat]
  BY DEF HandlerTypes
<1> QED BY <1>1, <1>2, <1>3

\* What is known of the handlers stays known when c alone moves.
LEMMA OneHandler ==
  ASSUME Handlers, NEW c \in Clients, HandlerTypes', UNCHANGED maxRetry, Handler(c)',
         \A d \in Clients : d # c =>
           /\ phase'[d] = phase[d] /\ tries'[d] = tries[d] /\ code'[d] = code[d]
           /\ late'[d] = late[d] /\ (d \in troubled' <=> d \in troubled)
  PROVE  Handlers'
BY DEF Handlers, Handler

LEMMA ExtractHandlers ==
  ASSUME IInv, Handlers, NEW c \in Clients, Extract(c)
  PROVE  Handlers' /\ code'[c] # 200 /\ phase'[c] # "written"
<1> USE DEF HandlerTypes, Handlers
<1>1. /\ phase[c] = "extract" /\ code[c] = Nothing
      /\ UNCHANGED <<vars, fault, tries, late, troubled, early>>
  BY DEF Extract, Handler
<1>2. before' \in [Clients -> SUBSET Clients]
  BY DEF Extract, Acked
<1>3. CASE phase' = [phase EXCEPT ![c] = "try"] /\ code' = code
  <2>1. Handler(c)'
    BY <1>1, <1>3 DEF Handler, Nothing, vars
  <2>2. HandlerTypes'
    BY <1>1, <1>2, <1>3
  <2> QED BY <1>1, <1>3, <2>1, <2>2, OneHandler DEF vars, Nothing
<1>4. ASSUME NEW s \in {400, 404, 413, 500}, Respond(c, s)
      PROVE  Handlers' /\ code'[c] # 200 /\ phase'[c] # "written"
  <2>1. phase' = [phase EXCEPT ![c] = "done"] /\ code' = [code EXCEPT ![c] = s]
    BY <1>4 DEF Respond
  <2>2. HandlerTypes'
    BY <1>1, <1>2, <2>1
  <2>3. Handler(c)'
    BY <1>1, <2>1 DEF Handler, Nothing, vars
  <2> QED BY <1>1, <2>1, <2>2, <2>3, OneHandler DEF vars
<1>5. CASE fault[c] # "none" /\ Respond(c, FaultCode[fault[c]])
  <2>1. FaultCode[fault[c]] \in {400, 404, 413, 500}
    BY <1>5, FaultCodes
  <2> QED BY <1>4, <1>5, <2>1
<1> QED BY <1>3, <1>4, <1>5 DEF Extract

LEMMA PutOkHandlers ==
  ASSUME IInv, Handlers, NEW c \in Clients, PutOk(c)
  PROVE  Handlers'
<1> USE DEF HandlerTypes, Handlers
<1>1. /\ phase[c] = "written" /\ tries[c] < maxRetry /\ Abandon(c)
      /\ phase' = [phase EXCEPT ![c] = "done"] /\ code' = [code EXCEPT ![c] = 200]
      /\ UNCHANGED <<vars, fault, tries, troubled, before>>
  BY DEF PutOk, Awaited, Respond
<1>2. late' \in [Clients -> Nat] /\ \A d \in Clients : late'[d] = late[d]
  BY <1>1, AbandonTypes
<1>3. early' \in SUBSET Clients
  BY DEF PutOk
<1>4. HandlerTypes'
  BY <1>1, <1>2, <1>3
<1>5. Handler(c)'
  BY <1>1, <1>2 DEF Handler, Nothing, vars
<1> QED BY <1>1, <1>2, <1>4, <1>5, OneHandler DEF vars

LEMMA PutFailsHandlers ==
  ASSUME IInv, Handlers, NEW c \in Clients, PutFails(c)
  PROVE  Handlers'
<1> USE DEF HandlerTypes, Handlers
<1>1. /\ phase[c] \in {"try", "written"} /\ tries[c] < maxRetry /\ Abandon(c)
      /\ phase' = [phase EXCEPT ![c] = "try"]
      /\ tries' = [tries EXCEPT ![c] = tries[c] + 1]
      /\ troubled' = troubled \cup {c}
      /\ UNCHANGED <<vars, fault, code, before, early>>
  BY DEF PutFails, NextTry
<1>2. /\ late' \in [Clients -> Nat]
      /\ \A d \in Clients : d # c => late'[d] = late[d]
      /\ late'[c] = late[c] \/ late'[c] = late[c] + 1
  BY <1>1, AbandonTypes
<1>3. HandlerTypes'
  <2>1. troubled' \in SUBSET Clients
    BY <1>1
  <2>2. tries' \in [Clients -> Nat \ {0}]
    BY <1>1
  <2>3. phase' \in [Clients -> {"extract", "try", "written", "done"}]
    BY <1>1
  <2> QED BY <1>1, <1>2, <2>1, <2>2, <2>3
<1>4. Handler(c)'
  <2>1. /\ code'[c] = Nothing /\ phase'[c] = "try" /\ c \in troubled'
        /\ tries'[c] = tries[c] + 1 /\ late[c] < tries[c]
    BY <1>1 DEF Handler
  <2> QED BY <1>2, <2>1 DEF Handler, Nothing
<1> QED BY <1>1, <1>2, <1>3, <1>4, OneHandler DEF vars

LEMMA GiveUpHandlers ==
  ASSUME IInv, Handlers, NEW c \in Clients, GiveUp(c)
  PROVE  Handlers'
<1> USE DEF HandlerTypes, Handlers
<1>1. /\ phase[c] = "try"
      /\ phase' = [phase EXCEPT ![c] = "done"] /\ code' = [code EXCEPT ![c] = 500]
      /\ UNCHANGED <<vars, fault, tries, late, troubled, before, early>>
  BY DEF GiveUp, GiveUpCode, Respond
<1>2. HandlerTypes'
  BY <1>1
<1>3. Handler(c)'
  BY <1>1 DEF Handler, Nothing, vars
<1> QED BY <1>1, <1>2, <1>3, OneHandler DEF vars

LEMMA HangUpHandlers ==
  ASSUME IInv, Handlers, NEW c \in Clients, HangUp(c)
  PROVE  Handlers'
<1> USE DEF HandlerTypes, Handlers
<1>1. /\ phase[c] # "done" /\ Abandon(c)
      /\ phase' = [phase EXCEPT ![c] = "done"] /\ code' = [code EXCEPT ![c] = HungUp]
      /\ troubled' = troubled \cup {c}
      /\ UNCHANGED <<vars, fault, tries, before, early>>
  BY DEF HangUp, Respond
<1>2. /\ late' \in [Clients -> Nat]
      /\ \A d \in Clients : d # c => late'[d] = late[d]
      /\ late'[c] = late[c] \/ late'[c] = late[c] + 1
  BY <1>1, AbandonTypes
<1>3. HandlerTypes'
  <2>1. troubled' \in SUBSET Clients
    BY <1>1
  <2>2. code' \in [Clients -> {Nothing, 200, 400, 404, 413, HungUp, 500}]
    BY <1>1
  <2>3. phase' \in [Clients -> {"extract", "try", "written", "done"}]
    BY <1>1
  <2> QED BY <1>1, <1>2, <2>1, <2>2, <2>3
<1>4. Handler(c)'
  <2>1. late[c] < tries[c] /\ tries'[c] = tries[c] /\ code'[c] = 499 /\ c \in troubled'
    BY <1>1 DEF Handler, HungUp
  <2> QED BY <1>1, <1>2, <2>1 DEF Handler, Nothing
<1> QED BY <1>1, <1>2, <1>3, <1>4, OneHandler DEF vars

LEMMA LandHandlers ==
  ASSUME IInv, Handlers, NEW c \in Clients, Land(c) \/ LandLate(c)
  PROVE  Handlers'
<1> USE DEF HandlerTypes, Handlers
<1>1. CASE Land(c)
  <2>1. /\ phase[c] = "try" /\ tries[c] < maxRetry
        /\ phase' = [phase EXCEPT ![c] = "written"]
        /\ UNCHANGED <<maxRetry, fault, tries, code, late, troubled, before, early>>
    BY <1>1 DEF Land
  <2>2. HandlerTypes' /\ Handler(c)'
    BY <2>1 DEF Handler, Nothing
  <2> QED BY <2>1, <2>2, OneHandler
<1>2. CASE LandLate(c)
  <2>1. /\ late[c] > 0 /\ late' = [late EXCEPT ![c] = @ - 1]
        /\ UNCHANGED <<maxRetry, fault, phase, tries, code, troubled, before, early>>
    BY <1>2 DEF LandLate
  <2>2. late[c] \in Nat /\ late'[c] = late[c] - 1 /\ tries[c] \in Nat
    BY <2>1
  <2>3. HandlerTypes'
    BY <2>1, <2>2
  <2>4. Handler(c)'
    BY <2>1, <2>2 DEF Handler
  <2> QED BY <2>1, <2>3, <2>4, OneHandler
<1> QED BY <1>1, <1>2

LEMMA NextHandlers == IInv /\ Handlers /\ [PutNext]_allVars => Handlers'
<1> SUFFICES ASSUME IInv, Handlers, [PutNext]_allVars PROVE Handlers'
  OBVIOUS
<1>1. CASE UNCHANGED <<maxRetry, putVars>>
  BY <1>1 DEF Handlers, HandlerTypes, Handler, putVars
<1>2. CASE Lookup /\ UNCHANGED putVars
  BY <1>1, <1>2 DEF Lookup, Refuse, Pulled, Unknown, Failed, Exhausted, NotPulled
<1>3. CASE UNCHANGED allVars
  BY <1>1, <1>3 DEF allVars, vars
<1> QED
  BY <1>2, <1>3, ExtractHandlers, PutOkHandlers, PutFailsHandlers, GiveUpHandlers,
     HangUpHandlers, LandHandlers
  DEF PutNext, Handle, Over

----------------------------------------------------------------------------
(* The writes.                                                             *)

\* A step of c that is not a write, for the invariants about writes: c may be
\* told 200 only for what it wrote, and what it wrote is not forgotten.
LEMMA NoWrite ==
  ASSUME Handlers, Held, Ordered, UNCHANGED store, NEW c \in Clients,
         \A d \in Clients : d # c => phase'[d] = phase[d] /\ code'[d] = code[d],
         troubled \subseteq troubled',
         Wrote(c)' => Wrote(c),
         Wrote(c) => Wrote(c)' \/ c \in troubled',
         code[c] = 200 => code'[c] = 200,
         \/ before' = before
         \/ ~Wrote(c)' /\ \E A \in SUBSET Acked : before' = [before EXCEPT ![c] = A]
  PROVE  Held' /\ Ordered'
<1>1. \A d \in Clients : Wrote(d)' => Wrote(d)
  BY DEF Wrote
<1>2. \A d \in Clients : Wrote(d) => Wrote(d)' \/ d \in troubled'
  BY DEF Wrote
<1>3. Held'
  BY <1>1, <1>2 DEF Held
<1>4. \A d \in Clients : code[d] = 200 => code'[d] = 200
  OBVIOUS
<1>5. CASE before' = before
  BY <1>1, <1>3, <1>4, <1>5 DEF Ordered
<1>6. ASSUME ~Wrote(c)', NEW A \in SUBSET Acked, before' = [before EXCEPT ![c] = A]
      PROVE  Ordered'
  <2>1. \A e \in Clients : e # c => before'[e] = before[e]
    BY <1>6 DEF Handlers, HandlerTypes
  <2>2. \A d \in before'[c] : code[d] = 200
    BY <1>6 DEF Handlers, HandlerTypes, Acked
  <2> QED BY <1>1, <1>4, <1>6, <2>1, <2>2 DEF Ordered
<1> QED BY <1>3, <1>5, <1>6

LEMMA HandleWrites ==
  ASSUME IInv, Handlers, Held, Ordered, NEW c \in Clients, Handle(c) \/ HangUp(c)
  PROVE  Held' /\ Ordered'
<1> USE DEF Handlers, HandlerTypes, Wrote
<1>1. CASE Extract(c)
  <2>0. phase[c] = "extract" /\ code[c] # 200
    BY <1>1 DEF Extract, Handler, Nothing
  <2> HIDE DEF Handlers, HandlerTypes, Wrote
  <2>1. code'[c] # 200 /\ phase'[c] # "written"
    BY <1>1, ExtractHandlers
  <2> USE DEF Handlers, HandlerTypes, Wrote
  <2>2. \A d \in Clients : d # c => phase'[d] = phase[d] /\ code'[d] = code[d]
    BY <1>1 DEF Extract, Respond
  <2>3. before' = [before EXCEPT ![c] = Acked] /\ UNCHANGED <<store, troubled>>
    BY <1>1 DEF Extract, vars
  <2>4. ~Wrote(c) /\ ~Wrote(c)'
    BY <2>0, <2>1
  <2>5. \E A \in SUBSET Acked : before' = [before EXCEPT ![c] = A]
    BY <2>3
  <2> HIDE DEF Handlers, HandlerTypes, Wrote
  <2> QED BY <2>0, <2>2, <2>3, <2>4, <2>5, NoWrite
<1>2. CASE PutOk(c)
  BY <1>2, NoWrite DEF PutOk, Awaited, Respond, vars
<1>3. CASE PutFails(c)
  <2>1. code[c] # 200
    BY <1>3 DEF PutFails, Handler, Nothing
  <2> QED BY <1>3, <2>1, NoWrite DEF PutFails, vars
<1>4. CASE GiveUp(c)
  <2>1. code[c] # 200
    BY <1>4 DEF GiveUp, Handler, Nothing
  <2> QED BY <1>4, <2>1, NoWrite DEF GiveUp, GiveUpCode, Respond, vars
<1>5. CASE HangUp(c)
  <2>1. code[c] # 200
    BY <1>5 DEF HangUp, Handler, Nothing
  <2> QED BY <1>5, <2>1, NoWrite DEF HangUp, HungUp, Respond, vars
<1> QED BY <1>1, <1>2, <1>3, <1>4, <1>5 DEF Handle

\* A write by c: c has it under the main reference, and is either on its way
\* to be told or in trouble.
LEMMA LandWrites ==
  ASSUME IInv, Handlers, Held, Ordered, NEW c \in Clients, Land(c) \/ LandLate(c)
  PROVE  Held' /\ Ordered'
<1> USE DEF Handlers, HandlerTypes, Wrote
<1>1. store'[Main] = c /\ UNCHANGED <<code, troubled, before>>
  BY MainIsReference DEF Land, LandLate, Write, PutReference, IInv, TypeOK
<1>2. Wrote(c)' \/ c \in troubled'
  BY DEF Land, LandLate, Handler
<1>3. Held'
  BY <1>1, <1>2 DEF Held
<1>4. code[c] = 200 => c \in troubled
  BY DEF Land, LandLate, Handler, Nothing
<1>5. Ordered'
  BY <1>1, <1>4 DEF Ordered
<1> QED BY <1>3, <1>5

LEMMA NextWrites ==
  IInv /\ Handlers /\ Held /\ Ordered /\ [PutNext]_allVars => Held' /\ Ordered'
<1> SUFFICES ASSUME IInv, Handlers, Held, Ordered, [PutNext]_allVars
             PROVE  Held' /\ Ordered'
  OBVIOUS
<1>1. CASE UNCHANGED <<store, putVars>>
  BY <1>1 DEF putVars, Held, Ordered, Wrote
<1>2. CASE Lookup /\ UNCHANGED putVars
  BY <1>1, <1>2 DEF Lookup, Refuse, Pulled, Unknown, Failed, Exhausted, NotPulled
<1>3. CASE UNCHANGED allVars
  BY <1>1, <1>3 DEF allVars, vars
<1> QED BY <1>2, <1>3, HandleWrites, LandWrites DEF PutNext, Over

----------------------------------------------------------------------------
(* The lookup.                                                             *)

LEMMA LookupPlace == IInv /\ Place /\ Lookup => Place'
<1> SUFFICES ASSUME IInv, Place, Lookup PROVE Place'
  OBVIOUS
<1> USE LookupAssumption DEF IInv, TypeOK, Place, References
<1>1. CASE Refuse
  BY <1>1 DEF Refuse
<1>2. ASSUME NEW i \in References, Pulled(i)
      PROVE  Place'
  BY <1>2 DEF Pulled, Asking, Return
<1>3. ASSUME NEW i \in References, Unknown(i)
      PROVE  Place'
  BY <1>3 DEF Unknown, Asking, NextReference
<1>4. ASSUME NEW i \in References, Failed(i)
      PROVE  Place'
  BY <1>4 DEF Failed, Asking, Retry
<1>5. ASSUME NEW i \in References, Exhausted(i)
      PROVE  Place'
  BY <1>5 DEF Exhausted, Asking, NextReference
<1>6. CASE NotPulled
  BY <1>6 DEF NotPulled
<1> QED BY <1>1, <1>2, <1>3, <1>4, <1>5, <1>6 DEF Lookup

\* An early acknowledgement: from then on the main reference has an item.
LEMMA EarlyHeld ==
  ASSUME Handlers, Held, EarlySeen, early # {}
  PROVE  store[Main] \in Items
BY DEF Handlers, HandlerTypes, Held, EarlySeen, Wrote, Clients

LEMMA LookupEarly == PInv /\ Lookup /\ UNCHANGED putVars => EarlySeen'
<1> SUFFICES ASSUME PInv, Lookup, UNCHANGED putVars PROVE EarlySeen'
  OBVIOUS
<1> USE DEF PInv, putVars
<1>1. early # {} => store[Main] \in Items
  BY EarlyHeld
<1>2. Main \in References /\ Main \notin {0}
  BY MainIsReference DEF Main
<1>3. CASE Refuse
  BY <1>2, <1>3 DEF Refuse, Return, EarlySeen, FailuresSaySo
<1>4. ASSUME NEW i \in References, Pulled(i)
      PROVE  EarlySeen'
  <2>1. PICK a \in Answers(i) : a.kind = "manifest" /\ Return(a.manifest, i)
    BY <1>4 DEF Pulled
  <2>2. outcome'.result = store[i] /\ outcome'.at = i
    BY <2>1 DEF Answers, Return
  <2> QED BY <1>1, <1>4, <2>2 DEF Pulled, EarlySeen, FailuresSaySo
<1>5. ASSUME NEW i \in References, Unknown(i)
      PROVE  EarlySeen'
  <2>1. FailuresSaySo => store[i] = "absent"
    BY <1>5, UnknownIsAbsent DEF Unknown
  <2>2. FailuresSaySo /\ early # {} => i # Main
    BY <1>1, <2>1, ItemsAssumption
  <2> QED BY <1>5, <2>2 DEF Unknown, EarlySeen, FailuresSaySo
<1>6. CASE UNCHANGED <<envelopes, unknown, outcome>>
  BY <1>6 DEF EarlySeen, FailuresSaySo
<1>7. CASE NotPulled
  BY <1>2, <1>7 DEF NotPulled, Return, EarlySeen, FailuresSaySo
<1> QED
  BY <1>3, <1>4, <1>5, <1>6, <1>7 DEF Lookup, Failed, Exhausted

LEMMA NextEarly == PInv /\ [PutNext]_allVars => Place' /\ EarlySeen'
<1> SUFFICES ASSUME PInv, [PutNext]_allVars PROVE Place' /\ EarlySeen'
  OBVIOUS
<1> USE DEF PInv
<1>1. CASE Lookup /\ UNCHANGED putVars
  BY <1>1, LookupPlace, LookupEarly
<1>2. ASSUME UNCHANGED <<maxRetry, envelopes, ref, unknown, outcome>>
      PROVE  Place' /\ (FailuresSaySo' <=> FailuresSaySo)
  BY <1>2 DEF Place, FailuresSaySo
<1>3. ASSUME UNCHANGED <<maxRetry, envelopes, ref, unknown, outcome, early>>,
             \A c \in Clients : code[c] = 200 => code'[c] = 200
      PROVE  Place' /\ EarlySeen'
  BY <1>2, <1>3 DEF EarlySeen, Handlers, HandlerTypes
<1>4. ASSUME NEW c \in Clients, PutOk(c)
      PROVE  Place' /\ EarlySeen'
  <2>1. \A d \in Clients : code[d] = 200 \/ d = c => code'[d] = 200
    BY <1>4 DEF PutOk, Respond, Handlers, HandlerTypes
  <2>2. UNCHANGED vars
    BY <1>4 DEF PutOk
  <2>3. CASE early' = early
    BY <1>3, <2>1, <2>2, <2>3 DEF vars
  <2>4. CASE ref = Main /\ outcome = NotDone /\ early' = early \cup {c}
    <3>1. Main \notin unknown /\ outcome.at # Main
      BY <2>4 DEF Place, NotDone, Main
    <3> QED BY <1>2, <2>1, <2>2, <2>4, <3>1 DEF EarlySeen, Handlers, HandlerTypes, vars
  <2> QED BY <1>4, <2>3, <2>4 DEF PutOk
<1>5. ASSUME NEW c \in Clients, Extract(c) \/ PutFails(c) \/ GiveUp(c) \/ HangUp(c)
      PROVE  Place' /\ EarlySeen'
  <2>1. code[c] # 200
    BY <1>5 DEF Extract, PutFails, GiveUp, HangUp, Handlers, Handler, Nothing
  <2>2. \A d \in Clients : d # c => code'[d] = code[d]
    BY <1>5 DEF Extract, PutFails, GiveUp, HangUp, Respond, Handlers, HandlerTypes
  <2> QED BY <1>3, <1>5, <2>1, <2>2 DEF Extract, PutFails, GiveUp, HangUp, vars
<1>6. ASSUME NEW c \in Clients, Land(c) \/ LandLate(c)
      PROVE  Place' /\ EarlySeen'
  BY <1>3, <1>6 DEF Land, LandLate
<1>7. CASE UNCHANGED allVars
  BY <1>3, <1>7 DEF allVars, vars, putVars
<1> QED BY <1>1, <1>4, <1>5, <1>6, <1>7 DEF PutNext, Handle, Over

----------------------------------------------------------------------------

LEMMA InitPInv == PutInit => PInv
<1> SUFFICES ASSUME PutInit PROVE PInv
  OBVIOUS
<1> USE DEF PutInit
<1>1. IInv
  BY InitIInv
<1>2. Handlers
  BY DEF Handlers, HandlerTypes, Handler, Nothing
<1>3. Held /\ Ordered
  BY DEF Held, Ordered, Wrote, Nothing
<1>4. Place /\ EarlySeen
  BY DEF Init, Place, EarlySeen
<1> QED BY <1>1, <1>2, <1>3, <1>4 DEF PInv

LEMMA NextPInv == PInv /\ [PutNext]_allVars => PInv'
BY PutStep, NextIInv, NextHandlers, NextWrites, NextEarly DEF PInv

\* The handlers keep their types; no loop counts, and no write is left, beyond
\* the tries that were made.
THEOREM PutTypeCorrect == PutSpec => []PutTypeOK
<1>1. PInv => PutTypeOK
  BY DEF PInv, IInv, Handlers, HandlerTypes, Handler, PutTypeOK
<1> QED BY <1>1, InitPInv, NextPInv, PTL DEF PutSpec

\* To a lookup, any number of PUT handlers are what LayerLookup calls others.
THEOREM PutsLookAsOthers == PutSpec => LooksAsOthers
<1>1. PutInit => Init
  BY DEF PutInit
<1> QED BY <1>1, PutStep, PTL DEF PutSpec, LooksAsOthers, Spec

\* A 400, 404 or 413 left nothing behind, and after a 200 the item is there or
\* was overwritten by another PUT.
THEOREM StatusesMeanEffects == PutSpec => []StatusMeansEffect
<1>1. PInv => StatusMeansEffect
  <2> SUFFICES ASSUME PInv, NEW c \in Clients
               PROVE  /\ code[c] \in {400, 404, 413} =>
                            tries[c] = 1 /\ late[c] = 0 /\ c \notin troubled
                      /\ code[c] = 200 => c \in troubled \/ (tries[c] = 1 /\ late[c] = 0)
                      /\ code[c] = 200 =>
                           \/ store[Main] = c
                           \/ \E d \in Clients \ {c} :
                                store[Main] = d
                                  /\ (phase[d] \in {"try", "written"} \/ d \in troubled \cup Acked)
    BY DEF StatusMeansEffect
  <2>1. Handler(c)
    BY DEF PInv, Handlers
  <2>2. ASSUME code[c] = 200
        PROVE  \E d \in Clients : store[Main] = d /\ (Wrote(d) \/ d \in troubled)
    BY <2>2 DEF PInv, Held, Wrote
  <2> QED BY <2>1, <2>2 DEF Handler, Wrote, Acked
<1> QED BY <1>1, InitPInv, NextPInv, PTL DEF PutSpec

\* The order in which PUTs are acknowledged is the order of their items, but
\* for the writes of tries that failed.
THEOREM AcksAreOrdered == PutSpec => []OrderOfAcks
<1>1. PInv => OrderOfAcks
  BY DEF PInv, Ordered, Wrote, OrderOfAcks, Acked
<1> QED BY <1>1, InitPInv, NextPInv, PTL DEF PutSpec

\* What was acknowledged before a lookup is found by it, unless every pull of
\* the main reference failed.
THEOREM AckedItemsAreFound == PutSpec => []AckedIsFound
<1>1. PInv => AckedIsFound
  <2> SUFFICES ASSUME PInv, FailuresSaySo, early # {}, outcome # NotDone,
                      ~(outcome.at = Main /\ outcome.result \in Items)
               PROVE  refErrors[Main] = maxRetry - 1
    BY DEF AckedIsFound
  <2>1. Main \in References /\ Main \notin unknown /\ outcome.at # Main
    BY MainIsReference DEF PInv, EarlySeen
  <2>2. maxRetry >= 1
    <3>1. PICK c \in Clients : code[c] = 200
      BY DEF PInv, EarlySeen, Handlers, HandlerTypes
    <3>2. tries[c] < maxRetry /\ tries[c] \in Nat \ {0} /\ maxRetry \in Nat
      BY <3>1, LookupAssumption DEF PInv, Handlers, HandlerTypes, Handler, IInv, TypeOK
    <3> QED BY <3>2
  <2>3. ref \in Nat /\ ref >= 1 /\ Encodings \in Nat /\ Encodings >= 1 /\ maxRetry \in Nat
    BY LookupAssumption DEF PInv, IInv, TypeOK
  <2>4. Main < ref
    BY <2>1, <2>2, <2>3 DEF PInv, Place, Main
  <2> QED BY <2>1, <2>4 DEF PInv, IInv, PassedForCause, Passed
<1> QED BY <1>1, InitPInv, NextPInv, PTL DEF PutSpec
=============================================================================
