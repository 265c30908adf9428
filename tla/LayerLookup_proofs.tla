------------------------- MODULE LayerLookup_proofs -------------------------
(***************************************************************************)
(* What holds of get_layer_info for every number of references, every      *)
(* --max-retry and every behaviour of the registry.                        *)
(***************************************************************************)
EXTENDS LayerLookup, TLAPS

\* In each iteration over the references the loop variable counts the errors.
Counting ==
  /\ \A i \in References : i = ref => refErrors[i] = attempt - 1
  /\ \A i \in References : i > ref => refErrors[i] = 0

\* What the results that are no manifest say: max_retry was 0, or the loop went
\* through all the references.
Concluded ==
  /\ outcome.result = "invalid_max_retry" => maxRetry < 1
  /\ outcome.result \in {"none", "retry_all_fails"} => ref > Encodings

IInv ==
  /\ TypeOK
  /\ Counting
  /\ PassedForCause
  /\ Concluded

----------------------------------------------------------------------------

LEMMA OutcomeTypes ==
  /\ NotDone \in Outcomes
  /\ \A result \in Failures : [result |-> result, at |-> 0] \in Outcomes
  /\ \A i \in References : \A result \in Manifests : [result |-> result, at |-> i] \in Outcomes
BY DEF NotDone, Outcomes, Failures

LEMMA InitIInv == Init => IInv
<1> SUFFICES ASSUME Init PROVE IInv
  OBVIOUS
<1>1. TypeOK
  BY OutcomeTypes, LookupAssumption DEF Init, TypeOK, References, Main
<1>2. Counting
  BY LookupAssumption DEF Init, Counting, References, Main
<1>3. PassedForCause
  BY LookupAssumption DEF Init, PassedForCause, Passed, References, Main
<1> QED
  BY <1>1, <1>2, <1>3 DEF Init, IInv, Concluded, NotDone

\* The loop goes on to the next reference with cause.
LEMMA NextReferenceIInv ==
  ASSUME IInv, NEW i \in References, ref = i, NextReference,
         UNCHANGED <<maxRetry, envelopes, store, refErrors, outcome>>, errors' \in Nat,
         unknown \subseteq unknown', unknown' \subseteq References,
         i \in unknown' \/ refErrors[i] = maxRetry - 1
  PROVE  IInv'
<1>1. i \in Nat /\ i >= 1 /\ i <= Encodings /\ Encodings \in Nat
  BY LookupAssumption DEF References
<1>2. TypeOK'
  BY <1>1 DEF IInv, TypeOK, NextReference
<1>3. Counting'
  BY <1>1 DEF IInv, Counting, NextReference, References
<1>4. PassedForCause'
  BY <1>1 DEF IInv, PassedForCause, Passed, NextReference, References
<1>5. Concluded'
  BY <1>1 DEF IInv, Concluded, NextReference
<1> QED
  BY <1>2, <1>3, <1>4, <1>5 DEF IInv

\* get_layer_info returns, with cause.
LEMMA ReturnIInv ==
  ASSUME IInv, UNCHANGED <<maxRetry, envelopes, store, ref, attempt, refErrors, errors, unknown>>,
         outcome' \in Outcomes, Concluded'
  PROVE  IInv'
<1>1. TypeOK'
  BY DEF IInv, TypeOK
<1>2. Counting' /\ PassedForCause'
  BY DEF IInv, Counting, PassedForCause, Passed
<1> QED BY <1>1, <1>2 DEF IInv

LEMMA LookupIInv == IInv /\ Lookup => IInv'
<1> SUFFICES ASSUME IInv, Lookup PROVE IInv'
  OBVIOUS
<1> USE DEF IInv
<1>1. CASE Refuse
  <2>1. outcome' = [result |-> "invalid_max_retry", at |-> 0] /\ maxRetry' < 1
    BY <1>1 DEF Refuse, Return
  <2>2. outcome' \in Outcomes /\ Concluded'
    BY <2>1, OutcomeTypes DEF Concluded, Failures
  <2> QED BY <1>1, <2>2, ReturnIInv DEF Refuse
<1>2. ASSUME NEW i \in References, Pulled(i)
      PROVE  IInv'
  <2>1. PICK a \in Answers(i) : a.kind = "manifest" /\ Return(a.manifest, i)
    BY <1>2 DEF Pulled
  <2>2. a.manifest \in Manifests
    BY <2>1 DEF Answers, TypeOK
  <2>3. outcome' \in Outcomes /\ outcome'.result = a.manifest
    BY <2>1, <2>2, OutcomeTypes DEF Return
  <2>4. a.manifest \notin Failures
    BY <2>2, ItemsAssumption DEF Manifests, Foreign, Failures
  <2>5. Concluded'
    BY <2>3, <2>4 DEF Concluded, Failures
  <2> QED BY <1>2, <2>3, <2>5, ReturnIInv DEF Pulled
<1>3. ASSUME NEW i \in References, Unknown(i)
      PROVE  IInv'
  BY <1>3, NextReferenceIInv DEF Unknown, Asking, TypeOK
<1>4. ASSUME NEW i \in References, Failed(i)
      PROVE  IInv'
  <2>1. /\ ref = i /\ attempt < maxRetry
        /\ refErrors' = [refErrors EXCEPT ![i] = @ + 1] /\ attempt' = attempt + 1
        /\ UNCHANGED <<maxRetry, envelopes, store, ref, errors, unknown, outcome>>
    BY <1>4 DEF Failed, Asking, AttemptLeft, Retry
  <2>2. maxRetry \in Nat /\ attempt \in Nat /\ attempt >= 1 /\ refErrors[i] = attempt - 1
    BY <2>1, LookupAssumption DEF TypeOK, Counting
  <2>3. TypeOK'
    <3>1. attempt' \in 1..maxRetry /\ refErrors[i] + 1 \in 0..maxRetry
      BY <2>1, <2>2
    <3> QED BY <2>1, <3>1 DEF TypeOK
  <2>4. Counting'
    BY <2>1, <2>2, LookupAssumption DEF Counting, TypeOK, References
  <2>5. PassedForCause'
    BY <2>1, LookupAssumption DEF PassedForCause, Passed, References, TypeOK
  <2> QED BY <2>1, <2>3, <2>4, <2>5 DEF Concluded
<1>5. ASSUME NEW i \in References, Exhausted(i)
      PROVE  IInv'
  <2>1. ref = i /\ maxRetry >= 1 /\ ~(attempt < maxRetry)
    BY <1>5 DEF Exhausted, Asking, AttemptLeft
  <2>2. maxRetry \in Nat /\ attempt \in Nat /\ (attempt = 1 \/ attempt <= maxRetry)
    BY LookupAssumption DEF TypeOK
  <2>3. refErrors[i] = maxRetry - 1
    BY <2>1, <2>2 DEF Counting
  <2>4. errors' \in Nat
    BY <1>5, <2>2, <2>3 DEF Exhausted, TypeOK
  <2> QED
    BY <1>5, <2>1, <2>3, <2>4, NextReferenceIInv DEF Exhausted, TypeOK
<1>6. CASE NotPulled
  <2>1. /\ outcome' = [result |-> IF errors = 0 THEN "none" ELSE "retry_all_fails", at |-> 0]
        /\ ref' > Encodings
    BY <1>6 DEF NotPulled, Return
  <2>2. outcome' \in Outcomes /\ Concluded'
    BY <2>1, OutcomeTypes DEF Concluded, Failures
  <2> QED BY <1>6, <2>2, ReturnIInv DEF NotPulled
<1> QED
  BY <1>1, <1>2, <1>3, <1>4, <1>5, <1>6 DEF Lookup

LEMMA NextIInv == IInv /\ [Next]_vars => IInv'
<1> SUFFICES ASSUME IInv, [Next]_vars PROVE IInv'
  OBVIOUS
<1>1. CASE Lookup
  BY <1>1, LookupIInv
<1>2. CASE OtherPut
  BY <1>2
  DEF OtherPut, Manifests, IInv, TypeOK, Counting, PassedForCause, Passed,
      Concluded
<1>3. CASE UNCHANGED vars
  BY <1>3
  DEF vars, IInv, TypeOK, Counting, PassedForCause, Passed, Concluded
<1> QED BY <1>1, <1>2, <1>3 DEF Next, Ended

\* The state of a lookup has its type; no loop counts beyond its end.
THEOREM LookupTypeCorrect == Spec => []TypeOK
<1>1. IInv => TypeOK
  BY DEF IInv
<1> QED BY <1>1, InitIInv, NextIInv, PTL DEF Spec

\* A reference is passed over only because the registry said it has nothing
\* there or because max_retry - 1 attempts on it failed.
THEOREM ReferencesPassedForCause == Spec => []PassedForCause
<1>1. IInv => PassedForCause
  BY DEF IInv
<1> QED BY <1>1, InitIInv, NextIInv, PTL DEF Spec

\* Where failures name their code, `not found' is what an empty reference says.
LEMMA UnknownIsAbsent ==
  ASSUME FailuresSaySo, NEW i \in References, \E a \in Answers(i) : SaysUnknown(a)
  PROVE  store[i] = "absent"
<1> SUFFICES ASSUME store[i] # "absent" PROVE FALSE
  OBVIOUS
<1>1. PICK a \in Answers(i) : SaysUnknown(a)
  OBVIOUS
<1>2. CASE a.kind = "envelope"
  <2>1. a.codes \in envelopes
    BY <1>1, <1>2 DEF Answers
  <2> QED BY <1>1, <1>2, <2>1 DEF SaysUnknown, FailuresSaySo
<1>3. CASE a.kind # "envelope"
  BY <1>1, <1>3 DEF Answers, SaysUnknown
<1> QED BY <1>2, <1>3

\* On a registry whose failures name a cause, a reference that is newly counted
\* as unknown had no manifest when it was asked, whatever others put.
THEOREM UnknownsWereAbsent == Spec => UnknownWasAbsent
<1>1. [Next]_vars =>
        [FailuresSaySo => \A i \in unknown' \ unknown : store[i] = "absent"]_vars
  <2> SUFFICES ASSUME Next, FailuresSaySo, NEW j \in unknown' \ unknown
               PROVE  store[j] = "absent"
    OBVIOUS
  <2>1. ASSUME NEW i \in References, Unknown(i)
        PROVE  store[j] = "absent"
    <3>1. j = i /\ \E a \in Answers(i) : SaysUnknown(a)
      BY <2>1 DEF Unknown
    <3> QED BY <3>1, UnknownIsAbsent
  <2>2. CASE unknown' = unknown
    BY <2>2
  <2> QED
    BY <2>1, <2>2
    DEF Next, Lookup, OtherPut, Ended, Refuse, Pulled, Failed, Exhausted, NotPulled, vars
<1> QED BY <1>1, PTL DEF Spec, UnknownWasAbsent
=============================================================================
