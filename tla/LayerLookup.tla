---------------------------- MODULE LayerLookup ----------------------------
(***************************************************************************)
(* registry::get_layer_info: find the item of a key in the OCI registry.   *)
(* The key has one reference per tag encoding, the main one first, then    *)
(* the fallbacks; each is asked for its manifest up to max_retry - 1       *)
(* times.  Meanwhile other clients put the item, always under the main     *)
(* reference (registry::put).  The registry is external.                   *)
(***************************************************************************)
EXTENDS Naturals, FiniteSets

CONSTANTS
  Items,       \* what clients put under the key
  Encodings,   \* how many references the key has
  MaxRetries,  \* the values of --max-retry considered
  Registries   \* for each registry considered, the error envelopes it fails with

Codes == {"MANIFEST_UNKNOWN", "DENIED", "TOOMANYREQUESTS"}

ASSUME LookupAssumption ==
  /\ Encodings \in Nat \ {0}
  /\ MaxRetries \subseteq Nat
  /\ Registries \subseteq SUBSET (SUBSET Codes)

References == 1..Encodings
Main == 1

VARIABLES
  maxRetry,   \* --max-retry
  envelopes,  \* the sets of error codes this registry may fail with
  store,      \* store[i]: what the registry has under reference i
  ref,        \* the reference of the loop `'fallbacks'
  attempt,    \* the loop variable of `'retries'
  refErrors,  \* refErrors[i]: length of ref_errors in the iteration of i
  errors,     \* length of errors
  unknown,    \* the references that were answered with `not found'
  outcome     \* what get_layer_info returned

vars == <<maxRetry, envelopes, store, ref, attempt, refErrors, errors, unknown, outcome>>

\* A manifest as registry::put makes it of an item, or one some other program
\* pushed: in the first four ways get_layer_info refuses it, in the last it
\* returns a layer whose content type no HTTP header can carry.
Foreign ==
  {"layer_count", "media_type", "no_annotations", "no_content_type", "bad_content_type"}
Manifests == Items \cup Foreign

\* The results that are no manifest, and the absence of one.
Failures == {"invalid_max_retry", "none", "retry_all_fails"}

ASSUME ItemsAssumption == Items \cap (Foreign \cup Failures \cup {"running", "absent"}) = {}

NotDone == [result |-> "running", at |-> 0]
Outcomes ==
  [result : {"running"} \cup Failures, at : {0}] \cup [result : Manifests, at : References]

TypeOK ==
  /\ maxRetry \in MaxRetries
  /\ envelopes \in Registries
  /\ store \in [References -> Manifests \cup {"absent"}]
  /\ ref \in 1..(Encodings + 1)
  /\ attempt \in 1..maxRetry \cup {1}
  /\ refErrors \in [References -> 0..maxRetry]
  /\ errors \in Nat
  /\ unknown \in SUBSET References
  /\ outcome \in Outcomes

Init ==
  /\ maxRetry \in MaxRetries
  /\ envelopes \in Registries
  /\ store \in [References -> Manifests \cup {"absent"}]
  /\ ref = Main
  /\ attempt = 1
  /\ refErrors = [i \in References |-> 0]
  /\ errors = 0
  /\ unknown = {}
  /\ outcome = NotDone

----------------------------------------------------------------------------
(* The registry.                                                           *)

\* pull_image_manifest answers according to the store, or fails.  An absent
\* manifest is ImageManifestNotFoundError or an envelope that says so.
Answers(i) ==
  [kind : {"manifest"}, manifest : {store[i]} \ {"absent"}]
    \cup [kind : IF store[i] = "absent" THEN {"not_found"} ELSE {}]
    \cup [kind : {"envelope"},
          codes : envelopes
                    \cup IF store[i] = "absent" THEN {{"MANIFEST_UNKNOWN"}} ELSE {}]
    \cup [kind : {"transport"}]

\* Some client puts an item.
OtherPut ==
  /\ \E it \in Items : store' = [store EXCEPT ![Main] = it]
  /\ store' # store
  /\ UNCHANGED <<maxRetry, envelopes, ref, attempt, refErrors, errors, unknown, outcome>>

----------------------------------------------------------------------------
(* get_layer_info.                                                         *)

Return(result, i) == outcome' = [result |-> result, at |-> i]

\* max_retry = 0 is refused.
Refuse ==
  /\ outcome = NotDone
  /\ maxRetry < 1
  /\ Return("invalid_max_retry", 0)
  /\ UNCHANGED <<maxRetry, envelopes, store, ref, attempt, refErrors, errors, unknown>>

Asking(i) ==
  /\ outcome = NotDone
  /\ maxRetry >= 1
  /\ ref = i

\* `for attempt in 1..max_retry'.
AttemptLeft == attempt < maxRetry

\* Mutant: `any' in place of `all'.
SomeUnknown(a) ==
  \/ a.kind = "not_found"
  \/ a.kind = "envelope" /\ "MANIFEST_UNKNOWN" \in a.codes

\* The two patterns that end the retries: also an envelope without any code.
SaysUnknown(a) ==
  \/ a.kind = "not_found"
  \/ a.kind = "envelope" /\ a.codes \subseteq {"MANIFEST_UNKNOWN"}

\* The manifest is there: check it, with no other try if it is not ours.
Pulled(i) ==
  /\ Asking(i)
  /\ AttemptLeft
  /\ \E a \in Answers(i) :
       /\ a.kind = "manifest"
       /\ Return(a.manifest, i)
  /\ UNCHANGED <<maxRetry, envelopes, store, ref, attempt, refErrors, errors, unknown>>

\* Mutant: the iterator is advanced twice.
NextReferenceTwice ==
  /\ ref' = ref + 2
  /\ attempt' = 1

\* Mutant: `continue' in place of `break'.
SameReference == UNCHANGED <<ref, attempt>>

NextReference ==
  /\ ref' = ref + 1
  /\ attempt' = 1

Unknown(i) ==
  /\ Asking(i)
  /\ AttemptLeft
  /\ \E a \in Answers(i) : SaysUnknown(a)
  /\ unknown' = unknown \cup {i}
  /\ NextReference
  /\ UNCHANGED <<maxRetry, envelopes, store, refErrors, errors, outcome>>

\* Mutant: an error ends the retries.
NoRetry == NextReference

Retry ==
  /\ attempt' = attempt + 1
  /\ UNCHANGED ref

Failed(i) ==
  /\ Asking(i)
  /\ AttemptLeft
  /\ \E a \in Answers(i) : a.kind # "manifest" /\ ~SaysUnknown(a)
  /\ refErrors' = [refErrors EXCEPT ![i] = @ + 1]
  /\ Retry
  /\ UNCHANGED <<maxRetry, envelopes, store, errors, unknown, outcome>>

\* The retries are over: the errors count if there are max_retry of them.
Exhausted(i) ==
  /\ Asking(i)
  /\ ~AttemptLeft
  /\ errors' = IF refErrors[i] = maxRetry THEN errors + refErrors[i] ELSE errors
  /\ NextReference
  /\ UNCHANGED <<maxRetry, envelopes, store, refErrors, unknown, outcome>>

\* No reference had a manifest.
NotPulled ==
  /\ outcome = NotDone
  /\ maxRetry >= 1
  /\ ref > Encodings
  /\ Return(IF errors = 0 THEN "none" ELSE "retry_all_fails", 0)
  /\ UNCHANGED <<maxRetry, envelopes, store, ref, attempt, refErrors, errors, unknown>>

Lookup ==
  \/ Refuse
  \/ \E i \in References : Pulled(i) \/ Unknown(i) \/ Failed(i) \/ Exhausted(i)
  \/ NotPulled

Ended ==
  /\ outcome # NotDone
  /\ UNCHANGED vars

Next ==
  \/ Lookup
  \/ OtherPut
  \/ Ended

Spec == Init /\ [][Next]_vars

\* The request's task is polled, and each pull ends, if only with an error.
FairSpec == Spec /\ WF_vars(Lookup)

----------------------------------------------------------------------------
(* Properties.                                                             *)

\* The references the loop is done with and that gave no manifest.
Passed == { i \in References : i < ref }

\* A reference is passed over, and a fallback (an older encoding, perhaps an
\* older item) used or the key called missing, only when the registry
\* answered that it has no manifest there or when max_retry - 1 attempts on it
\* failed.  (With max_retry 1 there are none: no reference is asked.)
PassedForCause == \A i \in Passed : i \in unknown \/ refErrors[i] = maxRetry - 1

\* Failing envelopes always carry a code other than MANIFEST_UNKNOWN.
FailuresSaySo == \A codes \in envelopes : ~(codes \subseteq {"MANIFEST_UNKNOWN"})

\* With such a registry a reference counts as unknown only while there was no
\* manifest under it: a fallback's has none still, the main one's may have
\* been put since then.  (With an empty envelope it is not so: `all' holds.)
UnknownWasAbsent ==
  [][FailuresSaySo => \A i \in unknown' \ unknown : store[i] = "absent"]_vars

\* get_layer_info returns.
LookupEnds == <>(outcome # NotDone)

\* registry.rs:174-176: None is returned when errors is empty, "all reference
\* not found"; registry.rs:178: otherwise "at least one reference failed".
NoneMeansNotFound == outcome.result = "none" => \A i \in References : i \in unknown
=============================================================================
