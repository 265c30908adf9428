----------------------------- MODULE ServerPut -----------------------------
(***************************************************************************)
(* Concurrent PUT requests for one key, from the extractors to the         *)
(* response, beside one lookup of that key (LayerLookup).  A push of the   *)
(* OCI client uploads blobs nothing refers to and then the manifest: only  *)
(* the latter can be seen, and it may be written although the client got   *)
(* an error, or is no longer there to get an answer.                       *)
(***************************************************************************)
EXTENDS LayerLookup

CONSTANTS
  Faults,  \* what may be wrong with a request
  Stored   \* what the registry may have under a reference at first

VARIABLES
  fault,     \* fault[c]: what the first extractor that fails complains of
  phase,     \* phase[c]: where the handler is
  tries,     \* tries[c]: the loop variable `attempt' of registry::put
  code,      \* code[c]: the status of the response, 0 before
  late,      \* late[c]: writes still on their way to the registry
  troubled,  \* the clients that met a failed try or hung up
  before,    \* before[c]: who was told 200 before c's request was handled
  early      \* who was told 200 before the lookup got its first answer

putVars == <<fault, phase, tries, code, late, troubled, before, early>>
allVars == <<vars, putVars>>

\* A request is named by the item it puts.
Clients == Items

\* No response, and the client hung up (logged by nobody).
Nothing == 0
HungUp == 499

\* What the extractors of put_key answer, and the order they run in:
\* OciLocation, Auth, the Content-Type header, the body (at most 2 MB, the
\* default limit of axum).
FaultCode ==
  [rejected |-> 500, bad_query |-> 400, ill_formed |-> 404,
   authorization |-> 400, content_type |-> 400, too_large |-> 413, cut_body |-> 400]

ASSUME PutAssumption ==
  /\ Faults \subseteq DOMAIN FaultCode \cup {"none"}
  /\ Stored \subseteq Manifests \cup {"absent"}

PutTypeOK ==
  /\ TypeOK
  /\ fault \in [Clients -> Faults]
  /\ phase \in [Clients -> {"extract", "try", "written", "done"}]
  /\ tries \in [Clients -> Nat \ {0}]
  /\ code \in [Clients -> {Nothing, 200, 400, 404, 413, HungUp, 500}]
  /\ late \in [Clients -> Nat]
  /\ troubled \in SUBSET Clients
  /\ before \in [Clients -> SUBSET Clients]
  /\ early \in SUBSET Clients
  /\ \A c \in Clients :
       /\ (phase[c] = "done") <=> (code[c] # Nothing)
       /\ phase[c] = "written" => tries[c] < maxRetry
       /\ late[c] <= tries[c]

PutInit ==
  /\ Init
  /\ store \in [References -> Stored]
  /\ fault \in [Clients -> Faults]
  /\ phase = [c \in Clients |-> "extract"]
  /\ tries = [c \in Clients |-> 1]
  /\ code = [c \in Clients |-> Nothing]
  /\ late = [c \in Clients |-> 0]
  /\ troubled = {}
  /\ before = [c \in Clients |-> {}]
  /\ early = {}

----------------------------------------------------------------------------
(* The registry.                                                           *)

\* Mutant: the last fallback in place of the main reference.
LastReference == Encodings

\* registry::put drops the fallbacks.
PutReference == Main

Write(c) == store' = [store EXCEPT ![PutReference] = c]

\* The manifest of c's outstanding push is written.
Land(c) ==
  /\ phase[c] = "try"
  /\ tries[c] < maxRetry
  /\ Write(c)
  /\ phase' = [phase EXCEPT ![c] = "written"]
  /\ UNCHANGED <<maxRetry, envelopes, ref, attempt, refErrors, errors, unknown, outcome>>
  /\ UNCHANGED <<fault, tries, code, late, troubled, before, early>>

\* So is one whose push was given up.
LandLate(c) ==
  /\ late[c] > 0
  /\ Write(c)
  /\ late' = [late EXCEPT ![c] = @ - 1]
  /\ UNCHANGED <<maxRetry, envelopes, ref, attempt, refErrors, errors, unknown, outcome>>
  /\ UNCHANGED <<fault, phase, tries, code, troubled, before, early>>

----------------------------------------------------------------------------
(* put_key.                                                                *)

Respond(c, status) ==
  /\ phase' = [phase EXCEPT ![c] = "done"]
  /\ code' = [code EXCEPT ![c] = status]

Acked == { c \in Clients : code[c] = 200 }

\* The extractors, and registry::put up to its loop: a fault is answered, and
\* so is a max_retry of 0.
Extract(c) ==
  /\ phase[c] = "extract"
  /\ before' = [before EXCEPT ![c] = Acked]
  /\ \/ fault[c] # "none" /\ Respond(c, FaultCode[fault[c]])
     \/ fault[c] = "none" /\ maxRetry < 1 /\ Respond(c, 400)
     \/ /\ fault[c] = "none"
        /\ maxRetry >= 1
        /\ phase' = [phase EXCEPT ![c] = "try"]
        /\ UNCHANGED code
  /\ UNCHANGED <<vars, fault, tries, late, troubled, early>>

\* Mutant: the push is spawned and not awaited.
Spawned(c) == TRUE

\* The registry answers a push after it wrote the manifest.
Awaited(c) == phase[c] = "written"

\* What may be left of a push nobody waits for any more: nothing, or, if its
\* manifest was not written yet, a write that still arrives.
Abandon(c) ==
  \E n \in IF phase[c] = "try" /\ tries[c] < maxRetry THEN {0, 1} ELSE {0} :
    late' = [late EXCEPT ![c] = @ + n]

\* push returned Ok: 200.
PutOk(c) ==
  /\ phase[c] \in {"try", "written"}
  /\ tries[c] < maxRetry
  /\ Awaited(c)
  /\ Respond(c, 200)
  /\ early' = IF ref = Main /\ attempt = 1 /\ outcome = NotDone THEN early \cup {c} ELSE early
  /\ Abandon(c)
  /\ UNCHANGED <<vars, fault, tries, troubled, before>>

\* Mutant: the loop variable is not advanced.
SameTry(c) == tries[c]

\* The next of `1..max_retry'.
NextTry(c) == tries[c] + 1

\* push returned an error.
PutFails(c) ==
  /\ phase[c] \in {"try", "written"}
  /\ tries[c] < maxRetry
  /\ phase' = [phase EXCEPT ![c] = "try"]
  /\ tries' = [tries EXCEPT ![c] = NextTry(c)]
  /\ troubled' = troubled \cup {c}
  /\ Abandon(c)
  /\ UNCHANGED <<vars, fault, code, before, early>>

\* Mutant: the errors of the loop are dropped.
GiveUpOk == 200

\* The status of RetryAllFails.
GiveUpCode == 500

GiveUp(c) ==
  /\ phase[c] = "try"
  /\ ~(tries[c] < maxRetry)
  /\ Respond(c, GiveUpCode)
  /\ UNCHANGED <<vars, fault, tries, late, troubled, before, early>>

\* The client closes the connection: the handler is dropped at its await.
HangUp(c) ==
  /\ phase[c] # "done"
  /\ Respond(c, HungUp)
  /\ troubled' = troubled \cup {c}
  /\ Abandon(c)
  /\ UNCHANGED <<vars, fault, tries, before, early>>

Handle(c) == Extract(c) \/ PutOk(c) \/ PutFails(c) \/ GiveUp(c)

Over ==
  /\ outcome # NotDone
  /\ \A c \in Clients : phase[c] = "done" /\ late[c] = 0
  /\ UNCHANGED allVars

PutNext ==
  \/ \E c \in Clients : Handle(c) \/ HangUp(c) \/ Land(c) \/ LandLate(c)
  \/ Lookup /\ UNCHANGED putVars
  \/ Over

PutSpec == PutInit /\ [][PutNext]_allVars

\* Every handler is polled and every push ends, if only with an error; clients
\* and the registry owe nothing.
FairPutSpec ==
  /\ PutSpec
  /\ \A c \in Clients : WF_allVars(Handle(c))

----------------------------------------------------------------------------
(* Properties.                                                             *)

\* To the lookup the server's PUTs are the other clients of LayerLookup: they
\* write items, and only under the main reference (registry.rs:264).
LooksAsOthers == Spec

\* A status of the 400s says that nothing was written and nothing will be; 200
\* says that the item was, so that no write of an untroubled PUT is left.
StatusMeansEffect ==
  \A c \in Clients :
    /\ code[c] \in {400, 404, 413} => tries[c] = 1 /\ late[c] = 0 /\ c \notin troubled
    /\ code[c] = 200 => c \in troubled \/ (tries[c] = 1 /\ late[c] = 0)
    /\ code[c] = 200 =>
         \/ store[Main] = c
         \/ \E d \in Clients \ {c} :
              store[Main] = d /\ (phase[d] \in {"try", "written"} \/ d \in troubled \cup Acked)

\* A PUT that was handled after another was told 200, and is told 200 itself,
\* is not undone by the other, unless a try of the other failed: that write
\* may arrive at any time and no PUT can rule it out.
OrderOfAcks ==
  \A c, d \in Acked : d \in before[c] /\ store[Main] = d => d \in troubled

\* What was told 200 before a lookup began is found, that item or a later one,
\* under the main reference; unless every pull of it failed, for then the
\* lookup goes on to the fallbacks (LayerLookup!PassedForCause).
AckedIsFound ==
  FailuresSaySo /\ early # {} /\ outcome # NotDone =>
    \/ outcome.at = Main /\ outcome.result \in Items
    \/ refErrors[Main] = maxRetry - 1

\* Every PUT is answered, if its client waits.
PutEnds == \A c \in Clients : <>(phase[c] = "done")
=============================================================================
