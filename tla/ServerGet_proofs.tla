-------------------------- MODULE ServerGet_proofs --------------------------
(***************************************************************************)
(* What holds of a GET or HEAD request for every number of upstreams and   *)
(* references, every --max-retry and every behaviour of the registry and   *)
(* of the upstreams.                                                       *)
(***************************************************************************)
EXTENDS ServerGet, LayerLookup_proofs

\* The server's variables have their types.
ServerTypes ==
  /\ options \in [upstream_anonymous : BOOLEAN]
  /\ request \in Requests
  /\ upstream \in [Upstreams -> {"has", "lacks", "opaque"}]
  /\ phase \in {"extract", "upstream", "lookup", "blob", "done"}
  /\ current \in 1..(UpstreamCount + 1)
  /\ tried \in 1..maxRetry \cup {1}
  /\ warned \in [Upstreams -> 0..maxRetry]

\* What the loop over the upstreams has counted; it is not entered for a key
\* that is the registry's business alone.
Warnings ==
  /\ \A u \in Upstreams : u = current => warned[u] = tried - 1
  /\ \A u \in Upstreams : u > current => warned[u] = 0
  /\ ~AsksUpstream => \A u \in Upstreams : warned[u] = 0

\* The lookup runs in its phase only, and the response ends the handler.
Stage ==
  /\ phase \in {"extract", "upstream"} => outcome = NotDone
  /\ phase = "blob" => LayerFound /\ request.method = "GET"
  /\ phase # "done" => response = NoResponse

\* What a response says of the request.
Justified(code, from) ==
  /\ \/ code \in {200, 400, 404, 499, 500} /\ from = 0
     \/ code = 302 /\ from \in Upstreams
  /\ code = 404 => request.path = "ill_formed" \/ outcome.result = "none"
  /\ outcome.result = "none" => code \in {404, 499}
  /\ code = 200 => outcome.result \in Items
  /\ code = 302 => upstream[from] = "has" /\ outcome = NotDone /\ AsksUpstream
  /\ code = 400 => BadRequest
  /\ code = 500 => ServerFault

Answered ==
  phase = "done" =>
    \E code \in {200, 302, 400, 404, 499, 500}, from \in {0} \cup Upstreams :
      response = [code |-> code, from |-> from] /\ Justified(code, from)

GInv ==
  /\ IInv
  /\ ServerTypes
  /\ Warnings
  /\ UpstreamPassedForCause
  /\ Stage
  /\ Answered

----------------------------------------------------------------------------

LEMMA NotDoneIsNoResult ==
  /\ NotDone.result \notin Items
  /\ NotDone.result \notin {"none", "bad_content_type"}
BY ItemsAssumption DEF NotDone

LEMMA InitGInv == ServerInit => GInv
<1> SUFFICES ASSUME ServerInit PROVE GInv
  OBVIOUS
<1> USE UpstreamAssumption DEF ServerInit, Upstreams
<1>1. IInv
  BY InitIInv
<1>2. ServerTypes
  <2>1. maxRetry \in Nat
    BY <1>1, LookupAssumption DEF IInv, TypeOK
  <2> QED BY <2>1 DEF ServerTypes
<1>3. Warnings /\ UpstreamPassedForCause
  BY DEF Warnings, UpstreamPassedForCause, PassedUpstreams
<1>4. Stage /\ Answered
  BY DEF Stage, Answered, Init
<1> QED BY <1>1, <1>2, <1>3, <1>4 DEF GInv

----------------------------------------------------------------------------
(* One lemma for each way a step changes the state.                        *)

frame == <<options, request, upstream, current, tried, warned>>

\* What the loop over the upstreams wrote stays as it is.
LEMMA SameUpstreams ==
  ASSUME GInv, UNCHANGED <<maxRetry, frame>>
  PROVE  Warnings' /\ UpstreamPassedForCause'
BY DEF GInv, Warnings, UpstreamPassedForCause, PassedUpstreams, AsksUpstream, frame

\* The handler responds, with cause.
LEMMA Responds ==
  ASSUME GInv, UNCHANGED <<vars, frame>>,
         NEW code \in {200, 302, 400, 404, 499, 500}, NEW from \in {0} \cup Upstreams,
         Justified(code, from), phase' = "done",
         response' = [code |-> code, from |-> from]
  PROVE  GInv'
<1>1. IInv'
  BY NextIInv DEF GInv
<1>2. ServerTypes'
  BY DEF GInv, ServerTypes, vars, frame
<1>3. Warnings' /\ UpstreamPassedForCause'
  BY SameUpstreams DEF vars
<1>4. Justified(code, from)'
  BY DEF Justified, BadRequest, ServerFault, StoppedAt, LayerFound, AsksUpstream, vars, frame
<1>5. Stage' /\ Answered'
  BY <1>4 DEF Stage, Answered
<1> QED BY <1>1, <1>2, <1>3, <1>5 DEF GInv

\* The handler goes on to its next phase.
LEMMA GoesOn ==
  ASSUME GInv, UNCHANGED <<vars, frame, response>>, phase # "done",
         \/ phase' = "upstream" /\ outcome = NotDone
         \/ phase' = "lookup"
         \/ phase' = "blob" /\ LayerFound /\ request.method = "GET"
  PROVE  GInv'
<1>1. IInv'
  BY NextIInv DEF GInv
<1>2. ServerTypes'
  BY DEF GInv, ServerTypes, vars, frame
<1>3. Warnings' /\ UpstreamPassedForCause'
  BY SameUpstreams DEF vars
<1>4. Stage' /\ Answered'
  BY DEF GInv, Stage, Answered, LayerFound, vars, frame
<1> QED BY <1>1, <1>2, <1>3, <1>4 DEF GInv

\* The loop leaves an upstream, with cause.
LEMMA LeavesUpstream ==
  ASSUME GInv, NEW u \in Upstreams, Checking(u), NextUpstream,
         UNCHANGED <<vars, options, request, upstream, phase, warned, response>>,
         upstream[u] = "lacks" \/ warned[u] = maxRetry - 1
  PROVE  GInv'
<1> USE UpstreamAssumption DEF Upstreams, Checking, NextUpstream
<1>1. IInv'
  BY NextIInv DEF GInv
<1>2. ServerTypes'
  BY DEF GInv, ServerTypes, vars
<1>3. Warnings'
  BY DEF GInv, ServerTypes, Warnings, AsksUpstream, vars
<1>4. UpstreamPassedForCause'
  BY DEF GInv, ServerTypes, UpstreamPassedForCause, PassedUpstreams, AsksUpstream, vars
<1>5. Stage' /\ Answered'
  BY DEF GInv, Stage, Answered, vars
<1> QED BY <1>1, <1>2, <1>3, <1>4, <1>5 DEF GInv

\* A query of an upstream fails and is repeated.
LEMMA FailsUpstream ==
  ASSUME GInv, NEW u \in Upstreams, UpstreamFails(u)
  PROVE  GInv'
<1> USE UpstreamAssumption DEF Upstreams, UpstreamFails, QueryLeft, Checking, Requery
<1>1. IInv'
  BY NextIInv DEF GInv
<1>2. /\ maxRetry \in Nat /\ tried \in Nat /\ tried >= 1 /\ tried < maxRetry
      /\ warned \in [Upstreams -> Nat] /\ current = u /\ warned[u] = tried - 1
  BY LookupAssumption DEF GInv, IInv, TypeOK, ServerTypes, Warnings
<1>3. ServerTypes'
  <2>1. tried + 1 \in 1..maxRetry /\ warned[u] + 1 \in 0..maxRetry
    BY <1>2
  <2> QED BY <2>1 DEF GInv, ServerTypes, vars
<1>4. Warnings'
  BY <1>2 DEF GInv, Warnings, AsksUpstream, vars
<1>5. UpstreamPassedForCause'
  BY <1>2 DEF GInv, UpstreamPassedForCause, PassedUpstreams, AsksUpstream, vars
<1>6. Stage' /\ Answered'
  BY DEF GInv, Stage, Answered, vars
<1> QED BY <1>1, <1>3, <1>4, <1>5, <1>6 DEF GInv

\* The registry answers the lookup, or another client puts the key.
RegistryStep == LookupStep \/ (OtherPut /\ UNCHANGED serverVars)

LEMMA AsksRegistry == GInv /\ RegistryStep => GInv'
<1> SUFFICES ASSUME GInv, RegistryStep PROVE GInv'
  OBVIOUS
<1> USE DEF RegistryStep
<1>1. IInv'
  BY NextIInv DEF GInv, LookupStep, Next
<1>2. UNCHANGED serverVars /\ UNCHANGED <<maxRetry, frame>>
  BY DEF LookupStep, Lookup, Refuse, Pulled, Unknown, Failed, Exhausted, NotPulled,
         OtherPut, serverVars, frame
<1>3. ServerTypes'
  BY <1>2 DEF GInv, ServerTypes, serverVars
<1>4. Warnings' /\ UpstreamPassedForCause'
  BY <1>2, SameUpstreams
<1>5. phase = "lookup" \/ UNCHANGED outcome
  BY DEF LookupStep, OtherPut
<1>6. Stage' /\ Answered'
  BY <1>2, <1>5
  DEF GInv, Stage, Answered, Justified, BadRequest, ServerFault, StoppedAt, AsksUpstream,
      LayerFound, serverVars
<1> QED BY <1>1, <1>3, <1>4, <1>6 DEF GInv

----------------------------------------------------------------------------
(* The actions.                                                            *)

LEMMA ExtractGInv == GInv /\ Extract => GInv'
<1> SUFFICES ASSUME GInv, Extract PROVE GInv'
  OBVIOUS
<1> USE NotDoneIsNoResult
<1>1. outcome = NotDone /\ UNCHANGED <<vars, frame>> /\ phase = "extract"
  BY DEF GInv, Stage, Extract, frame
<1>2. CASE request.path # "ok" /\ Respond(LocationFailureCode[request.path], 0)
  <2>1. request.path \in {"ill_formed", "bad_query", "rejected"}
    BY <1>2 DEF GInv, ServerTypes, Requests
  <2>2. LocationFailureCode[request.path] \in {400, 404, 500}
    BY <2>1 DEF LocationFailureCode
  <2>3. Justified(LocationFailureCode[request.path], 0)
    BY <1>1, <2>1 DEF Justified, LocationFailureCode, BadRequest, ServerFault
  <2> QED BY <1>1, <1>2, <2>2, <2>3, Responds DEF Respond
<1>3. CASE request.authorization = "malformed" /\ Respond(400, 0)
  <2>1. Justified(400, 0)
    BY <1>1, <1>3 DEF Justified, BadRequest
  <2> QED BY <1>1, <1>3, <2>1, Responds DEF Respond
<1>4. CASE phase' = "upstream" /\ UNCHANGED response
  BY <1>1, <1>4, GoesOn
<1> QED BY <1>2, <1>3, <1>4 DEF Extract

LEMMA CheckGInv ==
  ASSUME GInv, CheckRefuses \/ CheckDone \/ \E u \in Upstreams : BadUpstream(u)
  PROVE  GInv'
<1>1. phase = "upstream" /\ outcome = NotDone
  BY DEF GInv, Stage, CheckRefuses, CheckDone, BadUpstream, Checking
<1>2. Justified(400, 0) <=> BadRequest
  BY <1>1, NotDoneIsNoResult DEF Justified
<1>3. CASE CheckRefuses \/ \E u \in Upstreams : BadUpstream(u)
  <2>1. BadRequest
    BY <1>1, <1>3 DEF CheckRefuses, BadUpstream, Checking, BadRequest, StoppedAt
  <2> QED
    BY <1>2, <1>3, <2>1, Responds DEF CheckRefuses, BadUpstream, Respond, frame
<1>4. CASE CheckDone
  BY <1>1, <1>4, GoesOn DEF CheckDone, frame
<1> QED BY <1>3, <1>4

LEMMA UpstreamGInv ==
  ASSUME GInv, NEW u \in Upstreams,
         \/ UpstreamHas(u) \/ UpstreamLacks(u) \/ UpstreamFails(u)
         \/ UpstreamUnreachable(u) \/ UpstreamExhausted(u)
  PROVE  GInv'
<1>1. /\ Checking(u) /\ phase = "upstream" /\ current = u /\ AsksUpstream
      /\ outcome = NotDone
  BY DEF GInv, Stage, UpstreamHas, UpstreamLacks, UpstreamFails, UpstreamUnreachable,
         UpstreamExhausted, QueryLeft, Checking
<1>2. CASE UpstreamHas(u)
  <2>1. Justified(302, u)
    BY <1>1, <1>2, NotDoneIsNoResult DEF Justified, UpstreamHas
  <2>2. /\ phase' = "done" /\ response' = [code |-> 302, from |-> u]
        /\ UNCHANGED <<vars, frame>>
    BY <1>2 DEF UpstreamHas, Respond, frame
  <2>3. u \in {0} \cup Upstreams
    OBVIOUS
  <2> QED BY <2>1, <2>2, <2>3, Responds
<1>3. CASE UpstreamLacks(u)
  BY <1>1, <1>3, LeavesUpstream DEF UpstreamLacks
<1>4. CASE UpstreamFails(u)
  BY <1>4, FailsUpstream
<1>5. CASE UpstreamUnreachable(u)
  <2>1. upstream[u] \in {"has", "lacks"}
    BY <1>5 DEF UpstreamUnreachable, QueryLeft, GInv, ServerTypes
  <2>2. Justified(500, 0)
    BY <1>1, <2>1, NotDoneIsNoResult DEF Justified, ServerFault, StoppedAt
  <2> QED BY <1>5, <2>2, Responds DEF UpstreamUnreachable, Respond, frame
<1>6. CASE UpstreamExhausted(u)
  <2>1. maxRetry \in Nat /\ tried \in Nat /\ maxRetry >= 1 /\ (tried = 1 \/ tried <= maxRetry)
    BY <1>1, LookupAssumption DEF GInv, IInv, TypeOK, ServerTypes, Checking
  <2>2. warned[u] = maxRetry - 1
    BY <1>1, <1>6, <2>1 DEF UpstreamExhausted, GInv, Warnings
  <2> QED BY <1>1, <1>6, <2>2, LeavesUpstream DEF UpstreamExhausted
<1> QED BY <1>2, <1>3, <1>4, <1>5, <1>6

\* HEAD, and the blob of GET: a layer that is no item is an error of Response.
LEMMA RespondItemGInv ==
  ASSUME GInv, LayerFound, UNCHANGED <<vars, frame>>,
         RespondItem \/ (request.method = "GET" /\ Respond(400, 0))
  PROVE  GInv'
<1>1. outcome.result # "none"
  BY ItemsAssumption DEF LayerFound, Failures
<1>2. CASE outcome.result \in Items /\ Respond(200, 0)
  <2>1. Justified(200, 0)
    BY <1>1, <1>2 DEF Justified
  <2> QED BY <1>2, <2>1, Responds DEF Respond
<1>3. CASE outcome.result \notin Items /\ Respond(500, 0)
  <2>1. Justified(500, 0)
    BY <1>1, <1>3 DEF Justified, LayerFound, ServerFault
  <2> QED BY <1>3, <2>1, Responds DEF Respond
<1>4. CASE request.method = "GET" /\ Respond(400, 0)
  <2>1. Justified(400, 0)
    BY <1>1, <1>4 DEF Justified, BadRequest
  <2> QED BY <1>4, <2>1, Responds DEF Respond
<1> QED BY <1>2, <1>3, <1>4 DEF RespondItem

LEMMA LookupGInv ==
  ASSUME GInv, LookupFound \/ LookupFailed \/ PullBlob
  PROVE  GInv'
<1>1. phase # "done" /\ UNCHANGED <<vars, frame>>
  BY DEF LookupFound, LookupFailed, PullBlob, frame
<1>2. CASE LookupFound
  BY <1>1, <1>2, RespondItemGInv, GoesOn DEF LookupFound
<1>3. CASE LookupFailed
  <2> DEFINE k == FailureCode(outcome.result)
  <2>1. /\ k \in {400, 404, 500}
        /\ k = 404 <=> outcome.result = "none"
        /\ k = 500 <=> outcome.result = "retry_all_fails"
    BY DEF FailureCode
  <2>2. k = 400 => BadRequest
    <3> SUFFICES ASSUME outcome.result \notin {"none", "retry_all_fails"}
                 PROVE  BadRequest
      BY <2>1
    <3>1. outcome # NotDone /\ ~LayerFound /\ outcome \in Outcomes
      BY <1>3 DEF LookupFailed, GInv, IInv, TypeOK
    <3>2. outcome.result # "running"
      BY <3>1, ItemsAssumption DEF Outcomes, NotDone, Manifests, Foreign
    <3>3. outcome.result \in Foreign \/ outcome.result = "invalid_max_retry"
      BY <3>1, <3>2 DEF Outcomes, Failures, Manifests, LayerFound
    <3>4. CASE outcome.result = "invalid_max_retry"
      BY <3>4 DEF GInv, IInv, Concluded, BadRequest
    <3>5. CASE outcome.result \in Foreign
      BY <3>1, <3>5 DEF LayerFound, BadRequest
    <3> QED BY <3>3, <3>4, <3>5
  <2>3. Justified(k, 0)
    BY <2>1, <2>2 DEF Justified, ServerFault
  <2>4. phase' = "done" /\ response' = [code |-> k, from |-> 0]
    BY <1>3 DEF LookupFailed, Respond
  <2> HIDE DEF k
  <2> QED BY <1>1, <2>1, <2>3, <2>4, Responds
<1>4. CASE PullBlob
  <2>1. LayerFound /\ request.method = "GET"
    BY <1>4 DEF PullBlob, GInv, Stage
  <2> QED BY <1>1, <1>4, <2>1, RespondItemGInv DEF PullBlob
<1> QED BY <1>2, <1>3, <1>4

LEMMA DisconnectGInv == GInv /\ Disconnect => GInv'
<1> SUFFICES ASSUME GInv, Disconnect PROVE GInv'
  OBVIOUS
<1>1. Justified(499, 0)
  BY DEF Justified
<1> QED BY <1>1, Responds DEF Disconnect, Cancelled, frame

LEMMA NextGInv == GInv /\ [ServerNext]_allVars => GInv'
<1> SUFFICES ASSUME GInv, [ServerNext]_allVars PROVE GInv'
  OBVIOUS
<1>1. CASE UNCHANGED allVars
  <2>1. UNCHANGED vars /\ UNCHANGED serverVars /\ UNCHANGED <<maxRetry, frame>>
    BY <1>1 DEF allVars, vars, serverVars, frame
  <2>2. IInv'
    BY <2>1, NextIInv DEF GInv
  <2>3. ServerTypes' /\ Stage' /\ Answered'
    BY <2>1
    DEF GInv, ServerTypes, Stage, Answered, Justified, BadRequest, ServerFault, StoppedAt,
        AsksUpstream, LayerFound, serverVars, vars
  <2> QED BY <2>1, <2>2, <2>3, SameUpstreams DEF GInv
<1>2. CASE CheckRefuses \/ CheckDone \/ \E u \in Upstreams : BadUpstream(u)
  BY <1>2, CheckGInv
<1>3. ASSUME NEW u \in Upstreams,
             \/ UpstreamHas(u) \/ UpstreamLacks(u) \/ UpstreamFails(u)
             \/ UpstreamUnreachable(u) \/ UpstreamExhausted(u)
      PROVE  GInv'
  BY <1>3, UpstreamGInv
<1>4. CASE RegistryStep
  BY <1>4, AsksRegistry
<1>5. CASE LookupFound \/ LookupFailed \/ PullBlob
  BY <1>5, LookupGInv
<1>6. CASE Extract \/ Disconnect
  BY <1>6, ExtractGInv, DisconnectGInv
<1>7. CASE Handle
  <2>1. CASE \E u \in Upstreams :
               \/ BadUpstream(u) \/ UpstreamHas(u) \/ UpstreamLacks(u)
               \/ UpstreamFails(u) \/ UpstreamUnreachable(u) \/ UpstreamExhausted(u)
    BY <1>2, <1>3, <2>1
  <2> QED BY <1>2, <1>4, <1>5, <1>6, <1>7, <2>1 DEF Handle, RegistryStep
<1> QED
  BY <1>1, <1>4, <1>6, <1>7 DEF ServerNext, Served, RegistryStep

----------------------------------------------------------------------------

\* The state of a request has its type, and no loop over queries counts beyond
\* max_retry.
THEOREM ServerTypeCorrect == ServerSpec => []ServerTypeOK
<1>1. ASSUME GInv PROVE ServerTypeOK
  <2>1. response \in [code : {0, 200, 400, 404, 499, 500}, from : {0}]
                       \cup [code : {302}, from : Upstreams]
    BY <1>1 DEF GInv, Stage, Answered, Justified, NoResponse
  <2> QED BY <1>1, <2>1 DEF GInv, IInv, ServerTypes, ServerTypeOK
<1> QED BY <1>1, InitGInv, NextGInv, PTL DEF ServerSpec

\* A redirect goes to the first upstream that can serve the key: each one
\* before it said it lacks the key or failed max_retry - 1 queries.
THEOREM UpstreamsPassedForCause == ServerSpec => []UpstreamPassedForCause
<1>1. GInv => UpstreamPassedForCause
  BY DEF GInv
<1> QED BY <1>1, InitGInv, NextGInv, PTL DEF ServerSpec

\* A key that is the registry's business alone is never redirected, and no
\* upstream that is down makes its request fail.
THEOREM RegistryServesItsOwn == ServerSpec => []RegistryOnly
<1>1. ASSUME GInv PROVE RegistryOnly
  <2>1. CASE AsksUpstream
    BY <1>1, <2>1 DEF RegistryOnly, AsksUpstream, GInv, ServerTypes, Requests
  <2>2. CASE ~AsksUpstream
    <3>1. \A u \in Upstreams : warned[u] = 0
      BY <1>1, <2>2 DEF GInv, Warnings
    <3>2. /\ response.code # 302
          /\ response.code = 500 =>
               \/ request.path = "rejected"
               \/ outcome.result \in {"bad_content_type", "retry_all_fails"}
      BY <1>1, <2>2
      DEF GInv, Stage, Answered, Justified, ServerFault, StoppedAt, NoResponse
    <3> QED BY <3>1, <3>2 DEF RegistryOnly
  <2> QED BY <2>1, <2>2
<1> QED BY <1>1, InitGInv, NextGInv, PTL DEF ServerSpec

\* For every registry, upstreams and --max-retry each status has one of its
\* causes, and a 404 for a key means that every reference was unknown or gave
\* max_retry - 1 errors.
THEOREM StatusesNameCauses == ServerSpec => []StatusNamesCause
<1>1. ASSUME GInv PROVE StatusNamesCause
  <2>1. /\ response.code = 200 => outcome.result \in Items
        /\ response.code = 302 => upstream[response.from] = "has" /\ outcome = NotDone
        /\ response.code = 400 => BadRequest
        /\ response.code = 500 => ServerFault
        /\ response.code = 404 => request.path = "ill_formed" \/ outcome.result = "none"
        /\ outcome.result = "none" /\ phase = "done" => response.code \in {404, 499}
    BY <1>1 DEF GInv, Stage, Answered, Justified, NoResponse
  <2>2. outcome.result = "none" => \A i \in References : i < ref
    BY <1>1, LookupAssumption DEF GInv, IInv, TypeOK, Concluded, References
  <2>3. outcome.result = "none" =>
          \A i \in References : i \in unknown \/ refErrors[i] = maxRetry - 1
    BY <1>1, <2>2 DEF GInv, IInv, PassedForCause, Passed
  <2> QED BY <2>1, <2>3 DEF StatusNamesCause
<1> QED BY <1>1, InitGInv, NextGInv, PTL DEF ServerSpec

\* What a request does is a step of its lookup, or none: extractors, upstream
\* check, blob and disconnect leave the lookup alone.
LEMMA ServerLookupStep == [ServerNext]_allVars => [Next]_vars
<1> SUFFICES ASSUME [ServerNext]_allVars PROVE [Next]_vars
  OBVIOUS
<1>1. CASE LookupStep
  BY <1>1 DEF LookupStep, Next
<1>2. CASE OtherPut
  BY <1>2 DEF Next
<1>3. CASE Extract \/ CheckRefuses \/ CheckDone
  BY <1>3 DEF Extract, CheckRefuses, CheckDone
<1>4. ASSUME NEW u \in Upstreams,
             \/ BadUpstream(u) \/ UpstreamHas(u) \/ UpstreamLacks(u) \/ UpstreamFails(u)
             \/ UpstreamUnreachable(u) \/ UpstreamExhausted(u)
      PROVE  UNCHANGED vars
  BY <1>4 DEF BadUpstream, UpstreamHas, UpstreamLacks, UpstreamFails, UpstreamUnreachable,
             UpstreamExhausted
<1>5. CASE LookupFound \/ LookupFailed \/ PullBlob
  BY <1>5 DEF LookupFound, LookupFailed, PullBlob
<1>6. CASE Disconnect \/ Served \/ UNCHANGED allVars
  BY <1>6 DEF Disconnect, Served, allVars
<1> QED
  BY <1>1, <1>2, <1>3, <1>4, <1>5, <1>6 DEF ServerNext, Handle

\* A GET or HEAD implements LayerLookup, so that what is proved of a lookup
\* holds of the one in the server, whenever the client hangs up.
THEOREM ServerLooksUp == ServerSpec => Spec
<1>1. ServerInit => Init
  BY DEF ServerInit
<1> QED BY <1>1, ServerLookupStep, PTL DEF ServerSpec, Spec

\* So also in the server a reference is passed over only for cause.
THEOREM ServerPassesForCause == ServerSpec => []PassedForCause
BY ServerLooksUp, ReferencesPassedForCause, PTL
=============================================================================
