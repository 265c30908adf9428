----------------------------- MODULE ServerGet -----------------------------
(***************************************************************************)
(* One GET or HEAD request to `oranc server', from the extractors to the   *)
(* response: ask the upstream caches, redirect to the first that has the   *)
(* key, else look it up in the registry (module LayerLookup) and, for GET, *)
(* start the stream of its blob.  Upstream caches are external.            *)
(***************************************************************************)
EXTENDS LayerLookup

CONSTANT UpstreamCount  \* how many --upstream there are

ASSUME UpstreamAssumption == UpstreamCount \in Nat

Upstreams == 1..UpstreamCount

VARIABLES
  options,   \* --upstream-anonymous
  request,   \* what of the request matters here
  upstream,  \* upstream[u]: an URL that cannot be a base, or what the cache has
  phase,     \* where the handler is
  current,   \* the upstream of the loop in upstream::check
  tried,     \* its loop variable `attempt'
  warned,    \* warned[u]: failed queries of u, as logged
  response   \* the response, once there is one

serverVars == <<options, request, upstream, phase, current, tried, warned, response>>
allVars == <<vars, serverVars>>

Requests ==
  [method : {"GET", "HEAD"},
   path : {"ok", "ill_formed", "bad_query", "rejected"},
   authorization : {"none", "valid", "malformed"},
   ignored : BOOLEAN]  \* whether the key matches --ignore-upstream

NoResponse == [code |-> 0, from |-> 0]
Cancelled == [code |-> 499, from |-> 0]

ServerTypeOK ==
  /\ TypeOK
  /\ options \in [upstream_anonymous : BOOLEAN]
  /\ request \in Requests
  /\ upstream \in [Upstreams -> {"has", "lacks", "opaque"}]
  /\ phase \in {"extract", "upstream", "lookup", "blob", "done"}
  /\ current \in 1..(UpstreamCount + 1)
  /\ tried \in 1..maxRetry \cup {1}
  /\ warned \in [Upstreams -> 0..maxRetry]
  /\ response \in [code : {0, 200, 400, 404, 499, 500}, from : {0}]
                    \cup [code : {302}, from : Upstreams]

ServerInit ==
  /\ Init
  /\ options \in [upstream_anonymous : BOOLEAN]
  /\ request \in Requests
  /\ upstream \in [Upstreams -> {"has", "lacks", "opaque"}]
  /\ phase = "extract"
  /\ current = 1
  /\ tried = 1
  /\ warned = [u \in Upstreams |-> 0]
  /\ response = NoResponse

----------------------------------------------------------------------------

Respond(code, from) ==
  /\ phase' = "done"
  /\ response' = [code |-> code, from |-> from]

\* The OciLocation is extracted first, then the credentials: a path axum
\* rejects, a query string that does not parse, a path of too few parts.
LocationFailureCode == [rejected |-> 500, bad_query |-> 400, ill_formed |-> 404]

Extract ==
  /\ phase = "extract"
  /\ \/ request.path # "ok" /\ Respond(LocationFailureCode[request.path], 0)
     \/ request.path = "ok" /\ request.authorization = "malformed" /\ Respond(400, 0)
     \/ /\ request.path = "ok"
        /\ request.authorization # "malformed"
        /\ phase' = "upstream"
        /\ UNCHANGED response
  /\ UNCHANGED <<vars, options, request, upstream, current, tried, warned>>

\* upstream::check refuses max_retry = 0 before anything else.
CheckRefuses ==
  /\ phase = "upstream"
  /\ maxRetry < 1
  /\ Respond(400, 0)
  /\ UNCHANGED <<vars, options, request, upstream, current, tried, warned>>

\* Mutant: the pattern is not looked at.
AsksAlwaysWithAuth ==
  request.authorization = "valid" \/ options.upstream_anonymous

\* Whether upstreams are asked at all.
AsksUpstream ==
  /\ request.authorization = "valid" \/ options.upstream_anonymous
  /\ ~request.ignored

Checking(u) ==
  /\ phase = "upstream"
  /\ maxRetry >= 1
  /\ AsksUpstream
  /\ current = u

CheckDone ==
  /\ phase = "upstream"
  /\ maxRetry >= 1
  /\ ~AsksUpstream \/ current > UpstreamCount
  /\ phase' = "lookup"
  /\ UNCHANGED <<vars, options, request, upstream, current, tried, warned, response>>

\* upstream_url fails on a base such as `mailto:x'.
BadUpstream(u) ==
  /\ Checking(u)
  /\ upstream[u] = "opaque"
  /\ Respond(400, 0)
  /\ UNCHANGED <<vars, options, request, upstream, current, tried, warned>>

QueryLeft(u) == Checking(u) /\ upstream[u] # "opaque" /\ tried < maxRetry

\* Mutant: 0..max_retry.
NextUpstreamFromZero ==
  /\ current' = current + 1
  /\ tried' = 0

\* Mutant: an upstream is not left.
SameUpstream == UNCHANGED <<current, tried>>

NextUpstream ==
  /\ current' = current + 1
  /\ tried' = 1

\* 200: the client is sent there.
UpstreamHas(u) ==
  /\ QueryLeft(u)
  /\ upstream[u] = "has"
  /\ Respond(302, u)
  /\ UNCHANGED <<vars, options, request, upstream, current, tried, warned>>

\* 404.
UpstreamLacks(u) ==
  /\ QueryLeft(u)
  /\ upstream[u] = "lacks"
  /\ NextUpstream
  /\ UNCHANGED <<vars, options, request, upstream, phase, warned, response>>

\* Mutant: any other status is taken for 404.
NoRequery == NextUpstream

Requery ==
  /\ tried' = tried + 1
  /\ UNCHANGED current

\* Any other status.
UpstreamFails(u) ==
  /\ QueryLeft(u)
  /\ Requery
  /\ warned' = [warned EXCEPT ![u] = @ + 1]
  /\ UNCHANGED <<vars, options, request, upstream, phase, response>>

\* No status at all (`.await?'): the request fails, with no other try.
UpstreamUnreachable(u) ==
  /\ QueryLeft(u)
  /\ Respond(500, 0)
  /\ UNCHANGED <<vars, options, request, upstream, current, tried, warned>>

UpstreamExhausted(u) ==
  /\ Checking(u)
  /\ upstream[u] # "opaque"
  /\ tried >= maxRetry
  /\ NextUpstream
  /\ UNCHANGED <<vars, options, request, upstream, phase, warned, response>>

\* A step of get_layer_info.
LookupStep ==
  /\ phase = "lookup"
  /\ Lookup
  /\ UNCHANGED serverVars

\* Mutant: a missing key is reported like any other failure.
FailureCodeUniform(result) == IF result = "retry_all_fails" THEN 500 ELSE 400

\* Error::code of what get_layer_info returned instead of a layer.
FailureCode(result) ==
  CASE result = "none" -> 404
    [] result = "retry_all_fails" -> 500
    [] OTHER -> 400

\* get_layer_info returned a layer.
LayerFound == outcome.result \in Items \cup {"bad_content_type"}

\* Response::builder, which refuses a header value that is none: Error::Http.
RespondItem == Respond(IF outcome.result \in Items THEN 200 ELSE 500, 0)

\* The layer is found: HEAD is answered, GET goes on to the blob.
LookupFound ==
  /\ phase = "lookup"
  /\ LayerFound
  /\ \/ request.method = "HEAD" /\ RespondItem
     \/ request.method = "GET" /\ phase' = "blob" /\ UNCHANGED response
  /\ UNCHANGED <<vars, options, request, upstream, current, tried, warned>>

LookupFailed ==
  /\ phase = "lookup"
  /\ outcome # NotDone
  /\ ~LayerFound
  /\ Respond(FailureCode(outcome.result), 0)
  /\ UNCHANGED <<vars, options, request, upstream, current, tried, warned>>

\* pull_blob_stream: the response begins, or Error::OciDistribution.
PullBlob ==
  /\ phase = "blob"
  /\ RespondItem \/ Respond(400, 0)
  /\ UNCHANGED <<vars, options, request, upstream, current, tried, warned>>

\* The client hangs up and the handler is dropped where it waits.
Disconnect ==
  /\ phase # "done"
  /\ phase' = "done"
  /\ response' = Cancelled
  /\ UNCHANGED <<vars, options, request, upstream, current, tried, warned>>

Handle ==
  \/ Extract
  \/ CheckRefuses
  \/ CheckDone
  \/ \E u \in Upstreams :
       \/ BadUpstream(u)
       \/ UpstreamHas(u)
       \/ UpstreamLacks(u)
       \/ UpstreamFails(u)
       \/ UpstreamUnreachable(u)
       \/ UpstreamExhausted(u)
  \/ LookupStep
  \/ LookupFound
  \/ LookupFailed
  \/ PullBlob

Served ==
  /\ phase = "done"
  /\ UNCHANGED allVars

ServerNext ==
  \/ Handle
  \/ Disconnect
  \/ OtherPut /\ UNCHANGED serverVars
  \/ Served

ServerSpec == ServerInit /\ [][ServerNext]_allVars

\* The task of the request is polled; upstreams and registry answer each query
\* or fail.
FairServerSpec == ServerSpec /\ WF_allVars(Handle)

----------------------------------------------------------------------------
(* Properties.                                                             *)

\* The upstreams a redirect or a lookup has left behind.
PassedUpstreams == IF AsksUpstream THEN { u \in Upstreams : u < current } ELSE {}

\* An upstream is passed over, and the next one or the registry asked, only if
\* it said it lacks the key or max_retry - 1 queries on it failed.  (With
\* max_retry 1 there are none: no upstream is asked.)
UpstreamPassedForCause ==
  \A u \in PassedUpstreams : upstream[u] = "lacks" \/ warned[u] = maxRetry - 1

\* A key matched by --ignore-upstream (nix-cache-info), or asked for without
\* credentials, is the business of the registry alone: never a redirect, and
\* no upstream that is down makes the request fail.
RegistryOnly ==
  request.ignored \/ (request.authorization = "none" /\ ~options.upstream_anonymous) =>
    /\ response.code # 302
    /\ \A u \in Upstreams : warned[u] = 0
    /\ response.code = 500 =>
         \/ request.path = "rejected"
         \/ outcome.result \in {"bad_content_type", "retry_all_fails"}

\* The check ended at an upstream of that kind.
StoppedAt(kinds) ==
  AsksUpstream /\ current \in Upstreams /\ upstream[current] \in kinds /\ outcome = NotDone

\* What a client is told is its own fault, or the configuration's (400): a
\* query or credentials that do not parse, max_retry 0, an --upstream that is
\* no base, a manifest that is not oranc's, a blob the registry does not give.
BadRequest ==
  \/ request.path = "bad_query"
  \/ request.authorization = "malformed"
  \/ maxRetry < 1
  \/ StoppedAt({"opaque"})
  \/ outcome.result \in Foreign \ {"bad_content_type"}
  \/ request.method = "GET" /\ LayerFound

\* What is told to be the server's (500): a path axum rejects, an upstream that
\* was asked and cannot be reached, a content type no header can carry, and
\* references that failed.
ServerFault ==
  \/ request.path = "rejected"
  \/ StoppedAt({"has", "lacks"})
  \/ outcome.result \in {"bad_content_type", "retry_all_fails"}

\* Each status has its cause, on which Nix decides whether to go on to its next
\* cache: 404 is a path of too few parts or a lookup that left every reference
\* behind, as unknown or after max_retry - 1 errors, and such a lookup has no
\* other status.  (That the errors alone give a 404 is what NoneMeansNotFound
\* refutes of the lookup.)
StatusNamesCause ==
  /\ response.code = 200 => outcome.result \in Items
  /\ response.code = 302 => upstream[response.from] = "has" /\ outcome = NotDone
  /\ response.code = 400 => BadRequest
  /\ response.code = 500 => ServerFault
  /\ response.code = 404 =>
       \/ request.path = "ill_formed"
       \/ /\ outcome.result = "none"
          /\ \A i \in References : i \in unknown \/ refErrors[i] = maxRetry - 1
  /\ outcome.result = "none" /\ phase = "done" => response.code \in {404, 499}

\* Every request is answered, or its client has gone.
RequestEnds == <>(phase = "done")
=============================================================================
