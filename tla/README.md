# A TLA+ model of oranc

oranc stores a Nix binary cache in an OCI registry. It has two faces:

- `oranc push` reads store paths from its input, computes their closure in the
  Nix database, makes a NAR and a signed narinfo of every path, and puts both
  into the registry;
- `oranc server` is an HTTP binary cache: GET and HEAD redirect to an upstream
  cache or answer from the registry, PUT writes to it.

This directory holds TLA+ modules for the parts of it in which something can
go wrong between two steps, TLC runs on small instances, and TLAPS proofs.
Line numbers are those of `src/src/*.rs`; `PROJECT.json` maps each definition
to the lines it stands for.

## 1. Inventory

| component | state it keeps | operations | talks to |
|---|---|---|---|
| input of push (`nix.rs:43-75`) | the path reached so far | accept, follow a link, reject | file system |
| Nix database access (`nix.rs:77-235`) | none (one read-only connection per thread) | one SELECT each: id of a path, references of an id, `sigs`, row of an id | sqlite database, written by Nix |
| collection (`push.rs:257-296`) | lines read, work queue, ids found, ids that passed the filter | open the database, read stdin, canonicalize, resolve, closure, read the key, filter | stdin, file system, database |
| push tasks (`push.rs:108-260`, `298-320`) | shared flag `failed`; one task per path | early stop, blocking part (query, encode, compare, sign), two puts, result, verdict | database, disk, registry |
| registry put (`registry.rs:245-305`) | loop variable | retry loop around one push of blob, config and manifest | OCI registry |
| registry lookup (`registry.rs:115-240`) | reference, attempt, collected errors | pull a manifest, next reference, validate | OCI registry |
| server, GET and HEAD (`server.rs`, `server/upstream.rs`, `server/auth.rs`) | per request: upstream, attempt | extract, ask upstreams, redirect, look up, stream | HTTP client, upstream caches, registry |
| server, PUT (`server.rs:126`) | per request: the body | extract location, credentials, content type and body (2 MB at most); one registry put; the status | HTTP client, registry |
| request parsing (`registry.rs:59-102`, `server/auth.rs`) | none | path, query and credentials to location and auth | |
| tag encoding (`convert.rs`) | none | key to tag and back; two encodings, one the main one, any number of them fallbacks | |
| signatures and narinfo (`nix/sign.rs`, `nix.rs`) | none | parse, sign, merge, render | |
| error to status (`error.rs:120-163`) | none | one status per error | |
| push initialize (`push.rs`) | none | one put of `nix-cache-info` | registry |
| options, packaging, CI | none | | |

How they interact:

- *Push and Nix* share the database. oranc only reads, each SELECT on its own;
  Nix registers, collects and signs between two of them. The same row is read
  up to five times in one push (resolve, closure, filter, and twice in its
  task), and nothing guarantees that the five answers agree.
- *Push tasks* share the flag `failed` and run up to `--parallel` at once.
- *Everyone* shares the registry. It has no transaction over several items, a
  request that fails at the client may still have had its effect, and readers
  look at it at any time.
- *The server* keeps no state between requests; a GET goes through upstreams,
  lookup and blob in this order, a PUT through one registry put, and either is
  dropped at any await when its client hangs up.
- *Push and server* meet in the registry only. They must agree on the
  repository, the key and the tag of an item: push is given registry and
  repository as options, the server takes them from the URL, and both encode
  the key by options that may have been others when the item was put.

What is hard (PROJECT.json, "hazards", has each at its line): reads of the
database that disagree; the order of NAR and narinfo under retries, requests
that arrive late, crashes and reruns; a failure of one task among several and
the verdict; loops that run one time less than their name says; the distinction
between "not there" and "could not be asked"; PUTs of one key that overtake
each other; items put under an encoding that is now a fallback; links that go
round in a circle; the line and the path reached from it, one of which may be
taken for the other.

What makes each component correct:

| component | property |
|---|---|
| input | what a line is called is so by where its links lead; the loop ends unless they are circular |
| collection | the exact closure or an error; a path is left out only for a signature; it ends once its input does |
| push tasks | a narinfo has its NAR and describes its path; the verdict is honest; no new work after a failure; a dry run writes nothing; the push ends |
| push as a whole | after Ok the closure of the input is listed or carries an excluding signature; it ends once its input does |
| lookup | a reference is passed over only for cause; "none" means not found; it ends |
| server, GET | an upstream is passed over only for cause; ignored and anonymous requests never leave the registry; each status has its cause; every request ends |
| server, PUT | the status says what became of the item; acknowledged PUTs keep their order; what was acknowledged is found; every PUT is answered |
| tag encoding | an item is found by every URL as long as one of its encodings is configured, and it is the newest unless the encodings were rolled back; keys do not share a tag; a tag decodes to its key and is one a registry accepts |

## 2. Modules

| module | models | composed with |
|---|---|---|
| `NixDb` | the database and its other users | extended by `CollectPaths` and `PushTasks` |
| `StorePathInput` | `canonicalize_store_path_input` | |
| `CollectPaths` | push from the input to the filtered ids | `NixDb` |
| `PushTasks` | the tasks, `registry::put`, the registry as push sees it, crash and rerun | `NixDb`; implements `BinaryCache` |
| `BinaryCache` | abstract: what a pusher promises to readers | |
| `PushSystem` | a whole push | `CollectPaths`, then `PushTasks`, on one database; implements `PushTasks` |
| `LayerLookup` | `get_layer_info` | extended by `ServerGet` and `ServerPut` |
| `ServerGet` | one GET or HEAD request with its upstream check | `LayerLookup`, which it implements |
| `ServerPut` | concurrent PUTs of one key | beside a lookup on one registry; implements `LayerLookup` |
| `TagEncoding` | the encodings as functions on sequences of code points | extended by `TagCache` |
| `TagCache` | `OciLocation`: parsing, references; puts and lookups across reconfigurations | `TagEncoding` |
| `*_proofs` | theorems about the module of that name | TLAPS |
| `MC*` | values of constants for TLC | |

### NixDb

`valid` is the table ValidPaths, `Refs` the table Refs, `sigs` the column of
that name. A row is never inserted again after it was deleted (`deleted`): the
ids are autoincrement. `Register`, `Delete` and `Sign` are Nix and external;
their guards are the foreign keys of the schema (delete cascade for the
referrer, restrict for the reference). `QueryReferences` is the one query with
an interesting answer: a missing row has no references, and that is no error
(`nix.rs`, `query_references`). The other queries are guards of the actions
that make them.

### StorePathInput

One step per iteration of the loop. `fs` maps a location to nothing, to
something that is not a link, or to a link and its text. `InStore` tests the
line and not the path, as `nix.rs:56` does. `OutcomeOfChain` relates what the
call returns to the end of the chain of links (`LeadsTo`, a least set of
locations, with no count of steps); it leaves open whether a line that leads
into the store is accepted, which is what `ResultLinkAccepted` is about.

### CollectPaths

`pc` follows `push()`: `OpenDb`, `ReadInput`, `Canonicalize`, then one action per
SELECT, so that the database may move between any two. `stdin` is the pipe: its
writer leaves it open for as long as it likes, ends it (`EndOfInput`, which
chooses the lines) or breaks it. Of the lines, `input` has the rows of those
that canonicalize, and `stray` says whether others are rejected or lead into
circular links. With the latter `push()` may be caught in the loop of
`StorePathInput` (`Circle`), unless it meets a rejected line first. `queue` and
`result` are the deque and the set of `compute_closure`; a set that is iterated,
and a SELECT without ORDER BY, is taken in any order (`Orders`). Every `?` is the
disjunct `Fail` of its action.

### PushTasks

One task per row, `status[r]` says where it is:
`waiting -> info -> refs -> encode -> put_nar -> put_info -> ok`, with `err`
from anywhere and `early` when the flag was set before the task was first
polled. `draft[r]` is what the task read and computed. `attempt[r]` is the loop
variable of `registry::put`.

The registry is `nars` and `infos`, and `late`: writes whose client has gone
away or has seen an error and which may still be carried out. `PutFails` loses
the write or moves it to `late`; `Crash` does so with the requests under way.
`StartWith(S)` begins a run on the paths `S`, the first or a later one: it
forgets all of the task state and nothing of the registry. In this module `S`
is any subset of `Filterable`, what a filter could let through by then; in
`PushSystem` it is what the filter did let through.

A NAR stands for its content. A file changed on disk keeps its size
(`garbled`) or not (`resized`): the code compares sizes only
(`push.rs:149`). The files are taken not to change while one behaviour lasts;
rows of the database do.

### BinaryCache

Upload a content; list a path with a content that is there; announce a set of
listed paths. `PushTasks` implements it with `nars`, the NAR of each narinfo,
and the wanted paths once `push()` has returned Ok.

### PushSystem

`Collect` of `CollectPaths`, then `Begin`, which is `StartWith` on the ids the
filter let through, then `Push` of `PushTasks`, with Nix at work on the
database all the while. `TasksBehave` is the refinement: a whole push is a
behaviour of `PushTasks`, though the rows it was given were read long before.
`ClosurePublished` is the end-to-end statement: after Ok there is a closed set
that has the input and of which every path is listed in this cache or carries
a signature that excludes it. (What oranc's own signature says is that the path
was signed, not that any cache has it: the code takes it for the same.)

### LayerLookup

`ref` and `attempt` are the two loops, `refErrors[i]` and `errors` the lengths
of the vectors of errors (`ref_errors` is kept per reference so that
properties can speak of an earlier iteration). `Answers` is what the registry
may say: a manifest, which may be foreign in any of the four ways the code
checks or in one it does not check (a content type that is no header value,
which fails later, in the server), "not found" in both its forms, an error
envelope, a transport error.
`OtherPut` is any other client; `Items` are what such clients put.

### ServerGet

`phase` follows the handler: the two extractors, `upstream::check`,
`get_layer_info` (the actions of `LayerLookup`), the blob. `Disconnect` drops
the handler at any point. `FailureCode` is `Error::code` on the outcomes that
are possible here. `StatusNamesCause` has a clause for each status: `BadRequest`
lists what a 400 can be about, `ServerFault` what a 500, and a 404 is a path of
too few parts or a lookup in which every reference was unknown or failed
`max_retry - 1` times. That the latter alone should not give one is the matter
of `lookup_none`.

### ServerPut

A request is named by the item it puts. `phase[c]` follows the handler:
`extract`, `try`, `done`; `written` is a `try` whose manifest the registry has
and whose answer is still to come. `fault[c]` is what the first failing
extractor complains of, and `FaultCode` what it answers. A push of the OCI
client uploads blobs first, to which nothing refers, and the manifest last:
only the latter is a write here (`Land`). A try that fails, or is dropped when
the client hangs up, leaves no write or, in `late[c]`, one that arrives at any
later time (`LandLate`). The history variables `troubled`, `before` and `early`
record which clients had such a try, which PUTs were acknowledged when a PUT
began, and which when the lookup got its first answer; no guard reads them.

### TagEncoding and TagCache

A character is its code point, a key or a tag a sequence of them.
`CustomEncode` and `CustomDecode` are the loops of `CustomEncoding` as
functions; the underscores of a tag become brackets, counted from the left.
`BASE32_DNSSEC` and UTF-8 are external and modelled by what they compute. In
`TagCache` a location is put by push or by PUT (`Located`: what the query does
not name is split off the path) under the main encoding of the moment, and
looked up under all of them. `Reconfigure` changes the encodings between two
runs of oranc, to any of `OptionSets`: forward, back, or to one that drops an
encoding in use. `NewestFound` says for each case whether an item is found, and
whether it is the newest (`NewestFirst`).

## 3. Runs

| run | question | bounds |
|---|---|---|
| `collect_closure` | exact closure and justified exclusions, with registration, garbage collection and signing between any two queries; the collection ends once stdin has, unless caught in circular links | 4 rows: a diamond with a self-reference |
| `collect_unsigned` | README.md:80, "Only unsigned paths will be pushed": violated | 3 rows |
| `push_tasks` | order of NAR and narinfo, what a narinfo may say, verdict, early stop and dry run, across two runs; `PushTasks` implements `BinaryCache`; every run ends | 2 paths, 2 tasks, `max_retry` 3, 2 runs, 2 late writes; files intact or changed |
| `push_system` | after Ok the closure is in this cache or carries the excluding signature; the tasks get what `PushTasks` assumes; a push ends once stdin has, unless caught in circular links | 2 rows, one of which refers to both, `max_retry` 2, 1 late write |
| `lookup` | references are passed over for cause; one counts as unknown only while it has no manifest; the lookup ends | 3 references, `max_retry` 0 to 3, all envelopes or only those that name a failure |
| `lookup_none` | registry.rs:175, "all reference not found": violated | 2 references, `max_retry` 3 |
| `input_links` | each outcome is about where the chain of links arrives; the loop ends unless the links are circular | every file system of 4 locations |
| `input_result` | README.md:74, `echo ./result`: violated | 3 locations |
| `server_get` | when an upstream is passed over, what stays with the registry, the causes of each status; every request ends | 1 reference, 2 upstreams, `max_retry` 0, 1, 3 |
| `server_put` | statuses and their effects, order of acknowledged PUTs, what was acknowledged is found; PUTs look to a lookup as `LayerLookup` says; every PUT is answered | 2 clients, 2 references, `max_retry` 0, 1, 3, a registry whose failures do not claim "not found" |
| `tags` | exactly when an item is found by any URL, and when it is the newest, across encodings; mix-ups; decoding; the alphabet of tags | all keys of 1 or 2 out of 7 characters, keys of Nix's shapes, no key, 4 option sets, 2 puts |
| `tags_fit` | convert.rs:72, "A tag MUST be at most 128 characters": violated | 6 keys of Nix's shapes, 1 put |

Why the bounds are enough for these questions: an exact closure needs a shared
reference (the diamond), a self-reference, and a row that can vanish while
another is visited; four rows have all of them. Two tasks are enough for one
to fail while the other is under way and, with two wanted paths and
`Parallel = 2`, for one to begin after the other has failed. With two runs and
two late writes, a write of the first run can arrive in the middle of the
second, before or after a write to the same key. `max_retry = 3` is the default of the
option and the least value at which an attempt can be repeated; 0, 1 and 2 are
the values at which the loop runs not at all or once (the lookup and the
server runs have 0 and 1; a push run with 1 would only fail at once). Two upstreams are one
that is passed and one that is asked. Two PUTs are enough for one to overtake
the other, and `max_retry = 3`, two tries, is enough for the write of the first
to arrive after the second was answered; the registry has nothing at first, a
foreign manifest, or what one of the clients puts again. The seven characters
of `tags` are two letters that are base32 symbols (`a` and `c`), one that is so
for a decoder only (`C`), a figure, the dash that must not lead, the underscore
that brackets, and one outside ASCII; two puts are an old and a new one, under
the same reference or not.

Bounds that are not in the code: `MaxRuns` and `MaxLate` in the guards of
`PushTasks`, `MaxPuts` in that of `TagCache`. The proofs about `PushTasks` hold
for every value of its two, and no property depends on a bound being reached.
In `PushSystem` there is one run by assumption: a second one is a second
process. `Faults` and `Stored` of `ServerPut` choose among the initial states;
`server_put` has a fault of the first extractor and one of the last.

Deadlock is checked in every run; the terminated states have an explicit
stuttering step (`Ended`, `Served`, `Over`). `TagCache` has no end: the options
can always change.

### Disagreements with the documentation

- `lookup_none`: `for attempt in 1..max_retry` makes `max_retry - 1` attempts,
  but a failed reference counts only with `max_retry` errors
  (`registry.rs:165`). So a registry that keeps failing is reported as "not
  found" (404), and the branch for RetryAllFails (`registry.rs:178`) is never
  reached.
- `input_result`: the loop tests the line it was given in place of the path
  it has arrived at (`nix.rs:56`); a link into the store, such as the
  `./result` of README.md:74, is followed and then rejected.
- `collect_unsigned`: only an excluded name or oranc's own key leaves a path
  out (`nix.rs:162`); a path signed by any other key is pushed, though
  README.md:80 says that only unsigned ones are.
- `tags_fit`: `encode` (`convert.rs:108`) has no limit, and no caller checks
  the result. `log/<hash>-<name>.drv` with a name of 100 characters has a tag
  of 143, and oranc asks the registry for it, which must refuse.
Limits met on the way that no run refutes:

- `tag_to_key` (`convert.rs:32`) returns what the first encoding that accepts the
  tag makes of it, and custom accepts every base32 tag, as a key that is the tag
  itself. So with the fallback that README.md:14 gives for old caches, `oranc tag
  decode` prints the tag of an old item unchanged. `DecodesBack` leaves this case
  out; lookups encode and never decode, so they are not concerned.
- With `max_retry` 1 neither put nor lookup nor upstream check makes a request.
- A PUT of more than 2 MB is refused by axum's default (`server.rs:45` sets no
  limit).

## 4. Fairness

Liveness is stated under weak fairness of the program's own steps and of
nothing else:

- `CollectPaths`: `WF(Collect)`. The code is sequential, and after stdin it waits
  for no one. `EndOfInput` is its writer's and has no fairness: `CollectEnds`
  and `SystemEnds` begin where stdin has ended or broken. Circular links never
  end (`Circle` is a step of its own that goes nowhere), so they are excepted,
  as in `EndsUnlessCircular`.
- `StorePathInput`: `WF(Canonicalize)`, for the same reason.
- `PushTasks`: `WF(Push)`. The executor polls every task that can go on, the
  blocking part has a thread of its own, and each request to the registry ends
  with an answer or an error (assumed of the network: the code sets no timeout).
  There is no fairness that makes a request succeed.
- `PushSystem`: `WF(System)`, the steps of either half.
- `LayerLookup`, `ServerGet`: `WF(Lookup)`, `WF(Handle)`, likewise with
  upstreams.
- `ServerPut`: `WF(Handle(c))` for each client: each request is a task of its
  own, and none waits for another. `Land` is the registry's and has none; a
  push that has not landed can still fail.

Users of the database, crashes, reruns, late writes, disconnects and puts by
others have none: they may happen or not. `TagCache` states no liveness.

`--parallel 0` is outside `PushEnds`: `buffer_unordered(0)` polls nothing and
waits for ever, even with nothing to push (the guard of `Conclude`).

## 5. Proofs

The theorems hold for all values of the constants that satisfy the named
assumptions: `RowsAssumption` (the rows are finite), `RefsAssumption`,
`SigsAssumption`, `ExcludedAssumption` (a name that is malformed matches no
pattern), `PushAssumption`, `SystemAssumption`, `LookupAssumption`,
`ItemsAssumption`, `UpstreamAssumption`, `PutAssumption`, `TagAssumption`
(locations are made of Unicode scalars, the parts of a path hold no `/`). TLC
evaluates each of them in the runs. `TagCache_proofs` takes some ten minutes to check.

| theorem | says | rests on |
|---|---|---|
| `CollectPaths_proofs!TypeCorrect` | types, and the foreign keys of the database | `IInv` |
| `CollectPaths_proofs!PushesExactClosure` | `ClosureExact` | `IInv` |
| `CollectPaths_proofs!ExclusionsAreJustified` | `ExclusionJustified` | `IInv`, `RejectedJustified` |
| `PushTasks_proofs!PushTypeCorrect` | `TypeOK` | |
| `PushTasks_proofs!NarInfoAlwaysHasNar` | `NarInfoHasNar` | `Backed` |
| `PushTasks_proofs!NarInfosDescribeStore` | `DescribesStore` | `Faithful` |
| `PushTasks_proofs!PresignedNarInfosExact` | `PresignedExact` | `Faithful` |
| `PushTasks_proofs!VerdictIsHonest` | `VerdictHonest` | `Reported` |
| `PushTasks_proofs!PushImplementsCache` | `PushTasks` implements `BinaryCache` | `Backed`, `Reported` |
| `PushTasks_proofs!NothingBeginsAfterFailure` | `NothingStartsAfterFailure` | `TypeOK` |
| `PushTasks_proofs!DryRunsWriteNothing` | `DryRunWritesNothing` | `TypeOK` |
| `PushSystem_proofs!SystemTypeCorrect` | `SystemTypeOK` | `Handover` |
| `PushSystem_proofs!SystemTasksBehave` | `TasksBehave`: a push implements `PushTasks` | `FilterPassed`, `Handover` |
| `PushSystem_proofs!PushPublishesClosure` | `ClosurePublished` | `Handover`, `OnlyWanted`, `FilteredFound`, the invariants of both halves |
| `StorePathInput_proofs!InputTypeCorrect` | `TypeOK` | `IInv` |
| `StorePathInput_proofs!OutcomesOfChains` | `OutcomeOfChain` | `IInv` |
| `LayerLookup_proofs!LookupTypeCorrect` | `TypeOK` | `Counting` |
| `LayerLookup_proofs!UnknownsWereAbsent` | `UnknownWasAbsent` | the step alone |
| `LayerLookup_proofs!ReferencesPassedForCause` | `PassedForCause` | `Counting` |
| `ServerGet_proofs!ServerTypeCorrect` | `ServerTypeOK` | `Warnings`, `Answered` |
| `ServerGet_proofs!UpstreamsPassedForCause` | `UpstreamPassedForCause` | `Warnings` |
| `ServerGet_proofs!RegistryServesItsOwn` | `RegistryOnly` | `Warnings`, `Answered` |
| `ServerGet_proofs!StatusesNameCauses` | `StatusNamesCause` | `Stage`, `Answered`, `Concluded` |
| `ServerGet_proofs!ServerLooksUp` | `ServerGet` implements `LayerLookup` | the step alone |
| `ServerGet_proofs!ServerPassesForCause` | `PassedForCause`, in the server | `ServerLooksUp` |
| `ServerPut_proofs!PutTypeCorrect` | `PutTypeOK` | `Handlers` |
| `ServerPut_proofs!PutsLookAsOthers` | `LooksAsOthers`: `ServerPut` implements `LayerLookup` | the step alone |
| `ServerPut_proofs!StatusesMeanEffects` | `StatusMeansEffect` | `Handlers`, `Held` |
| `ServerPut_proofs!AcksAreOrdered` | `OrderOfAcks` | `Ordered` |
| `ServerPut_proofs!AckedItemsAreFound` | `AckedIsFound` | `EarlySeen`, `Place` |
| `TagCache_proofs!CustomEncodeInjective` | no two keys have the same custom tag | `FlattenInjective` |
| `TagCache_proofs!CustomRoundTrip` | `CustomDecode(CustomEncode(key)) = key` | `DecodesAs` |
| `TagCache_proofs!Base32EncodeInjective` | no two keys have the same base32 tag | `FlattenInjective`, `Regroup` there and back |
| `TagCache_proofs!Base32RoundTrip` | `Base32Decode(Base32Encode(key)) = key` | `ReadsAs`, `Regroup` there and back |
| `TagCache_proofs!TypeCorrect` | `TypeOK` | `Stored` |
| `TagCache_proofs!AlphabetKept` | `OnlyLengthMatters` | `TypeOK` |
| `TagCache_proofs!MixupsKnown` | `MixupsArePlain` | `Stored`, both encodings are injective |
| `TagCache_proofs!NewestReturned` | `NewestFound` | `Stored`, both encodings are injective |
| `TagCache_proofs!DecodedBack` | `DecodesBack` | `TypeOK`, both round trips |

The arguments:

- *Closure.* `ClosureExact` is not inductive: when a row vanishes, the result
  may be one that is not closed, and only the filter finds out. The invariant
  says that an id visited by `compute_closure` either has all its references in
  the result or in the queue, or is deleted; that all of it stays within every
  closed set that has the input; and that an id the filter has let go was in
  the table at that moment. A deleted row's *referrers* are deleted before it,
  and a row that is in the table has its references there (foreign keys), so if
  the filter met every id alive after the closure was computed, no id had
  vanished while it was.
- *NAR before narinfo.* `Backed` extends `NarInfoHasNar` to narinfos that are
  still to come: those in `late`, and the drafts of tasks that are past their
  first put. NARs are never withdrawn, so what is backed stays so, in whatever
  order, however late and however often a narinfo is written.
- *Description.* `Faithful` extends `DescribesStore` in the same way, and
  follows a draft through the two queries: what the second one read is right
  or the row is deleted by then. With a signature of oranc's own name,
  `merge` compares, and both gaps are closed.
- *Verdict.* `Reported` says that the flag is set if and only if some task has
  an error, and that a task that is done has its narinfo listed.
- *Retries.* `Counting`: in the iteration of a reference the number of its
  errors is `attempt - 1`, so it is `max_retry - 1` when the loop is over, and
  no reference is left behind with fewer unless it was unknown.
- *Links.* The loop's path is where the line leads: every set that holds the
  path and, with a target, the links to it, holds the line.

- *Whole push.* `PushTasks` assumes that each path it is given is `Filterable`
  when the tasks begin. `FilterPassed` says that what the filter let through
  stays so: a row that was in the table is in it or deleted, and nobody adds a
  signature that does not parse. `Handover` ties the two halves together, and
  `OnlyWanted` says that nothing else is listed or on its way. With
  `ClosureExact` of the first half and `Reported` of the second, Ok means that
  every path of the closure is listed or was left out for its signatures.
- *Lookup beside PUTs.* `UnknownWasAbsent` speaks of one step: where failures
  name their code, "not found" is only ever said of an empty reference,
  whatever is put before or after.
- *Requests.* `Warnings` is to the upstreams what `Counting` is to the
  references. `Answered` says of every response that it is `Justified` by the
  request, the upstreams and the outcome of the lookup, none of which moves
  after the response. What a 404 says of the references is `Concluded` of
  `LayerLookup_proofs`: a lookup that ends without a layer left each of them
  unknown or with `max_retry - 1` errors.
- *PUTs.* `OrderOfAcks` is not inductive: what it excludes is that an
  acknowledged item is put back by a write that was sent before. `Held` says
  that once a PUT wrote, the main reference holds the item of one that wrote
  or of one that met trouble; `Ordered` that a PUT that wrote hides every
  untroubled one that was acknowledged when it began, even before it is
  acknowledged itself. `Handlers` supplies that an untroubled handler has no
  write left. `EarlySeen` carries this to the lookup: with an acknowledged
  item the main reference is never empty again, so it is never counted unknown,
  and what it is found to hold is an item.

- *Recursion.* `Digits`, `decode_char` and `FlattenSeq` are recursive functions:
  each is the CHOOSE of a function that satisfies its equation. That there is
  one is proved by induction, and so is what it computes; as an induction
  theorem that takes an operator cannot be cited, the induction is over the
  *set* of the numbers for which the claim holds (`Induct`) or from the least
  counterexample (`Least`).
- *Encodings.* A custom tag is the concatenation of blocks, one for each
  character: the character itself, or its digits between underscores. No block
  ends another, so a tag is split into its blocks from the right in one way only
  (`FlattenInjective`). The same argument says that UTF-8 is injective, and
  that `join("/")` tells two lists of parts apart. Regrouping bytes in words of
  five bits keeps every bit, and regrouping these gives the bytes back. The
  decoders do not see blocks: they count underscores, or look for the bytes
  that begin a character. `DecodesAs` and `ReadsAs` say that they have
  read the blocks so far as the characters so far, and are kept by one more
  block. For base32, that what is read is valid UTF-8 follows from the range of
  each of the four forms of a character.
- *Tags and the registry.* `Stored`: the registry has something under the
  reference of every put it took, and that is of the newest put under this
  reference. Different locations have different references under one encoding;
  under two encodings they may share one only if one key is its own custom tag
  and a base32 tag as well, that is `Plain`. So what the newest put of a
  location left is hidden by nobody, and a lookup meets an item exactly at the
  configured encodings the location was put under. It takes the first of these,
  which is that of the newest put if and only if `NewestFirst` holds.
  `DecodesBack` needs more: a custom tag that a base32 decoder accepts has base32 symbols
  only, in either case, so the key is its own tag (`LooksBase32`).

Only model-checked: liveness. Fairness is out of the provers' reach. Every
other property of a passing run is a theorem.

## 6. Not modelled

- *Data.* Hashes, compression, the text of narinfos and signatures, manifests,
  HTTP headers: a content, a narinfo or an item is a value or a small record.
  `PushTasks` identifies a file with its content, so that two pushers with
  different zstd levels, which put different bytes under one NAR key
  (`push.rs:153`), are one; only FileHash and FileSize of the narinfo tell.
- *Opening the database* (`nix_db_connection`) is a step that may fail. The
  immutable mode (`push.rs:52`) reads a file without locks while Nix may write
  it; what a query answers then is not defined by sqlite.
- *Credentials*: parsing the Authorization header is one of three outcomes.
- *Push initialize* is one call of `registry::put` with a constant text.
- *Options, packaging, CI, integration test*: declarations and build files.
  `oranc tag` (`key.rs`) prints what the functions of `TagEncoding` return. The
  integration test was read for what a push promises.

## 7. Plan

In this order, the most important behaviour first; 1 to 8 are done.

1. `NixDb`, `CollectPaths`: closure and filter against a moving database, and
   proofs.
2. `PushTasks`, `BinaryCache`: push tasks, registry put, crash and rerun,
   refinement, and proofs.
3. `LayerLookup`: lookup with retries and fallbacks, and proofs.
4. `StorePathInput`: links, and proofs.
5. `ServerGet`: GET and HEAD with upstreams, and proofs.
6. `PushSystem`: one push from its input to its verdict, and proofs.
7. `ServerPut`: concurrent PUTs beside a lookup, cancelled at any await, and
   proofs.
8. `TagEncoding`, `TagCache`: encodings, locations, a migration of encodings,
   and proofs, the round trips of both encodings among them.
9. `Signatures`: parsing, `merge`, the order of the rendered list; FileHash
   with two pushers.
10. Credentials: the patterns of the Authorization header.
