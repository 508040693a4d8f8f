# TLA+ models and proofs of the Datto RMM API client

The client is a TypeScript library: a program constructs one `DattoRmmClient`
and calls the methods of its resources, which become HTTP requests to the Datto
RMM API. It persists nothing and runs on one thread; what makes it hard is that
many requests are under way at once, each suspended at its own `await`, over
three things they share: the rate limiter's windows, the token cache and the
refresh in flight, and the clock. Its types and schemas are generated from the
vendor's OpenAPI document, which is corrected on the way: a chain of scripts that
meets whatever the vendor publishes next.

This directory holds TLA+ modules of that program, TLC runs that check them on
small instances, and proofs, checked by TLAPS, that the properties which matter
most hold for every instance. Paths below are relative to the repository.

## The system

A call takes this way:

    resource method -> BaseResource (httpGet / httpPost / paginate / ...)
      -> shared axios instance (src/http/http-client.ts), for each attempt:
           Bearer interceptor    AuthManager.getToken   [awaits a refresh]
           rate interceptor      MultiWindowRateLimiter.acquire  [awaits room]
           observer interceptor  captureRequest, onRequest
           dispatch              [awaits the answer, or the timeout]
           response interceptor  onResponse, or handleResponseError:
                                 retry by instance.request(config), or throw
      -> validation of the answer (strict cursor, lenient payload)

| Component | State | Operations | What makes it correct |
|---|---|---|---|
| Rate limiter (`rate-limit/`) | timestamps of each window; the map of write windows | `acquire` | no window's budget is exceeded in any stretch of time; a write is counted in both its windows or in neither; no one sleeps in vain, or for ever |
| Token life (`auth/`) | cached token, pending refresh | `getToken`, `refreshToken`, `invalidate` | one grant at a time; the cache never goes back; a retry gets another token than the refused one; a failed refresh is forgotten |
| HTTP transport (`http/http-client.ts`) | per request: count of retries, mark of a 401, the observer's capture, all on its config | the interceptors, `handleResponseError` | attempts and waits are bounded; only what may help is retried; the result is the last answer |
| HTTP observer (`http/observer.ts`) | the capture on the config | `captureRequest`, `fireRequest`, `fireResponse`, `fireError` | one request event and one terminal event per attempt, paired; a callback never disturbs the request |
| Pagination (`client/resources/base-resource.ts`) | per walk: next path, visited paths, accumulated rows | `paginate`, `validateArrayResponse`, `resolveNextPageUrl` | the walk ends, returns the whole collection or throws for cause |
| Base resource primitives | none | `httpGet`, `httpPost`, `httpPut`, `httpDelete`, ... | every request carries a rate descriptor; a write is validated before it costs a slot; an answer that parses reaches the caller whole |
| Client and configuration (`client/datto-rmm-client.ts`, `datto-client-config.ts`) | the objects it wires: one limiter, one token cache, one instance for all resources | constructor | together they keep what each promises alone: what a call takes of the shared budgets is bounded, a token is good enough when it is used, a caller can tell what became of a write |
| Leniency and diagnostics (`validation/`) | groups and totals of one parse; a cache of wrapped schemas | `parseLenient`, `record`, `trackExamined`, `flush` | a benign deviation never fails a payload, and is reported once with true totals |
| Logging and masking (`logging/`) | the ancestors of the value being walked | `withUdfMasking` | no UDF value under plain structure reaches the logger; a cycle ends |
| Errors (`errors/`) | none | constructors, `fromAxiosError` | the status and the wait reach the caller |
| Resources and operation table (`client/resources/`, `operation-map.ts`) | none | some sixty methods | each sends what the table says it is for, draws on the budget of its operation, and validates against a schema that takes what the route documents |
| Schema overrides and generated schemas (`schema-overrides/`, `generated/schemas/`) | none | a parse | a correction loses nothing documented; a write body that says nothing is refused |
| Generated types and the chain that makes them (`scripts/`, `npm run generate`) | the published document, the corrected one, the tree of types, the files still to write | `patch-spec`, orval, `dedupe-generated-index`, `widen-response-enums`, `generate:raw` | a defect the patch no longer finds stops it; enums of answers are open, those of requests closed; a success leaves the types of this document and nothing else, whatever was interrupted before |

What interacts: the transport asks the token and the limiter before each
attempt (awaited calls), and calls `AuthManager.invalidate` on a first 401 (a
callback); the walk over a collection is a sequence of requests; requests meet
only in the limiter's windows, the cache and the pending refresh. The scripts meet
each other only in files: each reads what the last one left on disk, and any of
them may stop, or be killed, between two writes.

What is hard: callers that wake at the same instant; a caller overtaken by a
later one; 401s, expiries and answers to grants that cross; answers that come
late; the count of retries carried from attempt to attempt; a write that was
carried out though its answer was lost; a server that leads a walk in circles;
a vendor's document that changes under corrections made for an older one; a
script killed halfway; boundaries (the instant a window ends, the instant a token
expires, the last attempt, the last page). `PROJECT.json` lists these hazards,
each at its line, with the properties that would catch it going wrong.

## The modules

| Module | What it is |
|---|---|
| `RateBudget` | what the limiter promises: a clock, a history per budget, a request let through only if all its budgets have room |
| `RateLimiter` | `acquire`, the windows, pruning, windows created on demand, sleeping and looking again |
| `AuthManager` | the token's life: cache, single-flight refresh, grants, 401s, expiry, revocation |
| `HttpTransport` | one request through the interceptors and the response handler, with its retries |
| `Pagination` | one walk of `BaseResource.paginate` |
| `Leniency` | the validation of one answer: schema widened, value cleaned, diagnostics collected, items dropped |
| `Masking` | what the logging boundary makes of the object graph given to a log call |
| `Schemas` | the generated response and body schemas, by their fields and what may fail a documented value |
| `Operations` | every method: its request, body schema, answer schema and budget; beside it the table and the routes the server documents |
| `Client` | calls of these methods at work together, over one limiter, one cache and one server that may or may not carry a write out |
| `SpecPipeline` | `npm run generate`, from a published document to the tree of types, with its refusals, refreshes and interruptions |
| `MC...` | small instances of these for TLC |
| `...Proofs` | the theorems about these, each module's in one of its own, but for `BaseResourceProofs`, which has those of `Pagination` and `Leniency` |
| `DataInduction` | induction and recursion over numbers, finite sets and sequences, in the form the provers can use |

### RateLimiter

`acquire` runs without interruption up to `await sleep(waitMs)`, so one action
is one pass of its loop. `Call` is the call with its first pass (the write
window is created here, `writeWindowFor`), `Wake` a pass after a sleep; both
prune every window the request draws on (`Pruned`, `msUntilRoom`) and then
either `Admit` (record in all of them) or `Throttle` (sleep for the longest
wait). `Tick` is the clock. A timer fires at its deadline or up to `Slack`
later: that is what makes several callers wake into the same instant, and a
late one find its slot taken. `granted` is a history the code does not keep:
every request let through, never pruned.

`ImplementsBudget` is refinement: with `granted` and `now` read as they stand
and everything else hidden, each step of the limiter is a step of `RateBudget`
or a stutter. `RateBudget.Grant` checks room against the whole history, so the
refinement says that nothing the code prunes, caches, creates late or reads
before a sleep ever changes a decision.

### AuthManager

A token is named by the number of its grant. `GetToken` is `getToken` and
`refreshToken` up to their `await`: from the cache, joining the pending refresh
or starting one. `Mint` is the server handling a posted grant (its lifetime
begins), `Settle` is `performRefresh` going on after its `await`, with a
well-formed answer or with any failure (an error, a timeout, a malformed body),
`ClearPending` the `finally`, and `Deliver` a waiting request going on. These
are separate steps because JavaScript runs them as separate microtasks;
`MicrotasksDone` says they all run before the next response is looked at.
`Judge` is the server judging a request by its token, `Unauthorized` the 401
reaching the client: the first discards the cache (`onUnauthorized`) and asks
again, the second fails. `Revoke` may happen to any token at any moment, and
`Tick` between any two steps.

The server's clock is taken to agree with the client's. `RefreshPct` is a whole
number here, where the code admits fractions.

### HttpTransport

One request, from its first attempt to its result. `GetToken`, `AcquireSlot`
and `Dispatch` are the three request interceptors in the order axios runs them
(the reverse of registration); the first two may throw, which `Rethrow` lets
pass. `Receive` takes any answer from `Responses`: success, network error, 401,
403 with or without signs of a block, 404 for the other 4xx, 429 with and
without a wait, 500 for the 5xx. `Handle` is the response interceptor: the
observer's terminal event first, then one of six outcomes, or `LoggerThrows`: the
handler logs before it retries or gives up on a 429, and what the caller's logger
throws there is what the caller gets. `Resume` is the end of a sleep, where the
attempt is counted. `log`, `answers` and `slept`
are histories. Requests share nothing here: what they do share is in the two
modules above. An `AxiosError` without a config cannot come of a dispatched
request and is left out.

### Pagination

`Loop` is the head of the `while`: return, a guard that throws, or the next
request. `Answer` is the rest of the body for any page the server may send,
`Fail` the request failing for good. A cursor is a path of the configured
origin, or one of `Null`, `Empty` (both end the walk), `Malformed` (the strict
schema rejects it) and `Foreign` (another origin). Paths are opaque: two
spellings of one page are two paths, as in the code. A row is valid or not, and
is named by its page and its place there, so that loss, repetition and
reordering show. `MaxPages` is 10 000 in the code. Constructing a
`BaseResource` without a base URL, where the origin check is skipped, is left
out.

### Leniency

A body is a function from positions (the steps into fields and items that lead
to a value) to what stands there, and a schema a tree of node records, so that
`Declared` is the node for each position. `AddCatchall` and `LenientField` are
the permissive copy, node by node (`Permissive`), and `Accepts` stands for Zod's
own parse by it.

`Validate`, `Parse`, `ThrowInvalid`, `DropItem`, `Succeed` and `Report` are the
two primitives of `BaseResource` and the calls of `parseLenient` they make, one
for a single value and one for each item of a list (`index`).
`CleanAndDiagnose` is one call of `cleanAndDiagnoseResponse`, the parallel walk
that strips and diagnoses: `frames` holds the calls still to be made, which the
code has on its stack and in its loops, `cleaned` what the others have kept,
`groups` and `examined` are the collector's two maps. The walk is synchronous,
so the deepest call is always the next (`Innermost`; between calls of one depth
the order does not matter and one is chosen). A call for a wrapper or a union's
branch is one with the call inside (`Meant`), and a value that passes as it is
passes whole. `Flush` turns the groups into lines when a walk is over. A path is
a sequence of keys, where the code joins them with dots; the lines of a call are
a set.

What drives them is the server's drift. It starts from a body that fits the
schema and deviates one place at a time: an undocumented key, an unlisted enum
member, a null or absent field (all benign), or a wrong value, which is the only
kind that may cost a row. `deviations` and `promised` are histories the code
does not keep, and the properties compare what validation returned and logged
with them. The node kinds that no response schema uses (pipe, default,
transform, an array of arrays, a union whose options say what is inside a value)
are left out; `SchemasAssumption` says so. A boolean is a terminal as a number
is, and is taken for one.

### Masking

The application links objects (records, arrays, class instances, objects
without a prototype) into any graph, shared and cyclic, and logs one of them.
`Scrub` and `ScrubEntries` are `scrub` and `scrubEntries`: `seen`, one mutable
set in the code, is threaded through the walk, added to on entry and deleted
from on exit. What the logger is given is a set of places: what stands at each
path. `Due` is the reference: the same graph unfolded with the ancestors of each
branch passed by value. Instances are handed on as they are, so a place in the
output leads to all that is within it (`Within`, `Reveals`). `Serializes` and `Prints` say when `JSON.stringify` and
`String` can render a value.

### Schemas and Operations

Definitions only: what the code says by data. `Schemas` reduces each generated
schema to its entity's fields and to four traits on which the code and the
server can disagree: dates, enumerations, udf values and an alert's context.
`Operations` has the schemas the client really parses with (`schema-overrides`
and those written by hand in the resources), the primitives, and each namespace's
methods as calls of them; then the server's side: `OPERATION_MAP`, and what
`spec/openapi.json` documents for each route (`AnswerAt`). `Forms` are the
documented forms a value may come in (an offset in a date, a member of an enum
that is new, a udf that is not text, a context with keys of its own) and
`Reading` what becomes of one: whole, lost in part, or rejected.

### Client

A call validates its body (`Begin`), then, for each request it makes (the first,
a retry, the retry after a 401, the next page), looks up a token, waits for a
slot and sends. The server refuses a token past its life (`Refuse`), carries the
route's effect out and answers (`Serve`), answers 4xx or 429 without it
(`Decline`), or fails: a 5xx, a lost answer or a timeout, with the effect done
or not. `Handle` is the response interceptor and the validation. `did` records
what the server did, which the client cannot see.

The parts stand by what they promise. The limiter is `RateBudget`
(`INSTANCE`), which `RateLimiter` is shown to implement; `LookUpToken` is one
step, without the single flight that `AuthManager` has; a retry does not sleep,
for the clock may move before any step, and the logger does not throw. A token is
refused here for its age only. What is composed here is the order in the code: the token is looked up
before the wait for a slot, and the count of retries belongs to one request of
a walk.

### SpecPipeline

`patchSpec` is the whole of `patch-spec.mjs` in its order: names normalized,
timestamps retyped, the alert context opened, the component shared by a request
and a response split, missing answers inferred, contexts no operation reaches
pruned, malformed constraints mended; each says which of its anchors it did not
find, and `PatchSpec` writes nothing if any is missing. `Clean`, `Emit` and
`Refuse` are orval, known from its configuration and its output (external).
`Dedupe` and `Widen` are the two codemods; `Widen` writes file by file
(`WriteFile`), then `Verify` looks at what it did. `Interrupt` kills the chain
anywhere, `Refresh` puts another document in place, `GenerateRaw` runs the
generator alone on the corrected document that is there. A schema node is its
form and the components it refers to. `Followed` is the walk three scripts share
(what the roots lead to, and on from there): as many rounds as there are names
that lead on, which is shown to be enough. `IsDocument` says what a document is;
its operations may document no responses (`responds`), and
`patchMissingSuccessResponses` passes over those. `AsTimestamp` is the
assignment to the node found: what was a reference or a composition
(`Composed`) stays one, whatever type is set beside it.

## The runs

| Run | Instance | Checks |
|---|---|---|
| `rate_limiter` | 3 callers, reading or writing under one listed key or none; limits 1 and 2; window 2; calls up to time 2; timers up to 1 late | types, `WithinBudget`, `CountedOnce`, `NoOversleep`, `SleeperAdmitted`, `ImplementsBudget` |
| `auth_manager` | 2 requests, lifetime 2, refresh below half of it, clock to 2 | types, `SingleFlight`, `CacheNewest`, `RetryGetsNewToken`, `CachedTokenHasMargin`, `NothingHangs` |
| `http_transport` | 3 policies (1, 3 and 2 attempts; backoff below, at and above its cap), `Retry-After` 0, at and above the ceiling; token, slot and logger may throw | types, `AttemptsWhole`, `AttemptsBounded`, `OnlyRetriesRetryable`, `SleepBounded`, `ResultIsLastAnswer`, `RequestEnds` |
| `pagination` | 4 paths, at most 3 pages, rows none / valid / one bad and one good | types, `PagesBounded`, `FollowsChain`, `ReturnsWhole`, `ThrowsForCause` |
| `leniency` | a list of 3 devices, an alert, a quick job with arrays inside items; 3 deviations; two unlisted members; 2 drops named | types, `RefusesOnlyWrong`, `StripsOnlyUndocumented`, `TellsWhatItTolerated` |
| `masking` | 3 objects of 4 kinds, 2 ordinary keys and a udf key, 3 links | types, `RedactsUdf`, `KeepsTheRest` |
| `client` | every method by itself; a read, a walk, a write under the same key and one under another beside a `setUdf`; limits 3, 2 and 1 in a window of 2; 2 attempts; token life 1, refresh below half; 2 pages; clock to 2 | types, `EffectTold`, `SendsBounded`, `RefusedOnlyAfterWait`, `DocumentedKept` |
| `spec_pipeline` | a document with one of each known defect, and twenty-five edits of it; one refresh | types, `PatchedWhole`, `EnumsOnTheirSide`, `TreeIsOfThisDocument` |
| `auth_discards_unrefused`, `leniency_per_page`, `masking_throws`, `masking_instances` | as above | four statements of the documentation the code does not keep |

Why the bounds are enough to show the interesting cases:

- *rate limiter*: three callers and limits of one and two fill any of the
  windows, with at least one caller left to sleep, and two to wake together
  where the limit is one; `LastCall` lets callers arrive while others sleep and after windows have
  emptied; `Horizon` is past the last wake-up there can be, so no one is cut
  off asleep. The limits of the real table only multiply the callers needed.
- *token*: two requests are the least with one to refresh and one to join it, or
  one whose 401 arrives after the other's has been made good; time 2 sees a
  token go stale and expire.
- *transport*: three attempts see a retry follow a retry, and the mark of a 401
  meet the count of retries in each order.
- *pagination*: one path more than pages allowed makes the cap reachable without
  a circle; circles of every length up to it are among the answers.
- *leniency*: three deviations put two of a kind at one place and one elsewhere,
  in one item or in several, one of them wrong; the quick job has two arrays of
  different sizes at one path, so that totals have to add up; two items dropped
  out of three and at most two named.
- *masking*: three links make an object shared by two branches that refers to an
  ancestor, a cycle below the meta, and a udf record above a record; more
  links only combine these.

- *client*: each method runs against every answer its route may give, which is
  what the properties about its schemas and its budget need; what two calls can
  do to each other they do through the limiter and the cache, so one call of
  each kind beside a write is enough. A budget of one makes the second sender
  wait the whole window, longer than a token lives. Three reads to a window let one
  call make as many requests for a page as it ever may: two attempts and the one
  after a 401.
- *documents*: every edit moves one anchor, or puts a component in a place the
  corrections did not foresee, or documents an operation in less than the
  corrections expect (no responses, a timestamp by reference); a refresh goes from any edit to any other, so
  that the tree on disk may be of one document and the chain at work on another.

`SYMMETRY` is used in the runs of `Masking`, whose properties are invariants.
No run turns deadlock off: where the program has nothing left to do, `Finished`
stutters, and anything else that stops is reported.

### Fairness

`RateLimiter`: time passes, and a timer that is due is run (`WF` of `Tick` and
of each `Wake`): the event loop's promise. No caller is obliged to call, and
nothing promises that a caller is served before another; `SleeperAdmitted`
holds because the callers of a run are finitely many. With callers arriving for
ever one may be overtaken for ever, as nothing in the code prevents it.

`AuthManager`: the program's own continuations run, a posted grant is answered
or times out after 30 s, and the API answers what it is sent (or times out,
which `HttpTransport` covers). The server need not grant a token, time need not
pass and no application need call.

`HttpTransport`: every step is the program's own, a timer, or the answer that
the socket timeout bounds.

`Client` and `SpecPipeline` state no liveness: the first would repeat that of
its parts, and nothing obliges a developer to run a chain to its end.

### What the code does not keep

1. `DiscardsOnlyRefused`: a comment says a 401 means the cached token was
   rejected. Two requests go out under one token, both are refused; the first
   401 leads to a new token; the second, arriving later, discards that one. The
   cost is a needless grant: `RetryGetsNewToken` and `SingleFlight` hold all
   the same.
2. `OneLinePerField`: the documentation promises one summarized diagnostic for a
   page of 848 devices. Items are validated one by one, each with a collector of
   its own, so there is one line for each device, of count 1 and total 1.
   Within one item, or a value that is not a list, lines do add up
   (`TellsWhatItTolerated`).
3. `NeverThrows`: `mask` is documented as total because `String(value)` cannot
   throw; it can, for an object without a prototype, or an array that holds one.
   The answers of the API never contain one, but what a caller
   logs need not come from the API.
4. `RedactsAtAnyDepth`: README.md (364-371) says that any value under a udf key, at
   any nesting depth, is replaced, unconditionally. A class instance is handed to
   the logger as it is, with the udf values in it; the comment of
   `withUdfMasking` says so (mask.ts:147-156), and names the response a
   `DattoApiError` keeps. The client's own calls log no instance. `RedactsUdf` is
   what holds: udf values of plain structure never pass, and only an instance
   leads to one.

Six more that the modules show, as what a property has to except:

5. `filterSchema` (written by hand in the filter resource) takes dates without
   an offset only, where the generated schema takes both: a filter whose dates
   carry one is dropped from its page. `DocumentedKept` excepts it, and nothing
   else.
6. An answer's enum stays closed, and the chain reports success, when the
   component is also referred to by a parameter, or has a name that ends like a
   request's: the codemod takes both for requests (`TakenForRequests` in
   `EnumsOnTheirSide`).
7. A context component that only an unreached component refers to is pruned and
   leaves a reference to nothing; orval then refuses (`Refuse`), so the chain
   stops without a word of why.
8. A published component that has the name of a split's clone is overwritten by
   it (`Split`).
9. The documentation caps a request at `retry.maxAttempts` total attempts for
   network errors and 5xx responses (README.md:513-516, http-client.ts:258-259).
   The retry after a 401 is not counted, so a request that is answered 401 and
   then 5xx is sent once more than that. `AttemptsBounded` is what holds.
10. A timestamp correction is said to fail loudly if its anchor drifts from what it
   expects (patch-spec.mjs:41-44). It asks only whether the field is there:
   published as a reference, it is given a type beside the reference, nothing
   fails, and the types are made from what it refers to. `WellTimed`, in
   `PatchedWhole`, says which timestamps become numbers and which stay.

## The proofs

TLC checks the instances above. The theorems hold for every number of callers,
requests, calls and pages, every limit table, policy, window and lifetime, every
set of published documents, every graph of logged objects, and every response
schema with every body and every drift of it, from the assumptions named in the
modules:

- `ConstantsAssumption` (four modules), `ClientAssumption`, `PipelineAssumption`:
  limits and windows are positive, a percentage is between 0 and 100, and so on,
  as the configuration's schema demands;
- `UrlsAssumption`: a path is none of the special cursors;
- `MixesAssumption`: each of the calls made together calls a method there is;
- `SchemasAssumption`: the schemas and all their parts are nodes of the kinds the
  response schemas use; a catchall is unknown or there is none, the items of an
  array are no arrays, and the one union (a udf's value) leaves open what is
  inside. `tests/generated/schema-union-freedom.test.ts` keeps unions out of the
  generated schemas; the other two hold of all of `src/generated/schemas/` and
  `src/schema-overrides/`;
- `BodiesAssumption`: the body the drift starts from fits its schema, and the
  bounds are numbers;
- `GraphAssumption`: a program has finitely many objects, none of them a scalar;
  of the keys of records and arrays, only a udf key matches the udf pattern;
- `DocumentsAssumption`: what is published is an OpenAPI document, finite tables
  of components and operations whose parts are schema nodes. Nothing is assumed of
  what refers to what: references to nothing, circles, names in the way of a
  correction and anchors that are gone are all among the documents;
- `NamesAssumption`: an operation is known by its method and path, which is not
  the name of a component, before or after the corrections.

Each module's proof is an inductive invariant `IInv`, then `Init => IInv`,
`IInv /\ [Next]_vars => IInv'`, and one step from `IInv` to each property.

- **DataInduction.** The library states induction for a predicate, a parameter no
  backend here instantiates. Stated for a *set* (the numbers, or the subsets, of
  which the predicate holds) it is first-order, and it follows from `WFMin`. From
  it follow the existence of functions defined by recursion, so that a recursive
  function has the value its definition gives, and the lists the other modules
  need. Recursion in the modules that are proved about is therefore
  written as recursive functions.
- **RateLimiterProofs.** `WithinBudget` is not inductive: it speaks of the
  history, the decision is taken on what is left in the windows. `Ledger` joins
  them for one window: what it holds is the end of the history, what it dropped
  has left the window, and any `limit + 1` entries of the history span a
  window's length. Pruning, recording when there is room, and time keep it
  (three lemmas about sequences); the actions apply these to each window they
  touch. That a window created late starts out right needs `NotYetCreated`, and
  that a sleeper's windows exist needs `SleepersOpened`. The cardinality in
  `WithinBudget` is bounded by mapping the entries of a stretch into an
  interval of `limit` indices. `Refinement` uses the same invariant: room in the
  pruned window is room by the whole history. `Counts` says that
  the callers let through a window are finitely many, whatever `Callers` is, and
  as many as its history has entries: each grant adds one to both, and a caller
  that sleeps and looks again adds to neither. It is `CountedOnce`.
  `SleepersNeed` says of each sleeper that one of its windows stays full, by the
  whole history, until its deadline (`FullUntil`); grants to others and the clock
  keep it, and it is `NoOversleep`.
- **AuthManagerProofs.** The grant in flight is the last one posted and is the
  pending one (`LastIsPending`); a token a request holds has been answered
  (`TokensAnswered`) and is no newer than the cache (`StoreNewest`); a request
  that was refused is past the token it was refused under (`RefusedMovesOn`);
  an answered grant is dated before it was minted (`Dated`). `SingleFlight`,
  `CacheNewest`, `RetryGetsNewToken` and the action property
  `CachedTokenHasMargin` follow.
- **HttpTransportProofs.** `Counted` ties the number of attempts to the count
  of retries and the mark of a 401; `Slept` ties the sum of the sleeps to the
  count; `LogFollows` says which step of which attempt comes next. The history of
  answers has one entry for each attempt that is over (`OneAnswerEach`), each
  that was passed over was a network error, a 429, a 5xx or a 401, and a 401 among
  them leaves its mark, so there is one at most (`PassedWell`).
  `OnlyRetriesRetryable` follows, and `ResultIsLastAnswer` from what the end
  tells (`Told`).
- **BaseResourceProofs, the walk along the pages.** The set of visited paths is
  the set of those requested, none twice, along the chain; each way to end is tied
  to the last cursor, which is `ThrowsForCause`. For `ReturnsWhole`, `KeptUpto`
  says what the filtering of a page has kept after each of its rows, by induction
  over the rows; the rows accumulated are then, before each request, the valid ones
  of the pages answered, in the order in which they came (`InOrder`), and none can
  be there twice.
- **BaseResourceProofs, validation.** The four properties speak of a validation
  that is over, and nothing they say is inductive; `LeniencyInv` is, and has a
  side for each party.
  `DriftInv`: the body is a fitting one but for its deviations, one at a place,
  each of which shows where it is on record, and `promised` is the body without
  the keys that are to be stripped. With it the permissive copy accepts a value
  exactly when no wrong deviation lies in it (`AcceptsUnlessWrong`, position by
  position).
  `ParseInv`: the result is what the first `index - 1` calls give (`Gained`), and
  of a walk under way (`WalkOf`) no two calls still to be made are for parts of
  one another, each is the one the schema and the path of its position ask for,
  and what is kept, recorded and examined is what the positions already passed
  (`Passed`) give: their values (`Cleared`), one group for each kind, path and
  text with as many occurrences as there are (`Logged`), and for each array path
  the sum of the sizes of the arrays at it (`Counts`). Each of the six steps of
  the walk keeps it (`WalkStep`): a call on an object, record or array passes its
  own position and leaves the positions one step below to calls of their own; the
  others pass all that is below.
  When no call is left (`WalkEnds`) every position has been passed. That the lines
  are then those due takes one fact more: a group keeps the array path of its
  first occurrence only, so two positions with the same keys that a schema
  describes must be one place of it, inside the same arrays (`OnePlace`). It is
  here that arrays of arrays have to be excluded: they share their path. That a
  line counts no more than it examined (in `LeniencyTypeOK`) is an injection of
  the deviations of a group into the items they lie in (`CountWithinTotal`).
  The tree recursions of the module (`Declared`, `PathOf`, `ItemOf`, `Listing`)
  are recursive functions of positions or numbers, whose values `DescentExists`
  in `DataInduction` gives.
- **ClientProofs.** The invariant speaks of one call at a time: what the server did
  is at most what silences hide, and one more where an answer was just read
  (`Effective`); a token on its way had its margin when it was looked up, and
  `now` has only grown since (`Holds`); a call is not sent before its body is
  good (`Asks`). Of the table of methods it needs two facts, proved namespace by
  namespace (`CallsSound`): no write is led to a next page, and no body schema
  takes an empty body. `RefusedOnlyAfterWait` follows. `FullInv` adds what a call's
  record is (`CallType`) and what it may tell (`Told`): what was done is the
  effect of its own route, and what was lost is what its schema loses of a form
  its route documents. With one entry of the operation table per route
  (`OwnRoute`) it gives `EffectTold` in full; with a lemma for every method that
  its schema fits what its route documents (`NamesKept`) it gives `DocumentedKept`.
  `SendsBounded` rests on an account of the page under way: the count of retries
  and the mark of a 401 cover what was sent for it, each page before it cost at
  most `MaxAttempts + 1`, and a next page starts with neither (the lemmas ending
  in `Paced`). That the composed client keeps to its limiter's budgets is not
  proved here, for it takes the limiter at its promise, `RateBudget`: that
  `RateLimiter` keeps the promise is `Refinement`, and that every attempt takes a
  slot is `AttemptsWhole`.
- **SpecPipelineProofs.** First what the operators compute. `Followed` contains
  the roots, is closed under what it leads to (a round that takes in no new name
  that leads on is the last that takes in anything, so as many rounds as there
  are names suffice), and is the least such set. Each correction makes a document
  of a document, and keeps, of a set of declared components that all operations
  and the set itself refer into (`Supports`), one such set: so what was declared
  stays declared through renaming, splitting and pruning. Each anchor, once set,
  is left alone by the corrections that come later (`Anchored`), and a timestamp
  that was a reference is one at the end (`TimestampsAre`, `TimestampNode`).
  Together: `PatchedIs`, hence `PatchedWhole`. Of the chain, `IInv` says that past its first
  step it works on what was made of the published document with no anchor
  missing; that the files are the generator's but for aliases opened since
  (`FilesOf`), which are those the codemod found when it looked, and that each of
  these is opened or has still to be written (`OpensOf`); that the index lists
  every type, and once when it is deduplicated. What the codemod leaves closed
  depends on imports only, which no write changes, so what it verifies at the end
  is what it planned. `TreeIsOfThisDocument` and `EnumsOnTheirSide` follow, the
  latter from the closure and the leastness of `Followed` over the imports, and
  from the checks made before the first write and after the last.

- **MaskingProofs.** The walk is a fold over the keys of an object inside a
  recursion over the objects, and the set of ancestors is threaded through both.
  If every nested walk, which has one ancestor more, leaves the set as it found it
  (`Restores`), the keys of an object may be taken each for itself
  (`FoldIsClosed`), and the object's own walk leaves the set as it found it; so,
  by induction from the largest set of ancestors down (`ExtensionInduction`), all
  do. That the recursive function has a value at all is shown by giving one, which
  exists because each call has one ancestor more and the objects are finitely many
  (`GrowingExists`). What is put out then satisfies the equation of `Due`
  (`OutIsDue`), which has one solution (`DueIsUnique`): `KeepsTheRest`.
  `RedactsUdf` and `TypeOK` are an induction of the same form over what is due
  (`DueIsSafe`): what is due as it was is a scalar or an instance.

Two statements were too strong and were corrected when their proofs did not go
through. `PatchedWhole` promised that whatever an operation reaches is declared:
of a document with a reference to nothing the corrections promise only that they
add none (`Declares`; the run has such a document now). `EnumsOnTheirSide`
promised that a client's enum is in the closed form the codemod can read: an alias
written in a form it cannot read is as closed, and is left alone.

A third change leaves what is said as it was. The operators of `Leniency` were
recursive over trees of schemas and values, with the collector threaded through
them, of which nothing can be proved here. Positions, and one step for each call
of the walk, say the same, show the states in between as well, and are what an
invariant can speak of.

Only model-checked: liveness (`SleeperAdmitted`, `NothingHangs`, `RequestEnds`), which is out of the
prover's reach, for it needs `ENABLED`. Every invariant and every action property that
a passing run checks is stated by a theorem.

## What is not modelled

- The text of headers, bodies and URLs: a `Retry-After` is the wait it is read
  as, a 403 shows signs of a block or does not, a cursor is one of a few kinds.
- A clock that is set back, a `setTimeout` delay beyond 32 bits, a server whose
  clock disagrees.
- A proactive refresh that fails fails its request though the cached token is
  still good: `AuthManager` has the step, no property speaks of it, for the code
  says nothing of what should happen.
- A collection that changes between two pages: a row that moves is seen twice or
  never, and the API offers nothing to prevent it.
- An observer that changes the body or the headers it is shown (the capture holds
  them by reference), and `invokeObserver`'s own isolation of callbacks that throw.
- The codemod's own reading of text: an import line `IMPORT_RE` does not match
  leaves a request's enum without its root, and opens it.
- `DATTO_OPENAPI_SPEC` (orval.config.ts:48-50), with which the generator reads
  another document than the corrected one, while the codemod reads the corrected
  one.
- In `Client`, a logger that throws (`HttpTransport` has it). In `HttpTransport`, an
  `onUnauthorized` that rejects: the client's own is `invalidate`, which cannot.
- The values of path and query parameters, and the fields inside nested objects.
- The scripts that check a release (`smoke-package`) and record fixtures
  (`sanitize-fixtures`), and the tests.
- A dotted path that two fields share because a key has a dot in it; the order
  of diagnostic lines; the length shown in a redacted value's placeholder.
- The parts the plan below has left.

## The plan

Done: `RateBudget`, `RateLimiter`, `AuthManager`, `HttpTransport`,
`Pagination`, `Leniency`, `Masking`, `Schemas`, `Operations`, `Client`,
`SpecPipeline`, their runs, and the theorems above.

Abstract specifications still worth stating: a request as the caller sees it
(asked, then served or failed, once), which `Client` should implement.

Theorems left: that refinement; no other is planned.
