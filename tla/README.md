# kafka-rest-api: TLA+ models, checks and proofs

A REST gateway in front of Kafka (Go, `src/`): it publishes in one of two
modes, reads bounded pages of a partition, describes topics, and can require
JWTs whose keys come from a JWKS endpoint. This directory models the parts that
are hard to test: what is recorded when a publish half fails, what a page
contains while the partition moves, what a cache of keys serves while it is
refreshed by several goroutines, what a probe says of dependencies that come and
go, what a configuration may still fail on, and what a shutdown drops.

## 1. Inventory

| Component | Source | State | Operations | Module |
|---|---|---|---|---|
| Publish handlers | `internal/api/publish.go` | none | decode, validate, call the service, answer | `PublishRequest`, `MessageCodec`, both publish modules |
| Errors | `internal/api/errors.go`, `internal/service/errors.go` | none | `classify` | `Errors` |
| Publisher service | `internal/service/publisher.go` | none | validate, produce | `PublishRequest`, `PublishContract` |
| Sync producer | `internal/kafka/syncproducer.go` | per request: groups, results | metadata, group, one Produce per partition | `SyncPublish` |
| Batched producer | `internal/kafka/writer.go` | per request: attempt, error | write, back off, retry | `BatchedPublish` |
| Consume handler, consumer service | `internal/api/consume.go`, `params.go`, `internal/service/consumer.go` | per request: query, budget | parse, validate, clamp, read, filter, encode, answer | `ConsumeQuery`, `Consume`, `MessageCodec` |
| Kafka client, reading | `internal/kafka/client.go` | per request: reader, messages | seek, read loop | `Consume` |
| Kafka client, admin | `internal/kafka/client.go`, `internal/service/topic.go`, `internal/api/topics.go` | per request: metadata, watermarks | list, describe | `DescribeTopic` |
| JWKS cache | `internal/middleware/jwks.go` | `keys`, `fetchedAt` under a lock, shared by all requests | look up, refresh | `JWKS` |
| JWT middleware | `internal/middleware/auth.go`, `keyfunc.go` | none | check a token, make a key function | `Gateway`, `Startup` |
| Process | `cmd/server/main.go` | producer, server, signal context | start, serve, shut down, close | `Startup`, `Lifecycle` |
| Health | `internal/service/health.go`, `internal/api/health.go` | per request: the checks so far | live, ready | `Readiness`, `Gateway` |
| Metrics | `internal/metrics/` | counters | count around each request and operation | `Gateway` |
| Configuration | `internal/config/config.go` | none after start | load, validate | `Config`, `Startup` |
| Kafka security settings | `internal/kafka/security.go` | none | build transport and dialer | `Startup` |
| Router | `internal/api/router.go` | none | route, guard | `Gateway` |
| Request logging, logger, embedded docs | `internal/middleware/logging.go`, `pkg/logger/`, `docs/` | none | format | not modelled |

How they interact. Each HTTP request runs in a goroutine of its own through the
middleware chain, a handler, a service and the Kafka adapter; all calls are
synchronous. Requests meet in four places only: the topic in the broker (the
publish modules), the JWKS cache (`JWKS`), the metrics (`Gateway`), and the
process that ends under them (`Lifecycle`). The process itself is what its
environment makes of it (`Startup`). Consume and describe requests share nothing with each other, but
the partition they read changes under them.

What is hard: groups of a batch produced one after the other with an error in
the middle; calls given up on that the broker handles all the same; a retry of a
whole batch; acks that are not waited for; offsets computed from a base; a long poll with a deadline inside a
server with a deadline of its own; retention and topic deletion between two
calls; two goroutines that refresh one cache with answers of different age; a
close that is deferred past a shutdown that may time out, and past the end of
signal handling; probes that share a
request but not a deadline; two lists of accepted settings, one in the
validation and one in the constructors, with the producer opened in between.
`PROJECT.json` lists
each at its line under "hazards".

What makes each component right:

- publishing: offsets answered are exact; nothing is recorded twice (sync) or
  more often than retries explain (batched); keys keep their order; nothing of a
  refused request is recorded; a 200 means everything is recorded, where acks are
  required; nothing is sent after the answer; a request is answered;
- consuming: a page starts where it was asked to, misses nothing that is
  retained, holds exactly what the filter wants, shows it so that it can be
  published again as the same document, and is answered within its budget;
- listing and describing: one view of the topics; every partition once, with
  watermarks of the time of the request;
- JWKS: a withdrawn key expires, a published key is found, a lookup is decided;
- readiness: what it says was so while it was asked, within the probes' budget;
- the gateway: a token for everything below `/topics` and for nothing else;
  counters that agree with the answers and with the topic;
- the start: what the configuration accepts starts, unless a file is bad, and
  what serves has dropped no setting;
- the process: a clean stop drops no request, the producer outlives its users,
  every exit of `run()` closes it and tears no write, a signal stops the process.

## 2. Modules

`Errors` — a Go error is the set of sentinels `errors.Is` finds in it;
`classify` is the switch of `errors.go`, first match first.

`PublishRequest` — a request as it arrives: bodies up to one message over the
limit, the errors validation can give, the batches that reach a producer.

`PublishContract` — the abstract specification of a publish, in terms of the
client: accepted size, records stored, code answered. `Confirm` needs every
record stored; `Reject` only happens to a request of which nothing is accepted;
`Store` may go on after the answer, because calls that were given up on are
handled late.

`SyncPublish` — one action per step of `SyncProducer.Produce`: `Metadata` /
`MetadataFails` (`partitions`), the grouping loop (any grouping that keeps input
order and puts a key in its partition), `SendProduce` (the next group of the Go
map, in any order), `ReceiveOffsets`, `ReceiveNothing` (acks none),
`ReceiveError`, `CallFails` (deadline, connection, client gone), `Finish`.
`BrokerAppend` and `BrokerRefuse` are the broker, which may handle a group after
the caller has gone. `log[p]` is the partition, `inflight` the groups on the way.

`BatchedPublish` — the loop of `Writer.Produce`: a call of the external kafka-go
Writer hands over all messages, which are acknowledged, sent again, or given up
one by one. Whether acks are required, which `validate()` leaves open in both modes,
is a variable that never changes, like auto-creation; without them a message counts
as written once it is sent. `late`
counts the tries of a message that nobody waits for any more, because they timed
out or need no acknowledgement: the broker handles them later (`StoreLate`), also
after the answer, or never. `WriteSucceeds`, `WriteFails`, `StartBackoff`, `Retry`,
`StopRetrying`, `ClientGoesAway` are the branches of the loop.
`containsKafkaError` distinguishes the error chain from the elements of a
`WriteErrors`, as the code does.

`MessageCodec` — pure: what a value and its `value_encoding` become in a
record, and what a response shows of a record. Bytes are kinds: nothing, the
document `null`, another document, text that is neither JSON nor base64, no
UTF-8, the JSON string and the base64 text of others, and a document that is
spelled another way than `encoding/json` spells it (`spelled`: spaces between its
tokens, a `<` in a string). `respondJSON` is what the encoder of the response
makes of an embedded `json.RawMessage`: it compacts and escapes it (`compact`).
A conversion that can fail yields a set, empty if it does.

`ConsumeQuery` — pure: `headerFilters`, the service's validation, `clamp`,
`Matches`. `Consume` — one request against a partition (`log`, first retained
offset `low`): seek by time or offset, resolution of the position at the first
fetch, the read loop, the deadline, the filter, the encoding, and whether the
response can still be written (`sent`). Time is the request's own `elapsed`.

`DescribeTopic` — a list, then a description of one topic of it: metadata, then
the first and last offset of each partition in any order, while the partitions
are written and truncated, the topic is deleted and created again, and its
metadata get an error. History: whether the topic has `changed` since the list.

`JWKS` — the two critical sections and the unlocked fetch of `key()` and
`refresh()`: `Hit`/`Miss` (first read), `SkipRefresh`/`SendFetch` (the floor),
`Answer` (the endpoint), `Store`, `FetchFails`, `Reread`. A key set is a version
of the endpoint's document; `docs` keeps since when each was served. `Tick` lets
time pass only while goroutines are idle or wait for the endpoint.

`Lifecycle` — `run()` from start to exit, the listener's goroutine, signals,
and connections with at most one request each, which go on during the drain and
after it. A signal stops the server while `NotifyContext` has it (`Signal`); before
that, and after its deferred `stop()`, which runs before the deferred close of the
producer, it kills the process (`Kill`). The produce mode is a variable that never changes.

`Config` — pure: the defaults, the reader's parse errors, and `validate()` as
the set of settings it complains about. `Startup` extends `Lifecycle` and
`Config`: the start of `run()` step by step, each step one of `Lifecycle`'s or
none of them: `LoadConfig`, `NewProducer`, `NewClient` (the admin transport and
the reader's dialer), `NewKeyfunc`, `StartServer`. Each constructor checks its
settings again, and reads its files when it runs, when they may be good or bad
whatever they were before. `link` is what each kind of connection is secured
with, `guard` what verifies tokens, `blame` what a start failed on. Afterwards
`Run` takes the steps of `Lifecycle`.

`Readiness` — `Ready()` over a list of dependencies: `BeginReady`, then for each
of them `ProbeSucceeds` or `ProbeFails`, with a `clock` per probe, while
dependencies come and go and the client may leave. The timeout is any integer, as
in the configuration; `ProbeTime` is what `context.WithTimeout` leaves of it.
`Gateway` extends it with the
router and the middleware around every handler: `Arrive` routes, `CheckToken`
is `JWTAuth`, `Ready`, `Query`, `RejectPublish`, `CallProducer`,
`ProducerReturns`, `CountMessages` and `Reply` are the handlers with the metrics
decorators, `Finish` the deferred part of the metrics middleware. The counter of
operations and that of messages are two steps, between which a scrape may come.
A publish inside it is what `PublishContract` allows if acks are required, and
ends without an error at any time if they are not; the two publish modules show
that they are such.

`MCSyncPublish`, `MCConsume` and `MCStartup` give TLC its hash, its queries and
records, and its environments; the other modules are checked directly.
`Order` — `Ascending`: a finite set of numbers as a sequence, which is what the
sorts of the code and a loop that appends make of one.

The proofs are in `SyncPublishProofs`, `BatchedPublishProofs`, `ConsumeProofs`,
`DescribeTopicProofs`, `JWKSProofs`, `GatewayProofs` (with `Readiness`),
`StartupProofs` (with `Lifecycle`) and `OrderProofs`.

## 3. Runs

| Run | Shows | Bounds |
|---|---|---|
| `sync_publish` | exact offsets, at most once, key order, contract, an answer | 2 requests, batches of up to 2 (a third is refused), 2 partitions, one key and unkeyed messages |
| `sync_noacks` | key order with acks none (at most once is proved for all acks) | the same |
| `batched` | duplicates bounded, nothing sent after the answer, an answer, contract, through 5 attempts and with tries handled late | 1 request of up to 2 messages, one resend per attempt, auto-creation on or off, acks required or not |
| `consume` | window, filter, start of a page, encoding, an answer within the budget | 3 records of 3 kinds, pages of up to 2, waits of up to 2, header filters of up to 2 values of one name |
| `describe_topic` | list and description agree; complete, ordered, truthful, answered | 2 topics, 2 partitions of 1 record, 2 creations |
| `jwks` | expiry and discovery of keys, every lookup decided | 2 goroutines, 2 successive key sets, time to 5, ttl 2, floor 1, fetch 1 |
| `startup` | accepted starts, nothing dropped; clean stop, close order, writes torn by nothing but a second signal, stop on a signal | 2 connections, the environments that differ from 4 deployments in one setting or two related ones |
| `gateway` | truthful and timely readiness, guard, counters, an answer, contract | 2 requests, 2 dependencies, timeout 1, batches of up to 2, authentication on, acks required |

Why the bounds are enough. Two requests are the least that interleave in a
partition, and a batch of two is the least that is split over partitions, fails
half way, or has an order. One resend and five attempts are what the bound on
copies multiplies; requests of the batched mode share nothing but the topic. Three records let a page of two leave one behind, and let
retention pass the reader. Two creations of a topic separate metadata and
offsets of different incarnations. In `jwks` the clock outlasts
`max(ttl, floor) + fetch` from the first fetch, so the bound is exceeded when it
can be. In `startup` the settings that `validate()` or a constructor relates to each
other are varied in pairs, from deployments that use SASL and TLS, a secret, a
key set, and none of them; values are the boundaries of each check and one
beyond. In `gateway` two dependencies are the least of which one can be blamed
for the other, and a timeout of one tick lets both run out; with authentication
off every route is like a public one. Timeouts that are not positive and acks none
are settings of `Gateway` that its theorems cover and its run does not. A request is unique to its connection in `Lifecycle`, so two
connections give one that is written to while the other ends.

Deadlock is not checked: every model ends when its requests are answered.

Each passing property has a mutant in `PROJECT.json`: the same model with one
plausible bug, under which the property fails.

### Disagreements found

Shown by a run that ends in a counterexample:

| Run | Documentation | Code |
|---|---|---|
| `sync_noacks_offsets` | "reports each record's exact (partition, offset)" (`syncproducer.go:15`) | with acks none, offsets are counted from 0 |
| `consume_from` | "Start at the first offset whose timestamp is >= this value" (`openapi.yaml:126`, `client.go:62-63`) | when no record has reached the time, the page starts at the end of the partition, with the next record appended, also an older one |
| `consume_timeout` | a timeout returns what was read (`README.md:285`) | a poll longer than `KRA_SERVER_WRITE_TIMEOUT` is never delivered; the defaults allow it (30s, 10s) |
| `jwks_floor` | a minimum interval between refreshes (`jwks.go:45`) | lookups that run together all fetch |

Met in the source while modelling, and visible in the models, without a run:

- `ErrInvalidQuery` "maps to a 400" (`service/errors.go:12`), but `classify` has no
  case for it, so a negative partition or an `until` before `since` is answered
  502 `kafka_error` (`errors.go:40-57`);
- a batched publish is "blocking until the broker acknowledges"
  (`writer.go:72-73`), but with acks none a 200 is given for a batch that may never
  be recorded (`Acknowledged`), which is why the contract has nothing to say of it;
- a filter keeps "only messages carrying all given headers" (`openapi.yaml:144`,
  `consume.go:60`), but of a repeated name only the last value is required
  (`params.go:110`), so the page can have more (`FilterExact` leaves it that);
- valid JSON is "embedded verbatim" (`README.md:282`, `params.go:115-116`), but the
  encoder of the response compacts it and escapes `<`, `>` and `&` in it
  (`respond.go:18`, `respondJSON`), so the client gets the same document and not the
  same bytes, which is what `ReplayKeepsMessages` promises;
- `Close` "flushes and releases" the producer (`writer.go:132`), but a second signal
  during it kills the process before: `stop()` is deferred after the close, so it runs
  first and signals have their default effect again (`main.go:75`, `:150`);
- sync mode "enables partial-failure reporting" (ADR 0001:58-59), but the
  coordinates gathered before a failure are dropped (`syncproducer.go:101-106`);
- 404 is for an unknown topic "when auto-create is disabled" (`README.md:299`),
  but it also follows five attempts with auto-create enabled (`writer.go:107`);
- an absent topic is `ErrTopicNotFound` (`service/errors.go:5`), but it is a 502
  when the topic goes between the two calls (`client.go:196`);
- "unmatched requests collapse to `route="unmatched"`" (`README.md:354-355`), but
  what nothing below `/topics` matches, and what is refused for its token, is
  counted under the pattern of the mount (`metrics/http.go:26`, `Label`);
- `value_encoding` `string` wants a JSON string (`publish.go:47`), but takes the
  document `null` for an empty one, which is then refused as an empty value
  (`publish.go:83-87`, `unmarshalString`);
- on a failed refresh "a cached key is still served" (`jwks.go:19`), but not one
  that another goroutine cached after the first read (`jwks.go:84`).

## 4. Fairness

- `SyncPublish`, `DescribeTopic`: calls of `kafka.Client` have a `Timeout`, so a
  call ends; nothing is assumed of the broker. A handler's goroutine runs on.
  This rests on `KRA_KAFKA_WRITE_TIMEOUT` and the admin timeout being positive,
  as they are by default; `validate()` does not look at them, and a client with
  a timeout of 0 has none: then a silent broker is waited for until the HTTP
  client leaves.
- `BatchedPublish`: kafka-go's Writer makes a bounded number of tries with a
  write timeout (its own default of 10s if the configured one is not positive),
  so each message is settled; the loop runs on. That the broker handles what
  nobody waits for is not assumed.
- `Consume`: time passes, a seek ends with the deadline of its context, and the
  loop looks at its condition and its context. No fairness on records arriving.
- `JWKS`: a lookup runs on, and its fetch ends at the client's timeout; the
  endpoint need not answer.
- `Gateway`: a goroutine runs on, a probe whose context is done ends, and time
  passes. Nothing is assumed of the dependencies; that a producer returns is
  what the runs of the publish modules show.
- `Startup` and `Lifecycle`: `run()` runs on, `Shutdown` has a deadline, a write ends. A
  handler need not, and a signal need not come, neither the first nor a second.

## 5. Proofs

`SyncPublishProofs` proves for all requests, keys, hashes, partitions and batch
sizes:

- `TypeCorrect`, `AtMostOnce`, `KeyOrder`: `Spec => []TypeOK`,
  `[]RecordedAtMostOnce`, `[]PerKeyOrder`, for any acks;
- `OffsetsAreExact`, `SyncImplementsContract`: `[]OffsetsExact` and the
  refinement of `PublishContract`, under `Acks # "none"` (the run
  `sync_noacks_offsets` shows that it is needed).

The inductive invariant `IInv` is `TypeOK` with `PcInv` (what holds at each
control point), `GroupsInv` (groups partition the batch in input order, keys in
their partition), `LogInv` (a record in a log belongs to a group that was sent
and is not in flight, and is there once) and `OrderInv` (records of one group
are in the order of the group). `AtMostOnce` needs "a group that is recorded is
neither to be sent nor in flight"; `KeyOrder` needs the order within a group.
`OInv` adds `OffsetInv`: what has been gathered in `results`, and what a stored
reply announces, is where the log says; it is kept because logs only grow. Both
were first checked by TLC on the instance of `sync_publish`.

`BatchedPublishProofs` proves for all requests, keys, batch sizes and tries of
the external Writer, with auto-creation or without:

- `TypeCorrect`, `BoundedDuplicates`: `[]TypeOK`, `[]DuplicatesBounded`;
- `AnswerEndsTheBatch`: the action property `NothingSentAfterAnswer`;
- `BatchedImplementsContract`: the refinement of `PublishContract`.

All four hold with required acks and without. Without them the refinement mapping
hides a 200, which then promises nothing: what is left is that only accepted
batches are ever recorded, and that an error says why. Records may still appear
after an answer, also after a 404: they are tries made before it, which `Store` of
the contract allows.

The bound on duplicates is not inductive: `CopiesInv` counts, with the copies
recorded, those that may still be (`late`) and the tries a message still has in
the call under way (`Unused`). `CallInv` says that in a call without a failure
every message is recorded or still with the Writer, if acks are required, which
makes the 200 true, and that the error of a call is never taken for the client's
mistake, which makes `Reject` true; `AnsweredInv` that the Writer holds nothing of
a request that was answered, unless its client left.

`ConsumeProofs` proves for all queries, records, header pairs, limits and waits
that the configuration accepts, whatever is appended and truncated:

- `TypeCorrect`, `WindowIsContiguous`, `FiltersExactly`, `StartsAsAsked` and
  `ReplayIsFaithful`, that is `[]TypeOK`, `[]WindowContiguous`, `[]FilterExact`,
  `[]StartsWhereAsked` and `[]ReplayKeepsMessages`.

`FilterExact` promises all wanted messages to every query, and no others to those
that give no header name two values (`NamedOnce`): for the rest the code asks for
less than the documented filter. `StartsWhereAsked` has a bound on both sides: nothing owed is skipped, and the first record is not before
the offset or older than the time, unless records of that time were deleted
meanwhile or the look-up found none; only then may an older record begin the page
(`consume_from`). `ReplayKeepsMessages` speaks of documents and not of their
spelling (`compact`).

`StartInv` carries both bounds (`Sought`, with `MayBeginAt`) from the look-up of a
time (`LookedUp`), over the first fetch, to the first message; they
survive a truncation because truncated records are no longer owed but remembered
as gone, and an append because what is accepted later is not older than the query. `WindowInv`
says the same of two neighbours of the window, and that the reader stands behind
the last. `PageInv` says that a message of a page is its record as the codec
renders it, which `ValueComesBack`, `KeyComesBack` and `ShownHeaders` turn back;
these three go through every kind of bytes and every list of headers.
`MatchesWanted` relates the code's filter to the documented one.

`DescribeTopicProofs` proves for all numbers of topics, partitions, records and
creations `TypeCorrect`, `DescriptionIsTrue` and `ListsWhatItDescribes`:
`[]TypeOK`, `[]DescriptionWasTrue` and `[]DescribedAsListed`. `AsOfInv` relates
the metadata that were read to what the topic has become: the same partitions,
grown and aged, or none, or another creation. `OffsetsInv` says that each
watermark received lies between then and now; `ListInv` that a topic which has
not changed since the list is still what the list made of it.

`GatewayProofs` proves for any set of requests, finite or not, any number of
dependencies, any timeout, also zero or negative, any batch size and acks, with
authentication on or off:

- `ReadyTellsTheTruth`, `ReadyKeepsItsBudget`: `[]ReadyIsTruthful` and
  `[]ReadyWithinBudget`;
- `OnlyTheDataPlaneIsGuarded`, `CountersAlwaysAgree`: `[]OnlyDataPlaneIsGuarded`
  and `[]CountersAgree`;
- `GatewayImplementsContract`: the refinement of `PublishContract`, under
  `Acks # "none"`.

With acks none `CountersAgree` still relates the counters to each other and to the
answers, but promises nothing of the topic. A failed check promises something
only under a positive timeout, a successful one under any. The gateway's steps are steps of the readiness loop or leave it alone
(`ReadyStep`), so its invariant is proved of the loop: the time waited is at most
a timeout per probe that ended and the clock of the current one (`LoopInv`), and
a probe whose clock has run out has seen its dependency fail (`SeenInv`).
`TokenInv` follows a token from the middleware to the answer. `CountersInv` gives
each counter as the cardinality of a set of requests or records, those whose
operation is counted (`Successful`) and those whose messages are too (`Counted`);
it needs that
only finitely many requests have begun, which is an invariant and no assumption.

`OrderProofs` proves that `Ascending` orders a set (`AscendingOrders`), that a
finite set of numbers has a least and a greatest member, and what the
arrangements of a set have in common. They serve the two modules above; that is
why `Consume` and `DescribeTopic` state the result of a loop or sort with
`Ascending` and not with a fold, of which the provers could show nothing.

`JWKSProofs` proves for all goroutines, key ids, rotations and intervals:

- `TypeCorrect`, `WithdrawnExpires` and `PublishedFound`, that is `[]TypeOK`,
  `[]WithdrawnKeyExpires` and `[]PublishedKeyIsFound`.

The inductive invariant says of the cache that its set was served at most one
fetch before `fetchedAt` (`CacheInv`), of a fetch that it is within its deadline
and its response was current when it was sent (`FetchInv`), and of a goroutine
that is about to read again that the cache is within the floor (`RereadInv`).
The lock alone does not give the first: a slow fetch may overwrite a newer set,
and what bounds the damage is the deadline of the fetch.

`StartupProofs` proves in its first part, about `Lifecycle`, for any number of
connections, in both modes, `TypeCorrect`, `CleanStop`, `ProducerOutlives`, `ExitsClose` and
`WritesComplete` (which is about the batched mode: `Close` of a sync producer
waits for nothing). `NoWriteTorn` says that an exit of `run()` tears no write, and
that what tears one is a second signal during the close, after a stop that was an
error: such a signal has its default effect again, because `stop()` is deferred
after the close (`main.go:75`, `:150`) and so runs before it. Its invariant relates
what is open to where `run()` is (`RunInv`), says that after a clean stop no
connection can begin or go on (`CleanInv`), and that only the end of the process
cuts a handler (`CutInv`).

In its second part it proves for every set of environments, with no assumption
on them:

- `StartImplementsLifecycle`: `StartSpec => Spec`. Each step of the start is one
  of `Lifecycle`'s or a stutter (`StepsOfLifecycle`), so the theorems about
  `Lifecycle` are about the whole process (`WholeProcessIsSafe`);
- `AcceptedStarts` and `ServingIsAsConfigured`: `[]StartsIfAccepted` and
  `[]ServesAsConfigured`.

What `validate()` having no complaint means for the constructors is stated once
(`AcceptedSecurity`, `AcceptedAuth`, `AcceptedErrors`). The invariant `StartInv`
says how far `run()` is at each step of the start (`PhaseInv`), what has been
built by then (`BuiltInv`), and that a process which serves has built all of it
from an accepted environment (`ServingInv`); the last needs that `Lifecycle`
never goes back to serving (`RunGoesOn`).

The assumptions are those named in the modules: a positive batch size and
number of partitions, a hash from keys to partitions, `NoKey` not a key,
intervals in `Nat`, one of the two produce modes, a positive number of topics,
partitions, creations and dependencies, an integer health timeout, a positive
default limit within the maximum and a default wait within its maximum (all that `validate()` checks),
and, for `Consume`, that keys, values and headers are made of the kinds of bytes
of `MessageCodec`.

Each inductive invariant was checked by TLC on the instance of the module's run
before it was proved.

Model-checked only: liveness (`EveryRequestAnswered`, `EveryQueryAnswered`,
`EveryDescriptionAnswered`, `EveryLookupDecided`, `SignalStops`), which rests on
fairness and enabledness, and the disagreements of section 3, each of which is
one counterexample. Every invariant, every action property and every refinement
that a passing run checks is stated by a theorem, with one restriction:
`OffsetsExact` and the contract, of either producer and of the gateway, promise
something of a 200 only where acks are required, as said above.

## 6. Not modelled

The verification of signatures and claims (golang-jwt); what TLS and SASL do on
a connection; request logging, request ids and the recovery from panics; latency
histograms and the counter of consumed messages; leaders and replicas in a
description; log compaction and transactions in the broker; the metadata cache of
kafka-go's transport, by which a metadata call or a probe may be told what was so
a few seconds before (its default of 6s): "now" in `DescribeTopic` and `Readiness`
means the view of that cache. Settings that only
pass through the configuration (host, server timeouts, log level, TLS server
name, issuer, audience) are left out, and so is the check that there is a
broker, which cannot fail: an empty list is read as the default. A request body
larger than the limit is one of the refused bodies. In `JWKS`, a document of
which one key is malformed is a failed fetch.

## 7. Plan

The components that keep state or have an order are modelled, and their safety
properties proved. Left:

1. one theorem that composes the publish modes with the gateway: a step of
   `SyncPublish` or `BatchedPublish` is one of the producer inside `Gateway`
   (today the two meet in `PublishContract`, which both sides refine);
2. the page after the next as a theorem: `StartsWhereAsked` and
   `WindowContiguous` of successive requests put together (below);
3. bounds that liveness rests on, as safety: the tries left of a request never
   grow.

A client that follows a partition page by page, from the offset after the last
message it saw, needs no module of its own: that it misses nothing that is
retained and sees nothing twice is `StartsWhereAsked` for the next page with
`WindowContiguous` for each.
