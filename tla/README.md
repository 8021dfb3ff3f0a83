# A verification project for otel-agent-trace-connector

The connector turns the telemetry of coding agents into canonical traces. Its
logs edges are stateful: they collect the log records of a conversation until
they decide that a turn is over, and then deliver one trace. This directory
holds TLA+ models of the connector, the TLC configurations that check them on
small instances, and proofs that TLAPS checks for every value of the constants.
`PROJECT.json` maps every definition to the lines it models.

Paths below are relative to `connector/codingagentconnector/` unless they start
with `docs/`, `e2e/` or `examples/`.

## 1. The system

| Component | State it keeps | Operations | Talks to |
|---|---|---|---|
| Codex logs edge, `internal/codex/connector.go` | a map from conversation ids to turns, a mutex, a ticker, `stop`/`done` channels | `ConsumeLogs`, `Start`, `Shutdown`; internally `add`, `evictOldestLocked`, `collectReady`, `emit`, `flushAll`, `sweepLoop` | called by the logs router from any number of goroutines; calls the trace builder and the downstream consumer |
| Cursor logs edge, `internal/cursor/connector.go` | the same over bursts | the same | the same |
| Event parsing, `internal/{codex,cursor}/event.go` | none | claim a record, date it, give it a dedupe key | the edges |
| Trace building, `internal/{codex,cursor}/trace.go` | none | order the events of a turn, pair and deduplicate model calls and tools, derive ids | `emit` |
| Logs router, `logs.go` | none | fan a payload out over the two edges in order, stop at the first error; fan out start and shutdown | both edges |
| Traces router, `traces.go` | none | fan a payload out over six normalizers | the normalizers |
| Normalizers, `internal/{claude,genai,opencode,pi,openhands,codextraces}` | none between calls | claim resource groups; rename, reparent, fold and drop spans; rewrite attributes, filter resources | downstream |
| Canonical contract, `internal/canonical`, `contract` | none | conformance rules on a trace | the tests and the validator |
| Configuration, `config.go`, `factory.go`, `internal/codex/config.go` | none | defaults, `Validate` | everything |
| Telemetry, `internal/metadata`, `metrics.go` | counters nobody reads back | | |
| HA routing, `examples/k8s-ha`, `docs/multi-instance-ha.md` | the ring of an external load balancer | routes a conversation to one second-tier collector | two instances of the connector |
| Validator, `e2e/validator` | none | compares exported files with expectations | a test tool |

What is hard, and where:

* **Concurrency.** `ConsumeLogs` runs on any number of goroutines against the
  sweeper and the shutdown. Turns are removed from the map under the mutex and
  delivered without it. The clock is read before the mutex is taken.
* **Order.** Records arrive late, early and in pieces; only the records of one
  payload are sorted. Whether a turn is answered is maintained record by record.
* **Delivery.** Upstream delivers at least once, downstream may refuse, and a
  refusal makes the upstream send again.
* **Time.** Three clocks: the source timestamps, the wall clock at arrival, and
  the time a tick was put in the ticker's channel.
* **Bounds.** The map and each turn are bounded; what happens at the bound
  (eviction, truncation) must not change anything else.
* **Shutdown.** It waits for a sweeper that may be delivering, that may never
  have been started, or whose delivery may outlast the context.

What makes the components correct:

* logs edges: no turn is delivered twice or forgotten; the bounds hold; a turn
  holds distinct records of one conversation and at most one prompt; it is
  swept exactly when it was answered and quiet or has timed out, and evicted when no
  other has been quiet for longer; redeliveries and overflow are inert; everything opened is offered in the end; shutdown drains;
* routers: a record or a group is claimed by at most one edge;
* trace building: every model call and tool appears once, usage is counted
  once, the result does not depend on the order of arrival;
* event parsing: a redelivered record is the same record, two different ones are
  not, and its date is one the record names;
* normalizers: every kept span of a batch hangs from the turn of its own trace
  when that turn is in the batch, ids are unique within a trace, usage is reported
  once whatever the batches;
* attributes: the contract holds on every span and resource, no counter is lost,
  and identity goes out only when it is configured.

## 2. The modules

| Module | Models |
|---|---|
| `EdgeConfig` | the configuration, with what `Validate` accepts as its assumption, and the records |
| `CodexTurn`, `CursorBurst` | `turnState`, `burstState` and their `add`: one turn as a record, and the predicates on what it retains |
| `StatefulEdge` | what both connectors share: the map, callers, sweeper, ticker, host, deliveries |
| `CodexConnector`, `CursorConnector` | `StatefulEdge` with the loop of `ConsumeLogs` and `collectReady` of each edge |
| `TurnLedger` | the abstract specification of a logs edge |
| `LogClaims`, `EventIdentity` | which records `parseEvent` and `ParseRecord` claim; the name, date and dedupe key they give a record |
| `LogsRouter` | `logsRouter`: a payload offered to one edge after the other, refusals and retries, start and shutdown of both |
| `SpanClaims`, `TracesRouter` | which groups and spans each of the six trace edges takes; `tracesRouter`, with refusals, retries and payloads given up |
| `Assembly` | how spans and records come together in batches, and the backend that keeps what an edge makes of each |
| `CodexNative`, `PiEdge`, `OpenHandsEdge` | the three normalizers that change the tree: reparenting, removal, synthetic roots, folding |
| `CodexTrace`, `CursorTrace` | `buildTrace` of the two logs edges: order, bounds, ids, chat and tool spans, root events |
| `CanonicalContract` | the vocabulary, the filters of spans and resources, the conformance rules, and rules that copy an attribute |
| `TraceAttributes`, `LogAttributes` | the rules of each trace edge and of each logs edge |
| `SpanAttributes` | one span through the rules of its edge |
| `MC...` | the instances TLC checks |
| `...Proofs` | the theorems: of each logs edge and what both share, of each router, of the batches (`AssemblyProofs`), of the attributes (`SpanAttributesProofs`) |
| `InductionLemmas` | finite sets, numbers and orders, for the proofs |

`internal/codex/connector.go` and `internal/cursor/connector.go` are one program
twice, down to the names of the functions. `StatefulEdge` is that program; the
two connector modules add what differs: the record of a turn, the dedupe key,
the prompt that supersedes, the two conditions that close a turn and the order
they are tried in.

### The logs edges: state and actions

| Code | Model |
|---|---|
| `turns` / `bursts` (`activeTurnCount` is its domain) | `turns`, a function on a set of conversations |
| `mu` | `mu`, the worker that holds it between two steps |
| a goroutine in `ConsumeLogs` | `pc[w]`: `idle`, `waiting` for the mutex, `locked`, `emitting` |
| local `events`, `now`, `finalized` | `batch[w]`, `now[w]`, `pending[w]` |
| `ticker.C` | `ticker`: empty or the time of one tick |
| `sweepLoop`, `stop`, `done` | `sweepPc`: `off`, `select`, `emitting`, `exited` |
| `Shutdown` | `hostPc`: `up`, `waiting`, `flushing`, `stopped`, `abandoned` |
| parse, sort, `now := time.Now()` | `Call(w)` |
| `c.mu.Lock()` | `Lock(w)` |
| one iteration of the loop | `Process(w)`: `Drop`, `Extend`, `Supersede`, `OpenTurn` or `EvictAndOpen` |
| `c.mu.Unlock()`, then `emit` | `Unlock(w)`, `Deliver(w)` or `Fail(w)` for each turn, `Return(w)` |
| tick, `collectReady(now)`, `emit` | `TickerFires`, `CollectReady`, `Deliver`/`Fail`, `SweepAgain` |
| `<-c.stop` | `SweepStops` |
| `Shutdown` | `Shutdown`, then `FlushAll` and `ShutdownReturns`, or `ContextExpires` |

The loop of `ConsumeLogs` is one step per record although the mutex is held,
because other goroutines read the clock, put ticks and deliver meanwhile.
`collectReady` and `flushAll` hold the mutex for their whole body and are one
step each.

Two variables are history: `delivered` and `lost` are the ids of the turns that
downstream took or refused. So are the fields `id` and `newest` of a turn and
`id` and `opened` of a burst. No action's guard reads any of them.

`TurnLedger` is what an edge promises, without goroutines, clocks or mutexes: a
turn opens, keeps records of its conversation up to its capacity, is frozen when
it closes, and is offered once. Both edges implement it under the mapping
`OpenEntries`, `ClosedEntries`; the ids that downstream took and refused map to
themselves.

### The routers: state and actions

`LogsRouter`: `Send(c)` is the start of `ConsumeLogs` (or its early return without
the logs signal); `Take(c, e)` is one record of the loop of edge `e` under its mutex,
which skips it, discards it because the turn is full, or retains it (`Skip`, `Discard`,
`Retain`); `Accept(c, e)` and `Reject(c, e)` are the answer of edge `e`, `Retry` and
`GiveUp` the sender, `Start`, `Shutdown`, `Drain(e)`, `Abandon(e)` and `Expire` the
lifecycle. Of an edge it keeps, for each conversation, the identities its open turn
holds and whether the turn is truncated (`turns`), by the date and the key
`EventIdentity` gives a record when it is parsed. A turn may close at any time
(`Close`). `taken` and `marked` are history: the records an edge has retained, and the
conversations of which a truncated turn has closed.

`TracesRouter`: `Send`, then one `Forward` or `Refuse` per edge in the order of
`newTracesRouter`; `Retry` and `GiveUp`. A refusal may come after downstream took
the spans.

### Assembly: what came together

The six trace edges keep nothing between calls, and a finalized turn or burst is a
function of the records it retained. `Assembly` therefore has two actions: `Add`
puts the next item in the batch that is being built, as a new group or in the last
one, and `Close` hands the batch to the edge, whose output joins the backend. All
orders and all compositions of batches are behaviours, and a loss is an item that
is never added. A batch that is sent again gives the same spans, so retries add
nothing and are left out. The Codex logs edge gets one batch per turn, the Cursor
logs edge several bursts of one conversation.

`Normalize(edge, batch)` is a parameter: the composition does not depend on what an
edge makes of a batch. `MCAssembly` gives it the functions of all five edges. What an
agent may send is `Sent`, and each edge's module says what it relies on there (section
4, *What is assumed*).

A sort is the list of a set in an order (`InOrder`): `SortedBurst` and `Sorted` order the
positions of the records, which is what makes `sort.SliceStable` stable. That following
parents leads to a root is said by closed sets of spans (`HangsFromRoot`) and not by
a recursion.

### Attributes

`SpanAttributes` has one action per outcome (`Normalize`, `Drop`). The attributes of
a span are a function from keys to kinds of values (integer, double, digits, text);
a rule says which keys are read for a canonical key, in which order, and which kinds
it accepts. The edges that write in place (Claude, GenAI) strip afterwards, the
the others build anew; the keys of the resource are read before its filter. Any
attribute may be absent, the name of the service included.

### Abstractions

* A record of the logs edges is its conversation, its kind, its timestamp and
  `body`, which stands for all else the fingerprint covers: two records are equal
  exactly when their fingerprints are. A Cursor record has the event id the edge
  deduplicates by, which two different records can share.
* Upstream is a set of payloads, any of which may be sent again at any time.
  The sort of `ConsumeLogs` is stable on the timestamp; a payload is a set here
  and records with equal timestamps come in any order. The same record twice in
  one payload is left out: it meets the guard of a redelivery.
* One clock stands for `time.Now()`. The time of a tick is the clock when it
  was put in the channel, and the channel has room for one.
* A turn that `emit` builds is offered once; which one first is left open.
  `buildTrace` errors are only logged and change nothing else.
* `resource` is left out of the connectors: no decision of theirs reads it.
* `LogsRouter` leaves out why turns close and what becomes of them, which are
  `CodexConnector` and `CursorConnector`: a turn closes whenever it likes, so evictions,
  supersessions and sweeps are all among its behaviours, and a record that comes again
  after its turn closed opens another one. The records of a call are parsed in one step,
  when the call enters the edge. An edge takes its records before its delivery can fail,
  as in `ConsumeLogs` of both connectors. The sender is outside this repository. A record
  there is the places its name is read from, with names reduced to their namespace, one
  conversation for both edges, and its timestamps.
* Hashes are injective: the ids made from SHA-256 are the tuples that are hashed.
* A span is the marks its claim and its kind are read from. In `PiEdge` and `SpanClaims`
  removal is by span id within a slice, as in the code. Prompts of Pi spans are left
  out; names, status and events of spans too, but for the events of a root.

## 3. What TLC checks

Mutants of the code (`...Forgotten`, `...Again`, `AddBeyond` and so on, each
next to the definition it mutates) show that each property can fail.

| Run | Instance | Shows |
|---|---|---|
| `codex_concurrent` | 2 callers, 3 calls, 4 payloads over 2 conversations, room for one turn of 2 records, zero reorder window, calls also during and after shutdown | `TypeOK`, `WithinBounds`, `NoTurnTwice`, `NoTurnForgotten`, `TurnsConsistent`, `OnePromptPerTurn`, `LedgerSpec` |
| `codex_arrival` | 1 caller, 4 calls, the 5 records of one conversation in 4 payloads (two of them, equally dated, in one) in every order with repetition, a payload of two other conversations, room for two turns of 4 records, window 1, timeout 2, clock to 3 | `CompletionExact`, `ShutdownDrains`, `ClosedForCause`, `QuietPeriodHonoured` |
| `codex_liveness` | 2 callers, 2 calls, fairness | `EveryTurnSettles`, `ShutdownCompletes` |
| `codex_stale_clock` | the records of `codex_arrival`, 2 callers, 2 calls, room for one turn | `QuietPeriodHonoured` is **violated** |
| `codex_late_completion` | the records of `codex_arrival`, 3 calls, room for one turn | `LaterWorkReopensTurn` is **violated** |
| `cursor_concurrent` | as `codex_concurrent`, an event id that returns with another timestamp | `TypeOK`, `BurstsConsistent`, `LedgerSpec` |
| `cursor_clocks` | 1 caller, 3 calls, records dated before, at and after arrival, one beyond the end of time, fairness | `SweepCapsAge`, `EveryTurnSettles` |
| `router_calls` | 2 callers, 3 calls, 2 payloads with more records than the 2 a turn has room for: every place a name can be in, every timestamp and none, content, a stranger, relayed records; turns close at any time; either edge may refuse; signals with and without logs; a clock that moves between retries | `TypeOK`, `OneEdgeIfNamesAgree`, `AckedMeansTaken`, `GivingUpKeepsCodex`, `DatedRetainedOnce` |
| `traces_router` | one payload: every group of up to 3 of 10 kinds of spans under one resource, and pairs of groups of one agent; any edge may refuse | `GenAIYields`, `SpanTwiceOnlyByCodex`, `AckedMeansEmitted` |
| `edges_assemble` | 18 agents: 4 Codex native and 3 Pi exports, 5 OpenHands conversations, 3 Codex turns, 3 Cursor conversations; every order and composition, any part lost | `TurnsAreTrees`, `ModelOfOwnTrace`, `SlicesAreTrees`, `FragmentsStand`, `CountedOnce`, `CallsShownOnce`, `BoundsSound`, `ArrivalOrderIrrelevant`, `EveryRecordShownOnce`, `BurstTracesStable` |
| `pi_traces` | one Pi export with the spans of two messages | `RootOfOwnTrace` is **violated** |
| `span_attributes` | every edge, operation and canonical key, with every attribute that bears on the key, and the name of the service, absent or of each kind | `Contract`, `CountersKept`, `CanonicalKeyWins`, `ConversationKept` |

The bounds and why they are enough. Logs edges: one slot is the smallest map that
is full, and with two conversations every opening of the other one evicts; two slots
and three conversations (`codex_arrival`) give an eviction a choice; two or four
records fill a turn, so overflow, duplicates and supersession all meet a full turn; three calls on two workers let one call wait for the mutex while another
one opens and a third one closes a turn; the clock runs just past the timeout of a
turn opened at the call horizon. `MaxCalls`, `CallHorizon` and `MaxTime` are the
only bounds that are not in the code. Logs router: two callers are enough for one
to succeed where the other fails, three calls for a payload to be refused and sent again
while another one fills its turn, and a clock of two for a redelivery at another time.
Traces router: payloads do not interact, so one is enough; three spans are the most any
claim relates. Assembly: an export has the spans of one or two turns,
with the shapes the rules tell apart (a dropped span between two kept ones, a
nested turn, equal ids in two traces, a wrapper of one call and of two, the call
and the result of a tool, frames with and without a completion, joins in both
directions), and the bounds on batches let every item have its own. Attributes:
no rule relates the keys that feed two canonical keys, so one canonical key at a
time is enough; every other key is one no rule reads.

`UpstreamStopsFirst` is how the collector works: receivers are shut down before
connectors, so no call is in flight at `Shutdown` and none comes after. The
concurrent runs with `FALSE` check that safety does not depend on it. Draining and
liveness do, and are stated with `TRUE`.

`CHECK_DEADLOCK FALSE` is only where behaviours are meant to end: the trace routers'
sender has sent its payloads, the agent has sent its items, the one span is out.
The stateful edges and the logs router end in `Terminated`, and deadlock is checked.

### Fairness

Goroutines are scheduled and the mutex is eventually free to a waiting worker
(weak fairness of `Lock`, `Process`, `Unlock`, `Return`, and of the sweeper's and
host's steps); time passes and ticks are put; downstream answers, with success or
an error. A `select` with two ready cases chooses at random, so a closed `stop`
is taken in the end although ticks keep coming: strong fairness of `SweepStops`.
Nothing obliges anyone to call, to shut down, or the context of `Shutdown` to
expire.

### Disagreements found

Three are runs:

* **The quiet period can be cut short** (`codex_stale_clock`). The README (line 238)
  starts `reorder_window` "after the most recently received Codex event".
  `ConsumeLogs` reads the clock before it waits for the mutex and stores the reading
  in `lastSeen` without comparing, so a call that waited puts the clock of the turn
  back. With one caller at a time the property holds (`codex_arrival`), with the choice
  of the turn to evict (`ClosedForCause`), and is
  proved.
* **A completion that arrives late wins over later work** (`codex_late_completion`).
  `docs/design.md` lines 261-263 say that a later tool result or model request
  invalidates the completion. `add` looks for that only when the work arrives after
  the completion. What the flag does mean is `CompletionExact`, which is proved.
* **A Pi tool can hang from the turn of another message** (`pi_traces`).
  `reparentOrphans` takes the first turn of the slice for every orphan, of whatever
  trace, though a trace is one user message (`docs/design.md` 634-635). Slices of one
  trace are right (`SlicesAreTrees`).

Others were met while modelling and are recorded here; each property named is the
part that does hold.

* `traces.go` line 28 and `docs/design.md` lines 470 and 709 say a group is emitted
  at most once. The edge of native Codex traces defers to nobody, and several edges
  claim by scope, so a mixed group goes out in parts through several edges, and a
  span can go out twice when one of them is the Codex edge (`GenAIYields`,
  `SpanTwiceOnlyByCodex`).
* `docs/design.md` line 682 says Pi children in a batch of their own become roots.
  They keep the parent of the wire (`SlicesAreTrees`).
* `docs/design.md` lines 718 and 742: the call and the result of an OpenHands tool
  become one span and the cache counters of a wrapper land once. Both hold where the
  two spans come in one resource group of a batch (`CountedOnce`); across batches the
  stateless edge sees one without the other.
* `docs/design.md` lines 303-305 say that replaying a complete event set gives the
  same ids. Records with equal timestamps keep the order of arrival and spans are
  numbered in that order, so it holds where timestamps differ (`ArrivalOrderIrrelevant`).
* `codex/trace.go` line 319 calls a frame a duplicate "exactly when" the next
  completion reports the call. If the completion of the first call is lost, the frame
  of the first call pairs with the completion of the second. `CallsShownOnce` claims
  one chat span per call only for turns that are complete, and never two otherwise.
* `codex/event.go` line 66 gives a record without any timestamp the wall clock, which
  is part of its fingerprint: a redelivery is a new record. The Cursor edge does the
  same without an event id. `DatedRetainedOnce` is stated for the others.
* `docs/design.md` lines 781-786 say that `capture_identity: false` withholds the keys of
  a person. The edges that write in place keep a canonical identity key that the
  wire itself carries, unchanged. `IdentityWithheld`, in `Contract`, therefore says what
  the code does: no value of the wire *becomes* the identity of anybody, and such a key
  in such an edge is the only one that goes out.
* `genai/normalizer.go` line 296 speaks of "connector-wide semantics" of counters; the
  OpenCode and OpenHands edges take integers only (`CountersKept`).
* `canonical/resource.go` lines 21-24 require `service.name` on every emitted resource.
  No edge adds it where the sender left it out. `Contract` covers such senders too: what
  is then missing is this name and, of a GenAI span, `coding_agent.client.name`, which
  `genai/normalizer.go` line 191 takes from it (`Lacking`), and nothing else.
* `cursor/event.go` lines 133-135 and `logs.go` lines 21-22 keep the logs edges disjoint
  "whatever a payload contains". A record in Cursor's scope with two contradicting
  names, or a Codex name in its body, and both conversation ids, is taken twice. No
  known client sends one; `OneEdgeIfNamesAgree`, proved for records of any shape, says
  that nothing else is.

## 4. What is proved

TLAPS checks these for every value of the constants that the named assumptions
allow: any number of workers, conversations, payloads and records, and any
configuration `Validate` accepts.

| Module | Theorem | States |
|---|---|---|
| `CodexConnectorProofs` | `TypeCorrect`, `NeverTwice`, `NeverForgotten`, `Bounded` | `[]TypeOK`, `[]NoTurnTwice`, `[]NoTurnForgotten`, `[]WithinBounds` |
| | `RetentionConsistent`, `PromptUnique` | `[]TurnsConsistent`, `[]OnePromptPerTurn` |
| | `CompletionFlagExact` | `[]CompletionExact` |
| | `QuietPeriodWithOneCaller`, `ClosedForCauseWithOneCaller` | `QuietPeriodHonoured`, `ClosedForCause`, properties of steps, with one worker |
| | `Drains` | `[]ShutdownDrains` |
| | `ImplementsLedger` | `Spec => LedgerSpec` |
| `CursorConnectorProofs` | `TypeCorrect`, `NeverTwice`, `NeverForgotten`, `Bounded`, `Drains` | the same of the Cursor edge |
| | `RetentionConsistent` | `[]BurstsConsistent` |
| | `AgeCapped` | `SweepCapsAge`, a property of steps |
| | `ImplementsLedger` | `Spec => LedgerSpec` |
| `LogsRouterProofs` | `RouterTypes`, `Disjoint`, `AcknowledgedIsTaken`, `GivingUpKeeps`, `RetainedOnce` | the five properties of `router_calls` |
| | `ShutdownReaches` | `[]ShutdownReachesBoth` |
| `TracesRouterProofs` | `Acknowledged`, `GenAIYieldsAlways` | `[]AckedMeansEmitted`, `[]GenAIYields` |
| | `RouterTypes`, `InOrderOfEdges` | `[]TypeOK`, `[]EmittedInOrder` |
| | `SpanTwiceByCodexAlone` | `OneAgentPerSpan => (Spec => []SpanTwiceOnlyByCodex)` |
| `AssemblyProofs` | `NativeTurnsAreTrees`, `NativeModels` | `[]TurnsAreTrees`, `[]ModelOfOwnTrace` |
| | `PiSlicesAreTrees` | `[]SlicesAreTrees` |
| | `OpenHandsFragmentsStand`, `OpenHandsCountedOnce` | `[]FragmentsStand`, `[]CountedOnce` |
| | `ModelCallsShownOnce`, `SpanBoundsSound`, `TraceOfRecords` | `[]CallsShownOnce`, `[]BoundsSound`, `[]ArrivalOrderIrrelevant` |
| | `RecordsShownOnce`, `BurstTracesAreStable` | `[]EveryRecordShownOnce`, `[]BurstTracesStable` |
| `SpanAttributesProofs` | `InvAlways` | what is out came in, by the rules of its edge |
| | `ContractAlways`, `CountersKeptAlways` | `[]Contract`, `[]CountersKept` |
| | `CanonicalKeyWinsAlways`, `ConversationKeptAlways` | `[]CanonicalKeyWins`, `[]ConversationKept` |

### What is assumed

The assumptions are those named in the modules. TLC evaluates them in every run of a
module that has them.

| Assumption | Says | Because |
|---|---|---|
| `ConfigAssumption` | positive bounds, the window below the timeout | `Validate` refuses anything else |
| `EventsAssumption`, `CodexEventsAssumption`, `CursorEventsAssumption`, `EdgeAssumption` | records have a conversation, a kind and a date; payloads are sets of records | what `parseEvent` and `ParseRecord` return |
| `TracesAssumption`, `RouterAssumption` | payloads are sets of groups, or of records; turns have room for a record | what the senders' exporters send; `Validate` |
| `OneAgentPerSpan` | no span has the name or marks of two agents | an exporter names its own spans; a hypothesis of one theorem, evaluated by `traces_router` |
| `SentAssumption` | an agent sends finitely many items | |
| `CodexNativeAssumption` | no span is its own ancestor; the scope is the service | parents are made before their children |
| `PiAssumption` | the same; turns may share an id, as in the pinned capture, but a kept span has no id of a foreign one | `pi/normalizer.go` drops by id |
| `OpenHandsAssumption` | ids are random, parents are of the same trace, a wrapper has a call in it and not another wrapper | `openhands/normalizer.go` lines 314-320: the SDK opens one wrapper around each call |
| `CodexLogsAssumption` | model calls come one after the other (`ModelCalls`): a request, a frame, a completion, then the next call | `codex/trace.go` lines 309-321: both records come from one task, in that order |
| `CursorLogsAssumption` | a record has an event id of its own | the edge has deduplicated by event id before it builds |
| `WiresAssumption` | a group of the native Codex edge names its service; a number in the usage object of Pi is no integer | `ContainsCodexSpans` claims no other; JSON numbers decode to `float64` |

`ModelCalls` leaves open which records arrive: any subset of what is sent may be lost,
so turns with a frame and no completion, and the other way round, are covered.

**The logs edges** rest on one inductive invariant each,

    IInv == TypeOK /\ Ownership /\ HandsEmpty /\ TurnsSound /\ ActiveBounded

* `Ownership` (`StatefulEdgeProofs`) is `NoTurnTwice` and `NoTurnForgotten` with
  the fact they need to be inductive: the ids in use are those below `nextTurn`,
  so a turn that opens is new. Any step does one of four things to owners: it
  leaves them, opens a turn (closing none or one), closes a set of turns into an
  empty hand, or settles one; there is a lemma for each, and both edges use them.
* `HandsEmpty` says that a goroutine holds closed turns only between closing and
  returning. Without it the assignment to `pending` in `CollectReady` and
  `FlushAll` could overwrite a turn.
* `TurnsSound` (`BurstsSound`) is that every held turn is sound: consistent, within
  its bound, and for Codex with one prompt at most and an exact completion flag.
  `CompletionExact` is not inductive alone; it needs `CompletionDated`, which says
  that `completionAt` is the latest timestamp of a retained completion.
  `AddKeepsSound` shows that `add` preserves it whatever arrives.
* `ActiveBounded` adds that the map is finite to the bound on its size.

`ShutdownDrains` needs one more: `Quiescent`, that with callers stopped first no worker
is inside a call once the host has left `up`, and that after `flushAll` the map is empty
and the sweeper gone. `SweepCapsAge` follows from the invariant at the step: the
opening record is not older than `first`, and what the sweep leaves has not timed out.
`QuietPeriodHonoured` and `ClosedForCause` need `Punctual`: with one caller the snapshots of
the clock do not go back, so `lastSeen` is the latest arrival of a retained record.
`ClosedForCause` adds the exact completion flag of `TurnsSound`, by which the two conditions
of `collectReady` are those of `Cause`. That is the very thing that fails with two callers
(`codex_stale_clock`), and why the theorems have one worker as their hypothesis.

**The implementation of the ledger** uses the same four effects on owners. Opening
is `Open`, closing is `Close`, settling is `Offer` (`OpeningEntries`, `ClosingEntries`,
`SettlingEntries` in `StatefulEdgeProofs`); a retained record is `Keep`, and one beyond
the capacity is a stutter (`ExtendIsKeep`). `Offer` takes one entry out of a set, so it
needs that no other closed turn has the same entry: that is `NoTurnTwice`. `Keep` needs
that the fingerprints of a turn are fewer than its capacity, which follows from
`Consistent` because they are the image of the retained records.

**The logs router.** A record is accounted for once its edge has applied it: it was
retained (`Retained`), or a turn of its conversation was full and carries the mark
(`Overflown`). `Progress` says of every call in an edge that each record it claims is
accounted for or still to be applied, so a call that leaves an edge has left its records
there; `PastCodex` remembers that of the Codex edge for calls that are beyond it or have
failed. What is accounted for stays so when the turn closes, since the mark goes with it
(`MarksKept`). A record that is skipped has the key of one the edge retained
(`SeenRetained`), and one key means that they may be one record (`OneKeyMayBeOne`).
`ShutdownOrder` is for `ShutdownReachesBoth`. **The traces router** needs `Progress`: a call that has come to an
edge has got its payload through every edge before it.

`SpanTwiceOnlyByCodex` is about the marks on the wire: what an edge emits
carries the marks that the edge looks for, and `OneAgentPerSpan` makes those of two edges
exclude each other unless one is the Codex edge.

**The batches** (`AssemblyProofs`). One invariant serves all five edges: every item is in
one place, that is unsent, in the open batch or in one batch of the backend, and the
backend has of each batch everything the edge makes of it. A theorem about an edge
supposes that `Normalize` is that edge's function on that edge, which `NormalizeOf` of
`MCAssembly` is, and nothing of the others. The rest is about the functions:

* *Sorting.* A finite set in a strict total order has one list (`RankedLists`,
  `ListUnique`). So a trace is a function of the set of records where the
  order is total: by timestamp and event id for Cursor, by timestamp for Codex where
  timestamps differ.
* *Trees.* A set of kept spans that is closed under parents has a member that is nobody's
  child on the wire, since no span is its own ancestor. What such a span's parent became
  is decided by the rule of the edge, and the rule gives a turn where one came
  (`NativeTree`, `PiTree`). The bypassed spans need no induction of their own.
* *Ids.* OpenHands groups that are claimed share no span. The id of a kept span, and of a
  root that a conversation span became, is that of one wire span; a synthetic root's is
  made of its trace and its bounds. So two outputs with one id are one span
  (`RootIdFacts`, `IdsApart`).
* *Folding.* A wrapper of exactly one call gives it the counters the call lacks, and is
  dropped only then; every counter in the backend therefore goes back to one wire span
  (`SourceOf`), and a call has at most one wrapper.
* *Model calls.* In sorted order the records of one call are contiguous (`CallsInOrder`).
  Hence the next completion after a frame is its own if it came (`FrameOfCompletion`),
  and a frame without one is shown alone (`FrameAlone`).
* *Bounds.* The root's ends are the least and greatest of a finite set of times.

**The attributes** (`SpanAttributesProofs`). Each edge is a table of rules. What a
rule writes is proved of one rule (`ApplyWrites`) and carried through a table by induction
over its length (`ApplyAllSteps`, `ApplyAllReaches`). What a property asks of the rules is
then checked of each table: that every key is in the vocabulary, that a counter's rule
comes and no later one overwrites it, that keys of a person are only
written with `capture_identity`.

**Induction over data.** The library's induction theorems take an operator and cannot be
instantiated here. `InductionLemmas` does it with sets: strict inclusion on the subsets
of a finite set is well founded, so a minimal subset exists, and from it a minimal element
of a partial order, the least of a set of numbers, an induction for a *set* of numbers, and
the ranks of a total order. The models are written for that: positions and orders in
place of recursive functions.

**What the proofs changed.** A proof of `CountedOnce` failed because `UsageOf` folded
a wrapper's counters into tools as well; the code folds in `case roleChat` only. A conjunct
of `OpenHandsAssumption` was bound to the wrong quantifier and said less than meant. Both
are corrected.

Only model-checked: the liveness properties (`EveryTurnSettles`, `ShutdownCompletes`),
since fairness and `ENABLED` are out of the prover's reach. Every other property of a
passing run is proved, `QuietPeriodHonoured` and `ClosedForCause` for one caller.

## 5. Not modelled

* Generated telemetry (`internal/metadata`) and `metrics.go`: counters that are
  written and never read by the program.
* The validator (`e2e/validator`): a test tool.
* The ring of the two-tier deployment: files of an external exporter. A conversation
  that moves leaves a turn on each collector with a part of its records, which an edge
  meets as records that never come.
* `checkSignals` of the conformance rules, which compares totals over a capture;
  `CountersKept` says the same of one span.
* The removal of span events by name in `internal/content`.
* The one change the OpenCode edge makes to the tree (a turn loses its parent), and the
  Claude edge's children whose interaction span comes in another batch, which keep the
  parent of the wire and need no rule.
* OpenHands fragments without any marker are claimed by no edge
  (`openhands/normalizer.go` line 143); nothing promises otherwise.
* Names, status and text of spans; logging; the factory beyond its configuration.

## 6. What the plan has left

1. What the quiet period is with several callers: it can be short by as long as a call
   waited for the mutex, which a bound on that wait would turn into a theorem.
2. The change the OpenCode edge makes to the tree, as a fourth module over `Assembly`.
3. A logs edge that also loses its state (a crash of the collector): everything
   active is then lost, and only what was delivered stays.
