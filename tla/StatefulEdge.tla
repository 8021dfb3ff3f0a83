---------------------------- MODULE StatefulEdge ----------------------------
(***************************************************************************)
(* What the two stateful logs edges have in common: codex/connector.go and *)
(* cursor/connector.go are the same program up to the state they keep per  *)
(* conversation and the reasons they close it for.  Around one map of      *)
(* active turns (the Cursor edge calls them bursts) run                    *)
(*                                                                         *)
(*   - callers of ConsumeLogs, each with a batch of log records,           *)
(*   - the sweeper goroutine, woken by a ticker,                           *)
(*   - the host, which starts the edge and shuts it down,                  *)
(*   - and the downstream consumer every closed turn is offered to.        *)
(*                                                                         *)
(* ConsumeLogs is split where another goroutine can interfere: the wall    *)
(* clock is read (Call) before the mutex is taken (Lock), the records are  *)
(* applied one by one under the mutex (the edge's own Process), and closed *)
(* turns are delivered after it is released (Unlock, Deliver, Fail,        *)
(* Return).  collectReady and flushAll hold the mutex from beginning to    *)
(* end and are one step each.                                              *)
(*                                                                         *)
(* A turn is a record with at least the fields id, conv, events, seen,     *)
(* first, last, lastSeen and truncated.                                    *)
(***************************************************************************)
EXTENDS EdgeConfig

CONSTANTS Workers,             \* goroutines that call ConsumeLogs
          Batches,             \* the payloads upstream may send, as sets
          UpstreamStopsFirst,  \* the host stops callers before Shutdown
          MaxCalls,            \* bound: calls of ConsumeLogs
          CallHorizon,         \* bound: no call starts after this time
          MaxTime              \* bound: where the clock stops

ASSUME EdgeAssumption ==
    /\ Batches \subseteq SUBSET Events
    /\ Workers \cap {"sweeper", "host", "free"} = {}
    /\ UpstreamStopsFirst \in BOOLEAN
    /\ MaxCalls \in Nat /\ CallHorizon \in Nat /\ MaxTime \in Nat

Emitters == Workers \cup {"sweeper", "host"}
NoTick == -1

VARIABLES
    clock,      \* time.Now()
    calls,      \* calls of ConsumeLogs so far
    mu,         \* the worker that holds the mutex between steps, or "free"
    turns,      \* the active turns: a map from conversations to turns
    nextTurn,   \* history: the id the next turn gets
    pc,         \* where each worker is in ConsumeLogs
    batch,      \* records of its payload a worker still has to apply
    now,        \* the worker's snapshot of the clock
    pending,    \* turns each goroutine has closed and not yet delivered
    ticker,     \* the tick waiting in ticker.C (a channel of capacity one)
    sweepPc,    \* where the sweeper is
    hostPc,     \* where the host is in Shutdown
    delivered,  \* history: ids of the turns downstream accepted
    lost        \* history: ids of the turns downstream refused

workerVars  == <<pc, batch, now>>
turnVars    == <<turns, nextTurn>>
historyVars == <<delivered, lost>>
vars == <<clock, calls, mu, turnVars, workerVars, pending, ticker,
          sweepPc, hostPc, historyVars>>

Init ==
    /\ clock = 0
    /\ calls = 0
    /\ mu = "free"
    /\ turns = [c \in {} |-> c]
    /\ nextTurn = 1
    /\ pc = [w \in Workers |-> "idle"]
    /\ batch = [w \in Workers |-> {}]
    /\ now = [w \in Workers |-> 0]
    /\ pending = [p \in Emitters |-> {}]
    /\ ticker = NoTick
    /\ sweepPc = "off"
    /\ hostPc = "up"
    /\ delivered = {}
    /\ lost = {}

-----------------------------------------------------------------------------
(* The map of active turns *)

Active == DOMAIN turns
Insert(m, c, t) == [k \in DOMAIN m \cup {c} |-> IF k = c THEN t ELSE m[k]]
Delete(m, S)    == [k \in DOMAIN m \ S |-> m[k]]

Finalized(t, why) == [turn |-> t, reason |-> why]

\* evictOldestLocked scans the map in no particular order, so any turn with
\* the least lastSeen may be the one it finds.
LeastRecent == {c \in Active :
                   \A d \in Active : turns[c].lastSeen <= turns[d].lastSeen}

-----------------------------------------------------------------------------
(* ConsumeLogs *)

CallsAllowed == hostPc = "up" \/ ~UpstreamStopsFirst

\* The payload is parsed and sorted and the clock is read, all before the
\* mutex.  Upstream delivers at least once: any payload may come again.
Call(w) ==
    /\ pc[w] = "idle"
    /\ CallsAllowed
    /\ calls < MaxCalls /\ clock <= CallHorizon
    /\ \E b \in Batches : batch' = [batch EXCEPT ![w] = b]
    /\ now' = [now EXCEPT ![w] = clock]
    /\ pc' = [pc EXCEPT ![w] = "waiting"]
    /\ calls' = calls + 1
    /\ UNCHANGED <<clock, mu, turnVars, pending, ticker, sweepPc, hostPc,
                   historyVars>>

Lock(w) ==
    /\ pc[w] = "waiting"
    /\ mu = "free"
    /\ mu' = w
    /\ pc' = [pc EXCEPT ![w] = "locked"]
    /\ UNCHANGED <<clock, calls, turnVars, batch, now, pending, ticker,
                   sweepPc, hostPc, historyVars>>

\* The sort is by timestamp only; records with equal timestamps keep the
\* order of the payload, which may be any.
Earliest(S) == {e \in S : \A f \in S : e.ts <= f.ts}

\* One turn of the loop over the sorted records takes the next record e; what
\* it does to turns, nextTurn and pending is up to the edge.
Take(w, e) ==
    /\ pc[w] = "locked"
    /\ e \in Earliest(batch[w])
    /\ batch' = [batch EXCEPT ![w] = @ \ {e}]
    /\ UNCHANGED <<clock, calls, mu, pc, now, ticker, sweepPc, hostPc,
                   historyVars>>

\* A record without an active turn opens t, in a free slot ...
OpenTurn(t) ==
    /\ t.conv \notin Active
    /\ Cardinality(Active) < MaxActiveTurns
    /\ turns' = Insert(turns, t.conv, t)
    /\ nextTurn' = nextTurn + 1
    /\ UNCHANGED pending

\* ... or in the slot of the turn observed least recently.
EvictAndOpen(w, t) ==
    /\ t.conv \notin Active
    /\ Cardinality(Active) >= MaxActiveTurns
    /\ \E c \in LeastRecent :
         /\ turns' = Insert(Delete(turns, {c}), t.conv, t)
         /\ pending' = [pending EXCEPT
                          ![w] = @ \cup {Finalized(turns[c], "evicted")}]
    /\ nextTurn' = nextTurn + 1

\* Mutant of Unlock: the mutex is not released before the deliveries.
UnlockForgotten(w) ==
    /\ pc[w] = "locked"
    /\ batch[w] = {}
    /\ pc' = [pc EXCEPT ![w] = "emitting"]
    /\ UNCHANGED <<clock, calls, mu, turnVars, batch, now, pending, ticker,
                   sweepPc, hostPc, historyVars>>

Unlock(w) ==
    /\ pc[w] = "locked"
    /\ batch[w] = {}
    /\ mu' = "free"
    /\ pc' = [pc EXCEPT ![w] = "emitting"]
    /\ UNCHANGED <<clock, calls, turnVars, batch, now, pending, ticker,
                   sweepPc, hostPc, historyVars>>

Return(w) ==
    /\ pc[w] = "emitting"
    /\ pending[w] = {}
    /\ pc' = [pc EXCEPT ![w] = "idle"]
    /\ UNCHANGED <<clock, calls, mu, turnVars, batch, now, pending, ticker,
                   sweepPc, hostPc, historyVars>>

-----------------------------------------------------------------------------
(* emit: every closed turn is built and offered downstream once, and a     *)
(* refusal does not keep the following ones from being offered.            *)

Emitting(p) ==
    \/ p = "sweeper" /\ sweepPc = "emitting"
    \/ p = "host" /\ hostPc = "flushing"
    \/ p \in Workers /\ pc[p] = "emitting"

\* Mutant of Deliver: a turn that was delivered stays to be delivered again.
DeliverAgain(p) ==
    /\ Emitting(p)
    /\ \E f \in pending[p] : delivered' = delivered \cup {f.turn.id}
    /\ UNCHANGED <<clock, calls, mu, turnVars, workerVars, pending, ticker,
                   sweepPc, hostPc, lost>>

Deliver(p) ==
    /\ Emitting(p)
    /\ \E f \in pending[p] :
         /\ pending' = [pending EXCEPT ![p] = @ \ {f}]
         /\ delivered' = delivered \cup {f.turn.id}
    /\ UNCHANGED <<clock, calls, mu, turnVars, workerVars, ticker, sweepPc,
                   hostPc, lost>>

\* Mutant of Fail: the first refusal returns from emit.
FailAbandons(p) ==
    /\ Emitting(p)
    /\ \E f \in pending[p] : lost' = lost \cup {f.turn.id}
    /\ pending' = [pending EXCEPT ![p] = {}]
    /\ UNCHANGED <<clock, calls, mu, turnVars, workerVars, ticker, sweepPc,
                   hostPc, delivered>>

Fail(p) ==
    /\ Emitting(p)
    /\ \E f \in pending[p] :
         /\ pending' = [pending EXCEPT ![p] = @ \ {f}]
         /\ lost' = lost \cup {f.turn.id}
    /\ UNCHANGED <<clock, calls, mu, turnVars, workerVars, ticker, sweepPc,
                   hostPc, delivered>>

-----------------------------------------------------------------------------
(* The sweeper and its ticker *)

\* Time passes.
Tick ==
    /\ clock < MaxTime
    /\ clock' = clock + 1
    /\ UNCHANGED <<calls, mu, turnVars, workerVars, pending, ticker, sweepPc,
                   hostPc, historyVars>>

\* Start, guarded by startOnce.
Start ==
    /\ sweepPc = "off"
    /\ hostPc = "up"
    /\ sweepPc' = "select"
    /\ UNCHANGED <<clock, calls, mu, turnVars, workerVars, pending, ticker,
                   hostPc, historyVars>>

\* The runtime puts the time in the channel, and drops the tick when the
\* last one has not been received.  The interval is at most half the reorder
\* window, so a tick may fall anywhere between two steps of the clock.
TickerFires ==
    /\ sweepPc \in {"select", "emitting"}
    /\ ticker = NoTick
    /\ ticker' = clock
    /\ UNCHANGED <<clock, calls, mu, turnVars, workerVars, pending, sweepPc,
                   hostPc, historyVars>>

\* Mutant of Collect: what is collected stays in the map.
CollectKeeps(S, F) ==
    /\ sweepPc = "select"
    /\ ticker # NoTick
    /\ mu = "free"
    /\ pending' = [pending EXCEPT !["sweeper"] = F]
    /\ ticker' = NoTick
    /\ sweepPc' = "emitting"
    /\ UNCHANGED <<clock, calls, mu, turnVars, workerVars, hostPc, historyVars>>

\* The sweeper receives the tick and runs collectReady with its time, however
\* old the tick is by now: the turns of S are removed from the map and become
\* the closed turns F.
Collect(S, F) ==
    /\ sweepPc = "select"
    /\ ticker # NoTick
    /\ mu = "free"
    /\ turns' = Delete(turns, S)
    /\ pending' = [pending EXCEPT !["sweeper"] = F]
    /\ ticker' = NoTick
    /\ sweepPc' = "emitting"
    /\ UNCHANGED <<clock, calls, mu, nextTurn, workerVars, hostPc, historyVars>>

\* emit has returned; its error is only logged.
SweepAgain ==
    /\ sweepPc = "emitting"
    /\ pending["sweeper"] = {}
    /\ sweepPc' = "select"
    /\ UNCHANGED <<clock, calls, mu, turnVars, workerVars, pending, ticker,
                   hostPc, historyVars>>

\* Mutant of SweepStops: the select is left, the loop around it is not.
SweepBreaks ==
    /\ sweepPc = "select"
    /\ hostPc # "up"
    /\ ticker' = NoTick
    /\ UNCHANGED <<clock, calls, mu, turnVars, workerVars, pending, sweepPc,
                   hostPc, historyVars>>

\* The select finds stop closed; the deferred function stops the ticker and
\* closes done.
SweepStops ==
    /\ sweepPc = "select"
    /\ hostPc # "up"
    /\ sweepPc' = "exited"
    /\ ticker' = NoTick
    /\ UNCHANGED <<clock, calls, mu, turnVars, workerVars, pending, hostPc,
                   historyVars>>

-----------------------------------------------------------------------------
(* Shutdown *)

\* Closes stop.  A host that stops its receivers first has no call in flight.
Shutdown ==
    /\ hostPc = "up"
    /\ UpstreamStopsFirst => \A w \in Workers : pc[w] = "idle"
    /\ hostPc' = "waiting"
    /\ UNCHANGED <<clock, calls, mu, turnVars, workerVars, pending, ticker,
                   sweepPc, historyVars>>

\* Mutant of FlushAll: Shutdown does not wait for the sweeper.
FlushAtOnce ==
    /\ hostPc = "waiting"
    /\ mu = "free"
    /\ turns' = Delete(turns, Active)
    /\ pending' = [pending EXCEPT !["host"] =
                     {Finalized(turns[c], "shutdown") : c \in Active}]
    /\ hostPc' = "flushing"
    /\ UNCHANGED <<clock, calls, mu, nextTurn, workerVars, ticker, sweepPc,
                   historyVars>>

\* flushAll, once the sweeper has exited or if it was never started.
FlushAll ==
    /\ hostPc = "waiting"
    /\ sweepPc \in {"off", "exited"}
    /\ mu = "free"
    /\ turns' = Delete(turns, Active)
    /\ pending' = [pending EXCEPT !["host"] =
                     {Finalized(turns[c], "shutdown") : c \in Active}]
    /\ hostPc' = "flushing"
    /\ UNCHANGED <<clock, calls, mu, nextTurn, workerVars, ticker, sweepPc,
                   historyVars>>

\* The context of Shutdown expires while it waits for the sweeper: Shutdown
\* returns the error of the context.
ContextExpires ==
    /\ hostPc = "waiting"
    /\ sweepPc # "off"
    /\ hostPc' = "abandoned"
    /\ UNCHANGED <<clock, calls, mu, turnVars, workerVars, pending, ticker,
                   sweepPc, historyVars>>

ShutdownReturns ==
    /\ hostPc = "flushing"
    /\ pending["host"] = {}
    /\ hostPc' = "stopped"
    /\ UNCHANGED <<clock, calls, mu, turnVars, workerVars, pending, ticker,
                   sweepPc, historyVars>>

\* Everything has come to rest after Shutdown.
Terminated ==
    /\ hostPc \in {"stopped", "abandoned"}
    /\ sweepPc \in {"off", "exited"}
    /\ \A w \in Workers : pc[w] = "idle"
    /\ UNCHANGED vars

-----------------------------------------------------------------------------
(* Every step but the edge's own Process and CollectReady *)

EmitStep(p) == Deliver(p) \/ Fail(p)

CommonNext ==
    \/ \E w \in Workers : Call(w) \/ Lock(w) \/ Unlock(w) \/ Return(w)
    \/ \E p \in Emitters : EmitStep(p)
    \/ Tick \/ Start \/ TickerFires \/ SweepAgain \/ SweepStops
    \/ Shutdown \/ FlushAll \/ ContextExpires \/ ShutdownReturns
    \/ Terminated

\* Goroutines are scheduled, the clock and the ticker run, the host starts
\* the edge and downstream always answers.  The select of the sweeper chooses
\* at random between a tick and stop, so stop is taken in the end although
\* ticks keep coming: strong fairness.  Nothing obliges upstream to call or
\* the host to shut down.
CommonFairness ==
    /\ \A w \in Workers : WF_vars(Lock(w)) /\ WF_vars(Unlock(w)) /\ WF_vars(Return(w))
    /\ \A p \in Emitters : WF_vars(EmitStep(p))
    /\ WF_vars(Tick) /\ WF_vars(Start) /\ WF_vars(TickerFires)
    /\ WF_vars(SweepAgain) /\ SF_vars(SweepStops)
    /\ WF_vars(FlushAll) /\ WF_vars(ShutdownReturns)

-----------------------------------------------------------------------------
(* What an edge shows of itself to the ledger of turns (TurnLedger) *)

Entry(t)      == [id |-> t.id, key |-> t.conv, kept |-> t.seen]
OpenEntries   == [c \in Active |-> Entry(turns[c])]
ClosedEntries == UNION {{Entry(f.turn) : f \in pending[p]} : p \in Emitters}

-----------------------------------------------------------------------------
(* Properties of both edges *)

ActiveTurns     == {turns[c] : c \in Active}
PendingTurns(p) == {f.turn : f \in pending[p]}
HeldTurns       == ActiveTurns \cup UNION {PendingTurns(p) : p \in Emitters}

Settled == delivered \cup lost

\* The types of everything but the turns themselves.  A worker is inside the
\* loop over its records exactly while it holds the mutex.
CommonTypeOK ==
    /\ clock \in Nat /\ calls \in Nat
    /\ mu \in Workers \cup {"free"}
    /\ Active \in SUBSET Conversations
    /\ nextTurn \in Nat \ {0}
    /\ pc \in [Workers -> {"idle", "waiting", "locked", "emitting"}]
    /\ batch \in [Workers -> SUBSET Events]
    /\ now \in [Workers -> Nat]
    /\ ticker \in Nat \cup {NoTick}
    /\ sweepPc \in {"off", "select", "emitting", "exited"}
    /\ hostPc \in {"up", "waiting", "flushing", "stopped", "abandoned"}
    /\ delivered \in SUBSET Nat /\ lost \in SUBSET Nat
    /\ \A w \in Workers : pc[w] = "locked" <=> mu = w

\* State never exceeds the configured bounds, whatever callers interleave:
\* max_active_turns turns of max_events_per_turn records each.
WithinBounds ==
    /\ Cardinality(Active) <= MaxActiveTurns
    /\ \A t \in HeldTurns : Len(t.events) <= MaxEvents

\* No turn is delivered twice: each turn has one owner among the map of
\* active turns, the goroutines that deliver and the past, although callers,
\* sweeper and shutdown all close turns and deliver them without the mutex.
NoTurnTwice ==
    /\ \A c, d \in Active : turns[c].id = turns[d].id => c = d
    /\ \A p, q \in Emitters : \A f \in pending[p], g \in pending[q] :
         f.turn.id = g.turn.id => p = q /\ f = g
    /\ \A p \in Emitters : \A f \in pending[p] :
         /\ f.turn.id \notin Settled
         /\ \A c \in Active : turns[c].id # f.turn.id
    /\ \A c \in Active : turns[c].id \notin Settled
    /\ delivered \cap lost = {}

\* No turn is forgotten: every turn ever opened is still active, in the hands
\* of a goroutine that will offer it downstream, or was offered.
NoTurnForgotten ==
    \A i \in 1..(nextTurn - 1) :
        \/ i \in Settled
        \/ \E c \in Active : turns[c].id = i
        \/ \E p \in Emitters : \E f \in pending[p] : f.turn.id = i

\* When Shutdown returns without error no state is left behind: nothing is
\* active and everything closed has been offered downstream.
ShutdownDrains ==
    hostPc = "stopped" /\ UpstreamStopsFirst =>
        /\ Active = {} /\ \A p \in Emitters : pending[p] = {}
        /\ 1..(nextTurn - 1) \subseteq Settled

\* Every turn is offered downstream in the end, without a shutdown and
\* although records stop coming, unless the shutdown gave up waiting.
EveryTurnSettles ==
    \A i \in 1..(MaxCalls * Cardinality(Events)) :
        i < nextTurn ~> (i \in Settled \/ hostPc = "abandoned")

\* Shutdown returns, whether the host waits or gives up.
ShutdownCompletes == hostPc = "waiting" ~> hostPc \in {"stopped", "abandoned"}
=============================================================================
