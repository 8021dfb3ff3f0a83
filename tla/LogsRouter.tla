----------------------------- MODULE LogsRouter ------------------------------
(***************************************************************************)
(* The logs router (logs.go) in front of the two stateful edges.  A call   *)
(* offers its payload to the Codex edge and then to the Cursor edge; an    *)
(* error of the first returns at once, and the sender sends the payload    *)
(* again or gives it up.  Start goes through the edges in the same order,  *)
(* and so does Shutdown, with one context for both.                        *)
(*                                                                         *)
(* Of an edge this is kept: the identities each open turn (of the Cursor   *)
(* edge, burst) holds and whether records beyond its capacity came, and    *)
(* how far Start and Shutdown have come.  When and why a turn closes is    *)
(* said in CodexConnector and CursorConnector; here it may close at any    *)
(* time.  ConsumeLogs of an edge fails after it has taken its records:     *)
(* only the delivery of turns can fail.                                    *)
(***************************************************************************)
EXTENDS EventIdentity, FiniteSets

CONSTANTS Payloads,   \* what senders may send, as sets of records
          Callers,    \* goroutines that call ConsumeLogs
          MaxEvents,  \* max_events_per_turn
          MaxCalls,   \* bound: calls of ConsumeLogs, first and repeated
          MaxClock    \* bound of the wall clock

NamingOf(r) == [f \in {"scope", "field", "attr", "body", "codexConv",
                        "cursorConv", "content"} |-> r[f]]

ASSUME RouterAssumption ==
    /\ MaxEvents \in Nat \ {0}
    /\ MaxCalls \in Nat /\ MaxClock \in Nat \ {0}
    /\ "free" \notin Callers
    /\ \A p \in Payloads : \A r \in p :
         /\ NamingOf(r) \in Naming
         /\ {r.ts, r.written, r.observed} \subseteq Nat

Conversations == {r.conv : r \in UNION Payloads}

VARIABLES
    consume,  \* whether the configured signals list logs
    calls,    \* calls of ConsumeLogs so far
    pc,       \* where each call is: "idle", in an edge, or "failed"
    payload,  \* what it carries
    rest,     \* the parsed records its edge has still to apply: [of, event]
    mu,       \* the mutex of each edge: the call in the loop, or "free"
    turns,    \* the open turn of each conversation in each edge, or NoTurn
    taken,    \* history: [of, event] for each record an edge has retained
    marked,   \* history: conversations of turns that closed truncated
    acked,    \* payloads answered without error
    givenUp,  \* payloads a sender gave up after an error
    edgePc,   \* each edge: "new", "running", "drained" or "abandoned"
    hostPc,   \* "starting", "up", then the edge being shut down, "down"
    expired,  \* whether the context of Shutdown has expired
    clock     \* the wall clock

\* Before its first record there is no turn; seen are the identities of its
\* events, the fingerprints or event ids.
NoTurn == [seen |-> {}, truncated |-> FALSE]

turnVars == <<turns, taken, marked>>
callVars == <<calls, pc, payload, rest, mu, turnVars, acked, givenUp>>
hostVars == <<consume, edgePc, hostPc, expired, clock>>
vars == <<callVars, hostVars>>

Init ==
    /\ consume \in BOOLEAN
    /\ calls = 0
    /\ pc = [c \in Callers |-> "idle"]
    /\ payload = [c \in Callers |-> {}]
    /\ rest = [c \in Callers |-> {}]
    /\ mu = [e \in Edges |-> "free"]
    /\ turns = [e \in Edges |-> [k \in Conversations |-> NoTurn]]
    /\ taken = [e \in Edges |-> {}]
    /\ marked = [e \in Edges |-> {}]
    /\ acked = {}
    /\ givenUp = {}
    /\ edgePc = [e \in Edges |-> "new"]
    /\ hostPc = "starting"
    /\ expired = FALSE
    /\ clock = 1

-----------------------------------------------------------------------------
(* ConsumeLogs *)

\* An edge parses what it claims before it takes its mutex.
Parsed(e, p) ==
    {[of |-> r, event |-> EventOf(e, r, clock)] : r \in {q \in p : Claims(e, q)}}

Enter(c, e, p) ==
    /\ pc' = [pc EXCEPT ![c] = e]
    /\ rest' = [rest EXCEPT ![c] = Parsed(e, p)]

\* ConsumeLogs of the router begins.
Call == hostPc = "up" /\ calls < MaxCalls /\ calls' = calls + 1

\* Mutant of Send: the signals are not consulted.
SendAlways(c) ==
    /\ Call /\ pc[c] = "idle"
    /\ \E p \in Payloads :
         /\ Enter(c, "codex", p)
         /\ payload' = [payload EXCEPT ![c] = p]
    /\ UNCHANGED <<mu, turnVars, acked, givenUp, hostVars>>

\* Without the logs signal the router answers at once and no edge sees it.
Send(c) ==
    /\ Call /\ pc[c] = "idle"
    /\ \E p \in Payloads :
         IF consume
         THEN /\ Enter(c, "codex", p)
              /\ payload' = [payload EXCEPT ![c] = p]
              /\ UNCHANGED acked
         ELSE /\ acked' = acked \cup {p}
              /\ UNCHANGED <<pc, payload, rest>>
    /\ UNCHANGED <<mu, turnVars, givenUp, hostVars>>

TurnOf(e, x) == turns[e][x.of.conv]
Full(t) == Cardinality(t.seen) >= MaxEvents

\* A record the turn has already is skipped; one beyond the capacity is
\* discarded, which marks the turn and leaves no trace of the record; any
\* other is retained.
Skip(e, x) == x.event.key \in TurnOf(e, x).seen /\ UNCHANGED <<turns, taken>>

Discard(e, x) ==
    /\ x.event.key \notin TurnOf(e, x).seen /\ Full(TurnOf(e, x))
    /\ turns' = [turns EXCEPT ![e][x.of.conv].truncated = TRUE]
    /\ UNCHANGED taken

Retain(e, x) ==
    /\ x.event.key \notin TurnOf(e, x).seen /\ ~Full(TurnOf(e, x))
    /\ turns' = [turns EXCEPT ![e][x.of.conv].seen = @ \cup {x.event.key}]
    /\ taken' = [taken EXCEPT ![e] = @ \cup {x}]

Earliest(S) == {x \in S : \A y \in S : x.event.ts <= y.event.ts}

\* One record of the loop over the sorted records, which runs to its end under
\* the mutex.
Take(c, e) ==
    /\ pc[c] = e /\ mu[e] \in {"free", c}
    /\ \E x \in Earliest(rest[c]) :
         /\ rest' = [rest EXCEPT ![c] = @ \ {x}]
         /\ mu' = [mu EXCEPT ![e] = IF rest[c] = {x} THEN "free" ELSE c]
         /\ Skip(e, x) \/ Discard(e, x) \/ Retain(e, x)
    /\ UNCHANGED <<calls, pc, payload, marked, acked, givenUp, hostVars>>

\* A turn closes: a tick finds it ready, a prompt supersedes it, or a record of
\* another conversation evicts it.
Close(e, k) ==
    /\ edgePc[e] = "running"
    /\ turns[e][k] # NoTurn
    /\ turns' = [turns EXCEPT ![e][k] = NoTurn]
    /\ marked' = [marked EXCEPT ![e] = IF turns[e][k].truncated THEN @ \cup {k} ELSE @]
    /\ UNCHANGED <<calls, pc, payload, rest, mu, taken, acked, givenUp, hostVars>>

\* The edge has taken its records and returns nil: on to the next edge, or back.
Accept(c, e) ==
    /\ pc[c] = e /\ rest[c] = {}
    /\ IF e = "codex"
       THEN Enter(c, "cursor", payload[c]) /\ UNCHANGED acked
       ELSE /\ pc' = [pc EXCEPT ![c] = "idle"]
            /\ acked' = acked \cup {payload[c]}
            /\ UNCHANGED rest
    /\ UNCHANGED <<calls, payload, mu, turnVars, givenUp, hostVars>>

\* Only a call with records of the edge closes turns and can fail to deliver.
Delivers(c, e) == \E r \in payload[c] : Claims(e, r)

\* Mutant of Reject: the error of an edge is logged and nil returned.
RejectSwallowed(c, e) ==
    /\ pc[c] = e /\ rest[c] = {} /\ Delivers(c, e)
    /\ pc' = [pc EXCEPT ![c] = "idle"]
    /\ acked' = acked \cup {payload[c]}
    /\ UNCHANGED <<calls, payload, rest, mu, turnVars, givenUp, hostVars>>

\* Mutant of Reject: the edge delivers, and fails, before it takes its records.
RejectUntaken(c, e) ==
    /\ pc[c] = e /\ mu[e] # c /\ Delivers(c, e)
    /\ pc' = [pc EXCEPT ![c] = "failed"]
    /\ rest' = [rest EXCEPT ![c] = {}]
    /\ UNCHANGED <<calls, payload, mu, turnVars, acked, givenUp, hostVars>>

\* The edge has taken its records and fails to deliver a turn it closed.
Reject(c, e) ==
    /\ pc[c] = e /\ rest[c] = {} /\ Delivers(c, e)
    /\ pc' = [pc EXCEPT ![c] = "failed"]
    /\ UNCHANGED <<calls, payload, rest, mu, turnVars, acked, givenUp, hostVars>>

\* The sender of a payload that failed sends it again, to every edge, ...
Retry(c) ==
    /\ Call /\ pc[c] = "failed"
    /\ Enter(c, "codex", payload[c])
    /\ UNCHANGED <<payload, mu, turnVars, acked, givenUp, hostVars>>

\* ... or drops it.
GiveUp(c) ==
    /\ pc[c] = "failed"
    /\ pc' = [pc EXCEPT ![c] = "idle"]
    /\ givenUp' = givenUp \cup {payload[c]}
    /\ UNCHANGED <<calls, payload, rest, mu, turnVars, acked, hostVars>>

-----------------------------------------------------------------------------
(* Start and Shutdown *)

\* Start of an edge never fails, so both are started.
Start ==
    /\ hostPc = "starting"
    /\ edgePc' = [e \in Edges |-> "running"]
    /\ hostPc' = "up"
    /\ UNCHANGED <<callVars, consume, expired, clock>>

\* Receivers have stopped: no call is in flight.
Shutdown ==
    /\ hostPc = "up"
    /\ \A c \in Callers : pc[c] = "idle"
    /\ hostPc' = "codex"
    /\ UNCHANGED <<callVars, consume, edgePc, expired, clock>>

After(e) == IF e = "codex" THEN "cursor" ELSE "down"

Expire ==
    /\ hostPc \in Edges
    /\ ~expired
    /\ expired' = TRUE
    /\ UNCHANGED <<callVars, consume, edgePc, hostPc, clock>>

\* The sweeper of the edge exits and the edge flushes all turns, whatever the
\* context says by now.
Drain(e) ==
    /\ hostPc = e
    /\ edgePc' = [edgePc EXCEPT ![e] = "drained"]
    /\ hostPc' = After(e)
    /\ turns' = [turns EXCEPT ![e] = [k \in Conversations |-> NoTurn]]
    /\ marked' = [marked EXCEPT
                    ![e] = @ \cup {k \in Conversations : turns[e][k].truncated}]
    /\ UNCHANGED <<calls, pc, payload, rest, mu, taken, acked, givenUp,
                   consume, expired, clock>>

\* The context is found expired before the sweeper is found to have exited;
\* the next edge is shut down all the same, with the expired context.
Abandon(e) ==
    /\ hostPc = e
    /\ expired
    /\ edgePc' = [edgePc EXCEPT ![e] = "abandoned"]
    /\ hostPc' = After(e)
    /\ UNCHANGED <<callVars, consume, expired, clock>>

\* Time passes, which matters while records come in.
Tick ==
    /\ hostPc = "up" /\ clock < MaxClock
    /\ clock' = clock + 1
    /\ UNCHANGED <<callVars, consume, edgePc, hostPc, expired>>

\* Nothing happens after the shutdown.
Terminated ==
    /\ hostPc = "down"
    /\ UNCHANGED vars

-----------------------------------------------------------------------------

Next ==
    \/ \E c \in Callers :
         \/ Send(c) \/ Retry(c) \/ GiveUp(c)
         \/ \E e \in Edges : Take(c, e) \/ Accept(c, e) \/ Reject(c, e)
    \/ \E e \in Edges, k \in Conversations : Close(e, k)
    \/ Start \/ Shutdown \/ Expire \/ Tick
    \/ \E e \in Edges : Drain(e) \/ Abandon(e)
    \/ Terminated

Spec == Init /\ [][Next]_vars

-----------------------------------------------------------------------------
(* Properties *)

\* The type of the state.  Where the signals do not list logs, the edges see no
\* record at all.
TypeOK ==
    /\ consume \in BOOLEAN
    /\ calls \in 0..MaxCalls
    /\ pc \in [Callers -> Edges \cup {"idle", "failed"}]
    /\ payload \in [Callers -> Payloads \cup {{}}]
    /\ DOMAIN rest = Callers
    /\ mu \in [Edges -> Callers \cup {"free"}]
    /\ DOMAIN turns = Edges /\ DOMAIN taken = Edges
    /\ \A e \in Edges : \A x \in taken[e] :
         consume /\ x.of \in UNION Payloads /\ Claims(e, x.of)
    /\ marked \in [Edges -> SUBSET Conversations]
    /\ acked \subseteq Payloads /\ givenUp \subseteq Payloads
    /\ edgePc \in [Edges -> {"new", "running", "drained", "abandoned"}]
    /\ hostPc \in {"starting", "up", "down"} \cup Edges
    /\ expired \in BOOLEAN
    /\ clock \in 1..MaxClock

Dated(e, r) == IF e = "codex" THEN DatedForCodex(r) ELSE DatedForCursor(r)

\* The date a record names, or 0.
NamedDate(e, r) == EventOf(e, r, 0).ts

SameContent(e, q, r) ==
    /\ q.attrs = r.attrs
    /\ IF e = "codex" THEN q.written = r.written ELSE q.text = r.text
    /\ NamedDate(e, q) = NamedDate(e, r)

\* q and r may be one record: the Cursor edge goes by the event id if there is
\* one.
MayBeOne(e, q, r) ==
    IF e = "cursor" /\ {q.wireId, r.wireId} # {NoName}
    THEN q.wireId = r.wireId
    ELSE SameContent(e, q, r)

Retained(e, r) == \E x \in taken[e] : x.of.conv = r.conv /\ MayBeOne(e, x.of, r)

\* A turn of its conversation had no room for all its records, and says so.
Overflown(e, r) == turns[e][r.conv].truncated \/ r.conv \in marked[e]

Accounted(e, r) == Retained(e, r) \/ Overflown(e, r)

\* A record lands in both edges only if its event has one name for the Codex
\* edge and another one, or none, for the Cursor edge.
OneEdgeIfNamesAgree ==
    \A x \in taken["codex"], y \in taken["cursor"] : x.of = y.of => ~NamesAgree(x.of)

\* A payload that was answered without error is accounted for: every edge that
\* claims a record of it has retained that record, or a turn of its conversation
\* was full and is marked truncated; no other record is lost, none is mistaken
\* for another one, and an error of the first edge, which hides the payload from
\* the second, is not answered as a success.
AckedMeansTaken ==
    consume => \A p \in acked : \A r \in p : \A e \in Edges :
                  Claims(e, r) => Accounted(e, r)

\* Giving a payload up loses records of Cursor only: the Codex edge, which comes
\* first, has its own, but for those beyond the capacity of a turn that says so.
GivingUpKeepsCodex ==
    \A p \in givenUp : \A r \in p : CodexClaims(r) => Accounted("codex", r)

\* A record that names its time in any way its edge can read, or that has an
\* event id of Cursor, is the same event whenever it is retained, however often
\* and late it comes, whatever timestamps it lacks and whether its turn is open
\* or closed; and a time it names is its date.
DatedRetainedOnce ==
    \A e \in Edges : \A x, y \in taken[e] :
        /\ Dated(e, x.of) => x.event.ts \in {x.of.ts, x.of.written, x.of.observed}
        /\ x.of = y.of /\ (Dated(e, x.of) \/ (e = "cursor" /\ x.of.wireId # NoName))
           => x.event.key = y.event.key
        /\ x.of = y.of /\ Dated(e, x.of) => x = y

\* No edge is left running: the error of the first does not keep Shutdown from
\* the second.
ShutdownReachesBoth ==
    hostPc = "down" => \A e \in Edges : edgePc[e] \in {"drained", "abandoned"}
=============================================================================
