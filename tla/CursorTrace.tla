----------------------------- MODULE CursorTrace -----------------------------
(***************************************************************************)
(* The traces the Cursor edge builds of a conversation's bursts            *)
(* (cursor/trace.go).  A batch is what one burst retained, in the order of *)
(* arrival; a burst closes at any time, so that an error or a correction   *)
(* may come in another burst than its request.                             *)
(***************************************************************************)
EXTENDS Assembly

\* A record: [id (its event id), ts, kind, usage (the usage event id, "none" if
\* it has none), dur (of a tool)].  The ids stand for strings in their order; a
\* record has an id of its own.
ASSUME CursorLogsAssumption ==
    \A s \in Sent : s.edge = "cursor logs" =>
        /\ s.groups = 1
        /\ \A e \in s.items : {e.id, e.ts, e.dur} \subseteq Nat
        /\ \A e, f \in s.items : e.id = f.id => e = f

\* Mutant of EarlierThan: no tie-break on the event id.
EarlierThanByTime(es, i, j) ==
    es[i].ts < es[j].ts \/ (es[i].ts = es[j].ts /\ i < j)

\* By timestamp, and by event id where those are equal.
EarlierThan(es, i, j) ==
    es[i].ts < es[j].ts \/ (es[i].ts = es[j].ts /\ es[i].id < es[j].id)

SortedBurst(es) ==
    LET order == InOrder(DOMAIN es,
                   {p \in (DOMAIN es) \X (DOMAIN es) : EarlierThan(es, p[1], p[2])})
    IN  [p \in DOMAIN es |-> es[order[p]]]

Joins(e, r) == r.kind = "request" /\ r.usage # "none" /\ e.usage = r.usage

\* A request marked as failed by an error record, with its corrections.
RequestSpan(es, r) ==
    [kind |-> "chat", id |-> <<"chat", r.id>>, start |-> r.ts, end |-> r.ts,
     errors |-> {e.id : e \in {f \in ToSet(es) : f.kind = "error" /\ Joins(f, r)}},
     events |-> At(es, {i \in DOMAIN es : es[i].kind = "correction" /\ Joins(es[i], r)})]

\* A tool's duration puts its start before the record.
ToolSpan(e) ==
    [kind |-> "tool", id |-> <<"tool", e.id>>, start |-> e.ts - e.dur, end |-> e.ts]

\* Mutant of Joined: an error joins the requests before it.
JoinedBefore(es, e) ==
    /\ e.kind \in {"error", "correction"}
    /\ \E r \in ToSet(es) : Joins(e, r) /\ r.ts < e.ts

Joined(es, e) ==
    /\ e.kind \in {"error", "correction"}
    /\ \E r \in ToSet(es) : Joins(e, r)

\* What neither the chat spans nor the tool spans show.
BurstEvents(es) ==
    At(es, {i \in DOMAIN es : es[i].kind \notin {"request", "tool"} /\ ~Joined(es, es[i])})

\* A hash of the conversation and the first record.
BurstTraceId(es) == <<"cursor", es[1].id>>

BurstTraceOf(es) ==
    [id |-> BurstTraceId(es), start |-> es[1].ts, end |-> es[Len(es)].ts,
     spans |-> {RequestSpan(es, r) : r \in {e \in ToSet(es) : e.kind = "request"}}
               \cup {ToolSpan(e) : e \in {f \in ToSet(es) : f.kind = "tool"}},
     events |-> BurstEvents(es)]

BuildBurstTrace(arrived) == BurstTraceOf(SortedBurst(arrived))

CursorLogsNormalize(b) == {BuildBurstTrace(b[1])}

-----------------------------------------------------------------------------
(* Properties *)

\* P holds of every trace and what its burst retained.
OfBursts(P(_, _)) == \A x \in From("cursor logs") : P(x.out, x.batch[1])

SpansFor(t, e) ==
    {s \in t.spans : \/ s.id[2] = e.id
                     \/ s.kind = "chat" /\ (e \in ToSet(s.events) \/ e.id \in s.errors)}

\* Every record of a burst is shown: as a span, on the span of its request
\* whichever of the two is older, or as an event of the root, and never both.
EveryRecordShownOnce ==
    OfBursts(LAMBDA t, es : \A e \in ToSet(es) :
        (SpansFor(t, e) # {}) # (e \in ToSet(t.events)))

\* The trace of a burst depends on what is in it and not on the order in which
\* it came, though records share timestamps: a burst that is delivered again
\* yields the same trace.
BurstOrderIrrelevant ==
    OfBursts(LAMBDA t, es :
        t = BuildBurstTrace(InOrder(ToSet(es),
                              {p \in ToSet(es) \X ToSet(es) : p[1].id < p[2].id})))

\* Bursts that share no record are traces of their own.
BurstsApart ==
    \A x, y \in From("cursor logs") :
        ItemsOf(x.batch) \cap ItemsOf(y.batch) = {} => x.out.id # y.out.id

\* The trace id identifies the burst (buildTrace, deterministicTraceID).
BurstTracesStable == BurstOrderIrrelevant /\ BurstsApart
=============================================================================
