----------------------------- MODULE CodexTrace ------------------------------
(***************************************************************************)
(* The trace the Codex edge builds of a turn (codex/trace.go).  The        *)
(* records of a turn arrive in any order and some never do; buildTrace     *)
(* sorts what was retained by timestamp and finds the model calls, the     *)
(* tool calls and the bounds of the turn in it.  A batch is what a turn    *)
(* retained, in the order of arrival.                                      *)
(***************************************************************************)
EXTENDS Assembly

\* A record: [n (its identity), ts, kind, dur (0 for none), call (the model call
\* it is about, 0 for none)].  The completions of Codex: "frame" is the SSE frame
\* poll, with a duration and nothing else; "completion" reports counts or the
\* time to first token; "failed" only an error.
Completions == {"frame", "completion", "failed"}

\* How Codex logs its model calls, one after the other: requests, of which the
\* last is not a retry; the frame; then, if the provider reports usage, the
\* completion, or a failure.
ModelCalls(S) ==
    /\ \A e \in S : e.kind \in {"request"} \cup Completions => e.call # 0
    /\ \A e, f \in S : e.call = f.call /\ e.call # 0 =>
         /\ e.kind = "request" /\ f.kind \in Completions => e.ts < f.ts
         /\ e.kind = "frame" /\ f.kind \in Completions \ {"frame"} => e.ts < f.ts
         /\ e.kind = "frame" /\ f.kind = "frame" => e = f
         /\ {e.kind, f.kind} \subseteq Completions \ {"frame"} => e = f
    /\ \A e, f, g \in S : e.call = g.call /\ 0 \notin {e.call, f.call} /\ e.ts <= f.ts /\ f.ts <= g.ts
                           => f.call = e.call
    /\ \A e \in S : e.kind = "completion" => \E f \in S : f.kind = "frame" /\ f.call = e.call
    /\ \A e, f \in S : e.kind = "request" /\ f.kind = "request" /\ e.ts - e.dur = f.ts - f.dur
                        => e.call = f.call

ASSUME CodexLogsAssumption ==
    \A s \in Sent : s.edge = "codex logs" =>
        /\ s.groups = 1
        /\ \A e \in s.items : {e.ts, e.dur} \subseteq Nat
        /\ \A e, f \in s.items : e.n = f.n => e = f
        /\ ModelCalls(s.items)

TurnStart(es) ==
    LET starts == {e.ts : e \in ToSet(es)} \cup {e.ts - e.dur : e \in ToSet(es)}
    IN  CHOOSE t \in starts : \A u \in starts : t <= u

\* Mutant of TurnBounds: durations do not move the start.
TurnBoundsNoDurations(es) ==
    LET times == {e.ts : e \in ToSet(es)}
    IN  [start |-> CHOOSE t \in times : \A u \in times : t <= u,
         end |-> CHOOSE t \in times : \A u \in times : t >= u]

\* From the start of the first record, its duration taken off, to the last.
TurnBounds(es) ==
    LET times == {e.ts : e \in ToSet(es)}
    IN  [start |-> TurnStart(es), end |-> CHOOSE t \in times : \A u \in times : t >= u]

\* Mutant of Sorted: in the order of arrival.
SortedByArrival(es) == es

\* sort.SliceStable by timestamp: of equal ones the first to arrive.
Sorted(es) ==
    LET before(i, j) == es[i].ts < es[j].ts \/ (es[i].ts = es[j].ts /\ i < j)
        order == InOrder(DOMAIN es, {p \in (DOMAIN es) \X (DOMAIN es) : before(p[1], p[2])})
    IN  [i \in DOMAIN es |-> es[order[i]]]

\* Mutant of Duplicate: every frame followed by a completion is a duplicate.
DuplicateAny(es, i) ==
    /\ es[i].kind = "frame"
    /\ \E j \in DOMAIN es : i < j /\ es[j].kind \in Completions

\* A frame is the duplicate of the next completion, if that reports a call.
Duplicate(es, i) ==
    /\ es[i].kind = "frame"
    /\ \E j \in DOMAIN es :
         /\ i < j /\ es[j].kind = "completion"
         /\ \A k \in (i + 1)..(j - 1) : es[k].kind \notin Completions

\* A failed completion describes no model call.
DescribesCall(es, i) ==
    es[i].kind \in {"frame", "completion"} /\ ~Duplicate(es, i)

\* The last request since the previous described call; the others are retries.
RequestOf(es, i) ==
    {j \in 1..(i - 1) : /\ es[j].kind = "request"
                        /\ \A k \in (j + 1)..(i - 1) :
                              es[k].kind # "request" /\ ~DescribesCall(es, k)}

Least(a, b) == IF a <= b THEN a ELSE b

\* Spans are numbered; the number and the timestamp go into the id.
Chat(es, i) ==
    [kind |-> "chat", of |-> es[i].n, end |-> es[i].ts,
     start |-> IF RequestOf(es, i) = {} THEN TurnStart(es)
               ELSE LET j == CHOOSE k \in RequestOf(es, i) : TRUE
                    IN  Least(es[j].ts - es[j].dur, es[i].ts),
     id |-> <<"chat", Cardinality({j \in 1..(i - 1) : DescribesCall(es, j)}), es[i].ts>>]

Chats(es) == {Chat(es, i) : i \in {j \in DOMAIN es : DescribesCall(es, j)}}

\* The id of a tool span also has the call id, here the record itself.
Tool(es, i) ==
    [kind |-> "tool", of |-> es[i].n, end |-> es[i].ts,
     start |-> es[i].ts - es[i].dur,
     id |-> <<"tool", Cardinality({j \in 1..(i - 1) : es[j].kind = "result"}),
              es[i].ts, es[i].n>>]

Tools(es) == {Tool(es, i) : i \in {j \in DOMAIN es : es[j].kind = "result"}}

\* Requests, failures of a stream and whatever else was logged are events of the
\* root; prompts, decisions, results and completions are not.
RootEvents(es) ==
    At(es, {i \in DOMAIN es :
              es[i].kind \notin {"prompt", "decision", "result"} \cup Completions})

\* The hash is over the first prompt and its timestamp, or over the start.
TraceId(es) ==
    LET i == SelectInSeq(es, LAMBDA e : e.kind = "prompt")
    IN  IF i = 0 THEN <<"first", es[1].ts>> ELSE <<"prompt", es[i].ts, es[i].n>>

TraceOf(es) ==
    [id |-> TraceId(es), start |-> TurnBounds(es).start, end |-> TurnBounds(es).end,
     spans |-> Chats(es) \cup Tools(es), events |-> RootEvents(es)]

BuildTrace(turn) == TraceOf(Sorted(turn))

CodexLogsNormalize(b) == {BuildTrace(b[1])}

-----------------------------------------------------------------------------
(* Properties *)

\* P holds of every trace and what its turn retained.
OfTurns(P(_, _)) == \A x \in From("codex logs") : P(x.out, x.batch[1])

ChatsIn(t) == {s \in t.spans : s.kind = "chat"}

Record(n) == CHOOSE e \in sent.items : e.n = n

\* The model calls that completed, and what the built trace shows of each.
CompletedCalls == {e.call : e \in {r \in sent.items : r.kind \in {"frame", "completion"}}}

Shown(t, c) == {s \in ChatsIn(t) : Record(s.of).call = c}

\* Once all records of a turn arrived, every model call that completed has one
\* chat span, whether the provider reported usage, a frame and a completion, or
\* the frame alone, and in whatever order the records came.
OneChatPerCall ==
    OfTurns(LAMBDA t, es : ToSet(es) = sent.items =>
        \A c \in CompletedCalls : Cardinality(Shown(t, c)) = 1)

\* When records are missing, no call is shown twice.
NoCallTwice ==
    OfTurns(LAMBDA t, es : \A c \in CompletedCalls : Cardinality(Shown(t, c)) <= 1)

\* A chat span never starts with the request of another call that is shown,
\* though its own request is missing or was sent again.
StartsWithOwnRequest ==
    OfTurns(LAMBDA t, es : \A s \in ChatsIn(t), e \in ToSet(es) :
        (e.kind = "request" /\ s.start = e.ts - e.dur /\ s.start # t.start)
            => \/ e.call = Record(s.of).call
               \/ Shown(t, e.call) = {})

\* The root covers its children, and no span ends before it starts.
RootCoversSpans ==
    OfTurns(LAMBDA t, es : \A s \in t.spans :
        t.start <= s.start /\ s.start <= s.end /\ s.end <= t.end)

DistinctTimes(es) == \A e, f \in ToSet(es) : e.ts = f.ts => e = f

\* Where timestamps differ, the trace is a function of the set of records that
\* arrived and not of their order: a replay yields the same ids.
ArrivalOrderIrrelevant ==
    OfTurns(LAMBDA t, es : DistinctTimes(es) =>
        t = BuildTrace(InOrder(ToSet(es),
                               {p \in ToSet(es) \X ToSet(es) : p[1].ts < p[2].ts})))

\* Model calls are shown once (duplicateFrameCompletions, describesModelCall).
CallsShownOnce == OneChatPerCall /\ NoCallTwice

\* The bounds of spans make sense (turnBounds, appendChatSpans).
BoundsSound == StartsWithOwnRequest /\ RootCoversSpans
=============================================================================
