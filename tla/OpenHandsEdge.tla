---------------------------- MODULE OpenHandsEdge ----------------------------
(***************************************************************************)
(* The OpenHands edge (openhands/normalizer.go): every claimed resource    *)
(* group is taken apart by trace and rewritten as a root with all its      *)
(* calls below it.  A conversation exports in fragments, of which only the *)
(* last holds the conversation span, so a fragment gets a root of its own. *)
(***************************************************************************)
EXTENDS Assembly

\* classify: the Laminar type of a span, or its name, gives its role; "step"
\* stands for the agent's own spans, which are dropped.
Roles == {"root", "chat", "tool", "step"}
Counters == {"tokens", "cache"}

\* A wire span: [trace, id, parent, start, end, role, call (of a tool, or
\* "none"), usage (the counters it carries)].  Starts and ends are positive:
\* minTime takes 0 for unset.

\* Ids are drawn at random and a parent is of the trace of its children.  A model
\* call has at most its wrapper around it.
ASSUME OpenHandsAssumption ==
    \A s \in Sent : s.edge = "openhands" =>
        /\ \A e \in s.items : /\ {e.id, e.start, e.end} \subseteq Nat
                              /\ e.call # "none" => e.role = "tool"
        /\ \A e, f \in s.items :
             /\ e.id = f.id => e = f
             /\ f.parent = e.id => f.trace = e.trace
             /\ e.call = f.call /\ e.call # "none" => e.trace = f.trace
        /\ \A w, e, f \in s.items :
             (w.role = "chat" /\ e.role = "chat" /\ f.role = "chat" /\ e.parent = w.id)
                 => f.parent # e.id

\* A group is claimed by the name of a conversation or a step.
ContainsOpenHandsSpans(q) == \E s \in ToSet(q) : s.role \in {"root", "step"}

TraceIn(q, t) == {s \in ToSet(q) : s.trace = t}

MinOf(S) == CHOOSE m \in S : \A n \in S : m <= n
MaxOf(S) == CHOOSE m \in S : \A n \in S : m >= n

\* The spans that are dropped still widen the bounds of their trace.
Window(q, t) ==
    LET seen == TraceIn(q, t)
    IN  [start |-> MinOf({s.start : s \in seen}), end |-> MaxOf({s.end : s \in seen})]

Conversations(q, t) == {s \in TraceIn(q, t) : s.role = "root"}

\* Mutant of RootId: the bounds are left out of the hash.
RootIdOfTrace(q, t) ==
    LET roots == Conversations(q, t)
    IN  IF roots # {} THEN <<(CHOOSE r \in roots : \A s \in roots : r.start <= s.start).id>>
        ELSE <<"synthetic", t>>

\* The id of the earliest conversation span, or a hash of the trace and the
\* bounds; the hash is injective.
RootId(q, t) ==
    LET roots == Conversations(q, t)
    IN  IF roots # {} THEN <<(CHOOSE r \in roots : \A s \in roots : r.start <= s.start).id>>
        ELSE <<"synthetic", t, Window(q, t).start, Window(q, t).end>>

Calls(q, t) == {s \in TraceIn(q, t) : s.role \in {"chat", "tool"}}

Before(a, b) == a.start < b.start \/ (a.start = b.start /\ a.id <= b.id)

ChatSpans(q, t) == {s \in TraceIn(q, t) : s.role = "chat"}

ChatKids(q, s) == {k \in ChatSpans(q, s.trace) : k.parent = s.id}

\* A chat span around exactly one other is the wrapper of that call.
IsWrapper(q, s) == s.role = "chat" /\ Cardinality(ChatKids(q, s)) = 1

\* Mutant of UsageOf: nothing of the wrapper is carried over.
UsageOwn(q, s) == {<<c, s.id>> : c \in s.usage}

\* The counters of an emitted call and the wire span each comes from: those the
\* wrapper has and the call has not are carried over.
UsageOf(q, s) ==
    {<<c, s.id>> : c \in s.usage} \cup
    UNION {{<<c, w.id>> : c \in w.usage \ s.usage} :
             w \in {v \in ChatSpans(q, s.trace) :
                       s.role = "chat" /\ v.id = s.parent /\ IsWrapper(q, v)}}

\* Another record of the same tool call sorts before this one.
Repeated(q, s) ==
    /\ s.role = "tool" /\ s.call # "none"
    /\ \E r \in Calls(q, s.trace) :
         r # s /\ r.role = "tool" /\ r.call = s.call /\ Before(r, s)

Emitted(q, t) == {s \in Calls(q, t) : ~IsWrapper(q, s) /\ ~Repeated(q, s)}

GroupTraces(q) == {s.trace : s \in {r \in ToSet(q) : r.role # "step"}}

Fragment(q, t) ==
    {[trace |-> t, id |-> RootId(q, t), parent |-> <<>>, kind |-> "root",
      start |-> Window(q, t).start, end |-> Window(q, t).end, usage |-> {}]} \cup
    {[trace |-> t, id |-> <<s.id>>, parent |-> RootId(q, t), kind |-> s.role,
      start |-> s.start, end |-> s.end, usage |-> UsageOf(q, s)] :
        s \in Emitted(q, t)}

OpenHandsNormalize(b) ==
    UNION {UNION {Fragment(b[i], t) : t \in GroupTraces(b[i])} :
             i \in {j \in DOMAIN b : ContainsOpenHandsSpans(b[j])}}

-----------------------------------------------------------------------------
(* Properties *)

\* Two spans of the backend with one trace and one id are the same span, though
\* the fragments of a conversation each have a root: a backend never merges or
\* refuses a fragment.
OneSpanPerId ==
    \A o, p \in Outputs("openhands") : (o.trace = p.trace /\ o.id = p.id) => o = p

\* Every span hangs from a root that came with it, and the bounds of that root
\* cover every span of the trace in its group, kept or not.
RootCoversGroup ==
    \A x \in From("openhands") : x.out.kind # "root" =>
        \E r \in Together(x) :
            /\ r.kind = "root" /\ r.trace = x.out.trace /\ r.id = x.out.parent
            /\ \E i \in DOMAIN x.batch :
                 /\ \E s \in ToSet(x.batch[i]) : <<s.id>> = x.out.id
                 /\ \A s \in TraceIn(x.batch[i], r.trace) :
                      r.start <= s.start /\ s.end <= r.end

\* The wire spans of S and the groups of batches they came in.
CameTogether(s, r) ==
    \E x \in From("openhands") : \E i \in DOMAIN x.batch :
        /\ ContainsOpenHandsSpans(x.batch[i])
        /\ {s, r} \subseteq ToSet(x.batch[i])

WireSpans == UNION {ItemsOf(x.batch) : x \in From("openhands")}

\* What the backend reports of a counter for call s and its wrapper w.
Reports(c, w, s) ==
    {o \in Outputs("openhands") : \E u \in o.usage : u[1] = c /\ u[2] \in {w.id, s.id}}

CallPairs ==
    {p \in WireSpans \X WireSpans :
        /\ p[1].role = "chat" /\ p[2].role = "chat" /\ p[1] # p[2]
        /\ {s \in WireSpans : s.role = "chat" /\ s.parent = p[1].id} = {p[2]}}

\* A counter of a call that the call or its wrapper carries is reported exactly
\* once if the two came in one group (design.md, Usage and content).
CountedOnceTogether ==
    \A p \in CallPairs, c \in Counters :
        (CameTogether(p[1], p[2]) /\ c \in p[1].usage \cup p[2].usage)
            => Cardinality(Reports(c, p[1], p[2])) = 1

\* A span around several calls keeps its counters to itself, and every counter
\* of every chat span in the backend comes from one wire span only.
NothingReportedTwice ==
    \A o, p \in Outputs("openhands") : o # p => o.usage \cap p.usage = {}

\* Of the records of one tool call that came in one group, the call and its
\* result, one becomes a span, though others come in other groups.
ToolOncePerGroup ==
    \A r, s \in WireSpans :
        (r # s /\ r.call = s.call /\ r.call # "none" /\ CameTogether(r, s))
            => ~{<<r.id>>, <<s.id>>} \subseteq {o.id : o \in Outputs("openhands")}

\* The fragments of a conversation stand side by side (collect, rootSpanID).
FragmentsStand == OneSpanPerId /\ RootCoversGroup

\* Folding and deduplication neither lose a counter or a tool call nor report
\* one twice (foldLLMWrappers, foldUsage, emitGroup).
CountedOnce == CountedOnceTogether /\ NothingReportedTwice /\ ToolOncePerGroup
=============================================================================
