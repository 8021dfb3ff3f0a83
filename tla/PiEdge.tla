------------------------------- MODULE PiEdge --------------------------------
(***************************************************************************)
(* The Pi edge (pi/normalizer.go) and the tree of its spans.  The edge     *)
(* looks at one scope slice at a time and knows spans by their ids alone.  *)
(***************************************************************************)
EXTENDS Assembly

\* normalizePiSpan: a toolName makes a tool whatever the span is called; else
\* the name tells.  Any other span is foreign and goes.
PiKind(s) ==
    CASE s.toolName -> "tool"
      [] ~s.toolName /\ s.name = "chat-turn" -> "root"
      [] ~s.toolName /\ s.name = "llm-generation" -> "chat"
      [] OTHER -> "foreign"

\* A span goes with every foreign span of its slice that has the same id.
KeptOf(q) ==
    {s \in ToSet(q) : \A r \in ToSet(q) : r.id = s.id => PiKind(r) # "foreign"}

IsTurn(s) == PiKind(s) = "root"

\* No span is its own ancestor.  Turns may share an id, but a span that is kept
\* has no id of one that is not, and two spans of a trace with one id start at
\* different times.
ASSUME PiAssumption ==
    \A s \in Sent : s.edge = "pi" =>
        /\ \A e, f \in s.items : e.id = f.id =>
             /\ PiKind(e) = "foreign" <=> PiKind(f) = "foreign"
             /\ e.trace = f.trace /\ e.start = f.start => e = f
        /\ \A W \in SUBSET s.items : W # {} =>
             \E m \in W : \A r \in W : r.id # m.parent

\* Mutant of PiParent: the parents that were removed count as exported.
PiParentForeign(s, q) ==
    LET exported == {r.id : r \in ToSet(q)}
        first == SelectInSeq(q, IsTurn)
    IN  IF IsTurn(s) THEN None
        ELSE IF s.parent \in exported \/ first = 0 THEN s.parent
        ELSE q[first].id

\* A turn loses its parent, a child without its parent in the slice goes to the
\* first turn there, of whatever trace.
PiParent(s, q) ==
    LET exported == {r.id : r \in KeptOf(q)}
        first == SelectInSeq(q, IsTurn)
    IN  IF IsTurn(s) THEN None
        ELSE IF s.parent \in exported \/ first = 0 THEN s.parent
        ELSE q[first].id

PiSlice(q) ==
    {[trace |-> s.trace, id |-> s.id, parent |-> PiParent(s, q),
      kind |-> PiKind(s), start |-> s.start] : s \in KeptOf(q)}

PiNormalize(b) == UNION {PiSlice(b[i]) : i \in DOMAIN b}

-----------------------------------------------------------------------------
(* Properties *)

\* The slices of a batch that hold the wire span of x.
SlicesOf(x) ==
    {q \in {x.batch[i] : i \in DOMAIN x.batch} : \E s \in ToSet(q) :
        s.trace = x.out.trace /\ s.id = x.out.id /\ s.start = x.out.start}

\* A slice of one trace that has a turn gives a whole tree: every span hangs from
\* a turn, whatever was removed between them and though turns share an id.
SliceIsATree ==
    \A x \in From("pi") : \A q \in SlicesOf(x) :
        (/\ \E s \in ToSet(q) : IsTurn(s)
         /\ \A s \in ToSet(q) : s.trace = x.out.trace)
            => HangsFromRoot(x.out, PiSlice(q))

\* In the whole backend a span points to nothing only if no turn came in its
\* slice; then it has the parent it had on the wire.
StrayOnlyWithoutTurn ==
    \A x \in From("pi") :
        (\A o \in Outputs("pi") : o.id # x.out.parent) =>
            \/ x.out.kind = "root" /\ x.out.parent = None
            \/ \A q \in SlicesOf(x) :
                  /\ \A s \in ToSet(q) : ~IsTurn(s)
                  /\ \E s \in ToSet(q) :
                       s.id = x.out.id /\ s.parent = x.out.parent

\* The tree of a slice survives the removal of spans (reparentOrphans).
SlicesAreTrees == SliceIsATree /\ StrayOnlyWithoutTurn

\* A trace is one user message (design.md, Pi normalization): a span is given a
\* new parent only in its own trace.
RootOfOwnTrace ==
    \A x \in From("pi") :
        \/ \E s \in ItemsOf(x.batch) :
              s.trace = x.out.trace /\ s.id = x.out.id /\ s.parent = x.out.parent
        \/ x.out.kind = "root"
        \/ Parents(x.out, Together(x)) # {}
=============================================================================
