----------------------------- MODULE CodexNative -----------------------------
(***************************************************************************)
(* The edge for native Codex traces (codextraces/normalizer.go).  Codex    *)
(* exports a span when it ends, children before their turn, and splits one *)
(* export over several resource groups.  The edge looks the model and the  *)
(* root of a span up in the rest of its batch, by trace.                   *)
(***************************************************************************)
EXTENDS Assembly

Claims == INSTANCE SpanClaims

\* A wire span as SpanClaims has it, with its place in the trace, its start and
\* the model a turn reports.
Models == {"m1", "m2", "none"}

\* No span is its own ancestor; starts are times.
ASSUME CodexNativeAssumption ==
    \A s \in Sent : s.edge = "codex native" =>
        /\ \A r \in s.items : r.scope = "svc" /\ r.start \in Nat
        /\ \A W \in SUBSET s.items : W # {} =>
             \E m \in W : \A r \in W : ~(r.trace = m.trace /\ r.id = m.parent)

\* A group under the service name that is also the scope of its spans.
Claimed(q) == Claims!ContainsCodexSpans([service |-> "svc", spans |-> ToSet(q)])

\* The spans of the claimed groups, one group after the other.
ClaimedSpans(b) == FlattenSeq([i \in DOMAIN b |-> IF Claimed(b[i]) THEN b[i] ELSE <<>>])

\* normalizeSpan asks in this order: a turn, the usage of a response, the name
\* of an MCP call, a tool_result event.
Kind(s) ==
    IF s.name = "turn" THEN "root"
    ELSE IF "usage" \in s.marks THEN "chat"
    ELSE IF s.name = "mcp" \/ "toolResult" \in s.marks THEN "tool"
    ELSE "drop"

\* The span of sequence q for which Test holds with the earliest start, the
\* first of several.
EarliestIn(q, Test(_)) ==
    LET some == {i \in DOMAIN q : Test(q[i])}
    IN  q[CHOOSE i \in some : \A j \in some :
            q[i].start < q[j].start \/ (q[i].start = q[j].start /\ i <= j)]

\* Mutant of TurnModel: the first model of the batch serves every trace.
TurnModelAnyTrace(q, t) ==
    LET Modelled(s) == s.name = "turn" /\ s.model # "none"
    IN  IF \E i \in DOMAIN q : Modelled(q[i])
        THEN EarliestIn(q, Modelled).model ELSE "none"

\* The model of the earliest turn of trace t that names one.
TurnModel(q, t) ==
    LET Modelled(s) == s.trace = t /\ s.name = "turn" /\ s.model # "none"
    IN  IF \E i \in DOMAIN q : Modelled(q[i])
        THEN EarliestIn(q, Modelled).model ELSE "none"

ModelOf(s, q) ==
    IF Kind(s) = "root" THEN s.model
    ELSE IF Kind(s) = "chat" THEN TurnModel(q, s.trace)
    ELSE "none"

\* Mutant of NewParent: a parent counts as exported though it was dropped.
NewParentDropped(s, q) ==
    LET IsRoot(r) == r.trace = s.trace /\ Kind(r) = "root"
        arrived == \E r \in ToSet(q) : r.trace = s.trace /\ r.id = s.parent
    IN  IF Kind(s) = "root" THEN None
        ELSE IF arrived \/ ~\E r \in ToSet(q) : IsRoot(r) THEN s.parent
        ELSE EarliestIn(q, IsRoot).id

\* A turn loses its parent.  A child whose parent was dropped or is not in the
\* batch goes to the earliest turn of its trace, if the batch has one.
NewParent(s, q) ==
    LET IsRoot(r) == r.trace = s.trace /\ Kind(r) = "root"
        kept == \E r \in ToSet(q) :
                    r.trace = s.trace /\ r.id = s.parent /\ Kind(r) # "drop"
    IN  IF Kind(s) = "root" THEN None
        ELSE IF kept \/ ~\E r \in ToSet(q) : IsRoot(r) THEN s.parent
        ELSE EarliestIn(q, IsRoot).id

CodexNormalize(b) ==
    LET q == ClaimedSpans(b)
    IN  {[trace |-> s.trace, id |-> s.id, parent |-> NewParent(s, q),
          kind |-> Kind(s), model |-> ModelOf(s, q)] :
            s \in {r \in ToSet(q) : Kind(r) # "drop"}}

-----------------------------------------------------------------------------
(* Properties *)

RootOf(x) == {o \in Together(x) : o.kind = "root" /\ o.trace = x.out.trace}

\* Where a batch has a turn of a trace, every span it has of that trace hangs
\* from a turn, whatever was dropped between them, whichever of its resource
\* groups they are in, and though span ids repeat in other traces.
HangsFromTurn ==
    \A x \in From("codex native") : RootOf(x) # {} => HangsFromRoot(x.out, Together(x))

\* In the whole backend a span points to nothing only if no turn of its trace
\* came in its batch; then it has the parent it had on the wire.
LooseOnlyWithoutTurn ==
    \A x \in From("codex native") :
        Parents(x.out, Outputs("codex native")) = {} =>
            \/ x.out.kind = "root" /\ x.out.parent = None
            \/ /\ RootOf(x) = {}
               /\ \E s \in ItemsOf(x.batch) :
                     /\ s.trace = x.out.trace /\ s.id = x.out.id
                     /\ s.parent = x.out.parent

\* The model of a response is that of a turn of its own trace, of the first one
\* in its batch that names any.
ModelOfOwnTrace ==
    \A x \in From("codex native") : x.out.kind = "chat" =>
        LET turns == {s \in ItemsOf(x.batch) :
                        /\ s.trace = x.out.trace
                        /\ s.name = "turn" /\ s.model # "none"}
        IN  IF turns = {} THEN x.out.model = "none"
            ELSE \E s \in turns : /\ s.model = x.out.model
                                  /\ \A r \in turns : s.start <= r.start

\* The tree of a turn survives the removal of spans and the composition of
\* batches (reparentOrphans).
TurnsAreTrees == HangsFromTurn /\ LooseOnlyWithoutTurn
=============================================================================
