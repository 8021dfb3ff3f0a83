---------------------------- MODULE TracesRouter -----------------------------
(***************************************************************************)
(* The traces router (traces.go): a payload goes through the six stateless *)
(* edges one after the other.  Each sends what it keeps downstream, in a   *)
(* call of its own; the first error returns at once, and the sender sends  *)
(* the payload again, through all the edges, or gives it up.               *)
(***************************************************************************)
EXTENDS SpanClaims, FiniteSets

CONSTANTS Payloads,    \* what senders may send, as sets of groups
          MaxPayloads  \* how many a behaviour sends

ASSUME TracesAssumption == /\ Payloads \subseteq SUBSET Group
                           /\ MaxPayloads \in Nat

VARIABLES
    consume,  \* whether the configured signals list traces
    pc,       \* where the call is: a position in Order, Idle or Failed
    payload,  \* what the call carries
    emitted,  \* history: what each edge sent downstream, by payload and group
    acked,    \* payloads answered without error
    givenUp   \* payloads a sender gave up after an error

Idle == 0
Failed == Len(Order) + 1

vars == <<consume, pc, payload, emitted, acked, givenUp>>

Init ==
    /\ consume \in BOOLEAN
    /\ pc = Idle
    /\ payload = {}
    /\ emitted = {}
    /\ acked = {}
    /\ givenUp = {}

\* What the edge sends downstream; nothing at all if it keeps no span.
Output(e, p) ==
    UNION {{[edge |-> e, payload |-> p, group |-> g, span |-> s] : s \in Kept(e, g)} : g \in p}

\* Without the traces signal the router answers at once.
Send ==
    /\ pc = Idle
    /\ Cardinality(acked \cup givenUp) < MaxPayloads
    /\ \E p \in Payloads :
         IF consume
         THEN /\ pc' = 1
              /\ payload' = p
              /\ UNCHANGED acked
         ELSE /\ acked' = acked \cup {p}
              /\ UNCHANGED <<pc, payload>>
    /\ UNCHANGED <<consume, emitted, givenUp>>

InEdge == pc \in DOMAIN Order

\* On to the next edge; after the last one the payload is acknowledged.
Proceed ==
    IF pc = Len(Order)
    THEN pc' = Idle /\ acked' = acked \cup {payload}
    ELSE pc' = pc + 1 /\ UNCHANGED acked

\* The edge keeps nothing, or the downstream consumer takes what it keeps.
Forward ==
    /\ InEdge
    /\ emitted' = emitted \cup Output(Order[pc], payload)
    /\ Proceed
    /\ UNCHANGED <<consume, payload, givenUp>>

\* Mutant of Refuse: the error of an edge is dropped.
RefuseSwallowed ==
    /\ InEdge
    /\ Output(Order[pc], payload) # {}
    /\ Proceed
    /\ UNCHANGED <<consume, payload, emitted, givenUp>>

\* Downstream answers with an error, which may come after it took the spans.
Refuse ==
    /\ InEdge
    /\ LET out == Output(Order[pc], payload)
       IN  out # {} /\ emitted' \in {emitted, emitted \cup out}
    /\ pc' = Failed
    /\ UNCHANGED <<consume, payload, acked, givenUp>>

Retry ==
    /\ pc = Failed
    /\ pc' = 1
    /\ UNCHANGED <<consume, payload, emitted, acked, givenUp>>

GiveUp ==
    /\ pc = Failed
    /\ pc' = Idle
    /\ givenUp' = givenUp \cup {payload}
    /\ UNCHANGED <<consume, payload, emitted, acked>>

Next == Send \/ Forward \/ Refuse \/ Retry \/ GiveUp

Spec == Init /\ [][Next]_vars

-----------------------------------------------------------------------------
(* Properties *)

\* The type of the state.
TypeOK ==
    /\ consume \in BOOLEAN
    /\ pc \in Idle..Failed
    /\ payload \in Payloads \cup {{}}
    /\ \A x \in emitted : x.span \in Kept(x.edge, x.group)
    /\ acked \subseteq Payloads
    /\ givenUp \subseteq Payloads

\* A payload answered without error has been through all six edges: what each
\* keeps of it went downstream, although an error of an edge hides the payload
\* from the edges after it until it is sent again.
AckedMeansEmitted ==
    consume => \A p \in acked, e \in Edges : Output(e, p) \subseteq emitted

\* The edges that got a payload through are the first ones: an edge sends spans
\* of a payload only after every edge before it has got all of its own through.
\* So a payload that is given up lacks whole edges, the last ones.
EmittedInOrder ==
    \A x \in emitted : \A i, j \in DOMAIN Order :
        (Order[j] = x.edge /\ i < j) => Output(Order[i], x.payload) \subseteq emitted

\* A group that the GenAI edge emits is emitted by no other edge, unless it is
\* also a group of native Codex traces.
GenAIYields ==
    \A x, y \in emitted :
        (x.edge = "genai" /\ x.group = y.group) => y.edge \in {"genai", "codex"}

\* What agents send: a span that tells one agent is not called, or marked, like
\* those of another.
OneAgentPerSpan ==
    \A p \in Payloads : \A g \in p : \A s \in g.spans :
        /\ "toolName" \in s.marks =>
             s.name \notin {"claude", "ai", "conversation"} /\ "laminar" \notin s.marks
        /\ "laminar" \in s.marks => s.name \notin {"claude", "ai", "pi"}

\* Where each span carries the marks of one agent: however the scopes of several
\* agents are mixed in a group, a span is emitted twice only if one of the two
\* edges is that of native Codex traces, which keeps whatever carries a token
\* count in a group it claims.
SpanTwiceOnlyByCodex ==
    \A x, y \in emitted :
        (x.group = y.group /\ x.span = y.span /\ x.edge # y.edge)
            => "codex" \in {x.edge, y.edge}
=============================================================================
