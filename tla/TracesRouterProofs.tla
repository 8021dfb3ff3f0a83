-------------------------- MODULE TracesRouterProofs --------------------------
(***************************************************************************)
(* The properties of the traces router, for any payloads and any number of *)
(* them.  What carries them is Progress: while a payload is in an edge,    *)
(* everything the edges before it keep of the payload is downstream.       *)
(***************************************************************************)
EXTENDS TracesRouter, TLAPS

Types ==
    /\ consume \in BOOLEAN
    /\ pc \in Idle..Failed
    /\ payload \in Payloads \cup {{}}
    /\ pc # Idle => payload \in Payloads
    /\ acked \subseteq Payloads
    /\ givenUp \subseteq Payloads

\* What is downstream was claimed and kept by the edge that sent it.
Emissions == \A x \in emitted : x.edge \in Edges /\ x.span \in Kept(x.edge, x.group)

Progress ==
    \A i \in DOMAIN Order :
        (InEdge /\ i < pc) => Output(Order[i], payload) \subseteq emitted

IInv == Types /\ Emissions /\ Progress /\ AckedMeansEmitted /\ EmittedInOrder

\* A member of Output names its edge, its payload, its group and its span.
LEMMA OutputFields ==
    ASSUME NEW e, NEW p, NEW x \in Output(e, p)
    PROVE  /\ x.edge = e
           /\ x.payload = p
           /\ x.span \in Kept(e, x.group)
  BY DEF Output

\* Six edges, each at one position.
LEMMA OrderPositions ==
    /\ Len(Order) = 6
    /\ DOMAIN Order = 1..6
    /\ \A i, j \in 1..6 : Order[i] = Order[j] => i = j
    /\ \A i \in 1..6 : Order[i] \in Edges
    /\ \A e \in Edges : \E i \in 1..6 : e = Order[i]
<1>1. Len(Order) = 6 /\ DOMAIN Order = 1..6
  BY DEF Order
<1>2. \A i, j \in 1..6 : Order[i] = Order[j] => i = j
  BY DEF Order
<1> QED
  BY <1>1, <1>2 DEF Edges

\* A step that emits some of what an edge makes of the payload, whose
\* predecessors are through, keeps every emission well formed and in order.
LEMMA EmittingKeepsOrder ==
    ASSUME IInv, InEdge,
           NEW out \in SUBSET Output(Order[pc], payload),
           emitted' = emitted \cup out
    PROVE  Emissions' /\ EmittedInOrder'
<1>0. pc \in 1..6 /\ Order[pc] \in Edges
  BY OrderPositions DEF InEdge
<1>1. Emissions'
  BY <1>0, OutputFields DEF IInv, Emissions
<1>2. EmittedInOrder'
  <2> SUFFICES ASSUME NEW x \in emitted', NEW i \in 1..6, NEW j \in 1..6,
                      Order[j] = x.edge, i < j
               PROVE  Output(Order[i], x.payload) \subseteq emitted'
    BY OrderPositions DEF EmittedInOrder
  <2>1. CASE x \in emitted
    BY <2>1, OrderPositions DEF IInv, EmittedInOrder
  <2>2. CASE x \in out
    <3>1. x.edge = Order[pc] /\ x.payload = payload
      BY <2>2, OutputFields
    <3>2. j = pc
      BY <3>1, <1>0, OrderPositions
    <3> QED
      BY <3>1, <3>2, OrderPositions DEF IInv, Progress
  <2> QED
    BY <2>1, <2>2
<1> QED
  BY <1>1, <1>2

\* The router starts in the invariant: nothing was emitted.
LEMMA InitIInv == Init => IInv
<1> SUFFICES ASSUME Init PROVE IInv
  OBVIOUS
<1>1. Types
  BY OrderPositions DEF Init, Types, Idle, Failed
<1>2. Emissions /\ AckedMeansEmitted /\ EmittedInOrder
  BY DEF Init, Emissions, AckedMeansEmitted, EmittedInOrder
<1>3. Progress
  BY OrderPositions DEF Init, Progress, InEdge, Idle
<1> QED
  BY <1>1, <1>2, <1>3 DEF IInv

\* A payload that is sent has passed no edge yet.
LEMMA SendKeepsIInv == IInv /\ Send => IInv'
<1> SUFFICES ASSUME IInv, Send PROVE IInv'
  OBVIOUS
<1> PICK p \in Payloads :
       IF consume THEN pc' = 1 /\ payload' = p /\ UNCHANGED acked
                  ELSE acked' = acked \cup {p} /\ UNCHANGED <<pc, payload>>
  BY DEF Send
<1>0. pc = Idle /\ UNCHANGED <<consume, emitted, givenUp>>
  BY DEF Send
<1>1. Types'
  BY <1>0, OrderPositions DEF IInv, Types, Idle, Failed
<1>2. Emissions' /\ EmittedInOrder'
  BY <1>0 DEF IInv, Emissions, EmittedInOrder
<1>3. Progress'
  BY <1>0, OrderPositions DEF Progress, InEdge, Idle
<1>4. AckedMeansEmitted'
  BY <1>0 DEF IInv, AckedMeansEmitted
<1> QED
  BY <1>1, <1>2, <1>3, <1>4 DEF IInv

\* An edge that passes a payload on has emitted what it keeps of it.
LEMMA ForwardKeepsIInv == IInv /\ Forward => IInv'
<1> SUFFICES ASSUME IInv, Forward PROVE IInv'
  OBVIOUS
<1> DEFINE out == Output(Order[pc], payload)
<1>0. /\ pc \in 1..6
      /\ emitted' = emitted \cup out
      /\ UNCHANGED <<consume, payload, givenUp>>
      /\ \/ pc = 6 /\ pc' = Idle /\ acked' = acked \cup {payload}
         \/ pc # 6 /\ pc' = pc + 1 /\ UNCHANGED acked
  BY OrderPositions DEF Forward, Proceed, InEdge
<1>1. Types'
  BY <1>0, OrderPositions DEF IInv, Types, Idle, Failed
<1>2. Emissions' /\ EmittedInOrder'
  BY <1>0, EmittingKeepsOrder DEF Forward
<1>3. \A i \in 1..6 : i <= pc => Output(Order[i], payload) \subseteq emitted'
  <2> SUFFICES ASSUME NEW i \in 1..6, i <= pc
               PROVE  Output(Order[i], payload) \subseteq emitted'
    OBVIOUS
  <2>1. CASE i = pc
    BY <2>1, <1>0
  <2>2. CASE i # pc
    <3>1. i < pc /\ InEdge
      BY <2>2, <1>0, OrderPositions DEF InEdge
    <3> QED
      BY <3>1, <1>0, OrderPositions DEF IInv, Progress
  <2> QED
    BY <2>1, <2>2
<1>4. Progress'
  <2> SUFFICES ASSUME NEW i \in 1..6, InEdge', i < pc'
               PROVE  Output(Order[i], payload) \subseteq emitted'
    BY <1>0, OrderPositions DEF Progress
  <2>1. i <= pc
    BY <1>0, OrderPositions DEF Idle, InEdge
  <2> QED
    BY <2>1, <1>3
<1>5. AckedMeansEmitted'
  <2> SUFFICES ASSUME consume, NEW p \in acked', NEW e \in Edges
               PROVE  Output(e, p) \subseteq emitted'
    BY <1>0 DEF AckedMeansEmitted
  <2>1. CASE p \in acked
    BY <2>1, <1>0 DEF IInv, AckedMeansEmitted
  <2>2. CASE p \notin acked
    <3>1. p = payload /\ pc = 6
      BY <2>2, <1>0
    <3>2. PICK i \in 1..6 : e = Order[i]
      BY OrderPositions
    <3> QED
      BY <3>1, <3>2, <1>3
  <2> QED
    BY <2>1, <2>2
<1> QED
  BY <1>1, <1>2, <1>4, <1>5 DEF IInv

\* A refusal ends the call at its edge; what went out before it stays.
LEMMA RefuseKeepsIInv == IInv /\ Refuse => IInv'
<1> SUFFICES ASSUME IInv, Refuse PROVE IInv'
  OBVIOUS
<1>0. /\ InEdge /\ pc' = Failed
      /\ UNCHANGED <<consume, payload, acked, givenUp>>
      /\ emitted' \in {emitted, emitted \cup Output(Order[pc], payload)}
  BY DEF Refuse
<1>1. Types'
  BY <1>0, OrderPositions DEF IInv, Types, InEdge, Idle, Failed
<1>2. PICK out \in SUBSET Output(Order[pc], payload) : emitted' = emitted \cup out
  <2>1. CASE emitted' = emitted
    <3>1. {} \in SUBSET Output(Order[pc], payload) /\ emitted' = emitted \cup {}
      BY <2>1
    <3> QED
      BY <3>1
  <2>2. CASE emitted' = emitted \cup Output(Order[pc], payload)
    BY <2>2
  <2> QED
    BY <1>0, <2>1, <2>2
<1>3. Emissions' /\ EmittedInOrder'
  BY <1>0, <1>2, EmittingKeepsOrder
<1>4. Progress'
  BY <1>0, OrderPositions DEF Progress, InEdge, Failed
<1>5. AckedMeansEmitted'
  BY <1>0, <1>2 DEF IInv, AckedMeansEmitted
<1> QED
  BY <1>1, <1>3, <1>4, <1>5 DEF IInv

\* Sending again and giving up emit and acknowledge nothing.
LEMMA SenderKeepsIInv == IInv /\ (Retry \/ GiveUp) => IInv'
<1> SUFFICES ASSUME IInv, Retry \/ GiveUp PROVE IInv'
  OBVIOUS
<1>0. /\ pc = Failed /\ pc' \in {1, Idle}
      /\ UNCHANGED <<consume, payload, emitted, acked>>
      /\ givenUp' \in {givenUp, givenUp \cup {payload}}
  BY DEF Retry, GiveUp
<1>1. Types'
  BY <1>0, OrderPositions DEF IInv, Types, Idle, Failed
<1>2. Emissions' /\ EmittedInOrder' /\ AckedMeansEmitted'
  BY <1>0 DEF IInv, Emissions, EmittedInOrder, AckedMeansEmitted
<1>3. Progress'
  BY <1>0, OrderPositions DEF Progress, InEdge, Idle
<1> QED
  BY <1>1, <1>2, <1>3 DEF IInv

\* The inductive invariant holds in every state of the traces router, whatever
\* is sent and whichever edges are refused downstream.
THEOREM RouterInvariant == Spec => []IInv
<1>1. IInv /\ UNCHANGED vars => IInv'
  BY DEF vars, IInv, Types, Emissions, Progress, InEdge, AckedMeansEmitted,
         EmittedInOrder
<1>2. IInv /\ [Next]_vars => IInv'
  BY <1>1, SendKeepsIInv, ForwardKeepsIInv, RefuseKeepsIInv, SenderKeepsIInv DEF Next
<1> QED
  BY InitIInv, <1>2, PTL DEF Spec

\* The type of the state; what is downstream was kept by the edge that sent it.
THEOREM RouterTypes == Spec => []TypeOK
<1>1. IInv => TypeOK
  BY DEF IInv, Types, Emissions, TypeOK
<1> QED
  BY <1>1, RouterInvariant, PTL

\* A payload that ConsumeTraces answered without error went through all six
\* edges, however often it was refused before.
THEOREM Acknowledged == Spec => []AckedMeansEmitted
<1>1. IInv => AckedMeansEmitted
  BY DEF IInv
<1> QED
  BY <1>1, RouterInvariant, PTL

\* The edges that got a payload through are the first ones of newTracesRouter.
THEOREM InOrderOfEdges == Spec => []EmittedInOrder
<1>1. IInv => EmittedInOrder
  BY DEF IInv
<1> QED
  BY <1>1, RouterInvariant, PTL

\* The GenAI edge emits no group that another edge emits, but that of native
\* Codex traces: whatever spans and scopes are mixed in the group.
THEOREM GenAIYieldsAlways == Spec => []GenAIYields
<1>1. ASSUME Emissions PROVE GenAIYields
  <2> SUFFICES ASSUME NEW x \in emitted, NEW y \in emitted,
                      x.edge = "genai", x.group = y.group
               PROVE  y.edge \in {"genai", "codex"}
    BY DEF GenAIYields
  <2>1. Claims(x.edge, x.group) /\ Claims(y.edge, x.group)
    BY <1>1 DEF Emissions, Kept
  <2>2. GenAIClaims(x.group)
    BY <2>1 DEF Claims
  <2> QED
    BY <2>1, <2>2 DEF Claims, GenAIClaims
<1>2. IInv => GenAIYields
  BY <1>1 DEF IInv
<1> QED
  BY <1>2, RouterInvariant, PTL

\* What is downstream came out of a group of some payload.
Sources == \A x \in emitted : \E p \in Payloads : x.group \in p

\* The sources of emissions are payloads.
LEMMA SourcesAlways == Spec => []Sources
<1>1. Init => Sources
  BY DEF Init, Sources
<1>2. IInv /\ Sources /\ [Next]_vars => Sources'
  <2> SUFFICES ASSUME IInv, Sources, [Next]_vars PROVE Sources'
    OBVIOUS
  <2>1. CASE UNCHANGED emitted
    BY <2>1 DEF Sources
  <2>2. ASSUME InEdge, emitted' \subseteq emitted \cup Output(Order[pc], payload)
        PROVE  Sources'
    <3>1. payload \in Payloads
      BY <2>2, OrderPositions DEF IInv, Types, InEdge, Idle
    <3>2. \A x \in Output(Order[pc], payload) : x.group \in payload
      BY DEF Output
    <3> QED
      BY <2>2, <3>1, <3>2 DEF Sources
  <2> QED
    BY <2>1, <2>2 DEF Next, vars, Send, Forward, Refuse, Retry, GiveUp
<1> QED
  BY <1>1, <1>2, RouterInvariant, PTL DEF Spec

\* Where no span is marked like those of two agents, two edges emit one span
\* only if one of them is that of native Codex traces: however the scopes of
\* several agents are mixed in a group, and whatever edges claim the group.
THEOREM SpanTwiceByCodexAlone == OneAgentPerSpan => (Spec => []SpanTwiceOnlyByCodex)
<1> SUFFICES ASSUME OneAgentPerSpan PROVE Spec => []SpanTwiceOnlyByCodex
  OBVIOUS
<1>1. ASSUME Emissions, Sources PROVE SpanTwiceOnlyByCodex
  <2> SUFFICES ASSUME NEW x \in emitted, NEW y \in emitted, x.group = y.group,
                      x.span = y.span, x.edge # y.edge
               PROVE  "codex" \in {x.edge, y.edge}
    BY DEF SpanTwiceOnlyByCodex
  <2> DEFINE s == x.span
  <2>1. /\ Keeps(x.edge, s) /\ Keeps(y.edge, s)
        /\ Claims(x.edge, x.group) /\ Claims(y.edge, x.group) /\ s \in x.group.spans
    BY <1>1 DEF Emissions, Kept
  <2>2. PICK p \in Payloads : x.group \in p
    BY <1>1 DEF Sources
  <2>3. /\ "toolName" \in s.marks =>
             s.name \notin {"claude", "ai", "conversation"} /\ "laminar" \notin s.marks
        /\ "laminar" \in s.marks => s.name \notin {"claude", "ai", "pi"}
    BY <2>1, <2>2 DEF OneAgentPerSpan
  <2>4. x.edge = "genai" \/ y.edge = "genai" => "codex" \in {x.edge, y.edge}
    BY <2>1 DEF Claims, GenAIClaims
  <2> HIDE DEF s
  <2> QED
    BY <2>1, <2>3, <2>4 DEF Keeps
<1>2. IInv => Emissions
  BY DEF IInv
<1> QED
  BY <1>1, <1>2, RouterInvariant, SourcesAlways, PTL
=============================================================================
