--------------------------- MODULE LogsRouterProofs ---------------------------
(***************************************************************************)
(* The properties of the logs router, for any callers, payloads, refusals, *)
(* closings of turns and capacity.  Three facts carry them: a record that  *)
(* an edge has applied is accounted for, and stays so when its turn        *)
(* closes; records with one identity may be one record; and a payload that *)
(* is past the Codex edge, or failed, is accounted for there.              *)
(***************************************************************************)
EXTENDS LogsRouter, TLAPS

Keys == {EventOf(e, r, now).key : e \in Edges, r \in UNION Payloads, now \in 1..MaxClock}

Turns == [seen : SUBSET Keys, truncated : BOOLEAN]

Types ==
    /\ consume \in BOOLEAN
    /\ calls \in 0..MaxCalls
    /\ pc \in [Callers -> Edges \cup {"idle", "failed"}]
    /\ payload \in [Callers -> Payloads \cup {{}}]
    /\ \A c \in Callers : pc[c] # "idle" => consume /\ payload[c] \in Payloads
    /\ DOMAIN rest = Callers
    /\ mu \in [Edges -> Callers \cup {"free"}]
    /\ turns \in [Edges -> [Conversations -> Turns]]
    /\ DOMAIN taken = Edges
    /\ marked \in [Edges -> SUBSET Conversations]
    /\ acked \subseteq Payloads /\ givenUp \subseteq Payloads
    /\ edgePc \in [Edges -> {"new", "running", "drained", "abandoned"}]
    /\ hostPc \in {"starting", "up", "down"} \cup Edges
    /\ expired \in BOOLEAN
    /\ clock \in 1..MaxClock

\* x is the event of a record that e claims.
EventIn(e, x) ==
    /\ x = [of |-> x.of, event |-> x.event]
    /\ x.of \in UNION Payloads /\ Claims(e, x.of)
    /\ \E now \in 1..MaxClock : x.event = EventOf(e, x.of, now)

\* What an edge has retained are events of records it claims, ...
Events == \A e \in Edges : \A x \in taken[e] : consume /\ EventIn(e, x)

\* ... and so is what a call has still to apply, ...
RestEvents ==
    \A c \in Callers : pc[c] \in Edges =>
        \A x \in rest[c] : x.of \in payload[c] /\ EventIn(pc[c], x)

\* ... and what an open turn has seen it has retained.
SeenRetained ==
    \A e \in Edges, k \in Conversations : \A key \in turns[e][k].seen :
        \E x \in taken[e] : x.of.conv = k /\ x.event.key = key

\* A call has applied, or has still to apply, each record that its edge claims.
Progress ==
    \A c \in Callers : pc[c] \in Edges =>
        \A r \in payload[c] : Claims(pc[c], r) =>
            Accounted(pc[c], r) \/ \E x \in rest[c] : x.of = r

InCodex(p) == \A r \in p : CodexClaims(r) => Accounted("codex", r)

PastCodex == \A c \in Callers : pc[c] \in {"cursor", "failed"} => InCodex(payload[c])

Ended(e) == edgePc[e] \in {"drained", "abandoned"}

ShutdownOrder ==
    /\ hostPc = "cursor" => Ended("codex")
    /\ hostPc = "down" => Ended("codex") /\ Ended("cursor")

EventInv == Events /\ RestEvents /\ SeenRetained
CallInv  == Progress /\ PastCodex /\ AckedMeansTaken /\ GivingUpKeepsCodex

IInv == Types /\ EventInv /\ CallInv /\ ShutdownOrder

-----------------------------------------------------------------------------
(* Identities *)

\* The time of an event that names one does not depend on the clock.
LEMMA NamedDates ==
    ASSUME NEW e \in Edges, NEW r, NEW now
    PROVE  NamedDate(e, r) = IF Dated(e, r) THEN EventOf(e, r, now).ts ELSE 0
  BY DEF NamedDate, Dated, EventOf, CodexEvent, CursorEvent, CodexTime, CursorTime,
         DatedForCodex, DatedForCursor, Edges

\* Events with one identity are those of records that may be one record.
LEMMA OneKeyMayBeOne ==
    ASSUME NEW e \in Edges, NEW q, NEW r, NEW now, NEW at,
           EventOf(e, q, now).key = EventOf(e, r, at).key
    PROVE  MayBeOne(e, q, r)
<1>1. CASE e = "codex"
  <2>1. /\ EventOf(e, q, now).ts = EventOf(e, r, at).ts /\ q.attrs = r.attrs
        /\ q.written = r.written /\ Dated(e, q) = Dated(e, r)
    BY <1>1 DEF EventOf, CodexEvent, Dated, DatedForCodex
  <2>2. NamedDate(e, q) = NamedDate(e, r)
    BY <2>1, NamedDates
  <2> QED
    BY <1>1, <2>1, <2>2 DEF MayBeOne, SameContent
<1>2. CASE e = "cursor"
  <2>0. CursorKey(q, now) = CursorKey(r, at)
    BY <1>2 DEF EventOf, CursorEvent
  <2>1. CASE r.wireId # NoName
    <3>1. CursorKey(r, at) = <<"wire", r.wireId>>
      BY <2>1 DEF CursorKey
    <3>2. q.wireId # NoName
      BY <3>1, <2>0 DEF CursorKey
    <3> QED
      BY <2>0, <3>1, <3>2, <1>2 DEF CursorKey, MayBeOne
  <2>2. CASE r.wireId = NoName
    <3>1. q.wireId = NoName
      BY <2>0, <2>2 DEF CursorKey
    <3>2. /\ CursorTime(q, now) = CursorTime(r, at) /\ q.attrs = r.attrs
          /\ q.text = r.text /\ DatedForCursor(q) = DatedForCursor(r)
      BY <2>0, <2>2, <3>1 DEF CursorKey, DatedForCursor
    <3>3. EventOf(e, q, now).ts = EventOf(e, r, at).ts /\ Dated(e, q) = Dated(e, r)
      BY <1>2, <3>2 DEF EventOf, CursorEvent, Dated
    <3>4. NamedDate(e, q) = NamedDate(e, r)
      BY <3>3, NamedDates
    <3> QED
      BY <1>2, <2>2, <3>1, <3>2, <3>4 DEF MayBeOne, SameContent
  <2> QED
    BY <2>1, <2>2
<1> QED
  BY <1>1, <1>2 DEF Edges

\* Parsing gives the events of the records an edge claims, one for each.
LEMMA ParsedEvents ==
    ASSUME NEW e \in Edges, NEW p \in Payloads, clock \in 1..MaxClock
    PROVE  /\ \A x \in Parsed(e, p) : x.of \in p /\ EventIn(e, x)
           /\ \A r \in p : Claims(e, r) => \E x \in Parsed(e, p) : x.of = r
<1>1. \A x \in Parsed(e, p) : x.of \in p /\ EventIn(e, x)
  <2> SUFFICES ASSUME NEW r \in p, Claims(e, r),
                      NEW x, x = [of |-> r, event |-> EventOf(e, r, clock)]
               PROVE  x.of \in p /\ EventIn(e, x)
    BY DEF Parsed
  <2> QED
    BY DEF EventIn
<1>2. ASSUME NEW r \in p, Claims(e, r) PROVE \E x \in Parsed(e, p) : x.of = r
  <2> DEFINE x == [of |-> r, event |-> EventOf(e, r, clock)]
  <2> x \in Parsed(e, p) /\ x.of = r
    BY <1>2 DEF Parsed
  <2> QED
    OBVIOUS
<1> QED
  BY <1>1, <1>2

-----------------------------------------------------------------------------
(* What is accounted for *)

\* A turn's mark is not lost: it stays, or the turn closes with it.
MarksKept ==
    \A e \in Edges, k \in Conversations :
        turns[e][k].truncated \/ k \in marked[e]
            => (turns[e][k].truncated \/ k \in marked[e])'

\* Where no edge forgets what it retained and no mark is lost, what was
\* accounted for stays so.
LEMMA AccountedStays ==
    ASSUME \A f \in Edges : taken[f] \subseteq taken'[f], MarksKept,
           NEW e \in Edges, NEW r, r.conv \in Conversations, Accounted(e, r)
    PROVE  Accounted(e, r)'
  BY DEF Accounted, Retained, Overflown, MarksKept

\* The answers given stay true where what was accounted for stays so.
LEMMA AnswersStay ==
    ASSUME Types, CallInv, UNCHANGED <<consume, payload>>,
           \A f \in Edges : taken[f] \subseteq taken'[f], MarksKept,
           acked' = acked, givenUp' = givenUp
    PROVE  AckedMeansTaken' /\ GivingUpKeepsCodex'
<1>1. \A p \in Payloads : \A r \in p : r.conv \in Conversations
  BY DEF Conversations
<1>2. AckedMeansTaken'
  <2> SUFFICES ASSUME consume, NEW p \in acked, NEW r \in p, NEW e \in Edges, Claims(e, r)
               PROVE  Accounted(e, r)'
    BY DEF AckedMeansTaken
  <2> QED
    BY <1>1, AccountedStays DEF CallInv, AckedMeansTaken, Types
<1>3. GivingUpKeepsCodex'
  <2> SUFFICES ASSUME NEW p \in givenUp, NEW r \in p, CodexClaims(r)
               PROVE  Accounted("codex", r)'
    BY DEF GivingUpKeepsCodex
  <2> QED
    BY <1>1, AccountedStays DEF CallInv, GivingUpKeepsCodex, Types, Edges
<1> QED
  BY <1>2, <1>3

\* The same of the calls that stay where they are.
LEMMA CallStays ==
    ASSUME Types, CallInv, UNCHANGED <<consume, payload>>,
           \A f \in Edges : taken[f] \subseteq taken'[f], MarksKept,
           NEW c \in Callers, pc'[c] = pc[c], rest'[c] = rest[c]
    PROVE  /\ pc[c] \in Edges =>
                \A r \in payload[c] : Claims(pc[c], r) =>
                    Accounted(pc[c], r)' \/ \E x \in rest[c] : x.of = r
           /\ pc[c] \in {"cursor", "failed"} => InCodex(payload[c])'
<1>1. \A r \in payload[c] : r.conv \in Conversations
  BY DEF Conversations, Types
<1>2. pc[c] \in Edges =>
        \A r \in payload[c] : Claims(pc[c], r) =>
            Accounted(pc[c], r)' \/ \E x \in rest[c] : x.of = r
  BY <1>1, AccountedStays DEF CallInv, Progress
<1>3. ASSUME pc[c] \in {"cursor", "failed"}, NEW r \in payload[c], CodexClaims(r)
      PROVE  Accounted("codex", r)'
  BY <1>1, <1>3, AccountedStays DEF CallInv, PastCodex, InCodex, Edges
<1> QED
  BY <1>2, <1>3 DEF InCodex

-----------------------------------------------------------------------------
(* Calls *)

\* The router starts in the invariant: no call has begun.
LEMMA InitIInv == Init => IInv
<1> SUFFICES ASSUME Init PROVE IInv
  OBVIOUS
<1>1. Types
  <2>1. clock \in 1..MaxClock /\ calls \in 0..MaxCalls
    BY RouterAssumption DEF Init
  <2>2. pc \in [Callers -> Edges \cup {"idle", "failed"}] /\ \A c \in Callers : pc[c] = "idle"
    BY DEF Init
  <2>3. turns \in [Edges -> [Conversations -> Turns]]
    BY DEF Init, NoTurn, Turns
  <2> QED
    BY <2>1, <2>2, <2>3 DEF Init, Types, Edges
<1>2. EventInv
  BY DEF Init, EventInv, Events, RestEvents, SeenRetained, NoTurn, Edges
<1>3. CallInv
  BY DEF Init, CallInv, Progress, PastCodex, AckedMeansTaken, GivingUpKeepsCodex, Edges
<1>4. ShutdownOrder
  BY DEF Init, ShutdownOrder
<1> QED
  BY <1>1, <1>2, <1>3, <1>4 DEF IInv

\* A call that enters an edge has still to apply all the edge claims of its
\* payload; nothing else changes for it, nor for the other calls.
LEMMA Entering ==
    ASSUME IInv, NEW c \in Callers, NEW e \in Edges, NEW p \in Payloads,
           consume, Enter(c, e, p), payload' = [payload EXCEPT ![c] = p],
           UNCHANGED <<turns, taken, marked, consume>>,
           e = "cursor" => InCodex(p)
    PROVE  /\ pc' \in [Callers -> Edges \cup {"idle", "failed"}]
           /\ payload' \in [Callers -> Payloads \cup {{}}]
           /\ \A d \in Callers : pc'[d] # "idle" => consume' /\ payload'[d] \in Payloads
           /\ DOMAIN rest' = Callers
           /\ RestEvents' /\ Progress' /\ PastCodex'
<1>0. /\ pc'[c] = e /\ rest'[c] = Parsed(e, p) /\ payload'[c] = p
      /\ \A d \in Callers \ {c} :
           pc'[d] = pc[d] /\ rest'[d] = rest[d] /\ payload'[d] = payload[d]
      /\ pc' = [pc EXCEPT ![c] = e] /\ rest' = [rest EXCEPT ![c] = Parsed(e, p)]
  BY DEF Enter, IInv, Types
<1>1. /\ pc' \in [Callers -> Edges \cup {"idle", "failed"}]
      /\ payload' \in [Callers -> Payloads \cup {{}}]
      /\ DOMAIN rest' = Callers
  BY <1>0 DEF IInv, Types
<1>2. \A d \in Callers : pc'[d] # "idle" => consume' /\ payload'[d] \in Payloads
  BY <1>0 DEF IInv, Types
<1>3. RestEvents'
  <2> SUFFICES ASSUME NEW d \in Callers, pc'[d] \in Edges, NEW x \in rest'[d]
               PROVE  x.of \in payload'[d] /\ EventIn(pc'[d], x)
    BY DEF RestEvents, EventIn
  <2>1. CASE d = c
    BY <2>1, <1>0, ParsedEvents DEF IInv, Types
  <2>2. CASE d # c
    BY <2>2, <1>0 DEF IInv, EventInv, RestEvents
  <2> QED
    BY <2>1, <2>2
<1>4. Progress'
  <2> SUFFICES ASSUME NEW d \in Callers, pc'[d] \in Edges,
                      NEW r \in payload'[d], Claims(pc'[d], r)
               PROVE  Accounted(pc'[d], r) \/ \E x \in rest'[d] : x.of = r
    BY DEF Progress, Accounted, Retained, Overflown
  <2>1. CASE d = c
    BY <2>1, <1>0, ParsedEvents DEF IInv, Types
  <2>2. CASE d # c
    BY <2>2, <1>0 DEF IInv, CallInv, Progress
  <2> QED
    BY <2>1, <2>2
<1>5. PastCodex'
  <2> SUFFICES ASSUME NEW d \in Callers, pc'[d] \in {"cursor", "failed"}
               PROVE  InCodex(payload'[d])
    BY DEF PastCodex, InCodex, Accounted, Retained, Overflown
  <2>1. CASE d = c
    BY <2>1, <1>0 DEF Edges
  <2>2. CASE d # c
    BY <2>2, <1>0 DEF IInv, CallInv, PastCodex
  <2> QED
    BY <2>1, <2>2
<1> QED
  BY <1>1, <1>2, <1>3, <1>4, <1>5

\* What is accounted for does not change with the turns unchanged.
LEMMA TurnsUntouched ==
    ASSUME IInv, UNCHANGED <<turns, taken, marked, consume>>
    PROVE  /\ Events' /\ SeenRetained'
           /\ acked' = acked => AckedMeansTaken'
           /\ givenUp' = givenUp => GivingUpKeepsCodex'
<1>1. Events' /\ SeenRetained'
  BY DEF IInv, EventInv, Events, SeenRetained, EventIn
<1>2. acked' = acked => AckedMeansTaken'
  BY DEF IInv, CallInv, AckedMeansTaken, Accounted, Retained, Overflown
<1>3. givenUp' = givenUp => GivingUpKeepsCodex'
  BY DEF IInv, CallInv, GivingUpKeepsCodex, Accounted, Retained, Overflown
<1> QED
  BY <1>1, <1>2, <1>3

\* A payload that is sent has been offered to no edge yet.
LEMMA SendKeepsIInv == \A c \in Callers : IInv /\ Send(c) => IInv'
<1> SUFFICES ASSUME NEW c \in Callers, IInv, Send(c) PROVE IInv'
  OBVIOUS
<1>0. /\ UNCHANGED <<mu, turns, taken, marked, givenUp, consume, edgePc, hostPc, expired, clock>>
      /\ calls' \in 0..MaxCalls
  BY RouterAssumption DEF Send, Call, hostVars, turnVars, IInv, Types
<1>1. PICK p \in Payloads :
       \/ consume /\ Enter(c, "codex", p) /\ payload' = [payload EXCEPT ![c] = p] /\ UNCHANGED acked
       \/ ~consume /\ acked' = acked \cup {p} /\ UNCHANGED <<pc, payload, rest>>
  BY DEF Send
<1>2. Events' /\ SeenRetained' /\ GivingUpKeepsCodex' /\ ShutdownOrder'
  BY <1>0, TurnsUntouched DEF IInv, ShutdownOrder, Ended
<1>3. CASE consume
  <2>1. /\ Enter(c, "codex", p) /\ payload' = [payload EXCEPT ![c] = p] /\ acked' = acked
    BY <1>1, <1>3
  <2>2. /\ pc' \in [Callers -> Edges \cup {"idle", "failed"}]
        /\ payload' \in [Callers -> Payloads \cup {{}}]
        /\ \A d \in Callers : pc'[d] # "idle" => consume' /\ payload'[d] \in Payloads
        /\ DOMAIN rest' = Callers
        /\ RestEvents' /\ Progress' /\ PastCodex'
    BY <2>1, <1>0, <1>3, Entering DEF Edges
  <2>3. AckedMeansTaken'
    BY <2>1, <1>0, TurnsUntouched
  <2>4. Types'
    BY <2>1, <2>2, <1>0 DEF IInv, Types
  <2> QED
    BY <2>2, <2>3, <2>4, <1>2 DEF IInv, EventInv, CallInv
<1>4. CASE ~consume
  <2>1. acked' = acked \cup {p} /\ UNCHANGED <<pc, payload, rest>>
    BY <1>1, <1>4
  <2>2. Types'
    BY <2>1, <1>0 DEF IInv, Types
  <2>3. RestEvents' /\ Progress' /\ PastCodex'
    BY <2>1, <1>0 DEF IInv, EventInv, CallInv, RestEvents, Progress, PastCodex, InCodex,
                      EventIn, Accounted, Retained, Overflown
  <2>4. AckedMeansTaken'
    BY <1>0, <1>4 DEF AckedMeansTaken
  <2> QED
    BY <2>2, <2>3, <2>4, <1>2 DEF IInv, EventInv, CallInv
<1> QED
  BY <1>3, <1>4

\* Applying a record: it is accounted for, what the edge had stays, and what a
\* turn has seen has been retained.
LEMMA Applying ==
    ASSUME IInv, NEW e \in Edges, NEW x, EventIn(e, x), consume,
           Skip(e, x) \/ Discard(e, x) \/ Retain(e, x),
           UNCHANGED <<marked, consume>>
    PROVE  /\ turns' \in [Edges -> [Conversations -> Turns]]
           /\ DOMAIN taken' = Edges
           /\ \A f \in Edges : taken[f] \subseteq taken'[f]
           /\ MarksKept
           /\ Events' /\ SeenRetained'
           /\ Accounted(e, x.of)'
<1> DEFINE k == x.of.conv
<1>0. /\ k \in Conversations /\ turns[e][k] \in Turns
      /\ turns \in [Edges -> [Conversations -> Turns]] /\ DOMAIN taken = Edges
  BY DEF EventIn, Conversations, IInv, Types
<1>k. PICK now \in 1..MaxClock : x.event = EventOf(e, x.of, now)
  BY DEF EventIn
<1>m. \A y \in taken[e] : y.event.key = x.event.key => MayBeOne(e, y.of, x.of)
  <2> SUFFICES ASSUME NEW y \in taken[e], y.event.key = x.event.key
               PROVE  MayBeOne(e, y.of, x.of)
    OBVIOUS
  <2>1. PICK at \in 1..MaxClock : y.event = EventOf(e, y.of, at)
    BY DEF IInv, EventInv, Events, EventIn
  <2> QED
    BY <2>1, <1>k, OneKeyMayBeOne
<1>1. CASE Skip(e, x)
  <2>0. UNCHANGED <<turns, taken>> /\ x.event.key \in turns[e][k].seen
    BY <1>1 DEF Skip, TurnOf
  <2>1. PICK y \in taken[e] : y.of.conv = k /\ y.event.key = x.event.key
    BY <2>0, <1>0 DEF IInv, EventInv, SeenRetained
  <2>2. Accounted(e, x.of)'
    BY <2>0, <2>1, <1>m DEF Accounted, Retained
  <2>3. Events' /\ SeenRetained' /\ MarksKept
    BY <2>0, TurnsUntouched DEF MarksKept
  <2> QED
    BY <2>0, <2>2, <2>3, <1>0
<1>2. CASE Discard(e, x)
  <2>0. /\ turns' = [turns EXCEPT ![e][k].truncated = TRUE]
        /\ UNCHANGED taken
    BY <1>2 DEF Discard
  <2>t. turns' = [turns EXCEPT ![e] = [turns[e] EXCEPT
                                         ![k] = [turns[e][k] EXCEPT !.truncated = TRUE]]]
    BY <2>0, <1>0
  <2>1. /\ turns' \in [Edges -> [Conversations -> Turns]]
        /\ turns'[e][k].truncated
        /\ \A f \in Edges, j \in Conversations :
             /\ turns'[f][j].seen = turns[f][j].seen
             /\ turns[f][j].truncated => turns'[f][j].truncated
    <3> DEFINE t == [turns[e][k] EXCEPT !.truncated = TRUE]
    <3>1. t \in Turns /\ t.truncated /\ t.seen = turns[e][k].seen
      BY <1>0 DEF Turns
    <3> HIDE DEF t, k
    <3>2. turns' = [turns EXCEPT ![e] = [turns[e] EXCEPT ![k] = t]]
      BY <2>t DEF t
    <3> QED
      BY <3>1, <3>2, <1>0
  <2>2. MarksKept /\ Accounted(e, x.of)'
    BY <2>1 DEF MarksKept, Accounted, Overflown
  <2>3. Events' /\ SeenRetained'
    BY <2>0, <2>1 DEF IInv, EventInv, Events, SeenRetained, EventIn
  <2> QED
    BY <2>0, <2>1, <2>2, <2>3, <1>0
<1>3. CASE Retain(e, x)
  <2>0. /\ turns' = [turns EXCEPT ![e][k].seen = @ \cup {x.event.key}]
        /\ taken' = [taken EXCEPT ![e] = @ \cup {x}]
    BY <1>3 DEF Retain
  <2>1. x.event.key \in Keys
    BY <1>k DEF EventIn, Keys
  <2>t. turns' = [turns EXCEPT ![e] = [turns[e] EXCEPT
                     ![k] = [turns[e][k] EXCEPT !.seen = turns[e][k].seen \cup {x.event.key}]]]
    BY <2>0, <1>0
  <2>2. /\ turns' \in [Edges -> [Conversations -> Turns]]
        /\ turns'[e][k].seen = turns[e][k].seen \cup {x.event.key}
        /\ \A f \in Edges, j \in Conversations :
             /\ turns'[f][j].truncated = turns[f][j].truncated
             /\ f # e \/ j # k => turns'[f][j].seen = turns[f][j].seen
    <3> DEFINE t == [turns[e][k] EXCEPT !.seen = turns[e][k].seen \cup {x.event.key}]
    <3>1. /\ t \in Turns /\ t.truncated = turns[e][k].truncated
          /\ t.seen = turns[e][k].seen \cup {x.event.key}
      BY <2>1, <1>0 DEF Turns
    <3> HIDE DEF t, k
    <3>2. turns' = [turns EXCEPT ![e] = [turns[e] EXCEPT ![k] = t]]
      BY <2>t DEF t
    <3> QED
      BY <3>1, <3>2, <1>0
  <2>3. /\ DOMAIN taken' = Edges /\ taken'[e] = taken[e] \cup {x}
        /\ \A f \in Edges \ {e} : taken'[f] = taken[f]
    BY <2>0, <1>0
  <2>4. MarksKept
    BY <2>2 DEF MarksKept
  <2>5. Events'
    BY <2>3 DEF IInv, EventInv, Events, EventIn
  <2>6. SeenRetained'
    <3> SUFFICES ASSUME NEW f \in Edges, NEW j \in Conversations, NEW key \in turns'[f][j].seen
                 PROVE  \E y \in taken'[f] : y.of.conv = j /\ y.event.key = key
      BY DEF SeenRetained
    <3>1. CASE key \in turns[f][j].seen
      BY <3>1, <2>3 DEF IInv, EventInv, SeenRetained
    <3>2. CASE key \notin turns[f][j].seen
      <4>1. f = e /\ j = k /\ key = x.event.key
        BY <3>2, <2>2
      <4> QED
        BY <4>1, <2>3
    <3> QED
      BY <3>1, <3>2
  <2>7. MayBeOne(e, x.of, x.of)
    BY <1>k, OneKeyMayBeOne
  <2>8. Accounted(e, x.of)'
    BY <2>3, <2>7 DEF Accounted, Retained
  <2> QED
    BY <2>2, <2>3, <2>4, <2>5, <2>6, <2>8
<1> QED
  BY <1>1, <1>2, <1>3

\* The record that a call applies leaves what it has still to apply.
LEMMA TakeKeepsIInv == \A c \in Callers, e \in Edges : IInv /\ Take(c, e) => IInv'
<1> SUFFICES ASSUME NEW c \in Callers, NEW e \in Edges, IInv, Take(c, e) PROVE IInv'
  OBVIOUS
<1>0. /\ pc[c] = e
      /\ UNCHANGED <<calls, pc, payload, marked, acked, givenUp, consume, edgePc,
                     hostPc, expired, clock>>
  BY DEF Take, hostVars
<1>1. PICK x \in rest[c] :
        /\ rest' = [rest EXCEPT ![c] = @ \ {x}]
        /\ mu' = [mu EXCEPT ![e] = IF rest[c] = {x} THEN "free" ELSE c]
        /\ Skip(e, x) \/ Discard(e, x) \/ Retain(e, x)
  BY DEF Take, Earliest
<1>2. consume /\ x.of \in payload[c] /\ EventIn(e, x)
  BY <1>0, <1>1 DEF IInv, Types, EventInv, RestEvents, Edges
<1>3. /\ turns' \in [Edges -> [Conversations -> Turns]]
      /\ DOMAIN taken' = Edges
      /\ \A f \in Edges : taken[f] \subseteq taken'[f]
      /\ MarksKept
      /\ Events' /\ SeenRetained'
      /\ Accounted(e, x.of)'
  BY <1>0, <1>1, <1>2, Applying
<1>4. Types'
  BY <1>0, <1>1, <1>3 DEF IInv, Types
<1>5. /\ rest'[c] = rest[c] \ {x}
      /\ \A d \in Callers \ {c} : rest'[d] = rest[d]
  BY <1>1 DEF IInv, Types
<1>6. RestEvents'
  BY <1>0, <1>5 DEF IInv, EventInv, RestEvents, EventIn
<1>7. Progress'
  <2> SUFFICES ASSUME NEW d \in Callers, pc[d] \in Edges,
                      NEW r \in payload[d], Claims(pc[d], r)
               PROVE  Accounted(pc[d], r)' \/ \E y \in rest'[d] : y.of = r
    BY <1>0 DEF Progress
  <2>1. CASE d # c
    BY <2>1, <1>0, <1>3, <1>5, CallStays DEF IInv
  <2>2. CASE d = c
    <3>1. r.conv \in Conversations
      BY DEF IInv, Types, Conversations
    <3>2. CASE Accounted(e, r)
      BY <2>2, <3>1, <3>2, <1>0, <1>3, AccountedStays
    <3>3. CASE \E y \in rest[c] : y.of = r
      BY <2>2, <3>3, <1>0, <1>3, <1>5
    <3> QED
      BY <2>2, <3>2, <3>3, <1>0 DEF IInv, CallInv, Progress
  <2> QED
    BY <2>1, <2>2
<1>8. PastCodex'
  <2> SUFFICES ASSUME NEW d \in Callers, pc[d] \in {"cursor", "failed"}, NEW r \in payload[d],
                      CodexClaims(r)
               PROVE  Accounted("codex", r)'
    BY <1>0 DEF PastCodex, InCodex
  <2>1. r.conv \in Conversations
    BY DEF IInv, Types, Conversations
  <2> QED
    BY <2>1, <1>3, AccountedStays DEF IInv, CallInv, PastCodex, InCodex, Edges
<1>9. AckedMeansTaken' /\ GivingUpKeepsCodex'
  BY <1>0, <1>3, AnswersStay DEF IInv
<1>10. ShutdownOrder'
  BY <1>0 DEF IInv, ShutdownOrder, Ended
<1> QED
  BY <1>3, <1>4, <1>6, <1>7, <1>8, <1>9, <1>10 DEF IInv, EventInv, CallInv

\* A turn that closes leaves its mark, and what it retained is history.
LEMMA ClosingKeeps ==
    ASSUME IInv, UNCHANGED <<calls, pc, payload, rest, mu, taken, acked, givenUp, consume,
                             expired, clock>>,
           turns' \in [Edges -> [Conversations -> Turns]],
           marked' \in [Edges -> SUBSET Conversations],
           \A e \in Edges, k \in Conversations :
               turns'[e][k].seen \subseteq turns[e][k].seen,
           MarksKept,
           edgePc' \in [Edges -> {"new", "running", "drained", "abandoned"}],
           hostPc' \in {"starting", "up", "down"} \cup Edges,
           ShutdownOrder'
    PROVE  IInv'
<1>1. Types'
  BY DEF IInv, Types
<1>2. Events' /\ RestEvents'
  BY DEF IInv, EventInv, Events, RestEvents, EventIn
<1>3. SeenRetained'
  BY DEF IInv, EventInv, SeenRetained
<1>4. Progress' /\ PastCodex'
  BY CallStays DEF IInv, Progress, PastCodex
<1>5. AckedMeansTaken' /\ GivingUpKeepsCodex'
  BY AnswersStay DEF IInv
<1> QED
  BY <1>1, <1>2, <1>3, <1>4, <1>5 DEF IInv, EventInv, CallInv

LEMMA CloseKeepsIInv == \A e \in Edges, k \in Conversations : IInv /\ Close(e, k) => IInv'
<1> SUFFICES ASSUME NEW e \in Edges, NEW k \in Conversations, IInv, Close(e, k) PROVE IInv'
  OBVIOUS
<1>0. /\ turns' = [turns EXCEPT ![e][k] = NoTurn]
      /\ marked' = [marked EXCEPT ![e] = IF turns[e][k].truncated THEN @ \cup {k} ELSE @]
      /\ UNCHANGED <<calls, pc, payload, rest, mu, taken, acked, givenUp, consume,
                     expired, clock, edgePc, hostPc>>
      /\ turns \in [Edges -> [Conversations -> Turns]]
      /\ marked \in [Edges -> SUBSET Conversations]
  BY DEF Close, hostVars, IInv, Types
<1>1. /\ turns' \in [Edges -> [Conversations -> Turns]]
      /\ \A f \in Edges, j \in Conversations :
           /\ turns'[f][j].seen \subseteq turns[f][j].seen
           /\ f # e \/ j # k => turns'[f][j] = turns[f][j]
  BY <1>0 DEF NoTurn, Turns
<1>2. marked' \in [Edges -> SUBSET Conversations] /\ MarksKept
  BY <1>0, <1>1 DEF MarksKept
<1>3. ShutdownOrder'
  BY <1>0 DEF IInv, ShutdownOrder, Ended
<1> QED
  BY <1>0, <1>1, <1>2, <1>3, ClosingKeeps DEF IInv, Types

\* A call that ends, or fails with its payload in the Codex edge.
LEMMA Leaving ==
    ASSUME IInv, NEW c \in Callers, NEW s \in {"idle", "failed"}, pc[c] # "idle",
           s = "failed" => InCodex(payload[c]),
           pc' = [pc EXCEPT ![c] = s],
           acked' \subseteq Payloads, givenUp' \subseteq Payloads,
           AckedMeansTaken', GivingUpKeepsCodex',
           UNCHANGED <<calls, payload, rest, mu, turnVars, hostVars>>
    PROVE  IInv'
<1>0. /\ UNCHANGED <<turns, taken, marked, consume, edgePc, hostPc, expired, clock>>
      /\ pc'[c] = s /\ \A d \in Callers \ {c} : pc'[d] = pc[d]
      /\ pc' \in [Callers -> Edges \cup {"idle", "failed"}]
  BY DEF turnVars, hostVars, IInv, Types
<1>1. Types'
  BY <1>0 DEF IInv, Types
<1>2. Events' /\ SeenRetained' /\ ShutdownOrder'
  BY <1>0, TurnsUntouched DEF IInv, ShutdownOrder, Ended
<1>3. RestEvents' /\ Progress'
  BY <1>0 DEF IInv, EventInv, CallInv, RestEvents, Progress, EventIn, Accounted, Retained,
              Overflown, Edges
<1>4. PastCodex'
  BY <1>0 DEF IInv, CallInv, PastCodex, InCodex, Accounted, Retained, Overflown
<1> QED
  BY <1>1, <1>2, <1>3, <1>4 DEF IInv, EventInv, CallInv

\* A call that has applied all its edge claims is accounted for there, ...
LEMMA AppliedAll ==
    ASSUME IInv, NEW c \in Callers, NEW e \in Edges, pc[c] = e, rest[c] = {}
    PROVE  /\ consume /\ payload[c] \in Payloads
           /\ \A r \in payload[c] : Claims(e, r) => Accounted(e, r)
           /\ InCodex(payload[c])
<1>1. consume /\ payload[c] \in Payloads
  BY DEF IInv, Types, Edges
<1>2. \A r \in payload[c] : Claims(e, r) => Accounted(e, r)
  BY DEF IInv, CallInv, Progress
<1>3. InCodex(payload[c])
  BY <1>2 DEF InCodex, Claims, IInv, CallInv, PastCodex, Edges
<1> QED
  BY <1>1, <1>2, <1>3

\* ... so that the answer of the last edge is an answer for both.
LEMMA AcceptKeepsIInv == \A c \in Callers, e \in Edges : IInv /\ Accept(c, e) => IInv'
<1> SUFFICES ASSUME NEW c \in Callers, NEW e \in Edges, IInv, Accept(c, e) PROVE IInv'
  OBVIOUS
<1>0. /\ pc[c] = e /\ rest[c] = {}
      /\ UNCHANGED <<calls, payload, mu, turnVars, givenUp, hostVars>>
      /\ UNCHANGED <<turns, taken, marked, consume, edgePc, hostPc, expired, clock>>
  BY DEF Accept, turnVars, hostVars
<1>1. /\ consume /\ payload[c] \in Payloads /\ InCodex(payload[c])
      /\ \A r \in payload[c] : Claims(e, r) => Accounted(e, r)
  BY <1>0, AppliedAll
<1>2. CASE e = "codex"
  <2>0. Enter(c, "cursor", payload[c]) /\ acked' = acked
    BY <1>2 DEF Accept
  <2>1. payload' = [payload EXCEPT ![c] = payload[c]]
    BY <1>0 DEF IInv, Types
  <2>2. /\ pc' \in [Callers -> Edges \cup {"idle", "failed"}]
        /\ payload' \in [Callers -> Payloads \cup {{}}]
        /\ \A d \in Callers : pc'[d] # "idle" => consume' /\ payload'[d] \in Payloads
        /\ DOMAIN rest' = Callers
        /\ RestEvents' /\ Progress' /\ PastCodex'
    BY <2>0, <2>1, <1>0, <1>1, Entering DEF Edges
  <2>3. /\ Events' /\ SeenRetained' /\ AckedMeansTaken' /\ GivingUpKeepsCodex'
        /\ ShutdownOrder'
    BY <2>0, <1>0, TurnsUntouched DEF IInv, ShutdownOrder, Ended
  <2>4. Types'
    BY <2>0, <2>2, <1>0 DEF IInv, Types
  <2> QED
    BY <2>2, <2>3, <2>4 DEF IInv, EventInv, CallInv
<1>3. CASE e = "cursor"
  <2>0. /\ pc' = [pc EXCEPT ![c] = "idle"] /\ acked' = acked \cup {payload[c]}
        /\ rest' = rest
    BY <1>3 DEF Accept
  <2>1. AckedMeansTaken'
    <3> SUFFICES ASSUME NEW p \in acked \cup {payload[c]}, NEW r \in p, NEW f \in Edges,
                        Claims(f, r)
                 PROVE  Accounted(f, r)
      BY <2>0, <1>0 DEF AckedMeansTaken, Accounted, Retained, Overflown
    <3>1. CASE p \in acked
      BY <3>1, <1>1 DEF IInv, CallInv, AckedMeansTaken
    <3>2. CASE p = payload[c] /\ f = "codex"
      BY <3>2, <1>1 DEF InCodex, Claims
    <3>3. CASE p = payload[c] /\ f = "cursor"
      BY <3>3, <1>1, <1>3
    <3> QED
      BY <3>1, <3>2, <3>3 DEF Edges
  <2>2. GivingUpKeepsCodex'
    BY <1>0, TurnsUntouched
  <2>3. acked' \subseteq Payloads /\ givenUp' \subseteq Payloads
    BY <2>0, <1>0, <1>1 DEF IInv, Types
  <2>4. pc[c] # "idle"
    BY <1>0, <1>3
  <2> QED
    BY <2>0, <2>1, <2>2, <2>3, <2>4, <1>0, Leaving
<1> QED
  BY <1>2, <1>3 DEF Edges

\* An edge that fails has taken its records, so the Codex edge has its own.
LEMMA RejectKeepsIInv == \A c \in Callers, e \in Edges : IInv /\ Reject(c, e) => IInv'
<1> SUFFICES ASSUME NEW c \in Callers, NEW e \in Edges, IInv, Reject(c, e) PROVE IInv'
  OBVIOUS
<1>0. /\ pc[c] = e /\ rest[c] = {} /\ pc' = [pc EXCEPT ![c] = "failed"]
      /\ UNCHANGED <<calls, payload, rest, mu, turnVars, acked, givenUp, hostVars>>
      /\ UNCHANGED <<turns, taken, marked, consume>>
  BY DEF Reject, turnVars, hostVars
<1>1. InCodex(payload[c])
  BY <1>0, AppliedAll
<1>2. AckedMeansTaken' /\ GivingUpKeepsCodex'
  BY <1>0, TurnsUntouched
<1>3. pc[c] # "idle" /\ acked' \subseteq Payloads /\ givenUp' \subseteq Payloads
  BY <1>0 DEF IInv, Types, Edges
<1> QED
  BY <1>0, <1>1, <1>2, <1>3, Leaving

\* A payload that failed is sent from the start; one given up is in the Codex
\* edge.
LEMMA SenderKeepsIInv == \A c \in Callers : IInv /\ (Retry(c) \/ GiveUp(c)) => IInv'
<1> SUFFICES ASSUME NEW c \in Callers, IInv, Retry(c) \/ GiveUp(c) PROVE IInv'
  OBVIOUS
<1>0. pc[c] = "failed" /\ consume /\ payload[c] \in Payloads /\ InCodex(payload[c])
  BY DEF Retry, GiveUp, IInv, Types, CallInv, PastCodex
<1>1. CASE Retry(c)
  <2>0. /\ Enter(c, "codex", payload[c]) /\ calls' \in 0..MaxCalls
        /\ UNCHANGED <<payload, mu, turns, taken, marked, acked, givenUp,
                       consume, edgePc, hostPc, expired, clock>>
    BY <1>1, RouterAssumption DEF Retry, Call, turnVars, hostVars, IInv, Types
  <2>1. payload' = [payload EXCEPT ![c] = payload[c]]
    BY <2>0 DEF IInv, Types
  <2>2. /\ pc' \in [Callers -> Edges \cup {"idle", "failed"}]
        /\ payload' \in [Callers -> Payloads \cup {{}}]
        /\ \A d \in Callers : pc'[d] # "idle" => consume' /\ payload'[d] \in Payloads
        /\ DOMAIN rest' = Callers
        /\ RestEvents' /\ Progress' /\ PastCodex'
    BY <2>0, <2>1, <1>0, Entering DEF Edges
  <2>3. /\ Events' /\ SeenRetained' /\ AckedMeansTaken' /\ GivingUpKeepsCodex'
        /\ ShutdownOrder'
    BY <2>0, TurnsUntouched DEF IInv, ShutdownOrder, Ended
  <2>4. Types'
    BY <2>0, <2>2 DEF IInv, Types
  <2> QED
    BY <2>2, <2>3, <2>4 DEF IInv, EventInv, CallInv
<1>2. CASE GiveUp(c)
  <2>0. /\ pc' = [pc EXCEPT ![c] = "idle"] /\ givenUp' = givenUp \cup {payload[c]}
        /\ UNCHANGED <<calls, payload, rest, mu, turnVars, acked, hostVars>>
        /\ UNCHANGED <<turns, taken, marked, consume>>
    BY <1>2 DEF GiveUp, turnVars, hostVars
  <2>1. AckedMeansTaken'
    BY <2>0, TurnsUntouched
  <2>2. GivingUpKeepsCodex'
    <3> SUFFICES ASSUME NEW p \in givenUp \cup {payload[c]}, NEW r \in p, CodexClaims(r)
                 PROVE  Accounted("codex", r)
      BY <2>0 DEF GivingUpKeepsCodex, Accounted, Retained, Overflown
    <3> QED
      BY <1>0 DEF InCodex, IInv, CallInv, GivingUpKeepsCodex
  <2>3. acked' \subseteq Payloads /\ givenUp' \subseteq Payloads
    BY <2>0, <1>0 DEF IInv, Types
  <2> QED
    BY <2>0, <2>1, <2>2, <2>3, <1>0, Leaving
<1> QED
  BY <1>1, <1>2

-----------------------------------------------------------------------------
(* Start and Shutdown *)

\* The flush of an edge closes all its turns, each with its mark.
LEMMA DrainKeepsIInv == \A e \in Edges : IInv /\ Drain(e) => IInv'
<1> SUFFICES ASSUME NEW e \in Edges, IInv, Drain(e) PROVE IInv'
  OBVIOUS
<1>0. /\ hostPc = e /\ hostPc' = After(e)
      /\ edgePc' = [edgePc EXCEPT ![e] = "drained"]
      /\ turns' = [turns EXCEPT ![e] = [k \in Conversations |-> NoTurn]]
      /\ marked' = [marked EXCEPT ![e] = @ \cup {k \in Conversations : turns[e][k].truncated}]
      /\ UNCHANGED <<calls, pc, payload, rest, mu, taken, acked, givenUp, consume,
                     expired, clock>>
      /\ turns \in [Edges -> [Conversations -> Turns]]
      /\ marked \in [Edges -> SUBSET Conversations]
  BY DEF Drain, IInv, Types
<1>1. /\ turns' \in [Edges -> [Conversations -> Turns]]
      /\ \A f \in Edges, j \in Conversations :
           /\ turns'[f][j].seen \subseteq turns[f][j].seen
           /\ f # e => turns'[f][j] = turns[f][j]
  BY <1>0 DEF NoTurn, Turns
<1>2. marked' \in [Edges -> SUBSET Conversations] /\ MarksKept
  BY <1>0, <1>1 DEF MarksKept
<1>3. /\ edgePc' \in [Edges -> {"new", "running", "drained", "abandoned"}]
      /\ hostPc' \in {"starting", "up", "down"} \cup Edges
      /\ ShutdownOrder'
  BY <1>0 DEF IInv, Types, ShutdownOrder, Ended, After, Edges
<1> QED
  BY <1>0, <1>1, <1>2, <1>3, ClosingKeeps

\* The steps of the host and of time that leave turns alone.
LEMMA HostKeepsIInv ==
    IInv /\ (Start \/ Shutdown \/ Expire \/ Tick \/ \E e \in Edges : Abandon(e)) => IInv'
<1> SUFFICES ASSUME IInv,
                    Start \/ Shutdown \/ Expire \/ Tick \/ \E e \in Edges : Abandon(e)
             PROVE  IInv'
  OBVIOUS
<1>0. UNCHANGED <<callVars, consume>>
  BY DEF Start, Shutdown, Expire, Tick, Abandon
<1>1. UNCHANGED <<calls, pc, payload, rest, mu, turns, taken, marked, acked, givenUp, consume>>
  BY <1>0 DEF callVars, turnVars
<1>2. CallInv' /\ EventInv'
  <2>1. Events' /\ SeenRetained' /\ AckedMeansTaken' /\ GivingUpKeepsCodex'
    BY <1>1, TurnsUntouched
  <2>2. RestEvents' /\ Progress' /\ PastCodex'
    BY <1>1 DEF IInv, EventInv, CallInv, RestEvents, Progress, PastCodex, InCodex, EventIn,
                Accounted, Retained, Overflown
  <2> QED
    BY <2>1, <2>2 DEF EventInv, CallInv
<1>3. clock' \in 1..MaxClock
  BY RouterAssumption DEF IInv, Types, Start, Shutdown, Expire, Tick, Abandon
<1>4. /\ edgePc' \in [Edges -> {"new", "running", "drained", "abandoned"}]
      /\ hostPc' \in {"starting", "up", "down"} \cup Edges
      /\ expired' \in BOOLEAN
      /\ ShutdownOrder'
  <2>1. CASE Start \/ Shutdown \/ Expire \/ Tick
    BY <2>1 DEF IInv, Types, ShutdownOrder, Ended, Start, Shutdown, Expire, Tick, Edges
  <2>2. ASSUME NEW e \in Edges, Abandon(e)
        PROVE  /\ edgePc' \in [Edges -> {"new", "running", "drained", "abandoned"}]
               /\ hostPc' \in {"starting", "up", "down"} \cup Edges
               /\ expired' \in BOOLEAN
               /\ ShutdownOrder'
    BY <2>2 DEF IInv, Types, ShutdownOrder, Ended, Abandon, After, Edges
  <2> QED
    BY <2>1, <2>2
<1>5. Types'
  BY <1>1, <1>3, <1>4 DEF IInv, Types
<1> QED
  BY <1>2, <1>4, <1>5 DEF IInv

-----------------------------------------------------------------------------
(* Theorems *)

\* The inductive invariant holds in every state of the logs router.
THEOREM RouterInvariant == Spec => []IInv
<1>1. IInv /\ UNCHANGED vars => IInv'
  <2> SUFFICES ASSUME IInv, UNCHANGED vars PROVE IInv'
    OBVIOUS
  <2>0. UNCHANGED <<calls, pc, payload, rest, mu, turns, taken, marked, acked, givenUp,
                    consume, edgePc, hostPc, expired, clock>>
    BY DEF vars, callVars, turnVars, hostVars
  <2>1. MarksKept /\ ShutdownOrder'
    BY <2>0 DEF MarksKept, IInv, ShutdownOrder, Ended
  <2>2. /\ turns' \in [Edges -> [Conversations -> Turns]]
        /\ marked' \in [Edges -> SUBSET Conversations]
        /\ edgePc' \in [Edges -> {"new", "running", "drained", "abandoned"}]
        /\ hostPc' \in {"starting", "up", "down"} \cup Edges
        /\ \A e \in Edges, k \in Conversations : turns'[e][k].seen \subseteq turns[e][k].seen
    BY <2>0 DEF IInv, Types
  <2> QED
    BY <2>0, <2>1, <2>2, ClosingKeeps
<1>2. IInv /\ Next => IInv'
  BY <1>1, SendKeepsIInv, TakeKeepsIInv, CloseKeepsIInv, AcceptKeepsIInv, RejectKeepsIInv,
     SenderKeepsIInv, DrainKeepsIInv, HostKeepsIInv DEF Next, Terminated
<1> QED
  BY InitIInv, <1>1, <1>2, PTL DEF Spec

\* The type of the state; an edge retains only records it claims, and none where
\* the signals do not list logs.
THEOREM RouterTypes == Spec => []TypeOK
<1>1. IInv => TypeOK
  BY DEF IInv, Types, EventInv, Events, EventIn, TypeOK
<1> QED
  BY <1>1, RouterInvariant, PTL

\* A payload that ConsumeLogs answered without error is accounted for in every
\* edge that claims a record of it: the record is retained, or a turn of its
\* conversation was full and is marked.
THEOREM AcknowledgedIsTaken == Spec => []AckedMeansTaken
<1>1. IInv => AckedMeansTaken
  BY DEF IInv, CallInv
<1> QED
  BY <1>1, RouterInvariant, PTL

\* A payload that is given up is accounted for in the Codex edge.
THEOREM GivingUpKeeps == Spec => []GivingUpKeepsCodex
<1>1. IInv => GivingUpKeepsCodex
  BY DEF IInv, CallInv
<1> QED
  BY <1>1, RouterInvariant, PTL

\* Shutdown of the router reaches both edges, timed out or not.
THEOREM ShutdownReaches == Spec => []ShutdownReachesBoth
<1>1. IInv => ShutdownReachesBoth
  BY DEF IInv, ShutdownOrder, Ended, ShutdownReachesBoth, Edges
<1> QED
  BY <1>1, RouterInvariant, PTL

\* A record lands in both edges only if they read its name differently.
THEOREM Disjoint == Spec => []OneEdgeIfNamesAgree
<1>1. ASSUME NEW r, CodexClaims(r), CursorClaims(r) PROVE ~NamesAgree(r)
  BY <1>1 DEF CodexClaims, CursorClaims, NamesAgree
<1>2. IInv => OneEdgeIfNamesAgree
  BY <1>1 DEF IInv, EventInv, Events, EventIn, OneEdgeIfNamesAgree, Claims, Edges
<1> QED
  BY <1>2, RouterInvariant, PTL

\* A record with a time its edge can read, or with an event id of Cursor, is one
\* event, however often it is delivered and sent again, and whatever closes in
\* between.
THEOREM RetainedOnce == Spec => []DatedRetainedOnce
<1>1. ASSUME NEW e \in Edges, NEW r, NEW now, NEW at, Dated(e, r)
      PROVE  /\ EventOf(e, r, now) = EventOf(e, r, at)
             /\ EventOf(e, r, now).ts \in {r.ts, r.written, r.observed}
  <2>1. CASE e = "codex"
    BY <1>1, <2>1 DEF Dated, EventOf, CodexEvent, CodexTime, DatedForCodex
  <2>2. CASE e = "cursor"
    <3>1. CursorTime(r, now) = CursorTime(r, at) /\ DatedForCursor(r)
          /\ CursorTime(r, now) \in {r.ts, r.written, r.observed}
      BY <1>1, <2>2 DEF Dated, CursorTime, DatedForCursor
    <3> QED
      BY <2>2, <3>1 DEF EventOf, CursorEvent, CursorKey
  <2> QED
    BY <2>1, <2>2 DEF Edges
<1>2. ASSUME NEW r, NEW now, NEW at, r.wireId # NoName
      PROVE  EventOf("cursor", r, now).key = EventOf("cursor", r, at).key
  BY <1>2 DEF EventOf, CursorEvent, CursorKey
<1>3. ASSUME IInv, NEW e \in Edges, NEW x \in taken[e], NEW y \in taken[e]
      PROVE  /\ Dated(e, x.of) => x.event.ts \in {x.of.ts, x.of.written, x.of.observed}
             /\ x.of = y.of /\ (Dated(e, x.of) \/ (e = "cursor" /\ x.of.wireId # NoName))
                => x.event.key = y.event.key
             /\ x.of = y.of /\ Dated(e, x.of) => x = y
  <2>1. PICK now \in 1..MaxClock : x.event = EventOf(e, x.of, now)
    BY <1>3 DEF IInv, EventInv, Events, EventIn
  <2>2. PICK at \in 1..MaxClock : y.event = EventOf(e, y.of, at)
    BY <1>3 DEF IInv, EventInv, Events, EventIn
  <2>3. x = [of |-> x.of, event |-> x.event] /\ y = [of |-> y.of, event |-> y.event]
    BY <1>3 DEF IInv, EventInv, Events, EventIn
  <2> QED
    BY <2>1, <2>2, <2>3, <1>1, <1>2
<1>4. IInv => DatedRetainedOnce
  BY <1>3 DEF DatedRetainedOnce
<1> QED
  BY <1>4, RouterInvariant, PTL
=============================================================================
