------------------------ MODULE CodexConnectorProofs ------------------------
(***************************************************************************)
(* The safety of the Codex edge, for any number of callers, any records    *)
(* and any configuration Config.Validate accepts.                          *)
(***************************************************************************)
EXTENDS CodexConnector, StatefulEdgeProofs, FiniteSetTheorems

-----------------------------------------------------------------------------
(* What turnState.add does to a turn, for every turn and every record *)

\* completionAt is the timestamp of the latest completion, if there is one.
CompletionDated(t) ==
    /\ \A i \in Indices(t) : t.events[i].kind = "completed" => t.events[i].ts <= t.completionAt
    /\ \/ t.completionAt = 0
       \/ \E i \in Indices(t) : t.events[i].kind = "completed" /\ t.events[i].ts = t.completionAt

Sound(t) ==
    /\ t \in Turn
    /\ Len(t.events) <= MaxEvents
    /\ Consistent(t)
    /\ OnePrompt(t)
    /\ CompletionDated(t)
    /\ t.completeSeen <=> Answered(t)

\* The fields of r, the turn t after it has retained record e.
Extends(r, t, e) ==
    /\ r.id = t.id /\ r.conv = t.conv
    /\ r.first = Earlier(t.first, e.ts) /\ r.last = Later(t.last, e.ts)
    /\ r.seen = t.seen \cup {e}
    /\ r.promptSeen <=> (t.promptSeen \/ e.kind = "prompt")
    /\ r.completeSeen <=> (Completes(t, e) \/ (t.completeSeen /\ ~Reopens(t, e)))
    /\ r.completionAt = (IF Completes(t, e) THEN e.ts ELSE t.completionAt)
    /\ r.events = Append(t.events, e)

\* What retaining a record makes of each field, and that the result is a turn.
LEMMA RetainFields ==
    ASSUME NEW t \in Turn, NEW e \in Events, NEW at \in Nat
    PROVE  Retain(t, e, at) \in Turn /\ Extends(Retain(t, e, at), t, e)
<1>1. e.ts \in Nat
  BY EventsAssumption
<1>2. Append(t.events, e) \in Seq(Events)
  BY DEF Turn
<1>3. Earlier(t.first, e.ts) \in Nat /\ Later(t.last, e.ts) \in Nat /\ Later(t.newest, at) \in Nat
  BY <1>1 DEF Turn, Earlier, Later
<1>4. (IF Completes(t, e) THEN e.ts ELSE t.completionAt) \in Nat
  BY <1>1 DEF Turn
<1>5. t.seen \cup {e} \in SUBSET Events
  BY DEF Turn
<1>6. /\ (t.promptSeen \/ e.kind = "prompt") \in BOOLEAN
      /\ (Completes(t, e) \/ (t.completeSeen /\ ~Reopens(t, e))) \in BOOLEAN
  OBVIOUS
<1>7. Retain(t, e, at) \in Turn
  BY <1>2, <1>3, <1>4, <1>5, <1>6 DEF Retain, Turn
<1>8. Extends(Retain(t, e, at), t, e)
  BY DEF Retain, Turn, Extends
<1> QED  BY <1>7, <1>8

\* add() returns a turn, of the same id and conversation.
LEMMA AddTyped ==
    ASSUME NEW t \in Turn, NEW e \in Events, NEW at \in Nat
    PROVE  /\ Add(t, e, at) \in Turn
           /\ Add(t, e, at).id = t.id /\ Add(t, e, at).conv = t.conv
<1>1. [t EXCEPT !.truncated = TRUE] \in Turn
  BY DEF Turn
<1>2. [t EXCEPT !.truncated = TRUE].id = t.id /\ [t EXCEPT !.truncated = TRUE].conv = t.conv
  BY DEF Turn
<1> QED  BY <1>1, <1>2, RetainFields DEF Add, Extends

\* The literal that ConsumeLogs opens is a turn.
LEMMA NewTurnTyped ==
    ASSUME NEW i \in Nat \ {0}, NEW e \in Events, NEW at \in Nat
    PROVE  NewTurn(i, e, at) \in Turn
BY EventsAssumption DEF NewTurn, Turn

-----------------------------------------------------------------------------

\* The records of a turn after one was appended: the old ones, then the new one.
LEMMA Appended ==
    ASSUME NEW t \in Turn, NEW r \in Turn, NEW e \in Events, Extends(r, t, e)
    PROVE  /\ Len(t.events) \in Nat
           /\ Len(r.events) = Len(t.events) + 1
           /\ Indices(r) = Indices(t) \cup {Len(t.events) + 1}
           /\ \A i \in Indices(t) : /\ r.events[i] = t.events[i]
                                    /\ t.events[i] \in Events
                                    /\ i < Len(t.events) + 1
           /\ r.events[Len(t.events) + 1] = e
<1>1. t.events \in Seq(Events) /\ r.events = Append(t.events, e)
  BY DEF Turn, Extends
<1> QED  BY <1>1 DEF Indices

\* A record the turn has not seen keeps the turn consistent.
LEMMA RetainKeepsConsistent ==
    ASSUME NEW t \in Turn, NEW r \in Turn, NEW e \in Events, Extends(r, t, e),
           Consistent(t), e.conv = t.conv, e \notin t.seen
    PROVE  Consistent(r)
<1> DEFINE n == Len(t.events)
<1>1. /\ Indices(r) = Indices(t) \cup {n + 1}
      /\ \A i \in Indices(t) : r.events[i] = t.events[i] /\ t.events[i] \in Events
      /\ r.events[n + 1] = e
  BY Appended
<1>2. \A f \in Events : f.ts \in Nat
  BY EventsAssumption
<1>3. /\ r.conv = t.conv /\ r.seen = t.seen \cup {e}
      /\ r.first = Earlier(t.first, e.ts) /\ r.last = Later(t.last, e.ts)
      /\ t.first \in Nat /\ t.last \in Nat
  BY DEF Extends, Turn
<1> HIDE DEF n
<1>4. r.seen = {r.events[i] : i \in Indices(r)}
  BY <1>1, <1>3 DEF Consistent
<1>5. \A i, j \in Indices(r) : r.events[i] = r.events[j] => i = j
  BY <1>1 DEF Consistent
<1>6. \A i \in Indices(r) : /\ r.events[i].conv = r.conv
                            /\ r.first <= r.events[i].ts
                            /\ r.events[i].ts <= r.last
  BY <1>1, <1>2, <1>3 DEF Consistent, Earlier, Later
<1>7. /\ \E i \in Indices(r) : r.events[i].ts = r.first
      /\ \E i \in Indices(r) : r.events[i].ts = r.last
  BY <1>1, <1>3 DEF Consistent, Earlier, Later
<1> QED  BY <1>4, <1>5, <1>6, <1>7 DEF Consistent

\* So does one that is no second prompt keep the turn to one prompt.
LEMMA RetainKeepsOnePrompt ==
    ASSUME NEW t \in Turn, NEW r \in Turn, NEW e \in Events, Extends(r, t, e),
           OnePrompt(t), e.kind = "prompt" => ~t.promptSeen
    PROVE  OnePrompt(r)
<1>1. r.promptSeen <=> (t.promptSeen \/ e.kind = "prompt")
  BY DEF Extends
<1>2. \A i, j \in Indices(r) :
         r.events[i].kind = "prompt" /\ r.events[j].kind = "prompt" => i = j
  BY Appended DEF OnePrompt
<1>3. (\E i \in Indices(r) : r.events[i].kind = "prompt")
        <=> (e.kind = "prompt" \/ \E i \in Indices(t) : t.events[i].kind = "prompt")
  BY Appended
<1> QED  BY <1>1, <1>2, <1>3 DEF OnePrompt

\* The completion flag stays exact.
LEMMA RetainKeepsCompletion ==
    ASSUME NEW t \in Turn, NEW r \in Turn, NEW e \in Events, Extends(r, t, e),
           CompletionDated(t), t.completeSeen <=> Answered(t)
    PROVE  CompletionDated(r) /\ (r.completeSeen <=> Answered(r))
<1> DEFINE n == Len(t.events)
<1>1. /\ Indices(r) = Indices(t) \cup {n + 1}
      /\ \A i \in Indices(t) : r.events[i] = t.events[i] /\ t.events[i] \in Events /\ i < n + 1
      /\ r.events[n + 1] = e
      /\ n \in Nat
  BY Appended
<1>2. \A f \in Events : f.ts \in Nat
  BY EventsAssumption
<1>3. /\ r.completionAt = IF Completes(t, e) THEN e.ts ELSE t.completionAt
      /\ r.completeSeen <=> (Completes(t, e) \/ (t.completeSeen /\ ~Reopens(t, e)))
      /\ t.completionAt \in Nat /\ r.completionAt \in Nat
  BY DEF Extends, Turn
<1>4. Indices(t) \subseteq Nat
  BY DEF Indices
<1> HIDE DEF n
<1>5. CompletionDated(r)
  BY <1>1, <1>2, <1>3 DEF CompletionDated, Completes
<1>6. CASE Completes(t, e)
  <2>1. CompletedBy(r, n + 1)
    BY <1>1, <1>2, <1>3, <1>4, <1>6 DEF CompletedBy, CompletionDated, Completes
  <2>2. Answered(r)
    BY <1>1, <2>1 DEF Answered
  <2>3. r.completeSeen
    BY <1>3, <1>6
  <2> QED  BY <1>5, <2>2, <2>3
<1>7. CASE Reopens(t, e)
  <2>1. ~Completes(t, e)
    BY <1>7 DEF Reopens, Completes
  <2>2. \A i \in Indices(r) : ~CompletedBy(r, i)
    BY <1>1, <1>2, <1>3, <1>4, <1>7, <1>5, <2>1 DEF CompletedBy, CompletionDated, Reopens
  <2>3. ~Answered(r)
    BY <2>2 DEF Answered
  <2>4. ~r.completeSeen
    BY <1>3, <1>7, <2>1
  <2> QED  BY <1>5, <2>3, <2>4
<1>8. CASE ~Completes(t, e) /\ ~Reopens(t, e)
  <2>1. \A i \in Indices(t) : CompletedBy(r, i) <=> CompletedBy(t, i)
    BY <1>1, <1>2, <1>3, <1>4, <1>8 DEF CompletedBy, CompletionDated, Completes, Reopens
  <2>2. ~CompletedBy(r, n + 1)
    BY <1>1, <1>2, <1>3, <1>8 DEF CompletedBy, CompletionDated, Completes
  <2>3. Answered(r) <=> Answered(t)
    BY <1>1, <2>1, <2>2 DEF Answered
  <2>4. r.completeSeen <=> t.completeSeen
    BY <1>3, <1>8
  <2> QED  BY <1>5, <2>3, <2>4
<1> QED  BY <1>6, <1>7, <1>8

-----------------------------------------------------------------------------

\* add() keeps a turn sound: the caller has made sure that a prompt the turn
\* has not seen is its first.
LEMMA AddKeepsSound ==
    ASSUME NEW t, Sound(t), NEW e \in Events, NEW at \in Nat,
           e.conv = t.conv,
           e.kind = "prompt" /\ e \notin t.seen => ~t.promptSeen
    PROVE  Sound(Add(t, e, at))
<1> DEFINE u == [t EXCEPT !.truncated = TRUE]
<1>1. CASE e \in t.seen
  BY <1>1 DEF Add
<1>2. CASE e \notin t.seen /\ Len(t.events) >= MaxEvents
  <2>1. u \in Turn /\ u.events = t.events /\ u.seen = t.seen /\ u.conv = t.conv
        /\ u.first = t.first /\ u.last = t.last /\ u.completionAt = t.completionAt
        /\ u.promptSeen = t.promptSeen /\ u.completeSeen = t.completeSeen
    BY DEF Sound, Turn
  <2>2. Add(t, e, at) = u
    BY <1>2 DEF Add
  <2> HIDE DEF u
  <2>3. Indices(u) = Indices(t)
    BY <2>1 DEF Indices
  <2>4. Consistent(u) /\ CompletionDated(u)
    BY <2>1, <2>3 DEF Sound, Consistent, CompletionDated
  <2>5. OnePrompt(u)
    BY <2>1, <2>3 DEF Sound, OnePrompt
  <2>6. u.completeSeen <=> Answered(u)
    BY <2>1, <2>3 DEF Sound, Answered, CompletedBy
  <2> QED  BY <2>1, <2>2, <2>4, <2>5, <2>6 DEF Sound
<1>3. CASE e \notin t.seen /\ ~(Len(t.events) >= MaxEvents)
  <2> DEFINE r == Retain(t, e, at)
  <2>1. t \in Turn
    BY DEF Sound
  <2>2. r \in Turn /\ Extends(r, t, e)
    BY <2>1, RetainFields
  <2>3. Add(t, e, at) = r
    BY <1>3 DEF Add
  <2> HIDE DEF r
  <2>4. Len(r.events) <= MaxEvents
    BY <1>3, <2>1, <2>2, Appended, ConfigAssumption
  <2>5. Consistent(r)
    BY <1>3, <2>1, <2>2, RetainKeepsConsistent DEF Sound
  <2>6. OnePrompt(r)
    BY <1>3, <2>1, <2>2, RetainKeepsOnePrompt DEF Sound
  <2>7. CompletionDated(r) /\ (r.completeSeen <=> Answered(r))
    BY <2>1, <2>2, RetainKeepsCompletion DEF Sound
  <2> QED  BY <2>2, <2>3, <2>4, <2>5, <2>6, <2>7 DEF Sound
<1> QED  BY <1>1, <1>2, <1>3

\* The record that opens a turn is retained by it, and the turn is sound.
LEMMA OpenedSound ==
    ASSUME NEW i \in Nat \ {0}, NEW e \in Events, NEW at \in Nat
    PROVE  LET r == Add(NewTurn(i, e, at), e, at)
           IN  Sound(r) /\ r.id = i /\ r.conv = e.conv /\ r.seen = {e}
<1> DEFINE t == NewTurn(i, e, at)
           r == Retain(t, e, at)
<1>1. /\ t \in Turn /\ t.events = <<>> /\ t.seen = {} /\ ~t.promptSeen /\ ~t.completeSeen
      /\ t.completionAt = 0 /\ t.first = e.ts /\ t.last = e.ts
      /\ t.id = i /\ t.conv = e.conv
  <2>1. t \in Turn
    BY NewTurnTyped
  <2> QED  BY <2>1 DEF NewTurn
<1>2. Add(t, e, at) = r
  BY <1>1, ConfigAssumption DEF Add
<1> HIDE DEF t
<1>3. r \in Turn /\ Extends(r, t, e)
  BY <1>1, RetainFields
<1> HIDE DEF r
<1>4. e.ts \in Nat
  BY EventsAssumption
<1>5. Indices(t) = {}
  BY <1>1 DEF Indices
<1>6. Indices(r) = {1} /\ r.events[1] = e /\ Len(r.events) = 1
  <2>1. Len(t.events) = 0
    BY <1>1
  <2>2. /\ Len(r.events) = Len(t.events) + 1
        /\ Indices(r) = Indices(t) \cup {Len(t.events) + 1}
        /\ r.events[Len(t.events) + 1] = e
    <3>1. t \in Turn /\ r \in Turn /\ Extends(r, t, e)
      BY <1>1, <1>3
    <3> QED  BY ONLY <3>1, e \in Events, Appended
  <2> QED  BY <1>5, <2>1, <2>2
<1>7. Consistent(r)
  <2>1. r.seen = {e} /\ r.conv = e.conv
    BY <1>1, <1>3 DEF Extends
  <2>2. r.first = e.ts /\ r.last = e.ts
    BY <1>1, <1>3, <1>4 DEF Extends, Earlier, Later
  <2> QED  BY <1>4, <1>6, <2>1, <2>2 DEF Consistent
<1>8. OnePrompt(r)
  <2>1. OnePrompt(t)
    BY <1>1, <1>5 DEF OnePrompt
  <2> QED  BY <1>1, <1>3, <2>1, RetainKeepsOnePrompt
<1>9. CompletionDated(r) /\ (r.completeSeen <=> Answered(r))
  <2>1. CompletionDated(t) /\ (t.completeSeen <=> Answered(t))
    BY <1>1, <1>5 DEF CompletionDated, Answered
  <2> QED  BY <1>1, <1>3, <2>1, RetainKeepsCompletion
<1>10. Sound(r)
  BY <1>3, <1>6, <1>7, <1>8, <1>9, ConfigAssumption DEF Sound
<1> QED  BY <1>1, <1>2, <1>3, <1>10 DEF Extends, t

-----------------------------------------------------------------------------
(* The invariant of the edge *)

\* Every turn held anywhere is sound, and one closed as completed has its
\* completion.
TurnsSound ==
    /\ \A c \in Active : Sound(turns[c]) /\ turns[c].conv = c
    /\ \A p \in Emitters : \A f \in pending[p] :
         Sound(f.turn) /\ (f.reason = "completed" => f.turn.completeSeen)

ActiveBounded ==
    IsFiniteSet(Active) /\ Cardinality(Active) <= MaxActiveTurns

\* The inductive invariant.
IInv == TypeOK /\ Ownership /\ HandsEmpty /\ TurnsSound /\ ActiveBounded

\* The edge starts in the invariant: it holds nothing.
LEMMA InitIInv == Init => IInv
<1> SUFFICES ASSUME Init PROVE IInv
  OBVIOUS
<1> USE DEF Init
<1>1. Active = {}
  BY DEF Active
<1>2. TypeOK
  BY <1>1, EdgeAssumption DEF TypeOK, CommonTypeOK
<1>3. Ownership
  BY InitOwnership
<1>4. HandsEmpty
  BY DEF HandsEmpty, Emitters
<1>5. TurnsSound
  BY <1>1 DEF TurnsSound
<1>6. ActiveBounded
  BY <1>1, FS_EmptySet, ConfigAssumption DEF ActiveBounded
<1> QED  BY <1>2, <1>3, <1>4, <1>5, <1>6 DEF IInv

-----------------------------------------------------------------------------
(* The steps of a worker over one record *)

\* Record e opens a turn; the turns of S close for the reason why.
Opens(w, e, S, why) ==
    /\ turns' = Insert(Delete(turns, S), e.conv, Opened(w, e))
    /\ pending' = [pending EXCEPT ![w] = @ \cup {Finalized(turns[c], why) : c \in S}]
    /\ nextTurn' = nextTurn + 1

\* The three ways a record opens a turn are one: the turns of S close, for one
\* reason, and there is room for the new one.
LEMMA OpeningCases ==
    ASSUME IInv, NEW w \in Workers, NEW e \in Events,
           \/ Supersede(w, e)
           \/ OpenTurn(Opened(w, e))
           \/ EvictAndOpen(w, Opened(w, e))
    PROVE  \E S \in SUBSET Active : \E why \in {"superseded", "evicted"} :
              /\ Opens(w, e, S, why)
              /\ e.conv \notin Active \ S
              /\ \/ S = {} /\ Cardinality(Active) < MaxActiveTurns
                 \/ S = {e.conv} /\ e.conv \in Active
                 \/ Cardinality(Active) >= MaxActiveTurns /\ \E c \in Active : S = {c}
              /\ Cardinality((Active \ S) \cup {e.conv}) <= MaxActiveTurns
<1>1. Opened(w, e).conv = e.conv
  <2>1. nextTurn \in Nat \ {0} /\ now[w] \in Nat
    BY DEF IInv, TypeOK, CommonTypeOK
  <2> QED  BY ONLY <2>1, e \in Events, OpenedSound DEF Opened
<1>2. IsFiniteSet(Active) /\ Cardinality(Active) <= MaxActiveTurns
      /\ Cardinality(Active) \in Nat /\ DOMAIN pending = Emitters
  BY FS_CardinalityType DEF IInv, ActiveBounded, Ownership
<1>3. CASE Supersede(w, e)
  <2>1. e.conv \in Active
    BY <1>3 DEF Supersede, Supersedes
  <2>2. (Active \ {e.conv}) \cup {e.conv} = Active
    BY <2>1
  <2>3. Insert(Delete(turns, {e.conv}), e.conv, Opened(w, e)) = Insert(turns, e.conv, Opened(w, e))
    BY <2>1, <2>2 DEF Insert, Delete, Active
  <2>4. {Finalized(turns[c], "superseded") : c \in {e.conv}} = {Finalized(turns[e.conv], "superseded")}
    OBVIOUS
  <2>5. Opens(w, e, {e.conv}, "superseded")
    BY <1>3, <2>3, <2>4 DEF Supersede, Opens
  <2> QED  BY <1>2, <2>1, <2>2, <2>5
<1>4. CASE OpenTurn(Opened(w, e))
  <2>1. e.conv \notin Active /\ Cardinality(Active) < MaxActiveTurns
    BY <1>1, <1>4 DEF OpenTurn
  <2>2. Delete(turns, {}) = [k \in DOMAIN turns |-> turns[k]]
    BY DEF Delete
  <2>3. Insert(Delete(turns, {}), e.conv, Opened(w, e)) = Insert(turns, e.conv, Opened(w, e))
    BY <2>2 DEF Insert
  <2>4. pending[w] \cup {Finalized(turns[c], "evicted") : c \in {}} = pending[w]
    OBVIOUS
  <2>5. pending' = [pending EXCEPT ![w] = @ \cup {Finalized(turns[c], "evicted") : c \in {}}]
    BY <1>4, <1>2, <2>4 DEF OpenTurn, IInv, TypeOK
  <2>6. Opens(w, e, {}, "evicted")
    BY <1>1, <1>4, <2>3, <2>5 DEF OpenTurn, Opens
  <2>7. Cardinality(Active \cup {e.conv}) = Cardinality(Active) + 1
    BY <1>2, <2>1, FS_AddElement
  <2>8. Cardinality((Active \ {}) \cup {e.conv}) <= MaxActiveTurns
    <3>1. Active \ {} = Active
      OBVIOUS
    <3> QED  BY <1>2, <2>1, <2>7, <3>1, ConfigAssumption
  <2> QED  BY <2>1, <2>6, <2>8
<1>5. CASE EvictAndOpen(w, Opened(w, e))
  <2>1. PICK c \in LeastRecent :
          /\ turns' = Insert(Delete(turns, {c}), e.conv, Opened(w, e))
          /\ pending' = [pending EXCEPT ![w] = @ \cup {Finalized(turns[c], "evicted")}]
    BY <1>1, <1>5 DEF EvictAndOpen
  <2>2. c \in Active /\ e.conv \notin Active
    BY <1>1, <1>5 DEF EvictAndOpen, LeastRecent
  <2>3. {Finalized(turns[d], "evicted") : d \in {c}} = {Finalized(turns[c], "evicted")}
    OBVIOUS
  <2>4. Opens(w, e, {c}, "evicted")
    BY <1>5, <2>1, <2>3 DEF EvictAndOpen, Opens
  <2>5. IsFiniteSet(Active \ {c}) /\ Cardinality(Active \ {c}) = Cardinality(Active) - 1
    BY <1>2, <2>2, FS_RemoveElement
  <2>6. Cardinality((Active \ {c}) \cup {e.conv}) = Cardinality(Active)
    <3>1. Cardinality((Active \ {c}) \cup {e.conv}) = Cardinality(Active \ {c}) + 1
      BY <2>2, <2>5, FS_AddElement
    <3> QED  BY <1>2, <2>5, <3>1
  <2>7. Cardinality(Active) >= MaxActiveTurns
    BY <1>1, <1>5 DEF EvictAndOpen
  <2> QED  BY <1>2, <2>2, <2>4, <2>6, <2>7
<1> QED  BY <1>3, <1>4, <1>5

\* Any opening keeps the invariant.
LEMMA OpeningKeepsIInv ==
    ASSUME IInv, NEW w \in Workers, NEW e \in Events,
           pc[w] = "locked", Take(w, e),
           NEW S \in SUBSET Active, NEW why \in {"superseded", "evicted"},
           Opens(w, e, S, why),
           e.conv \notin Active \ S,
           Cardinality((Active \ S) \cup {e.conv}) <= MaxActiveTurns
    PROVE  IInv'
<1> DEFINE o == Opened(w, e)
           gone == {Finalized(turns[c], why) : c \in S}
<1>1. /\ o \in Turn /\ Sound(o) /\ o.conv = e.conv /\ o.id = nextTurn
      /\ e.conv \in Conversations /\ w \in Emitters
  <2>1. nextTurn \in Nat \ {0} /\ now[w] \in Nat
    BY DEF IInv, TypeOK, CommonTypeOK
  <2>2. Sound(o) /\ o.conv = e.conv /\ o.id = nextTurn
    BY ONLY <2>1, w \in Workers, e \in Events, OpenedSound DEF Opened
  <2> QED  BY <2>2, EventsAssumption DEF Sound, Emitters
<1>2. /\ DOMAIN pending = Emitters
      /\ turns' = Insert(Delete(turns, S), o.conv, o)
      /\ pending' = [pending EXCEPT ![w] = @ \cup gone]
      /\ nextTurn' = nextTurn + 1
      /\ UNCHANGED <<clock, calls, mu, pc, now, ticker, sweepPc, hostPc, delivered, lost>>
  BY <1>1 DEF IInv, Ownership, Opens, Take, historyVars
<1>3. batch' \in [Workers -> SUBSET Events]
  BY DEF IInv, TypeOK, CommonTypeOK, Take
<1> HIDE DEF o
<1>4. /\ Active' = (Active \ S) \cup {e.conv}
      /\ turns' \in [Active' -> Turn]
      /\ \A c \in Active' : turns'[c] = IF c = e.conv THEN o ELSE turns[c]
  BY <1>1, <1>2 DEF IInv, TypeOK, Insert, Delete, Active
<1>5. \A f \in gone : /\ f \in [turn : Turn, reason : Reasons]
                      /\ f.reason # "completed"
                      /\ \E c \in S : f.turn = turns[c]
  BY DEF IInv, TypeOK, Finalized, Reasons
<1>6. Ownership'
  <2>1. Closes(S, gone)
    <3>1. \A t : Finalized(t, why).turn = t
      BY DEF Finalized
    <3>2. \A f \in gone : \E c \in S : f = Finalized(turns[c], why)
      OBVIOUS
    <3>3. \A c \in S : Finalized(turns[c], why) \in gone
      OBVIOUS
    <3> HIDE DEF gone
    <3> QED  BY <3>1, <3>2, <3>3 DEF Closes
  <2> HIDE DEF gone
  <2> QED  BY <1>1, <1>2, <2>1, OpeningKeepsOwnership DEF IInv
<1> HIDE DEF gone
<1>7. CommonTypeOK'
  BY <1>1, <1>2, <1>3, <1>4 DEF IInv, TypeOK, CommonTypeOK
<1>8. pending' \in [Emitters -> SUBSET [turn : Turn, reason : Reasons]]
  BY <1>1, <1>2, <1>5 DEF IInv, TypeOK
<1>9. TypeOK'
  BY <1>4, <1>7, <1>8 DEF TypeOK
<1>10. HandsEmpty'
  <2>1. \A p \in Emitters : p # w => pending'[p] = pending[p]
    BY <1>2
  <2>2. /\ "sweeper" \in Emitters /\ "host" \in Emitters
        /\ w # "sweeper" /\ w # "host" /\ Workers \subseteq Emitters
    BY EdgeAssumption DEF Emitters
  <2> QED  BY <1>2, <2>1, <2>2 DEF IInv, HandsEmpty
<1>11. TurnsSound'
  <2>1. \A c \in Active' : Sound(turns'[c]) /\ turns'[c].conv = c
    BY <1>1, <1>4 DEF IInv, TurnsSound
  <2>2. \A p \in Emitters : \A f \in pending'[p] :
          Sound(f.turn) /\ (f.reason = "completed" => f.turn.completeSeen)
    BY <1>2, <1>5 DEF IInv, TurnsSound
  <2> QED  BY <2>1, <2>2 DEF TurnsSound
<1>12. ActiveBounded'
  <2>1. IsFiniteSet(Active \ S)
    BY FS_Subset DEF IInv, ActiveBounded
  <2>2. IsFiniteSet((Active \ S) \cup {e.conv})
    BY <2>1, FS_AddElement
  <2> QED  BY <1>4, <2>2 DEF ActiveBounded
<1> QED  BY <1>6, <1>9, <1>10, <1>11, <1>12 DEF IInv

\* A record that its turn may retain, or has seen, changes that turn alone.
LEMMA ExtendKeepsIInv ==
    ASSUME IInv, NEW w \in Workers, NEW e \in Events, Take(w, e), Extend(w, e)
    PROVE  IInv'
<1> DEFINE u == Add(turns[e.conv], e, now[w])
<1>1. /\ e.conv \in Active
      /\ turns' = [turns EXCEPT ![e.conv] = u]
      /\ UNCHANGED <<clock, calls, mu, pc, now, ticker, sweepPc, hostPc,
                     nextTurn, pending, delivered, lost>>
  BY DEF Extend, Take, historyVars
<1>2. /\ turns[e.conv] \in Turn /\ now[w] \in Nat
      /\ Sound(turns[e.conv]) /\ turns[e.conv].conv = e.conv
  BY <1>1 DEF IInv, TypeOK, CommonTypeOK, TurnsSound
<1>3. e.kind = "prompt" /\ e \notin turns[e.conv].seen => ~turns[e.conv].promptSeen
  BY <1>1 DEF Extend, Supersedes
<1>4. Sound(u)
  BY <1>2, <1>3, AddKeepsSound
<1>5. u \in Turn /\ u.id = turns[e.conv].id /\ u.conv = e.conv
  BY <1>2, AddTyped
<1> HIDE DEF u
<1>6. /\ Active' = Active
      /\ turns' \in [Active' -> Turn]
      /\ \A c \in Active : turns'[c] = IF c = e.conv THEN u ELSE turns[c]
  BY <1>1, <1>5 DEF IInv, TypeOK, Active
<1>7. batch' \in [Workers -> SUBSET Events]
  BY DEF IInv, TypeOK, CommonTypeOK, Take
<1>8. TypeOK'
  BY <1>1, <1>6, <1>7 DEF IInv, TypeOK, CommonTypeOK
<1>9. Ownership'
  BY <1>1, <1>5, <1>6, SameOwners DEF IInv, Active
<1>10. HandsEmpty'
  BY <1>1 DEF IInv, HandsEmpty
<1>11. TurnsSound'
  BY <1>1, <1>4, <1>5, <1>6 DEF IInv, TurnsSound
<1>12. ActiveBounded'
  BY <1>6 DEF IInv, ActiveBounded
<1> QED  BY <1>8, <1>9, <1>10, <1>11, <1>12 DEF IInv

\* The loop of ConsumeLogs keeps the invariant.
LEMMA ProcessKeepsIInv ==
    ASSUME IInv, NEW w \in Workers, Process(w)
    PROVE  IInv'
<1>1. PICK e \in batch[w] :
        /\ Take(w, e)
        /\ \/ Drop(e)
           \/ Extend(w, e)
           \/ Supersede(w, e)
           \/ OpenTurn(Opened(w, e))
           \/ EvictAndOpen(w, Opened(w, e))
  BY DEF Process
<1>2. e \in Events /\ pc[w] = "locked"
  BY <1>1 DEF IInv, TypeOK, CommonTypeOK, Take
<1>3. CASE Drop(e)
  <2>1. UNCHANGED <<clock, calls, mu, turns, nextTurn, pending, pc, now, ticker,
                    sweepPc, hostPc, delivered, lost>>
    BY <1>1, <1>3 DEF Drop, Take, turnVars, historyVars
  <2>2. batch' \in [Workers -> SUBSET Events]
    BY <1>1 DEF IInv, TypeOK, CommonTypeOK, Take
  <2>3. TypeOK' /\ HandsEmpty' /\ TurnsSound' /\ ActiveBounded'
    BY <2>1, <2>2 DEF IInv, TypeOK, CommonTypeOK, HandsEmpty, TurnsSound, ActiveBounded, Active
  <2>4. Ownership'
    BY <2>1, SameOwners DEF IInv
  <2> QED  BY <2>3, <2>4 DEF IInv
<1>4. CASE Extend(w, e)
  BY <1>1, <1>2, <1>4, ExtendKeepsIInv
<1>5. CASE Supersede(w, e) \/ OpenTurn(Opened(w, e)) \/ EvictAndOpen(w, Opened(w, e))
  <2>1. PICK S \in SUBSET Active, why \in {"superseded", "evicted"} :
          /\ Opens(w, e, S, why)
          /\ e.conv \notin Active \ S
          /\ Cardinality((Active \ S) \cup {e.conv}) <= MaxActiveTurns
    BY <1>2, <1>5, OpeningCases, Zenon
  <2> QED  BY <1>1, <1>2, <2>1, OpeningKeepsIInv
<1> QED  BY <1>1, <1>3, <1>4, <1>5

-----------------------------------------------------------------------------
(* The other steps *)

\* So does collectReady.
LEMMA CollectKeepsIInv ==
    ASSUME IInv, CollectReady
    PROVE  IInv'
<1> DEFINE ready == {c \in Active : Ready(turns[c], ticker)}
           gone == {Finalized(turns[c], ReadyReason(turns[c], ticker)) : c \in ready}
<1>1. /\ turns' = Delete(turns, ready)
      /\ pending' = [pending EXCEPT !["sweeper"] = gone]
      /\ ticker' = NoTick /\ sweepPc' = "emitting"
      /\ UNCHANGED <<clock, calls, mu, nextTurn, pc, batch, now, hostPc, delivered, lost>>
  BY DEF CollectReady, Collect, workerVars, historyVars
<1>2. /\ pending["sweeper"] = {} /\ "sweeper" \in Emitters /\ DOMAIN pending = Emitters
      /\ Workers \subseteq Emitters /\ "sweeper" \notin Workers /\ "host" \in Emitters
  BY EdgeAssumption DEF CollectReady, Collect, IInv, HandsEmpty, Emitters, Ownership
<1>3. ready \subseteq Active
  OBVIOUS
<1>4. Closes(ready, gone)
  <2>1. \A t, why : Finalized(t, why).turn = t
    BY DEF Finalized
  <2>2. \A f \in gone : \E c \in ready : f = Finalized(turns[c], ReadyReason(turns[c], ticker))
    OBVIOUS
  <2>3. \A c \in ready : Finalized(turns[c], ReadyReason(turns[c], ticker)) \in gone
    OBVIOUS
  <2> HIDE DEF ready, gone
  <2> QED  BY <1>3, <2>1, <2>2, <2>3 DEF Closes
<1>5. \A f \in gone : \E c \in ready :
        /\ f.turn = turns[c]
        /\ f \in [turn : Turn, reason : Reasons]
        /\ f.reason = "completed" => turns[c].completeSeen
  BY DEF IInv, TypeOK, Finalized, ReadyReason, Reasons, Quiet
<1> HIDE DEF ready, gone
<1>6. /\ Active' = Active \ ready
      /\ turns' \in [Active' -> Turn]
      /\ \A c \in Active' : turns'[c] = turns[c]
  BY <1>1 DEF IInv, TypeOK, Delete, Active
<1>7. Ownership'
  BY <1>1, <1>2, <1>3, <1>4, ClosingKeepsOwnership DEF IInv
<1>8. TypeOK'
  <2>1. pending' \in [Emitters -> SUBSET [turn : Turn, reason : Reasons]]
    BY <1>1, <1>5 DEF IInv, TypeOK
  <2> QED  BY <1>1, <1>6, <2>1 DEF IInv, TypeOK, CommonTypeOK
<1>9. HandsEmpty'
  BY <1>1, <1>2 DEF IInv, HandsEmpty
<1>10. TurnsSound'
  <2>1. \A f \in gone : Sound(f.turn) /\ (f.reason = "completed" => f.turn.completeSeen)
    BY <1>3, <1>5 DEF IInv, TurnsSound
  <2> QED  BY <1>1, <1>2, <1>6, <2>1 DEF IInv, TurnsSound
<1>11. ActiveBounded'
  <2>1. IsFiniteSet(Active') /\ Cardinality(Active') <= Cardinality(Active)
    BY <1>6, FS_Subset DEF IInv, ActiveBounded
  <2>2. Cardinality(Active') \in Nat /\ Cardinality(Active) \in Nat
    BY <2>1, FS_CardinalityType DEF IInv, ActiveBounded
  <2> QED  BY <2>1, <2>2, ConfigAssumption DEF IInv, ActiveBounded
<1> QED  BY <1>7, <1>8, <1>9, <1>10, <1>11 DEF IInv

\* So does every step both edges share.
LEMMA CommonKeepsIInv ==
    ASSUME IInv, CommonNext
    PROVE  IInv'
<1>1. Ownership' /\ HandsEmpty' /\ CommonTypeOK'
  <2>1. DOMAIN pc = Workers
    BY DEF IInv, TypeOK, CommonTypeOK
  <2> QED
    BY <2>1, CommonStepKeepsOwnership, CommonStepKeepsHandsEmpty, CommonStepKeepsTypes
       DEF IInv, TypeOK
<1> DEFINE Rest == /\ turns \in [Active -> Turn]
                   /\ pending \in [Emitters -> SUBSET [turn : Turn, reason : Reasons]]
                   /\ TurnsSound /\ ActiveBounded
<1>2. ASSUME UNCHANGED <<turns, pending>> PROVE Rest'
  BY <1>2 DEF IInv, TypeOK, TurnsSound, ActiveBounded, Active
<1>3. ASSUME NEW p \in Emitters, EmitStep(p) PROVE Rest'
  <2>1. /\ turns' = turns
        /\ pending' \in [Emitters -> SUBSET [turn : Turn, reason : Reasons]]
        /\ \A q \in Emitters : pending'[q] \subseteq pending[q]
    BY <1>3 DEF EmitStep, Deliver, Fail, turnVars, IInv, TypeOK
  <2> QED  BY <2>1 DEF IInv, TypeOK, TurnsSound, ActiveBounded, Active
<1>4. ASSUME FlushAll PROVE Rest'
  <2>1. turns' = Delete(turns, Active) /\ Active' = {}
    BY <1>4 DEF FlushAll, Delete, Active
  <2>2. \A f \in {Finalized(turns[c], "shutdown") : c \in Active} :
          /\ f \in [turn : Turn, reason : Reasons]
          /\ f.reason # "completed"
          /\ Sound(f.turn)
    BY DEF IInv, TypeOK, TurnsSound, Finalized, Reasons
  <2>3. pending' \in [Emitters -> SUBSET [turn : Turn, reason : Reasons]]
    BY <1>4, <2>2 DEF FlushAll, IInv, TypeOK
  <2>4. \A p \in Emitters : \A f \in pending'[p] :
          f \in pending[p] \/ f \in {Finalized(turns[c], "shutdown") : c \in Active}
    BY <1>4 DEF FlushAll, IInv, TypeOK
  <2>5. TurnsSound'
    BY <2>1, <2>2, <2>4 DEF IInv, TurnsSound
  <2>6. ActiveBounded'
    BY <2>1, FS_EmptySet, ConfigAssumption DEF ActiveBounded
  <2>7. turns' \in [Active' -> Turn]
    BY <2>1 DEF Delete, Active
  <2> QED  BY <2>3, <2>5, <2>6, <2>7
<1> HIDE DEF Rest
<1>5. Rest'
  <2>1. ASSUME NEW w \in Workers, Call(w) \/ Lock(w) \/ Unlock(w) \/ Return(w)
        PROVE  Rest'
    <3>1. UNCHANGED <<turns, pending>>
      BY <2>1 DEF Call, Lock, Unlock, Return, turnVars
    <3> QED  BY <3>1, <1>2
  <2>2. CASE \/ Tick \/ Start \/ TickerFires \/ SweepAgain \/ SweepStops
             \/ Shutdown \/ ContextExpires \/ ShutdownReturns \/ Terminated
    <3>1. UNCHANGED <<turns, pending>>
      BY <2>2 DEF Tick, Start, TickerFires, SweepAgain, SweepStops, Shutdown,
         ContextExpires, ShutdownReturns, Terminated, turnVars, vars
    <3> QED  BY <3>1, <1>2
  <2> QED  BY <1>3, <1>4, <2>1, <2>2 DEF CommonNext
<1> QED  BY <1>1, <1>5 DEF IInv, TypeOK, Rest

\* The invariant of the edge: it holds at the start, and every step keeps it.
THEOREM IInvInductive == Spec => []IInv
<1>1. Init => IInv
  BY InitIInv
<1>2. IInv /\ [Next]_vars => IInv'
  <2> SUFFICES ASSUME IInv, [Next]_vars PROVE IInv'
    OBVIOUS
  <2>1. CASE CommonNext
    BY <2>1, CommonKeepsIInv
  <2>2. ASSUME NEW w \in Workers, Process(w) PROVE IInv'
    BY <2>2, ProcessKeepsIInv
  <2>3. CASE CollectReady
    BY <2>3, CollectKeepsIInv
  <2>4. CASE UNCHANGED vars
    <3>1. Ownership'
      BY <2>4, SameOwners DEF vars, turnVars, historyVars, IInv
    <3>2. TypeOK' /\ HandsEmpty' /\ TurnsSound' /\ ActiveBounded'
      BY <2>4 DEF vars, turnVars, workerVars, historyVars, IInv, TypeOK, CommonTypeOK,
         HandsEmpty, TurnsSound, ActiveBounded, Active
    <3> QED  BY <3>1, <3>2 DEF IInv
  <2> QED  BY <2>1, <2>2, <2>3, <2>4 DEF Next
<1> QED  BY <1>1, <1>2, PTL DEF Spec

-----------------------------------------------------------------------------
(* What follows *)

\* Types are right in every state.
THEOREM TypeCorrect == Spec => []TypeOK
<1>1. IInv => TypeOK
  BY DEF IInv
<1> QED  BY <1>1, IInvInductive, PTL

\* No turn reaches the downstream consumer twice.
THEOREM NeverTwice == Spec => []NoTurnTwice
<1>1. IInv => NoTurnTwice
  BY DEF IInv, Ownership
<1> QED  BY <1>1, IInvInductive, PTL

\* No turn that was opened disappears without having been offered.
THEOREM NeverForgotten == Spec => []NoTurnForgotten
<1>1. IInv => NoTurnForgotten
  BY DEF IInv, Ownership
<1> QED  BY <1>1, IInvInductive, PTL

\* The bounds of the configuration hold in every state.
THEOREM Bounded == Spec => []WithinBounds
<1>1. IInv => WithinBounds
  BY DEF IInv, ActiveBounded, TurnsSound, Sound, WithinBounds, HeldTurns,
     ActiveTurns, PendingTurns
<1> QED  BY <1>1, IInvInductive, PTL

\* What a turn retains is what its fields say.
THEOREM RetentionConsistent == Spec => []TurnsConsistent
<1>1. IInv => TurnsConsistent
  BY DEF IInv, TurnsSound, Sound, TurnsConsistent, HeldTurns, ActiveTurns, PendingTurns
<1> QED  BY <1>1, IInvInductive, PTL

\* No turn merges two prompts.
THEOREM PromptUnique == Spec => []OnePromptPerTurn
<1>1. IInv => OnePromptPerTurn
  BY DEF IInv, TurnsSound, Sound, OnePromptPerTurn, HeldTurns, ActiveTurns, PendingTurns
<1> QED  BY <1>1, IInvInductive, PTL

\* The completion flag of every turn is exact.
THEOREM CompletionFlagExact == Spec => []CompletionExact
<1>1. IInv => CompletionExact
  BY DEF IInv, TurnsSound, Sound, CompletionExact, HeldTurns, ActiveTurns, PendingTurns
<1> QED  BY <1>1, IInvInductive, PTL

\* A shutdown that returns without error leaves nothing behind.
THEOREM Drains == Spec => []ShutdownDrains
<1>1. Init => Quiescent
  BY DEF Init, Quiescent
<1>2. IInv /\ Quiescent /\ [Next]_vars => Quiescent'
  <2> SUFFICES ASSUME IInv, Quiescent, [Next]_vars PROVE Quiescent'
    OBVIOUS
  <2>1. CASE CommonNext
    <3>1. DOMAIN pc = Workers
      BY DEF IInv, TypeOK, CommonTypeOK
    <3> QED  BY <2>1, <3>1, CommonStepKeepsQuiescent
  <2>2. ASSUME NEW w \in Workers, Process(w) PROVE Quiescent'
    BY <2>2, OwnStepKeepsQuiescent DEF Process, Take
  <2>3. CASE CollectReady
    BY <2>3, OwnStepKeepsQuiescent DEF CollectReady, Collect, workerVars
  <2>4. CASE UNCHANGED vars
    BY <2>4 DEF vars, turnVars, workerVars, Quiescent, Active
  <2> QED  BY <2>1, <2>2, <2>3, <2>4 DEF Next
<1>3. IInv /\ Quiescent => ShutdownDrains
  BY QuiescentDrains DEF IInv
<1> QED  BY <1>1, <1>2, <1>3, IInvInductive, PTL DEF Spec

-----------------------------------------------------------------------------
(* The quiet period, with one caller at a time *)

\* While one goroutine calls, the clocks that turns are given do not go back:
\* lastSeen is the latest arrival, and no later than the snapshot in use.
Punctual ==
    /\ \A w \in Workers : now[w] <= clock
    /\ \A c \in Active : /\ turns[c].lastSeen = turns[c].newest
                         /\ \A w \in Workers : turns[c].newest <= now[w]

\* add() gives a turn the time of a record it retains and leaves it alone otherwise.
LEMMA AddPunctual ==
    ASSUME NEW t \in Turn, NEW e \in Events, NEW at \in Nat,
           t.lastSeen = t.newest, t.newest <= at
    PROVE  /\ Add(t, e, at).lastSeen = Add(t, e, at).newest
           /\ Add(t, e, at).newest <= at
<1>1. t.newest \in Nat
  BY DEF Turn
<1>2. CASE e \in t.seen
  BY <1>2 DEF Add
<1>3. CASE e \notin t.seen /\ Len(t.events) >= MaxEvents
  <2>1. Add(t, e, at) = [t EXCEPT !.truncated = TRUE]
    BY <1>3 DEF Add
  <2> QED  BY <2>1 DEF Turn
<1>4. CASE e \notin t.seen /\ ~(Len(t.events) >= MaxEvents)
  <2>1. Add(t, e, at) = Retain(t, e, at)
    BY <1>4 DEF Add
  <2>2. Retain(t, e, at).lastSeen = at /\ Retain(t, e, at).newest = Later(t.newest, at)
    BY DEF Retain, Turn
  <2> QED  BY <1>1, <2>1, <2>2 DEF Later
<1> QED  BY <1>2, <1>3, <1>4

\* A record that is processed leaves the turns punctual.
LEMMA ProcessKeepsPunctual ==
    ASSUME \A v, w \in Workers : v = w, IInv, Punctual, NEW w \in Workers, Process(w)
    PROVE  Punctual'
<1>1. PICK e \in batch[w] :
        /\ Take(w, e)
        /\ \/ Drop(e)
           \/ Extend(w, e)
           \/ Supersede(w, e)
           \/ OpenTurn(Opened(w, e))
           \/ EvictAndOpen(w, Opened(w, e))
  BY DEF Process
<1>2. UNCHANGED <<clock, now>>
  BY <1>1 DEF Take
<1>3. e \in Events /\ now[w] \in Nat /\ nextTurn \in Nat \ {0} /\ \A v \in Workers : v = w
  BY DEF IInv, TypeOK, CommonTypeOK
<1>4. SUFFICES ASSUME NEW k \in DOMAIN turns'
               PROVE  turns'[k].lastSeen = turns'[k].newest /\ turns'[k].newest <= now[w]
  BY <1>2, <1>3 DEF Punctual, Active
<1>5. \A d \in Active : /\ turns[d] \in Turn
                        /\ turns[d].lastSeen = turns[d].newest /\ turns[d].newest <= now[w]
  BY DEF Punctual, IInv, TypeOK
<1>6. CASE Drop(e)
  BY <1>5, <1>6 DEF Drop, turnVars, Active
<1>7. CASE Extend(w, e)
  <2>1. e.conv \in Active /\ turns' = [turns EXCEPT ![e.conv] = Add(turns[e.conv], e, now[w])]
    BY <1>7 DEF Extend
  <2>2. /\ Add(turns[e.conv], e, now[w]).lastSeen = Add(turns[e.conv], e, now[w]).newest
        /\ Add(turns[e.conv], e, now[w]).newest <= now[w]
    BY <1>3, <1>5, <2>1, AddPunctual
  <2> QED  BY <1>5, <2>1, <2>2 DEF Active
<1>8. CASE \/ Supersede(w, e)
           \/ OpenTurn(Opened(w, e))
           \/ EvictAndOpen(w, Opened(w, e))
  <2>1. \E S \in SUBSET Active : \E why \in {"superseded", "evicted"} : Opens(w, e, S, why)
    <3>1. e \in Events
      BY <1>3
    <3>2. \E S \in SUBSET Active : \E why \in {"superseded", "evicted"} :
            /\ Opens(w, e, S, why)
            /\ e.conv \notin Active \ S
            /\ \/ S = {} /\ Cardinality(Active) < MaxActiveTurns
               \/ S = {e.conv} /\ e.conv \in Active
               \/ Cardinality(Active) >= MaxActiveTurns /\ \E c \in Active : S = {c}
            /\ Cardinality((Active \ S) \cup {e.conv}) <= MaxActiveTurns
      BY ONLY IInv, w \in Workers, <3>1, <1>8, OpeningCases
    <3> QED  BY <3>2
  <2>2. PICK S \in SUBSET Active :
          turns' = Insert(Delete(turns, S), e.conv, Opened(w, e))
    BY <2>1 DEF Opens
  <2>3. Opened(w, e).lastSeen = Opened(w, e).newest /\ Opened(w, e).newest <= now[w]
    <3> DEFINE t == NewTurn(nextTurn, e, now[w])
    <3>1. t \in Turn
      BY <1>3, NewTurnTyped
    <3>2. t.lastSeen = now[w] /\ t.newest = now[w]
      BY DEF NewTurn
    <3> HIDE DEF t
    <3>3. /\ Add(t, e, now[w]).lastSeen = Add(t, e, now[w]).newest
          /\ Add(t, e, now[w]).newest <= now[w]
      BY <1>3, <3>1, <3>2, AddPunctual
    <3> QED  BY <3>3 DEF Opened, t
  <2> QED  BY <1>5, <2>2, <2>3 DEF Insert, Delete, Active
<1> QED  BY <1>1, <1>6, <1>7, <1>8

\* So does every other step: a call takes the clock, which never goes back.
LEMMA StepKeepsPunctual ==
    ASSUME \A v, w \in Workers : v = w, IInv, Punctual, [Next]_vars
    PROVE  Punctual'
<1>1. /\ clock \in Nat /\ DOMAIN now = Workers /\ \A w \in Workers : now[w] \in Nat
      /\ \A c \in Active : turns[c] \in Turn
  BY DEF IInv, TypeOK, CommonTypeOK
<1>2. \A c \in Active : turns[c].newest \in Nat
  BY <1>1 DEF Turn
<1>3. ASSUME NEW w \in Workers, Call(w) PROVE Punctual'
  <2>1. UNCHANGED <<clock, turns>> /\ \A v \in Workers : now'[v] = clock
    BY <1>1, <1>3 DEF Call, turnVars
  <2> QED  BY <1>1, <1>2, <2>1 DEF Punctual, Active
<1>4. ASSUME \E S : turns' = Delete(turns, S), UNCHANGED <<clock, now>> PROVE Punctual'
  BY <1>4 DEF Punctual, Delete, Active
<1>5. CASE CollectReady
  BY <1>4, <1>5 DEF CollectReady, Collect, workerVars
<1>6. CASE FlushAll
  BY <1>4, <1>6 DEF FlushAll, workerVars
<1>7. CASE Tick
  <2>1. clock' = clock + 1 /\ UNCHANGED <<turns, now>>
    BY <1>7 DEF Tick, turnVars, workerVars
  <2> QED  BY <1>1, <2>1 DEF Punctual, Active
<1>8. ASSUME UNCHANGED <<clock, turns, now>> PROVE Punctual'
  BY <1>8 DEF Punctual, Active
<1>9. ASSUME NEW w \in Workers, Lock(w) \/ Unlock(w) \/ Return(w) PROVE Punctual'
  BY <1>8, <1>9 DEF Lock, Unlock, Return, turnVars
<1>10. ASSUME NEW p \in Emitters, EmitStep(p) PROVE Punctual'
  BY <1>8, <1>10 DEF EmitStep, Deliver, Fail, turnVars, workerVars
<1>11. CASE \/ Start \/ TickerFires \/ SweepAgain \/ SweepStops \/ Shutdown
            \/ ContextExpires \/ ShutdownReturns \/ Terminated
  BY <1>8, <1>11 DEF Start, TickerFires, SweepAgain, SweepStops, Shutdown,
     ContextExpires, ShutdownReturns, Terminated, turnVars, workerVars, vars
<1>12. CASE UNCHANGED vars
  BY <1>8, <1>12 DEF vars, turnVars, workerVars
<1> QED
  BY <1>3, <1>5, <1>6, <1>7, <1>9, <1>10, <1>11, <1>12, ProcessKeepsPunctual DEF Next, CommonNext

\* Only a tick closes turns as completed, and it has given them their quiet period.
LEMMA CollectsQuiet ==
    ASSUME IInv, Punctual, [Next]_vars, pending' # pending,
           NEW f \in pending'["sweeper"] \ pending["sweeper"], f.reason = "completed"
    PROVE  ticker - f.turn.newest >= ReorderWindow
<1>1. "sweeper" \in Emitters /\ "sweeper" # "host" /\ DOMAIN pending = Emitters
      /\ \A w \in Workers : w # "sweeper"
  BY EdgeAssumption DEF Emitters, IInv, TypeOK
<1>2. ASSUME NEW p, p # "sweeper", NEW P, pending' = [pending EXCEPT ![p] = P] PROVE FALSE
  BY <1>1, <1>2
<1>3. ASSUME NEW w \in Workers, Process(w) PROVE FALSE
  BY <1>1, <1>2, <1>3 DEF Process, Drop, Extend, Supersede, OpenTurn, EvictAndOpen
<1>4. ASSUME NEW p \in Emitters, EmitStep(p) PROVE FALSE
  <2>1. PICK g \in pending[p] : pending' = [pending EXCEPT ![p] = @ \ {g}]
    BY <1>4 DEF EmitStep, Deliver, Fail
  <2> QED  BY <1>1, <2>1
<1>5. ~FlushAll
  <2>1. FlushAll => \E P : pending' = [pending EXCEPT !["host"] = P]
    BY DEF FlushAll
  <2> QED  BY <1>1, <1>2, <2>1
<1>6. CollectReady
  BY <1>3, <1>4, <1>5
     DEF Next, CommonNext, Call, Lock, Unlock, Return, Tick, Start, TickerFires, SweepAgain,
         SweepStops, Shutdown, ContextExpires, ShutdownReturns, Terminated, vars
<1>7. PICK c \in Active : f = Finalized(turns[c], ReadyReason(turns[c], ticker))
  BY <1>1, <1>6 DEF CollectReady, Collect
<1>8. f.turn = turns[c] /\ Quiet(turns[c], ticker)
  BY <1>7 DEF Finalized, ReadyReason
<1>9. turns[c].lastSeen = turns[c].newest
  BY DEF Punctual
<1> QED  BY <1>8, <1>9 DEF Quiet

\* README.md: while one goroutine calls ConsumeLogs at a time, a turn closes as
\* completed only when its reorder window has passed since the latest arrival of a
\* record it retained (collectReady).  With two it can close early.
THEOREM QuietPeriodWithOneCaller ==
    ASSUME \A v, w \in Workers : v = w
    PROVE  Spec => QuietPeriodHonoured
<1>1. Init => Punctual
  BY DEF Init, Punctual, Active
<1>2. IInv /\ Punctual /\ [Next]_vars => Punctual'
  BY StepKeepsPunctual
<1> DEFINE Honoured == \A f \in pending'["sweeper"] \ pending["sweeper"] :
                          f.reason = "completed" => ticker - f.turn.newest >= ReorderWindow
<1>3. IInv /\ Punctual /\ [Next]_vars => [Honoured]_pending
  BY CollectsQuiet
<1> QED  BY <1>1, <1>2, <1>3, IInvInductive, PTL DEF Spec, QuietPeriodHonoured

-----------------------------------------------------------------------------
(* Why turns close, with one caller at a time *)

\* A tick closes the turns that their records say it should, and no others.
LEMMA SweepsForCause ==
    ASSUME IInv, Punctual, [Next]_vars, sweepPc = "select", sweepPc' = "emitting"
    PROVE  SweptForCause
<1>1. CollectReady
  <2>1. ASSUME NEW w \in Workers, Process(w) PROVE FALSE
    BY <2>1 DEF Process, Take
  <2>2. ASSUME NEW w \in Workers, Call(w) \/ Lock(w) \/ Unlock(w) \/ Return(w) PROVE FALSE
    BY <2>2 DEF Call, Lock, Unlock, Return
  <2>3. ASSUME NEW p \in Emitters, EmitStep(p) PROVE FALSE
    BY <2>3 DEF EmitStep, Deliver, Fail
  <2>4. ~ (\/ Tick \/ Start \/ TickerFires \/ SweepAgain \/ SweepStops \/ Shutdown
           \/ FlushAll \/ ContextExpires \/ ShutdownReturns \/ Terminated \/ UNCHANGED vars)
    BY DEF Tick, Start, TickerFires, SweepAgain, SweepStops, Shutdown, FlushAll,
       ContextExpires, ShutdownReturns, Terminated, vars
  <2> QED  BY <2>1, <2>2, <2>3, <2>4 DEF Next, CommonNext
<1> DEFINE ready == {c \in Active : Ready(turns[c], ticker)}
<1>2. pending'["sweeper"] = {Finalized(turns[c], ReadyReason(turns[c], ticker)) : c \in ready}
  BY <1>1 DEF CollectReady, Collect, IInv, TypeOK, Emitters
<1>3. \A c \in Active : /\ turns[c].lastSeen = turns[c].newest
                        /\ turns[c].completeSeen <=> Answered(turns[c])
  BY DEF Punctual, IInv, TurnsSound, Sound
<1>4. \A c \in Active :
        /\ Ready(turns[c], ticker) <=> Cause(turns[c], ticker) \in Reasons
        /\ Ready(turns[c], ticker) => ReadyReason(turns[c], ticker) = Cause(turns[c], ticker)
  BY <1>3 DEF Ready, ReadyReason, Quiet, Expired, Cause, Reasons
<1>5. \A f : f \in pending'["sweeper"] <=>
              \E c \in Active : /\ Cause(turns[c], ticker) \in Reasons
                               /\ f = [turn |-> turns[c], reason |-> Cause(turns[c], ticker)]
  BY <1>2, <1>4 DEF Finalized
<1> HIDE DEF ready
<1> DEFINE due == {f \in [turn : ActiveTurns, reason : Reasons] : f.reason = Cause(f.turn, ticker)}
<1>6. \A f : f \in due <=>
              \E c \in Active : /\ Cause(turns[c], ticker) \in Reasons
                               /\ f = [turn |-> turns[c], reason |-> Cause(turns[c], ticker)]
  <2>1. ASSUME NEW f \in due
        PROVE  \E c \in Active : /\ Cause(turns[c], ticker) \in Reasons
                                /\ f = [turn |-> turns[c], reason |-> Cause(turns[c], ticker)]
    <3>1. PICK c \in Active : f.turn = turns[c]
      BY DEF ActiveTurns
    <3>2. f.reason = Cause(turns[c], ticker) /\ f.reason \in Reasons
      BY <3>1
    <3> QED  BY <3>1, <3>2
  <2>2. ASSUME NEW c \in Active, Cause(turns[c], ticker) \in Reasons
        PROVE  [turn |-> turns[c], reason |-> Cause(turns[c], ticker)] \in due
    BY <2>2 DEF ActiveTurns
  <2> QED  BY <2>1, <2>2
<1> HIDE DEF due
<1>7. pending'["sweeper"] = due
  BY <1>5, <1>6
<1> QED  BY <1>7 DEF due, SweptForCause

\* Of the turns of a full map the one is evicted that has waited longest.
LEMMA EvictsForCause ==
    ASSUME IInv, Punctual, [Next]_vars, NEW w \in Workers
    PROVE  EvictedForCause(w)
<1> SUFFICES ASSUME NEW f \in pending'[w] \ pending[w], f.reason = "evicted"
             PROVE  f.turn \in ActiveTurns /\ \A t \in ActiveTurns : f.turn.newest <= t.newest
  BY DEF EvictedForCause
<1>1. w \in Emitters /\ w # "sweeper" /\ w # "host" /\ DOMAIN pending = Emitters
  BY EdgeAssumption DEF Emitters, IInv, TypeOK
<1>2. ASSUME NEW p \in Emitters, EmitStep(p) PROVE FALSE
  <2>1. PICK g \in pending[p] : pending' = [pending EXCEPT ![p] = @ \ {g}]
    BY <1>2 DEF EmitStep, Deliver, Fail
  <2> QED  BY <1>1, <2>1
<1>3. ~ (CollectReady \/ FlushAll)
  <2>1. CollectReady \/ FlushAll =>
          \E p \in {"sweeper", "host"} : \E P : pending' = [pending EXCEPT ![p] = P]
    BY DEF CollectReady, Collect, FlushAll
  <2> QED  BY <1>1, <2>1
<1>4. PICK v \in Workers : Process(v)
  BY <1>2, <1>3
     DEF Next, CommonNext, Call, Lock, Unlock, Return, Tick, Start, TickerFires, SweepAgain,
         SweepStops, Shutdown, ContextExpires, ShutdownReturns, Terminated, vars
<1>5. PICK e \in batch[v] : \/ Drop(e) \/ Extend(v, e) \/ Supersede(v, e)
                           \/ OpenTurn(Opened(v, e)) \/ EvictAndOpen(v, Opened(v, e))
  BY <1>4 DEF Process
<1>6. ~ (Drop(e) \/ Extend(v, e) \/ OpenTurn(Opened(v, e)))
  BY DEF Drop, Extend, OpenTurn
<1>7. ~ Supersede(v, e)
  <2>1. Supersede(v, e) =>
          pending' = [pending EXCEPT ![v] = @ \cup {Finalized(turns[e.conv], "superseded")}]
    BY DEF Supersede
  <2> QED  BY <1>1, <2>1 DEF Finalized
<1>8. PICK c \in LeastRecent :
        pending' = [pending EXCEPT ![v] = @ \cup {Finalized(turns[c], "evicted")}]
  BY <1>5, <1>6, <1>7 DEF EvictAndOpen
<1>9. f.turn = turns[c] /\ c \in Active
  BY <1>1, <1>8 DEF Finalized, LeastRecent
<1>10. \A d \in Active : turns[c].newest <= turns[d].newest
  BY <1>8, <1>9 DEF LeastRecent, Punctual
<1> QED  BY <1>9, <1>10 DEF ActiveTurns

\* While one goroutine calls ConsumeLogs at a time, turns are swept and evicted for
\* what they retained and when, whatever was redelivered or discarded meanwhile
\* (collectReady, evictOldestLocked, add).
THEOREM ClosedForCauseWithOneCaller ==
    ASSUME \A v, w \in Workers : v = w
    PROVE  Spec => ClosedForCause
<1>1. Init => Punctual
  BY DEF Init, Punctual, Active
<1>2. IInv /\ Punctual /\ [Next]_vars => Punctual'
  BY StepKeepsPunctual
<1> DEFINE Due == /\ sweepPc = "select" /\ sweepPc' = "emitting" => SweptForCause
                  /\ \A w \in Workers : EvictedForCause(w)
<1>3. IInv /\ Punctual /\ [Next]_vars => [Due]_vars
  BY SweepsForCause, EvictsForCause
<1> QED  BY <1>1, <1>2, <1>3, IInvInductive, PTL DEF Spec, ClosedForCause

-----------------------------------------------------------------------------
(* The edge implements the ledger of turns *)

\* A turn that has room for a record has room for its fingerprint.
LEMMA SeenBounded ==
    ASSUME NEW t, Sound(t)
    PROVE  Cardinality(t.seen) <= Len(t.events)
<1> DEFINE n == Len(t.events)
           f == [i \in 1..n |-> t.events[i]]
<1>1. n \in Nat /\ t.seen = {t.events[i] : i \in 1..n}
  BY DEF Sound, Consistent, Turn, Indices
<1>2. f \in Surjection(1..n, t.seen)
  BY <1>1 DEF Surjection
<1>3. ExistsSurjection(1..n, t.seen)
  BY <1>2 DEF ExistsSurjection
<1> HIDE DEF n, f
<1>4. Cardinality(t.seen) <= n
  BY <1>1, <1>3, FS_SurjCardinalityBound
<1> QED  BY <1>4 DEF n

\* The ledger counts as the edge does.
LEMMA SameCount == \A S : Ledger!Cardinality(S) = Cardinality(S)
BY DEF Ledger!Cardinality, Cardinality

\* An edge that starts shows a ledger that starts.
LEMMA LedgerInit == Init => Ledger!Init
<1> SUFFICES ASSUME Init PROVE Ledger!Init
  OBVIOUS
<1>1. Active = {}
  BY DEF Init, Active
<1>2. OpenEntries = [c \in {} |-> c]
  BY <1>1 DEF OpenEntries
<1>3. ClosedEntries = {}
  BY DEF Init, ClosedEntries
<1> QED  BY <1>2, <1>3 DEF Init, Ledger!Init

\* A record that opens a turn opens one of the ledger.
LEMMA OpeningIsOpen ==
    ASSUME IInv, NEW w \in Workers, NEW e \in Events, Take(w, e),
           \/ Supersede(w, e)
           \/ OpenTurn(Opened(w, e))
           \/ EvictAndOpen(w, Opened(w, e))
    PROVE  Ledger!Next
<1> DEFINE o == Opened(w, e)
<1>0. PICK S \in SUBSET Active : \E why \in {"superseded", "evicted"} :
        /\ Opens(w, e, S, why)
        /\ e.conv \notin Active \ S
        /\ \/ S = {} /\ Cardinality(Active) < MaxActiveTurns
           \/ S = {e.conv} /\ e.conv \in Active
           \/ Cardinality(Active) >= MaxActiveTurns /\ \E c \in Active : S = {c}
        /\ Cardinality((Active \ S) \cup {e.conv}) <= MaxActiveTurns
  BY ONLY IInv, w \in Workers, e \in Events, OpeningCases,
          \/ Supersede(w, e)
          \/ OpenTurn(Opened(w, e))
          \/ EvictAndOpen(w, Opened(w, e))
<1>1. PICK why \in {"superseded", "evicted"} :
        /\ Opens(w, e, S, why)
        /\ e.conv \notin Active \ S
        /\ \/ S = {} /\ Cardinality(Active) < MaxActiveTurns
           \/ S = {e.conv} /\ e.conv \in Active
           \/ Cardinality(Active) >= MaxActiveTurns /\ \E c \in Active : S = {c}
  BY <1>0
<1> DEFINE gone == {Finalized(turns[c], why) : c \in S}
<1>2. /\ turns' = Insert(Delete(turns, S), e.conv, o)
      /\ pending' = [pending EXCEPT ![w] = @ \cup gone]
      /\ nextTurn' = nextTurn + 1
      /\ UNCHANGED <<delivered, lost>>
  BY <1>1 DEF Opens, Take, historyVars
<1>3. o.conv = e.conv /\ o.id = nextTurn /\ o.seen = {e} /\ e.conv \in Conversations
  <2>1. nextTurn \in Nat \ {0} /\ now[w] \in Nat
    BY DEF IInv, TypeOK, CommonTypeOK
  <2>2. o.conv = e.conv /\ o.id = nextTurn /\ o.seen = {e}
    BY ONLY <2>1, w \in Workers, e \in Events, OpenedSound DEF Opened
  <2> QED  BY <2>2, EventsAssumption
<1>4. Closes(S, gone)
  <2>1. \A t : Finalized(t, why).turn = t
    BY DEF Finalized
  <2>2. \A f \in gone : \E c \in S : f = Finalized(turns[c], why)
    OBVIOUS
  <2>3. \A c \in S : Finalized(turns[c], why) \in gone
    OBVIOUS
  <2> HIDE DEF gone
  <2> QED  BY <2>1, <2>2, <2>3 DEF Closes
<1>5. w \in Emitters
  BY DEF Emitters
<1> HIDE DEF o, gone
<1>6. /\ OpenEntries' = [c \in (DOMAIN OpenEntries \ S) \cup {e.conv} |->
                           IF c = e.conv THEN Entry(o) ELSE OpenEntries[c]]
      /\ ClosedEntries' = ClosedEntries \cup {OpenEntries[c] : c \in S}
  <2>1. turns' = Insert(Delete(turns, S), o.conv, o) /\ Ownership
    BY <1>2, <1>3 DEF IInv
  <2>2. /\ OpenEntries' = [c \in (DOMAIN OpenEntries \ S) \cup {o.conv} |->
                             IF c = o.conv THEN Entry(o) ELSE OpenEntries[c]]
        /\ ClosedEntries' = ClosedEntries \cup {OpenEntries[c] : c \in S}
    BY ONLY <1>2, <1>4, <1>5, <2>1, OpeningEntries
  <2> QED  BY <1>3, <2>2
<1>7. DOMAIN OpenEntries = Active
  BY DEF OpenEntries
<1>8. Entry(o) = [id |-> nextTurn, key |-> e.conv, kept |-> {e}]
  BY <1>3 DEF Entry
<1>9. Ledger!Open(e.conv, e, S)
  <2>1. OpenEntries' = Ledger!With(e.conv, [id |-> nextTurn, key |-> e.conv, kept |-> {e}], S)
    BY <1>6, <1>8 DEF Ledger!With
  <2>2. \/ S = {e.conv} /\ e.conv \in DOMAIN OpenEntries
        \/ S = {} /\ e.conv \notin DOMAIN OpenEntries /\ Cardinality(DOMAIN OpenEntries) < MaxActiveTurns
        \/ /\ e.conv \notin DOMAIN OpenEntries /\ Cardinality(DOMAIN OpenEntries) >= MaxActiveTurns
           /\ \E j \in DOMAIN OpenEntries : S = {j}
    BY <1>1, <1>7
  <2> QED  BY <1>2, <1>6, <2>1, <2>2, SameCount DEF Ledger!Open
<1> QED  BY <1>1, <1>3, <1>7, <1>9 DEF Ledger!Next

\* A record that an active turn takes in is kept by its turn there;
\* one beyond its capacity changes nothing there.
LEMMA ExtendIsKeep ==
    ASSUME IInv, NEW w \in Workers, NEW e \in Events, Take(w, e), Extend(w, e)
    PROVE  Ledger!Next \/ UNCHANGED Ledger!ledgerVars
<1> DEFINE t == turns[e.conv]
           u == Add(t, e, now[w])
<1>1. /\ e.conv \in Active
      /\ turns' = [turns EXCEPT ![e.conv] = u]
      /\ UNCHANGED <<nextTurn, pending, delivered, lost>>
  BY DEF Extend, Take, historyVars
<1>2. /\ Sound(t) /\ t \in Turn /\ now[w] \in Nat /\ Len(t.events) \in Nat
      /\ e \notin t.seen /\ e.conv \in Conversations
  BY <1>1, EventsAssumption
     DEF Extend, Seen, IInv, TypeOK, CommonTypeOK, TurnsSound, Turn
<1>3. DOMAIN OpenEntries = Active /\ OpenEntries[e.conv] = Entry(t)
  BY <1>1 DEF OpenEntries
<1>4. OpenEntries' = [OpenEntries EXCEPT ![e.conv] = Entry(u)]
  <2> HIDE DEF u
  <2>1. OpenEntries' = [c \in Active' |-> Entry(turns'[c])]
    BY DEF OpenEntries, Entry
  <2> QED  BY <1>1, <2>1 DEF OpenEntries, Active
<1>5. ClosedEntries' = ClosedEntries
  BY <1>1 DEF ClosedEntries, Entry
<1>6. CASE Len(t.events) >= MaxEvents
  <2>1. Entry(u) = Entry(t)
    BY <1>2, <1>6 DEF Add, Turn, Entry
  <2>2. OpenEntries' = OpenEntries
    BY <1>3, <1>4, <2>1 DEF OpenEntries
  <2> QED  BY <1>1, <1>5, <2>2 DEF Ledger!ledgerVars
<1>7. CASE Len(t.events) < MaxEvents
  <2>1. Extends(u, t, e)
    <3>1. u = Retain(t, e, now[w])
      BY <1>2, <1>7, ConfigAssumption DEF Add
    <3> HIDE DEF u, t
    <3> QED  BY <1>2, <3>1, RetainFields
  <2> HIDE DEF u, t
  <2>2. Entry(u) = [Entry(t) EXCEPT !.kept = @ \cup {e}]
    <3>1. Entry(u) = [id |-> t.id, key |-> t.conv, kept |-> t.seen \cup {e}]
      BY <2>1 DEF Extends, Entry
    <3> QED  BY <3>1 DEF Entry
  <2>3. OpenEntries' = [OpenEntries EXCEPT ![e.conv].kept = @ \cup {e}]
    BY <1>3, <1>4, <2>2
  <2>4. Entry(t).kept = t.seen
    BY DEF Entry
  <2>5. Cardinality(t.seen) < MaxEvents
    <3>1. IsFiniteSet(t.seen)
      <4>1. t.seen = {t.events[i] : i \in 1..Len(t.events)}
        BY <1>2 DEF Sound, Consistent, Indices
      <4>2. IsFiniteSet(1..Len(t.events))
        BY <1>2, FS_Interval
      <4>3. [i \in 1..Len(t.events) |-> t.events[i]] \in Surjection(1..Len(t.events), t.seen)
        BY <4>1 DEF Surjection
      <4> QED  BY <4>2, <4>3, FS_Surjection
    <3>2. Cardinality(t.seen) \in Nat /\ Cardinality(t.seen) <= Len(t.events)
      BY <1>2, <3>1, SeenBounded, FS_CardinalityType
    <3> QED  BY <1>2, <1>7, <3>2, ConfigAssumption
  <2>6. Ledger!Keep(e.conv, e)
    <3>1. /\ e.conv \in DOMAIN OpenEntries /\ e \notin OpenEntries[e.conv].kept
          /\ Cardinality(OpenEntries[e.conv].kept) < MaxEvents
      BY <1>1, <1>2, <1>3, <2>4, <2>5
    <3> QED  BY <1>1, <1>5, <2>3, <3>1, SameCount DEF Ledger!Keep
  <2> QED  BY <1>2, <2>6 DEF Ledger!Next
<1> QED  BY <1>2, <1>6, <1>7, ConfigAssumption

\* Turns that close, by a tick or at shutdown, close in the ledger.
LEMMA ClosingIsClose ==
    ASSUME IInv, NEW p \in Emitters, NEW S, NEW F,
           Closes(S, F), pending[p] = {},
           turns' = Delete(turns, S),
           pending' = [pending EXCEPT ![p] = F],
           UNCHANGED <<nextTurn, delivered, lost>>
    PROVE  Ledger!Next
<1>1. /\ OpenEntries' = [c \in DOMAIN OpenEntries \ S |-> OpenEntries[c]]
      /\ ClosedEntries' = ClosedEntries \cup {OpenEntries[c] : c \in S}
  BY ClosingEntries DEF IInv
<1>2. S \in SUBSET DOMAIN OpenEntries
  BY DEF Closes, OpenEntries
<1>3. Ledger!Close(S)
  BY <1>1, <1>2 DEF Ledger!Close
<1> QED  BY <1>2, <1>3 DEF Ledger!Next

\* A step of the edge is one of the ledger or changes nothing there.
LEMMA LedgerStep ==
    ASSUME IInv, [Next]_vars
    PROVE  Ledger!Next \/ UNCHANGED Ledger!ledgerVars
<1>1. ASSUME UNCHANGED <<turns, nextTurn, pending, delivered, lost>>
      PROVE  UNCHANGED Ledger!ledgerVars
  BY <1>1 DEF Ledger!ledgerVars, OpenEntries, ClosedEntries, Entry, Active
<1>2. ASSUME NEW w \in Workers, Process(w)
      PROVE  Ledger!Next \/ UNCHANGED Ledger!ledgerVars
  <2>1. PICK e \in batch[w] :
          /\ Take(w, e)
          /\ \/ Drop(e)
             \/ Extend(w, e)
             \/ Supersede(w, e)
             \/ OpenTurn(Opened(w, e))
             \/ EvictAndOpen(w, Opened(w, e))
    BY <1>2 DEF Process
  <2>2. e \in Events
    BY DEF IInv, TypeOK, CommonTypeOK
  <2>3. CASE Drop(e)
    BY <1>1, <2>1, <2>3 DEF Drop, Take, turnVars, historyVars
  <2> QED  BY <2>1, <2>2, <2>3, ExtendIsKeep, OpeningIsOpen
<1>3. CASE CollectReady
  <2> DEFINE ready == {c \in Active : Ready(turns[c], ticker)}
             gone == {Finalized(turns[c], ReadyReason(turns[c], ticker)) : c \in ready}
  <2>1. /\ turns' = Delete(turns, ready)
        /\ pending' = [pending EXCEPT !["sweeper"] = gone]
        /\ UNCHANGED <<nextTurn, delivered, lost>>
    BY <1>3 DEF CollectReady, Collect, historyVars
  <2>2. pending["sweeper"] = {} /\ "sweeper" \in Emitters
    BY <1>3 DEF CollectReady, Collect, IInv, HandsEmpty, Emitters
  <2>3. Closes(ready, gone)
    <3>1. \A t, why : Finalized(t, why).turn = t
      BY DEF Finalized
    <3>2. \A f \in gone : \E c \in ready : f = Finalized(turns[c], ReadyReason(turns[c], ticker))
      OBVIOUS
    <3>3. \A c \in ready : Finalized(turns[c], ReadyReason(turns[c], ticker)) \in gone
      OBVIOUS
    <3>4. ready \subseteq Active
      OBVIOUS
    <3> HIDE DEF ready, gone
    <3> QED  BY <3>1, <3>2, <3>3, <3>4 DEF Closes
  <2> HIDE DEF ready, gone
  <2> QED  BY <2>1, <2>2, <2>3, ClosingIsClose
<1>4. CASE FlushAll
  <2> DEFINE F == {Finalized(turns[c], "shutdown") : c \in Active}
  <2>1. /\ turns' = Delete(turns, Active)
        /\ pending' = [pending EXCEPT !["host"] = F]
        /\ UNCHANGED <<nextTurn, delivered, lost>>
    BY <1>4 DEF FlushAll, historyVars
  <2>2. pending["host"] = {} /\ "host" \in Emitters
    BY <1>4 DEF FlushAll, IInv, HandsEmpty, Emitters
  <2>3. Closes(Active, F)
    <3>1. \A t : Finalized(t, "shutdown").turn = t
      BY DEF Finalized
    <3> QED  BY <3>1 DEF Closes
  <2> HIDE DEF F
  <2> QED  BY <2>1, <2>2, <2>3, ClosingIsClose
<1>5. ASSUME NEW p \in Emitters, EmitStep(p)
      PROVE  Ledger!Next
  <2>1. PICK f \in pending[p] :
          /\ pending' = [pending EXCEPT ![p] = @ \ {f}]
          /\ \/ delivered' = delivered \cup {f.turn.id} /\ lost' = lost
             \/ lost' = lost \cup {f.turn.id} /\ delivered' = delivered
    BY <1>5 DEF EmitStep, Deliver, Fail
  <2>2. UNCHANGED <<turns, nextTurn>>
    BY <1>5 DEF EmitStep, Deliver, Fail, turnVars
  <2>3. /\ Entry(f.turn) \in ClosedEntries
        /\ ClosedEntries' = ClosedEntries \ {Entry(f.turn)}
    BY <2>1, SettlingEntries DEF IInv
  <2>4. OpenEntries' = OpenEntries
    BY <2>2 DEF OpenEntries, Entry, Active
  <2>5. Entry(f.turn).id = f.turn.id
    BY DEF Entry
  <2>6. Ledger!Offer(Entry(f.turn))
    BY <2>1, <2>2, <2>3, <2>4, <2>5 DEF Ledger!Offer
  <2> QED  BY <2>3, <2>6 DEF Ledger!Next
<1>6. CASE UNCHANGED vars
  BY <1>1, <1>6 DEF vars, turnVars, historyVars
<1>7. ASSUME NEW w \in Workers, Call(w) \/ Lock(w) \/ Unlock(w) \/ Return(w)
      PROVE  UNCHANGED Ledger!ledgerVars
  BY <1>1, <1>7 DEF Call, Lock, Unlock, Return, turnVars, historyVars
<1>8. CASE \/ Tick \/ Start \/ TickerFires \/ SweepAgain \/ SweepStops
           \/ Shutdown \/ ContextExpires \/ ShutdownReturns \/ Terminated
  BY <1>1, <1>8 DEF Tick, Start, TickerFires, SweepAgain, SweepStops, Shutdown,
     ContextExpires, ShutdownReturns, Terminated, turnVars, historyVars, vars
<1> QED
  BY <1>2, <1>3, <1>4, <1>5, <1>6, <1>7, <1>8 DEF Next, CommonNext

\* Every behaviour of the edge is one of the ledger: no interleaving changes a
\* turn that has closed, closes one that is not held, or offers one twice.
THEOREM ImplementsLedger == Spec => LedgerSpec
<1>1. Init => Ledger!Init
  BY LedgerInit
<1>2. IInv /\ [Next]_vars => [Ledger!Next]_(Ledger!ledgerVars)
  BY LedgerStep
<1> QED  BY <1>1, <1>2, IInvInductive, PTL DEF Spec, LedgerSpec, Ledger!Spec
=============================================================================
