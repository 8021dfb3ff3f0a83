------------------------ MODULE CursorConnectorProofs -----------------------
(***************************************************************************)
(* The safety of the Cursor edge, for any number of callers, any records   *)
(* and any configuration Config.Validate accepts.                          *)
(***************************************************************************)
EXTENDS CursorConnector, StatefulEdgeProofs, FiniteSetTheorems

BurstSound(b) ==
    /\ b \in Burst
    /\ Len(b.events) <= MaxEvents
    /\ BurstConsistent(b)

\* add() returns a burst, of the same id and conversation.
LEMMA AddTyped ==
    ASSUME NEW b \in Burst, NEW e \in Events, NEW at \in Nat
    PROVE  /\ Add(b, e, at) \in Burst
           /\ Add(b, e, at).id = b.id /\ Add(b, e, at).conv = b.conv
<1>1. e.ts \in Nat /\ e.id \in EventIds
  BY EventsAssumption, CursorEventsAssumption
<1>2. Append(b.events, e) \in Seq(Events)
  BY DEF Burst
<1>3. Earlier(b.first, e.ts) \in Nat /\ Later(b.last, e.ts) \in Nat
  BY <1>1 DEF Burst, Earlier, Later
<1>4. b.seen \cup {e.id} \in SUBSET EventIds
  BY <1>1 DEF Burst
<1> QED  BY <1>2, <1>3, <1>4 DEF Add, Burst

\* The fields of r, the burst b after it has retained record e.
Extends(r, b, e) ==
    /\ r.id = b.id /\ r.conv = b.conv
    /\ r.first = Earlier(b.first, e.ts) /\ r.last = Later(b.last, e.ts)
    /\ r.seen = b.seen \cup {e.id}
    /\ r.events = Append(b.events, e)

\* What retaining a record makes of each field, and that the result is a burst.
LEMMA RetainFields ==
    ASSUME NEW b \in Burst, NEW e \in Events, NEW at \in Nat, Len(b.events) < MaxEvents
    PROVE  Extends(Add(b, e, at), b, e)
<1>1. ~(Len(b.events) >= MaxEvents)
  BY ConfigAssumption DEF Burst
<1> QED  BY <1>1 DEF Add, Burst, Extends

\* The records of a burst after one was appended: the old ones, then the new one.
LEMMA Appended ==
    ASSUME NEW b \in Burst, NEW r \in Burst, NEW e \in Events, Extends(r, b, e)
    PROVE  /\ Len(b.events) \in Nat
           /\ Len(r.events) = Len(b.events) + 1
           /\ 1..Len(r.events) = (1..Len(b.events)) \cup {Len(b.events) + 1}
           /\ \A i \in 1..Len(b.events) : /\ r.events[i] = b.events[i]
                                          /\ b.events[i] \in Events
           /\ r.events[Len(b.events) + 1] = e
<1>1. b.events \in Seq(Events) /\ r.events = Append(b.events, e)
  BY DEF Burst, Extends
<1> QED  BY <1>1

\* A record whose event id the burst has not seen keeps it sound.
LEMMA AddKeepsSound ==
    ASSUME NEW b, BurstSound(b), NEW e \in Events, NEW at \in Nat,
           e.conv = b.conv, e.id \notin b.seen
    PROVE  BurstSound(Add(b, e, at))
<1> DEFINE r == Add(b, e, at)
           u == [b EXCEPT !.truncated = TRUE]
<1>1. b \in Burst /\ BurstConsistent(b) /\ Len(b.events) \in Nat
  BY DEF BurstSound, Burst
<1>2. CASE Len(b.events) >= MaxEvents
  <2>1. u \in Burst /\ u.events = b.events /\ u.seen = b.seen /\ u.conv = b.conv
        /\ u.first = b.first /\ u.last = b.last
    BY <1>1 DEF Burst
  <2>2. r = u
    BY <1>2 DEF Add
  <2> HIDE DEF u, r
  <2>3. BurstSound(r)
    BY <2>1, <2>2 DEF BurstSound, BurstConsistent
  <2> QED  BY <2>3 DEF r
<1>3. CASE Len(b.events) < MaxEvents
  <2> DEFINE n == Len(b.events)
             I == 1..n
             J == 1..Len(r.events)
             z == n + 1
  <2>1. /\ r \in Burst /\ r.conv = b.conv
        /\ r.first = Earlier(b.first, e.ts) /\ r.last = Later(b.last, e.ts)
        /\ r.seen = b.seen \cup {e.id}
        /\ Len(r.events) = z /\ z <= MaxEvents
        /\ J = I \cup {z} /\ \A i \in I : i # z
        /\ \A i \in I : r.events[i] = b.events[i] /\ b.events[i] \in Events
        /\ r.events[z] = e
    <3>1. r \in Burst /\ Extends(r, b, e)
      BY <1>1, <1>3, AddTyped, RetainFields
    <3> HIDE DEF r
    <3>2. /\ Len(b.events) \in Nat
          /\ Len(r.events) = Len(b.events) + 1
          /\ 1..Len(r.events) = (1..Len(b.events)) \cup {Len(b.events) + 1}
          /\ \A i \in 1..Len(b.events) : /\ r.events[i] = b.events[i]
                                         /\ b.events[i] \in Events
          /\ r.events[Len(b.events) + 1] = e
      BY ONLY <1>1, <3>1, e \in Events, Appended
    <3> QED  BY <1>1, <1>3, <3>1, <3>2, ConfigAssumption DEF Extends
  <2>2. \A f \in Events : f.ts \in Nat
    BY EventsAssumption
  <2>3. b.first \in Nat /\ b.last \in Nat
    BY <1>1 DEF Burst
  <2>4. /\ b.seen = {b.events[i].id : i \in I}
        /\ \A i, j \in I : b.events[i].id = b.events[j].id => i = j
        /\ \A i \in I : /\ b.events[i].conv = b.conv
                        /\ b.first <= b.events[i].ts /\ b.events[i].ts <= b.last
        /\ \E i \in I : b.events[i].ts = b.first
        /\ \E i \in I : b.events[i].ts = b.last
    BY <1>1 DEF BurstConsistent
  <2> HIDE DEF n, r, I, J, z
  <2>6. r.seen = {r.events[i].id : i \in J}
    BY <2>1, <2>4
  <2>7. \A i, j \in J : r.events[i].id = r.events[j].id => i = j
    BY <2>1, <2>4
  <2>8. \A i \in J : /\ r.events[i].conv = r.conv
                     /\ r.first <= r.events[i].ts
                     /\ r.events[i].ts <= r.last
    BY <2>1, <2>2, <2>3, <2>4 DEF Earlier, Later
  <2>9. /\ \E i \in J : r.events[i].ts = r.first
        /\ \E i \in J : r.events[i].ts = r.last
    BY <2>1, <2>2, <2>3, <2>4 DEF Earlier, Later
  <2>10. BurstSound(r)
    BY <2>1, <2>6, <2>7, <2>8, <2>9 DEF BurstSound, BurstConsistent, J
  <2> QED  BY <2>10 DEF r
<1> QED  BY <1>1, <1>2, <1>3, ConfigAssumption

\* The record that opens a burst is retained by it.
LEMMA OpenedSound ==
    ASSUME NEW i \in Nat \ {0}, NEW e \in Events, NEW at \in Nat
    PROVE  LET r == Add(NewBurst(i, e, at), e, at)
           IN  BurstSound(r) /\ r.id = i /\ r.conv = e.conv /\ r.seen = {e.id}
<1> DEFINE b == NewBurst(i, e, at)
           r == Add(b, e, at)
<1>1. e.ts \in Nat /\ e.conv \in Conversations
  BY EventsAssumption
<1>2. /\ b \in Burst /\ b.events = <<>> /\ b.seen = {} /\ b.id = i /\ b.conv = e.conv
      /\ b.first = e.ts /\ b.last = e.ts
  BY <1>1 DEF NewBurst, Burst
<1>3. Len(b.events) = 0 /\ Len(b.events) < MaxEvents
  BY <1>2, ConfigAssumption
<1> HIDE DEF b
<1>4. r \in Burst /\ Extends(r, b, e)
  BY <1>2, <1>3, AddTyped, RetainFields
<1> HIDE DEF r
<1>5. /\ r \in Burst /\ r.id = b.id /\ r.conv = b.conv
      /\ r.first = Earlier(b.first, e.ts) /\ r.last = Later(b.last, e.ts)
      /\ r.seen = b.seen \cup {e.id}
      /\ Len(r.events) = Len(b.events) + 1
      /\ r.events[Len(b.events) + 1] = e
  <2>1. b \in Burst
    BY <1>2
  <2>2. Len(r.events) = Len(b.events) + 1 /\ r.events[Len(b.events) + 1] = e
    BY ONLY <2>1, <1>4, e \in Events, Appended
  <2> QED  BY <1>4, <2>2 DEF Extends
<1>6. r.first = e.ts /\ r.last = e.ts
  BY <1>1, <1>2, <1>5 DEF Earlier, Later
<1>7. /\ Len(r.events) = 1 /\ r.events[1] = e /\ 1..Len(r.events) = {1}
      /\ r.seen = {e.id} /\ r.conv = e.conv
  <2>1. Len(r.events) = 1 /\ r.events[1] = e
    BY <1>3, <1>5
  <2> QED  BY <2>1, <1>2, <1>5
<1>8. BurstConsistent(r)
  BY <1>1, <1>6, <1>7 DEF BurstConsistent
<1>9. BurstSound(r)
  BY <1>5, <1>7, <1>8, ConfigAssumption DEF BurstSound
<1> QED  BY <1>2, <1>5, <1>7, <1>9 DEF r, b

-----------------------------------------------------------------------------

\* Every burst held anywhere is sound.
BurstsSound ==
    /\ \A c \in Active : BurstSound(turns[c]) /\ turns[c].conv = c
    /\ \A p \in Emitters : \A f \in pending[p] : BurstSound(f.turn)

ActiveBounded ==
    IsFiniteSet(Active) /\ Cardinality(Active) <= MaxActiveTurns

\* The inductive invariant.
IInv == TypeOK /\ Ownership /\ HandsEmpty /\ BurstsSound /\ ActiveBounded

\* The edge starts in the invariant: it holds nothing.
LEMMA InitIInv == Init => IInv
<1> SUFFICES ASSUME Init PROVE IInv
  OBVIOUS
<1> USE DEF Init
<1>1. Active = {}
  BY DEF Active
<1>2. TypeOK
  BY <1>1, EdgeAssumption DEF TypeOK, CommonTypeOK
<1>3. Ownership
  BY InitOwnership
<1>4. HandsEmpty
  BY DEF HandsEmpty, Emitters
<1>5. BurstsSound
  BY <1>1 DEF BurstsSound
<1>6. ActiveBounded
  BY <1>1, FS_EmptySet, ConfigAssumption DEF ActiveBounded
<1> QED  BY <1>2, <1>3, <1>4, <1>5, <1>6 DEF IInv

-----------------------------------------------------------------------------
(* The steps of a worker over one record *)

\* Record e opens a burst; those of S close for the reason why.
Opens(w, e, S, why) ==
    /\ turns' = Insert(Delete(turns, S), e.conv, Opened(w, e))
    /\ pending' = [pending EXCEPT ![w] = @ \cup {Finalized(turns[c], why) : c \in S}]
    /\ nextTurn' = nextTurn + 1

\* The ways a record opens a burst are one: the bursts of S close, for one
\* reason, and there is room for the new one.
LEMMA OpeningCases ==
    ASSUME IInv, NEW w \in Workers, NEW e \in Events,
           \/ OpenTurn(Opened(w, e))
           \/ EvictAndOpen(w, Opened(w, e))
    PROVE  \E S \in SUBSET Active :
              /\ Opens(w, e, S, "evicted")
              /\ e.conv \notin Active
              /\ \/ S = {} /\ Cardinality(Active) < MaxActiveTurns
                 \/ Cardinality(Active) >= MaxActiveTurns /\ \E c \in Active : S = {c}
              /\ Cardinality((Active \ S) \cup {e.conv}) <= MaxActiveTurns
<1>1. Opened(w, e).conv = e.conv
  <2>1. nextTurn \in Nat \ {0} /\ now[w] \in Nat
    BY DEF IInv, TypeOK, CommonTypeOK
  <2> QED  BY ONLY <2>1, e \in Events, OpenedSound DEF Opened
<1>2. IsFiniteSet(Active) /\ Cardinality(Active) <= MaxActiveTurns
      /\ Cardinality(Active) \in Nat /\ DOMAIN pending = Emitters
  BY FS_CardinalityType DEF IInv, ActiveBounded, Ownership
<1>3. CASE OpenTurn(Opened(w, e))
  <2>1. e.conv \notin Active /\ Cardinality(Active) < MaxActiveTurns
    BY <1>1, <1>3 DEF OpenTurn
  <2>2. Delete(turns, {}) = [k \in DOMAIN turns |-> turns[k]]
    BY DEF Delete
  <2>3. Insert(Delete(turns, {}), e.conv, Opened(w, e)) = Insert(turns, e.conv, Opened(w, e))
    BY <2>2 DEF Insert
  <2>4. pending[w] \cup {Finalized(turns[c], "evicted") : c \in {}} = pending[w]
    OBVIOUS
  <2>5. pending' = [pending EXCEPT ![w] = @ \cup {Finalized(turns[c], "evicted") : c \in {}}]
    BY <1>3, <1>2, <2>4 DEF OpenTurn, IInv, TypeOK
  <2>6. Opens(w, e, {}, "evicted")
    BY <1>1, <1>3, <2>3, <2>5 DEF OpenTurn, Opens
  <2>7. Cardinality(Active \cup {e.conv}) = Cardinality(Active) + 1
    BY <1>2, <2>1, FS_AddElement
  <2>8. Cardinality((Active \ {}) \cup {e.conv}) <= MaxActiveTurns
    <3>1. Active \ {} = Active
      OBVIOUS
    <3> QED  BY <1>2, <2>1, <2>7, <3>1, ConfigAssumption
  <2> QED  BY <2>1, <2>6, <2>8
<1>4. CASE EvictAndOpen(w, Opened(w, e))
  <2>1. PICK c \in LeastRecent :
          /\ turns' = Insert(Delete(turns, {c}), e.conv, Opened(w, e))
          /\ pending' = [pending EXCEPT ![w] = @ \cup {Finalized(turns[c], "evicted")}]
    BY <1>1, <1>4 DEF EvictAndOpen
  <2>2. c \in Active /\ e.conv \notin Active
    BY <1>1, <1>4 DEF EvictAndOpen, LeastRecent
  <2>3. {Finalized(turns[d], "evicted") : d \in {c}} = {Finalized(turns[c], "evicted")}
    OBVIOUS
  <2>4. Opens(w, e, {c}, "evicted")
    BY <1>4, <2>1, <2>3 DEF EvictAndOpen, Opens
  <2>5. IsFiniteSet(Active \ {c}) /\ Cardinality(Active \ {c}) = Cardinality(Active) - 1
    BY <1>2, <2>2, FS_RemoveElement
  <2>6. Cardinality((Active \ {c}) \cup {e.conv}) = Cardinality(Active)
    <3>1. Cardinality((Active \ {c}) \cup {e.conv}) = Cardinality(Active \ {c}) + 1
      BY <2>2, <2>5, FS_AddElement
    <3> QED  BY <1>2, <2>5, <3>1
  <2>7. Cardinality(Active) >= MaxActiveTurns
    BY <1>1, <1>4 DEF EvictAndOpen
  <2> QED  BY <1>2, <2>2, <2>4, <2>6, <2>7
<1> QED  BY <1>3, <1>4

\* Any opening keeps the invariant.
LEMMA OpeningKeepsIInv ==
    ASSUME IInv, NEW w \in Workers, NEW e \in Events,
           pc[w] = "locked", Take(w, e),
           NEW S \in SUBSET Active, Opens(w, e, S, "evicted"),
           e.conv \notin Active \ S,
           Cardinality((Active \ S) \cup {e.conv}) <= MaxActiveTurns
    PROVE  IInv'
<1> DEFINE o == Opened(w, e)
           gone == {Finalized(turns[c], "evicted") : c \in S}
<1>1. /\ o \in Burst /\ BurstSound(o) /\ o.conv = e.conv /\ o.id = nextTurn
      /\ e.conv \in Conversations /\ w \in Emitters
  <2>1. nextTurn \in Nat \ {0} /\ now[w] \in Nat
    BY DEF IInv, TypeOK, CommonTypeOK
  <2>2. BurstSound(o) /\ o.conv = e.conv /\ o.id = nextTurn
    BY ONLY <2>1, w \in Workers, e \in Events, OpenedSound DEF Opened
  <2> QED  BY <2>2, EventsAssumption DEF BurstSound, Emitters
<1>2. /\ DOMAIN pending = Emitters
      /\ turns' = Insert(Delete(turns, S), o.conv, o)
      /\ pending' = [pending EXCEPT ![w] = @ \cup gone]
      /\ nextTurn' = nextTurn + 1
      /\ UNCHANGED <<clock, calls, mu, pc, now, ticker, sweepPc, hostPc, delivered, lost>>
  BY <1>1 DEF IInv, Ownership, Opens, Take, historyVars
<1>3. batch' \in [Workers -> SUBSET Events]
  BY DEF IInv, TypeOK, CommonTypeOK, Take
<1> HIDE DEF o
<1>4. /\ Active' = (Active \ S) \cup {e.conv}
      /\ turns' \in [Active' -> Burst]
      /\ \A c \in Active' : turns'[c] = IF c = e.conv THEN o ELSE turns[c]
  BY <1>1, <1>2 DEF IInv, TypeOK, Insert, Delete, Active
<1>5. \A f \in gone : /\ f \in [turn : Burst, reason : Reasons]
                      /\ \E c \in S : f.turn = turns[c]
  BY DEF IInv, TypeOK, Finalized, Reasons
<1>6. Ownership'
  <2>1. Closes(S, gone)
    <3>1. \A t : Finalized(t, "evicted").turn = t
      BY DEF Finalized
    <3>2. \A f \in gone : \E c \in S : f = Finalized(turns[c], "evicted")
      OBVIOUS
    <3>3. \A c \in S : Finalized(turns[c], "evicted") \in gone
      OBVIOUS
    <3> HIDE DEF gone
    <3> QED  BY <3>1, <3>2, <3>3 DEF Closes
  <2> HIDE DEF gone
  <2> QED  BY <1>1, <1>2, <2>1, OpeningKeepsOwnership DEF IInv
<1> HIDE DEF gone
<1>7. CommonTypeOK'
  BY <1>1, <1>2, <1>3, <1>4 DEF IInv, TypeOK, CommonTypeOK
<1>8. pending' \in [Emitters -> SUBSET [turn : Burst, reason : Reasons]]
  BY <1>1, <1>2, <1>5 DEF IInv, TypeOK
<1>9. TypeOK'
  BY <1>4, <1>7, <1>8 DEF TypeOK
<1>10. HandsEmpty'
  <2>1. \A p \in Emitters : p # w => pending'[p] = pending[p]
    BY <1>2
  <2>2. /\ "sweeper" \in Emitters /\ "host" \in Emitters
        /\ w # "sweeper" /\ w # "host" /\ Workers \subseteq Emitters
    BY EdgeAssumption DEF Emitters
  <2> QED  BY <1>2, <2>1, <2>2 DEF IInv, HandsEmpty
<1>11. BurstsSound'
  <2>1. \A c \in Active' : BurstSound(turns'[c]) /\ turns'[c].conv = c
    BY <1>1, <1>4 DEF IInv, BurstsSound
  <2>2. \A p \in Emitters : \A f \in pending'[p] :
          BurstSound(f.turn)
    BY <1>2, <1>5 DEF IInv, BurstsSound
  <2> QED  BY <2>1, <2>2 DEF BurstsSound
<1>12. ActiveBounded'
  <2>1. IsFiniteSet(Active \ S)
    BY FS_Subset DEF IInv, ActiveBounded
  <2>2. IsFiniteSet((Active \ S) \cup {e.conv})
    BY <2>1, FS_AddElement
  <2> QED  BY <1>4, <2>2 DEF ActiveBounded
<1> QED  BY <1>6, <1>9, <1>10, <1>11, <1>12 DEF IInv

\* A record the burst has not seen changes that burst alone.
LEMMA ExtendKeepsIInv ==
    ASSUME IInv, NEW w \in Workers, NEW e \in Events, Take(w, e), Extend(w, e)
    PROVE  IInv'
<1> DEFINE u == Add(turns[e.conv], e, now[w])
<1>1. /\ e.conv \in Active
      /\ turns' = [turns EXCEPT ![e.conv] = u]
      /\ UNCHANGED <<clock, calls, mu, pc, now, ticker, sweepPc, hostPc,
                     nextTurn, pending, delivered, lost>>
  BY DEF Extend, Take, historyVars
<1>2. /\ turns[e.conv] \in Burst /\ now[w] \in Nat
      /\ BurstSound(turns[e.conv]) /\ turns[e.conv].conv = e.conv
  BY <1>1 DEF IInv, TypeOK, CommonTypeOK, BurstsSound
<1>3. e.id \notin turns[e.conv].seen
  BY <1>1 DEF Extend, Seen
<1>4. BurstSound(u)
  BY <1>2, <1>3, AddKeepsSound
<1>5. u \in Burst /\ u.id = turns[e.conv].id /\ u.conv = e.conv
  BY <1>2, AddTyped
<1> HIDE DEF u
<1>6. /\ Active' = Active
      /\ turns' \in [Active' -> Burst]
      /\ \A c \in Active : turns'[c] = IF c = e.conv THEN u ELSE turns[c]
  BY <1>1, <1>5 DEF IInv, TypeOK, Active
<1>7. batch' \in [Workers -> SUBSET Events]
  BY DEF IInv, TypeOK, CommonTypeOK, Take
<1>8. TypeOK'
  BY <1>1, <1>6, <1>7 DEF IInv, TypeOK, CommonTypeOK
<1>9. Ownership'
  BY <1>1, <1>5, <1>6, SameOwners DEF IInv, Active
<1>10. HandsEmpty'
  BY <1>1 DEF IInv, HandsEmpty
<1>11. BurstsSound'
  BY <1>1, <1>4, <1>5, <1>6 DEF IInv, BurstsSound
<1>12. ActiveBounded'
  BY <1>6 DEF IInv, ActiveBounded
<1> QED  BY <1>8, <1>9, <1>10, <1>11, <1>12 DEF IInv

\* The loop of ConsumeLogs keeps the invariant.
LEMMA ProcessKeepsIInv ==
    ASSUME IInv, NEW w \in Workers, Process(w)
    PROVE  IInv'
<1>1. PICK e \in batch[w] :
        /\ Take(w, e)
        /\ \/ Drop(e)
           \/ Extend(w, e)
           \/ OpenTurn(Opened(w, e))
           \/ EvictAndOpen(w, Opened(w, e))
  BY DEF Process
<1>2. e \in Events /\ pc[w] = "locked"
  BY <1>1 DEF IInv, TypeOK, CommonTypeOK, Take
<1>3. CASE Drop(e)
  <2>1. UNCHANGED <<clock, calls, mu, turns, nextTurn, pending, pc, now, ticker,
                    sweepPc, hostPc, delivered, lost>>
    BY <1>1, <1>3 DEF Drop, Take, turnVars, historyVars
  <2>2. batch' \in [Workers -> SUBSET Events]
    BY <1>1 DEF IInv, TypeOK, CommonTypeOK, Take
  <2>3. TypeOK' /\ HandsEmpty' /\ BurstsSound' /\ ActiveBounded'
    BY <2>1, <2>2 DEF IInv, TypeOK, CommonTypeOK, HandsEmpty, BurstsSound, ActiveBounded, Active
  <2>4. Ownership'
    BY <2>1, SameOwners DEF IInv
  <2> QED  BY <2>3, <2>4 DEF IInv
<1>4. CASE Extend(w, e)
  BY <1>1, <1>2, <1>4, ExtendKeepsIInv
<1>5. CASE OpenTurn(Opened(w, e)) \/ EvictAndOpen(w, Opened(w, e))
  BY <1>1, <1>2, <1>5, OpeningCases, OpeningKeepsIInv
<1> QED  BY <1>1, <1>3, <1>4, <1>5

-----------------------------------------------------------------------------
(* The other steps *)

\* So does collectReady.
LEMMA CollectKeepsIInv ==
    ASSUME IInv, CollectReady
    PROVE  IInv'
<1> DEFINE ready == {c \in Active : Ready(turns[c], ticker)}
           gone == {Finalized(turns[c], ReadyReason(turns[c], ticker)) : c \in ready}
<1>1. /\ turns' = Delete(turns, ready)
      /\ pending' = [pending EXCEPT !["sweeper"] = gone]
      /\ ticker' = NoTick /\ sweepPc' = "emitting"
      /\ UNCHANGED <<clock, calls, mu, nextTurn, pc, batch, now, hostPc, delivered, lost>>
  BY DEF CollectReady, Collect, workerVars, historyVars
<1>2. /\ pending["sweeper"] = {} /\ "sweeper" \in Emitters /\ DOMAIN pending = Emitters
      /\ Workers \subseteq Emitters /\ "sweeper" \notin Workers /\ "host" \in Emitters
  BY EdgeAssumption DEF CollectReady, Collect, IInv, HandsEmpty, Emitters, Ownership
<1>3. ready \subseteq Active
  OBVIOUS
<1>4. Closes(ready, gone)
  <2>1. \A t, why : Finalized(t, why).turn = t
    BY DEF Finalized
  <2>2. \A f \in gone : \E c \in ready : f = Finalized(turns[c], ReadyReason(turns[c], ticker))
    OBVIOUS
  <2>3. \A c \in ready : Finalized(turns[c], ReadyReason(turns[c], ticker)) \in gone
    OBVIOUS
  <2> HIDE DEF ready, gone
  <2> QED  BY <1>3, <2>1, <2>2, <2>3 DEF Closes
<1>5. \A f \in gone : \E c \in ready :
        /\ f.turn = turns[c]
        /\ f \in [turn : Burst, reason : Reasons]
  BY DEF IInv, TypeOK, Finalized, ReadyReason, Reasons
<1> HIDE DEF ready, gone
<1>6. /\ Active' = Active \ ready
      /\ turns' \in [Active' -> Burst]
      /\ \A c \in Active' : turns'[c] = turns[c]
  BY <1>1 DEF IInv, TypeOK, Delete, Active
<1>7. Ownership'
  BY <1>1, <1>2, <1>3, <1>4, ClosingKeepsOwnership DEF IInv
<1>8. TypeOK'
  <2>1. pending' \in [Emitters -> SUBSET [turn : Burst, reason : Reasons]]
    BY <1>1, <1>5 DEF IInv, TypeOK
  <2> QED  BY <1>1, <1>6, <2>1 DEF IInv, TypeOK, CommonTypeOK
<1>9. HandsEmpty'
  BY <1>1, <1>2 DEF IInv, HandsEmpty
<1>10. BurstsSound'
  <2>1. \A f \in gone : BurstSound(f.turn)
    BY <1>3, <1>5 DEF IInv, BurstsSound
  <2> QED  BY <1>1, <1>2, <1>6, <2>1 DEF IInv, BurstsSound
<1>11. ActiveBounded'
  <2>1. IsFiniteSet(Active') /\ Cardinality(Active') <= Cardinality(Active)
    BY <1>6, FS_Subset DEF IInv, ActiveBounded
  <2>2. Cardinality(Active') \in Nat /\ Cardinality(Active) \in Nat
    BY <2>1, FS_CardinalityType DEF IInv, ActiveBounded
  <2> QED  BY <2>1, <2>2, ConfigAssumption DEF IInv, ActiveBounded
<1> QED  BY <1>7, <1>8, <1>9, <1>10, <1>11 DEF IInv

\* So does every step both edges share.
LEMMA CommonKeepsIInv ==
    ASSUME IInv, CommonNext
    PROVE  IInv'
<1>1. Ownership' /\ HandsEmpty' /\ CommonTypeOK'
  <2>1. DOMAIN pc = Workers
    BY DEF IInv, TypeOK, CommonTypeOK
  <2> QED
    BY <2>1, CommonStepKeepsOwnership, CommonStepKeepsHandsEmpty, CommonStepKeepsTypes
       DEF IInv, TypeOK
<1> DEFINE Rest == /\ turns \in [Active -> Burst]
                   /\ pending \in [Emitters -> SUBSET [turn : Burst, reason : Reasons]]
                   /\ BurstsSound /\ ActiveBounded
<1>2. ASSUME UNCHANGED <<turns, pending>> PROVE Rest'
  BY <1>2 DEF IInv, TypeOK, BurstsSound, ActiveBounded, Active
<1>3. ASSUME NEW p \in Emitters, EmitStep(p) PROVE Rest'
  <2>1. /\ turns' = turns
        /\ pending' \in [Emitters -> SUBSET [turn : Burst, reason : Reasons]]
        /\ \A q \in Emitters : pending'[q] \subseteq pending[q]
    BY <1>3 DEF EmitStep, Deliver, Fail, turnVars, IInv, TypeOK
  <2> QED  BY <2>1 DEF IInv, TypeOK, BurstsSound, ActiveBounded, Active
<1>4. ASSUME FlushAll PROVE Rest'
  <2>1. turns' = Delete(turns, Active) /\ Active' = {}
    BY <1>4 DEF FlushAll, Delete, Active
  <2>2. \A f \in {Finalized(turns[c], "shutdown") : c \in Active} :
          /\ f \in [turn : Burst, reason : Reasons]
          /\ BurstSound(f.turn)
    BY DEF IInv, TypeOK, BurstsSound, Finalized, Reasons
  <2>3. pending' \in [Emitters -> SUBSET [turn : Burst, reason : Reasons]]
    BY <1>4, <2>2 DEF FlushAll, IInv, TypeOK
  <2>4. \A p \in Emitters : \A f \in pending'[p] :
          f \in pending[p] \/ f \in {Finalized(turns[c], "shutdown") : c \in Active}
    BY <1>4 DEF FlushAll, IInv, TypeOK
  <2>5. BurstsSound'
    BY <2>1, <2>2, <2>4 DEF IInv, BurstsSound
  <2>6. ActiveBounded'
    BY <2>1, FS_EmptySet, ConfigAssumption DEF ActiveBounded
  <2>7. turns' \in [Active' -> Burst]
    BY <2>1 DEF Delete, Active
  <2> QED  BY <2>3, <2>5, <2>6, <2>7
<1> HIDE DEF Rest
<1>5. Rest'
  <2>1. ASSUME NEW w \in Workers, Call(w) \/ Lock(w) \/ Unlock(w) \/ Return(w)
        PROVE  Rest'
    <3>1. UNCHANGED <<turns, pending>>
      BY <2>1 DEF Call, Lock, Unlock, Return, turnVars
    <3> QED  BY <3>1, <1>2
  <2>2. CASE \/ Tick \/ Start \/ TickerFires \/ SweepAgain \/ SweepStops
             \/ Shutdown \/ ContextExpires \/ ShutdownReturns \/ Terminated
    <3>1. UNCHANGED <<turns, pending>>
      BY <2>2 DEF Tick, Start, TickerFires, SweepAgain, SweepStops, Shutdown,
         ContextExpires, ShutdownReturns, Terminated, turnVars, vars
    <3> QED  BY <3>1, <1>2
  <2> QED  BY <1>3, <1>4, <2>1, <2>2 DEF CommonNext
<1> QED  BY <1>1, <1>5 DEF IInv, TypeOK, Rest

\* The invariant of the edge: it holds at the start, and every step keeps it.
THEOREM IInvInductive == Spec => []IInv
<1>1. Init => IInv
  BY InitIInv
<1>2. IInv /\ [Next]_vars => IInv'
  <2> SUFFICES ASSUME IInv, [Next]_vars PROVE IInv'
    OBVIOUS
  <2>1. CASE CommonNext
    BY <2>1, CommonKeepsIInv
  <2>2. ASSUME NEW w \in Workers, Process(w) PROVE IInv'
    BY <2>2, ProcessKeepsIInv
  <2>3. CASE CollectReady
    BY <2>3, CollectKeepsIInv
  <2>4. CASE UNCHANGED vars
    <3>1. Ownership'
      BY <2>4, SameOwners DEF vars, turnVars, historyVars, IInv
    <3>2. TypeOK' /\ HandsEmpty' /\ BurstsSound' /\ ActiveBounded'
      BY <2>4 DEF vars, turnVars, workerVars, historyVars, IInv, TypeOK, CommonTypeOK,
         HandsEmpty, BurstsSound, ActiveBounded, Active
    <3> QED  BY <3>1, <3>2 DEF IInv
  <2> QED  BY <2>1, <2>2, <2>3, <2>4 DEF Next
<1> QED  BY <1>1, <1>2, PTL DEF Spec

-----------------------------------------------------------------------------
(* What follows *)

\* Types are right in every state.
THEOREM TypeCorrect == Spec => []TypeOK
<1>1. IInv => TypeOK
  BY DEF IInv
<1> QED  BY <1>1, IInvInductive, PTL

\* No burst reaches the downstream consumer twice.
THEOREM NeverTwice == Spec => []NoTurnTwice
<1>1. IInv => NoTurnTwice
  BY DEF IInv, Ownership
<1> QED  BY <1>1, IInvInductive, PTL

\* No burst that was opened disappears without having been offered.
THEOREM NeverForgotten == Spec => []NoTurnForgotten
<1>1. IInv => NoTurnForgotten
  BY DEF IInv, Ownership
<1> QED  BY <1>1, IInvInductive, PTL

\* The bounds of the configuration hold in every state.
THEOREM Bounded == Spec => []WithinBounds
<1>1. IInv => WithinBounds
  BY DEF IInv, ActiveBounded, BurstsSound, BurstSound, WithinBounds, HeldTurns,
     ActiveTurns, PendingTurns
<1> QED  BY <1>1, IInvInductive, PTL

\* What a burst retains is what its fields say.
THEOREM RetentionConsistent == Spec => []BurstsConsistent
<1>1. IInv => BurstsConsistent
  BY DEF IInv, BurstsSound, BurstSound, BurstsConsistent, HeldTurns, ActiveTurns, PendingTurns
<1> QED  BY <1>1, IInvInductive, PTL

\* A shutdown that returns without error leaves nothing behind.
THEOREM Drains == Spec => []ShutdownDrains
<1>1. Init => Quiescent
  BY DEF Init, Quiescent
<1>2. IInv /\ Quiescent /\ [Next]_vars => Quiescent'
  <2> SUFFICES ASSUME IInv, Quiescent, [Next]_vars PROVE Quiescent'
    OBVIOUS
  <2>1. CASE CommonNext
    <3>1. DOMAIN pc = Workers
      BY DEF IInv, TypeOK, CommonTypeOK
    <3> QED  BY <2>1, <3>1, CommonStepKeepsQuiescent
  <2>2. ASSUME NEW w \in Workers, Process(w) PROVE Quiescent'
    BY <2>2, OwnStepKeepsQuiescent DEF Process, Take
  <2>3. CASE CollectReady
    BY <2>3, OwnStepKeepsQuiescent DEF CollectReady, Collect, workerVars
  <2>4. CASE UNCHANGED vars
    BY <2>4 DEF vars, turnVars, workerVars, Quiescent, Active
  <2> QED  BY <2>1, <2>2, <2>3, <2>4 DEF Next
<1>3. IInv /\ Quiescent => ShutdownDrains
  BY QuiescentDrains DEF IInv
<1> QED  BY <1>1, <1>2, <1>3, IInvInductive, PTL DEF Spec

\* No sweep leaves behind a burst that is older than turn_timeout.
THEOREM AgeCapped == Spec => SweepCapsAge
<1> DEFINE Capped == sweepPc = "select" /\ sweepPc' = "emitting" =>
                        \A c \in DOMAIN turns' :
                            turns'[c].events[1].ts <= turns'[c].opened =>
                                ticker - turns'[c].opened < TurnTimeout
<1>1. IInv /\ [Next]_vars => [Capped]_vars
  <2> SUFFICES ASSUME IInv, Next PROVE Capped
    OBVIOUS
  <2>1. ASSUME sweepPc = "select" /\ sweepPc' = "emitting" PROVE CollectReady
    <3>1. ASSUME NEW w \in Workers, Process(w) PROVE sweepPc' = sweepPc
      BY <3>1 DEF Process, Take
    <3>2. ASSUME CommonNext PROVE FALSE
      BY <2>1, <3>2 DEF CommonNext, Call, Lock, Unlock, Return, EmitStep, Deliver, Fail,
         Tick, Start, TickerFires, SweepAgain, SweepStops, Shutdown, FlushAll,
         ContextExpires, ShutdownReturns, Terminated, vars
    <3> QED  BY <2>1, <3>1, <3>2 DEF Next
  <2> SUFFICES ASSUME CollectReady, NEW c \in DOMAIN turns',
                      turns'[c].events[1].ts <= turns'[c].opened
               PROVE  ticker - turns'[c].opened < TurnTimeout
    BY <2>1
  <2>2. c \in Active /\ turns'[c] = turns[c] /\ ~Ready(turns[c], ticker) /\ ticker \in Nat
    BY DEF CollectReady, Collect, Delete, Active, IInv, TypeOK, CommonTypeOK
  <2> DEFINE b == turns[c]
  <2>3. b \in Burst /\ BurstConsistent(b)
    BY <2>2 DEF IInv, BurstsSound, BurstSound
  <2>4. b.first \in Nat /\ b.opened \in Nat /\ Len(b.events) \in Nat /\ b.events \in Seq(Events)
    BY <2>3 DEF Burst
  <2>5. 1 \in 1..Len(b.events)
    BY <2>3, <2>4 DEF BurstConsistent
  <2>6. b.events[1].ts \in Nat
    BY <2>4, <2>5, EventsAssumption
  <2>7. b.first <= b.events[1].ts
    BY <2>3, <2>5 DEF BurstConsistent
  <2>8. ~(ticker - b.first >= TurnTimeout) /\ b.events[1].ts <= b.opened /\ turns'[c] = b
    BY <2>2 DEF Ready, TimedOut
  <2> HIDE DEF b
  <2> QED  BY <2>2, <2>4, <2>6, <2>7, <2>8, ConfigAssumption
<1> QED  BY <1>1, IInvInductive, PTL DEF Spec, SweepCapsAge

-----------------------------------------------------------------------------
(* The edge implements the ledger of turns *)

\* A burst that has room for a record has room for its event id.
LEMMA SeenBounded ==
    ASSUME NEW b, BurstSound(b)
    PROVE  Cardinality(b.seen) <= Len(b.events)
<1> DEFINE n == Len(b.events)
           f == [i \in 1..n |-> b.events[i].id]
<1>1. n \in Nat /\ b.seen = {b.events[i].id : i \in 1..n}
  BY DEF BurstSound, BurstConsistent, Burst
<1>2. f \in Surjection(1..n, b.seen)
  BY <1>1 DEF Surjection
<1>3. ExistsSurjection(1..n, b.seen)
  BY <1>2 DEF ExistsSurjection
<1> HIDE DEF n, f
<1>4. Cardinality(b.seen) <= n
  BY <1>1, <1>3, FS_SurjCardinalityBound
<1> QED  BY <1>4 DEF n

\* The ledger counts as the edge does.
LEMMA SameCount == \A S : Ledger!Cardinality(S) = Cardinality(S)
BY DEF Ledger!Cardinality, Cardinality

\* An edge that starts shows a ledger that starts.
LEMMA LedgerInit == Init => Ledger!Init
<1> SUFFICES ASSUME Init PROVE Ledger!Init
  OBVIOUS
<1>1. Active = {}
  BY DEF Init, Active
<1>2. OpenEntries = [c \in {} |-> c]
  BY <1>1 DEF OpenEntries
<1>3. ClosedEntries = {}
  BY DEF Init, ClosedEntries
<1> QED  BY <1>2, <1>3 DEF Init, Ledger!Init

\* A record that opens a burst opens a turn of the ledger.
LEMMA OpeningIsOpen ==
    ASSUME IInv, NEW w \in Workers, NEW e \in Events, Take(w, e),
           OpenTurn(Opened(w, e)) \/ EvictAndOpen(w, Opened(w, e))
    PROVE  Ledger!Next
<1> DEFINE o == Opened(w, e)
<1>1. PICK S \in SUBSET Active :
        /\ Opens(w, e, S, "evicted")
        /\ e.conv \notin Active
        /\ \/ S = {} /\ Cardinality(Active) < MaxActiveTurns
           \/ Cardinality(Active) >= MaxActiveTurns /\ \E c \in Active : S = {c}
  BY OpeningCases
<1> DEFINE gone == {Finalized(turns[c], "evicted") : c \in S}
<1>2. /\ turns' = Insert(Delete(turns, S), e.conv, o)
      /\ pending' = [pending EXCEPT ![w] = @ \cup gone]
      /\ nextTurn' = nextTurn + 1
      /\ UNCHANGED <<delivered, lost>>
  BY <1>1 DEF Opens, Take, historyVars
<1>3. o.conv = e.conv /\ o.id = nextTurn /\ o.seen = {e.id} /\ e.conv \in Conversations
  <2>1. nextTurn \in Nat \ {0} /\ now[w] \in Nat
    BY DEF IInv, TypeOK, CommonTypeOK
  <2>2. o.conv = e.conv /\ o.id = nextTurn /\ o.seen = {e.id}
    BY ONLY <2>1, w \in Workers, e \in Events, OpenedSound DEF Opened
  <2> QED  BY <2>2, EventsAssumption
<1>4. Closes(S, gone)
  <2>1. \A t : Finalized(t, "evicted").turn = t
    BY DEF Finalized
  <2>2. \A f \in gone : \E c \in S : f = Finalized(turns[c], "evicted")
    OBVIOUS
  <2>3. \A c \in S : Finalized(turns[c], "evicted") \in gone
    OBVIOUS
  <2> HIDE DEF gone
  <2> QED  BY <2>1, <2>2, <2>3 DEF Closes
<1>5. w \in Emitters
  BY DEF Emitters
<1> HIDE DEF o, gone
<1>6. /\ OpenEntries' = [c \in (DOMAIN OpenEntries \ S) \cup {e.conv} |->
                           IF c = e.conv THEN Entry(o) ELSE OpenEntries[c]]
      /\ ClosedEntries' = ClosedEntries \cup {OpenEntries[c] : c \in S}
  <2>1. turns' = Insert(Delete(turns, S), o.conv, o) /\ Ownership
    BY <1>2, <1>3 DEF IInv
  <2>2. /\ OpenEntries' = [c \in (DOMAIN OpenEntries \ S) \cup {o.conv} |->
                             IF c = o.conv THEN Entry(o) ELSE OpenEntries[c]]
        /\ ClosedEntries' = ClosedEntries \cup {OpenEntries[c] : c \in S}
    BY ONLY <1>2, <1>4, <1>5, <2>1, OpeningEntries
  <2> QED  BY <1>3, <2>2
<1>7. DOMAIN OpenEntries = Active
  BY DEF OpenEntries
<1>8. Entry(o) = [id |-> nextTurn, key |-> e.conv, kept |-> {e.id}]
  BY <1>3 DEF Entry
<1>9. Ledger!Open(e.conv, e.id, S)
  <2>1. OpenEntries' = Ledger!With(e.conv, [id |-> nextTurn, key |-> e.conv, kept |-> {e.id}], S)
    BY <1>6, <1>8 DEF Ledger!With
  <2>2. \/ S = {} /\ e.conv \notin DOMAIN OpenEntries /\ Cardinality(DOMAIN OpenEntries) < MaxActiveTurns
        \/ /\ e.conv \notin DOMAIN OpenEntries /\ Cardinality(DOMAIN OpenEntries) >= MaxActiveTurns
           /\ \E j \in DOMAIN OpenEntries : S = {j}
    BY <1>1, <1>7
  <2> QED  BY <1>2, <1>6, <2>1, <2>2, SameCount DEF Ledger!Open
<1> QED  BY <1>1, <1>3, <1>7, <1>9 DEF Ledger!Next

\* A record that an active burst takes in is kept by its turn of the ledger;
\* one beyond its capacity changes nothing there.
LEMMA ExtendIsKeep ==
    ASSUME IInv, NEW w \in Workers, NEW e \in Events, Take(w, e), Extend(w, e)
    PROVE  Ledger!Next \/ UNCHANGED Ledger!ledgerVars
<1> DEFINE b == turns[e.conv]
           u == Add(b, e, now[w])
<1>1. /\ e.conv \in Active
      /\ turns' = [turns EXCEPT ![e.conv] = u]
      /\ UNCHANGED <<nextTurn, pending, delivered, lost>>
  BY DEF Extend, Take, historyVars
<1>2. /\ BurstSound(b) /\ b \in Burst /\ now[w] \in Nat /\ Len(b.events) \in Nat
      /\ e.id \notin b.seen /\ e.conv \in Conversations
  BY <1>1, EventsAssumption
     DEF Extend, Seen, IInv, TypeOK, CommonTypeOK, BurstsSound, Burst
<1>3. DOMAIN OpenEntries = Active /\ OpenEntries[e.conv] = Entry(b)
  BY <1>1 DEF OpenEntries
<1>4. OpenEntries' = [OpenEntries EXCEPT ![e.conv] = Entry(u)]
  <2> HIDE DEF u
  <2>1. OpenEntries' = [c \in Active' |-> Entry(turns'[c])]
    BY DEF OpenEntries, Entry
  <2> QED  BY <1>1, <2>1 DEF OpenEntries, Active
<1>5. ClosedEntries' = ClosedEntries
  BY <1>1 DEF ClosedEntries, Entry
<1>6. CASE Len(b.events) >= MaxEvents
  <2>1. Entry(u) = Entry(b)
    BY <1>2, <1>6 DEF Add, Burst, Entry
  <2>2. OpenEntries' = OpenEntries
    BY <1>3, <1>4, <2>1 DEF OpenEntries
  <2> QED  BY <1>1, <1>5, <2>2 DEF Ledger!ledgerVars
<1>7. CASE Len(b.events) < MaxEvents
  <2>1. Extends(u, b, e)
    BY <1>2, <1>7, RetainFields
  <2> HIDE DEF u, b
  <2>2. Entry(u) = [Entry(b) EXCEPT !.kept = @ \cup {e.id}]
    <3>1. Entry(u) = [id |-> b.id, key |-> b.conv, kept |-> b.seen \cup {e.id}]
      BY <2>1 DEF Extends, Entry
    <3> QED  BY <3>1 DEF Entry
  <2>3. OpenEntries' = [OpenEntries EXCEPT ![e.conv].kept = @ \cup {e.id}]
    BY <1>3, <1>4, <2>2
  <2>4. Entry(b).kept = b.seen
    BY DEF Entry
  <2>5. Cardinality(b.seen) < MaxEvents
    <3>1. IsFiniteSet(b.seen)
      <4>1. b.seen = {b.events[i].id : i \in 1..Len(b.events)}
        BY <1>2 DEF BurstSound, BurstConsistent
      <4>2. IsFiniteSet(1..Len(b.events))
        BY <1>2, FS_Interval
      <4>3. [i \in 1..Len(b.events) |-> b.events[i].id] \in Surjection(1..Len(b.events), b.seen)
        BY <4>1 DEF Surjection
      <4> QED  BY <4>2, <4>3, FS_Surjection
    <3>2. Cardinality(b.seen) \in Nat /\ Cardinality(b.seen) <= Len(b.events)
      BY <1>2, <3>1, SeenBounded, FS_CardinalityType
    <3> QED  BY <1>2, <1>7, <3>2, ConfigAssumption
  <2>6. Ledger!Keep(e.conv, e.id)
    <3>1. /\ e.conv \in DOMAIN OpenEntries /\ e.id \notin OpenEntries[e.conv].kept
          /\ Cardinality(OpenEntries[e.conv].kept) < MaxEvents
      BY <1>1, <1>2, <1>3, <2>4, <2>5
    <3> QED  BY <1>1, <1>5, <2>3, <3>1, SameCount DEF Ledger!Keep
  <2> QED  BY <1>2, <2>6 DEF Ledger!Next
<1> QED  BY <1>2, <1>6, <1>7, ConfigAssumption

\* Bursts that close, by a tick or at shutdown, are turns that close.
LEMMA ClosingIsClose ==
    ASSUME IInv, NEW p \in Emitters, NEW S, NEW F,
           Closes(S, F), pending[p] = {},
           turns' = Delete(turns, S),
           pending' = [pending EXCEPT ![p] = F],
           UNCHANGED <<nextTurn, delivered, lost>>
    PROVE  Ledger!Next
<1>1. /\ OpenEntries' = [c \in DOMAIN OpenEntries \ S |-> OpenEntries[c]]
      /\ ClosedEntries' = ClosedEntries \cup {OpenEntries[c] : c \in S}
  BY ClosingEntries DEF IInv
<1>2. S \in SUBSET DOMAIN OpenEntries
  BY DEF Closes, OpenEntries
<1>3. Ledger!Close(S)
  BY <1>1, <1>2 DEF Ledger!Close
<1> QED  BY <1>2, <1>3 DEF Ledger!Next

\* A step of the edge is one of the ledger or changes nothing there.
LEMMA LedgerStep ==
    ASSUME IInv, [Next]_vars
    PROVE  Ledger!Next \/ UNCHANGED Ledger!ledgerVars
<1>1. ASSUME UNCHANGED <<turns, nextTurn, pending, delivered, lost>>
      PROVE  UNCHANGED Ledger!ledgerVars
  BY <1>1 DEF Ledger!ledgerVars, OpenEntries, ClosedEntries, Entry, Active
<1>2. ASSUME NEW w \in Workers, Process(w)
      PROVE  Ledger!Next \/ UNCHANGED Ledger!ledgerVars
  <2>1. PICK e \in batch[w] :
          /\ Take(w, e)
          /\ \/ Drop(e)
             \/ Extend(w, e)
             \/ OpenTurn(Opened(w, e))
             \/ EvictAndOpen(w, Opened(w, e))
    BY <1>2 DEF Process
  <2>2. e \in Events
    BY DEF IInv, TypeOK, CommonTypeOK
  <2>3. CASE Drop(e)
    BY <1>1, <2>1, <2>3 DEF Drop, Take, turnVars, historyVars
  <2> QED  BY <2>1, <2>2, <2>3, ExtendIsKeep, OpeningIsOpen
<1>3. CASE CollectReady
  <2> DEFINE ready == {c \in Active : Ready(turns[c], ticker)}
             gone == {Finalized(turns[c], ReadyReason(turns[c], ticker)) : c \in ready}
  <2>1. /\ turns' = Delete(turns, ready)
        /\ pending' = [pending EXCEPT !["sweeper"] = gone]
        /\ UNCHANGED <<nextTurn, delivered, lost>>
    BY <1>3 DEF CollectReady, Collect, historyVars
  <2>2. pending["sweeper"] = {} /\ "sweeper" \in Emitters
    BY <1>3 DEF CollectReady, Collect, IInv, HandsEmpty, Emitters
  <2>3. Closes(ready, gone)
    <3>1. \A t, why : Finalized(t, why).turn = t
      BY DEF Finalized
    <3>2. \A f \in gone : \E c \in ready : f = Finalized(turns[c], ReadyReason(turns[c], ticker))
      OBVIOUS
    <3>3. \A c \in ready : Finalized(turns[c], ReadyReason(turns[c], ticker)) \in gone
      OBVIOUS
    <3>4. ready \subseteq Active
      OBVIOUS
    <3> HIDE DEF ready, gone
    <3> QED  BY <3>1, <3>2, <3>3, <3>4 DEF Closes
  <2> HIDE DEF ready, gone
  <2> QED  BY <2>1, <2>2, <2>3, ClosingIsClose
<1>4. CASE FlushAll
  <2> DEFINE F == {Finalized(turns[c], "shutdown") : c \in Active}
  <2>1. /\ turns' = Delete(turns, Active)
        /\ pending' = [pending EXCEPT !["host"] = F]
        /\ UNCHANGED <<nextTurn, delivered, lost>>
    BY <1>4 DEF FlushAll, historyVars
  <2>2. pending["host"] = {} /\ "host" \in Emitters
    BY <1>4 DEF FlushAll, IInv, HandsEmpty, Emitters
  <2>3. Closes(Active, F)
    <3>1. \A t : Finalized(t, "shutdown").turn = t
      BY DEF Finalized
    <3> QED  BY <3>1 DEF Closes
  <2> HIDE DEF F
  <2> QED  BY <2>1, <2>2, <2>3, ClosingIsClose
<1>5. ASSUME NEW p \in Emitters, EmitStep(p)
      PROVE  Ledger!Next
  <2>1. PICK f \in pending[p] :
          /\ pending' = [pending EXCEPT ![p] = @ \ {f}]
          /\ \/ delivered' = delivered \cup {f.turn.id} /\ lost' = lost
             \/ lost' = lost \cup {f.turn.id} /\ delivered' = delivered
    BY <1>5 DEF EmitStep, Deliver, Fail
  <2>2. UNCHANGED <<turns, nextTurn>>
    BY <1>5 DEF EmitStep, Deliver, Fail, turnVars
  <2>3. /\ Entry(f.turn) \in ClosedEntries
        /\ ClosedEntries' = ClosedEntries \ {Entry(f.turn)}
    BY <2>1, SettlingEntries DEF IInv
  <2>4. OpenEntries' = OpenEntries
    BY <2>2 DEF OpenEntries, Entry, Active
  <2>5. Entry(f.turn).id = f.turn.id
    BY DEF Entry
  <2>6. Ledger!Offer(Entry(f.turn))
    BY <2>1, <2>2, <2>3, <2>4, <2>5 DEF Ledger!Offer
  <2> QED  BY <2>3, <2>6 DEF Ledger!Next
<1>6. CASE UNCHANGED vars
  BY <1>1, <1>6 DEF vars, turnVars, historyVars
<1>7. ASSUME NEW w \in Workers, Call(w) \/ Lock(w) \/ Unlock(w) \/ Return(w)
      PROVE  UNCHANGED Ledger!ledgerVars
  BY <1>1, <1>7 DEF Call, Lock, Unlock, Return, turnVars, historyVars
<1>8. CASE \/ Tick \/ Start \/ TickerFires \/ SweepAgain \/ SweepStops
           \/ Shutdown \/ ContextExpires \/ ShutdownReturns \/ Terminated
  BY <1>1, <1>8 DEF Tick, Start, TickerFires, SweepAgain, SweepStops, Shutdown,
     ContextExpires, ShutdownReturns, Terminated, turnVars, historyVars, vars
<1> QED
  BY <1>2, <1>3, <1>4, <1>5, <1>6, <1>7, <1>8 DEF Next, CommonNext

\* Every behaviour of the edge is one of the ledger: no interleaving changes a
\* burst that has closed, closes one that is not held, or offers one twice.
THEOREM ImplementsLedger == Spec => LedgerSpec
<1>1. Init => Ledger!Init
  BY LedgerInit
<1>2. IInv /\ [Next]_vars => [Ledger!Next]_(Ledger!ledgerVars)
  BY LedgerStep
<1> QED  BY <1>1, <1>2, IInvInductive, PTL DEF Spec, LedgerSpec, Ledger!Spec
=============================================================================
