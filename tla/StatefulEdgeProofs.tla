------------------------- MODULE StatefulEdgeProofs -------------------------
(***************************************************************************)
(* Facts about StatefulEdge that hold for either edge, whatever it keeps   *)
(* in a turn: who owns a turn.  Every step of an edge has one of five      *)
(* effects on the owners of turns, and there is one lemma for each.        *)
(***************************************************************************)
EXTENDS StatefulEdge, TLAPS

\* The ids handed out are those below nextTurn.
IdsInRange ==
    /\ nextTurn \in Nat \ {0}
    /\ \A c \in Active : turns[c].id \in 1..(nextTurn - 1)
    /\ \A p \in Emitters : \A f \in pending[p] : f.turn.id \in 1..(nextTurn - 1)
    /\ Settled \subseteq 1..(nextTurn - 1)

Ownership ==
    /\ DOMAIN pending = Emitters
    /\ IdsInRange
    /\ NoTurnTwice
    /\ NoTurnForgotten

\* At the start no turn has been opened, and none has an owner.
LEMMA InitOwnership == Init => Ownership
BY DEF Init, Ownership, IdsInRange, NoTurnTwice, NoTurnForgotten, Active, Settled

\* A step that opens, closes and delivers nothing: turns may change, but
\* keep their conversations and their ids.
LEMMA SameOwners ==
    ASSUME Ownership,
           DOMAIN turns' = DOMAIN turns,
           \A c \in DOMAIN turns : turns'[c].id = turns[c].id,
           UNCHANGED <<nextTurn, pending, delivered, lost>>
    PROVE  Ownership'
BY DEF Ownership, IdsInRange, NoTurnTwice, NoTurnForgotten, Active, Settled

\* F is the set S of active turns, each closed for one reason.
Closes(S, F) ==
    /\ S \subseteq Active
    /\ \A f \in F : \E c \in S : f.turn = turns[c]
    /\ \A c \in S : \E f \in F : f.turn = turns[c]
    /\ \A f, g \in F : f.turn = g.turn => f = g

\* Turn t opens with the next id; the turns of S, none or one, close as F
\* and go to p.
LEMMA OpeningKeepsOwnership ==
    ASSUME Ownership, NEW p \in Emitters, NEW t, NEW S, NEW F,
           Closes(S, F),
           t.id = nextTurn,
           t.conv \notin Active \ S,
           turns' = Insert(Delete(turns, S), t.conv, t),
           pending' = [pending EXCEPT ![p] = @ \cup F],
           nextTurn' = nextTurn + 1,
           UNCHANGED <<delivered, lost>>
    PROVE  Ownership'
<1> USE DEF Closes
<1>1. /\ Active' = (Active \ S) \cup {t.conv}
      /\ \A c \in Active' : turns'[c] = IF c = t.conv THEN t ELSE turns[c]
  BY DEF Insert, Delete, Active
<1>2. /\ DOMAIN pending' = Emitters
      /\ \A q \in Emitters : pending'[q] = IF q = p THEN pending[p] \cup F ELSE pending[q]
  BY DEF Ownership
<1>3. \A q \in Emitters : \A f \in pending'[q] :
         f \in pending[q] \/ (q = p /\ f \in F /\ \E c \in S : f.turn = turns[c])
  BY <1>2
<1>4. IdsInRange'
  <2>1. \A c \in Active' : turns'[c].id \in 1..(nextTurn' - 1)
    BY <1>1 DEF Ownership, IdsInRange
  <2>2. \A q \in Emitters : \A f \in pending'[q] : f.turn.id \in 1..(nextTurn' - 1)
    BY <1>3 DEF Ownership, IdsInRange
  <2> QED  BY <2>1, <2>2 DEF Ownership, IdsInRange, Settled
<1>5. NoTurnTwice'
  <2>1. \A c, d \in Active' : turns'[c].id = turns'[d].id => c = d
    BY <1>1 DEF Ownership, IdsInRange, NoTurnTwice
  <2>2. \A q, r \in Emitters : \A f \in pending'[q], g \in pending'[r] :
           f.turn.id = g.turn.id => q = r /\ f = g
    BY <1>3 DEF Ownership, NoTurnTwice
  <2>3. \A q \in Emitters : \A f \in pending'[q] :
           /\ f.turn.id \notin Settled'
           /\ \A c \in Active' : turns'[c].id # f.turn.id
    BY <1>1, <1>3 DEF Ownership, IdsInRange, NoTurnTwice, Settled
  <2>4. \A c \in Active' : turns'[c].id \notin Settled'
    BY <1>1 DEF Ownership, IdsInRange, NoTurnTwice, Settled
  <2> QED  BY <2>1, <2>2, <2>3, <2>4 DEF Ownership, NoTurnTwice
<1>6. NoTurnForgotten'
  <2> SUFFICES ASSUME NEW i \in 1..(nextTurn' - 1), i \notin Settled',
                      ~ \E c \in Active' : turns'[c].id = i
               PROVE  \E q \in Emitters : \E f \in pending'[q] : f.turn.id = i
    BY DEF NoTurnForgotten
  <2>1. i \in 1..(nextTurn - 1)
    BY <1>1 DEF Ownership, IdsInRange
  <2>2. CASE \E c \in Active : turns[c].id = i
    <3>1. PICK c \in Active : turns[c].id = i
      BY <2>2
    <3>2. c \in S
      BY <1>1, <3>1
    <3> QED  BY <1>2, <3>1, <3>2
  <2>3. CASE ~ \E c \in Active : turns[c].id = i
    BY <1>2, <2>1, <2>3 DEF Ownership, NoTurnForgotten, Settled
  <2> QED  BY <2>2, <2>3
<1> QED  BY <1>2, <1>4, <1>5, <1>6 DEF Ownership

\* The turns of S close as F and go to p, which has none in hand.
LEMMA ClosingKeepsOwnership ==
    ASSUME Ownership, NEW p \in Emitters, NEW S, NEW F,
           Closes(S, F),
           pending[p] = {},
           turns' = Delete(turns, S),
           pending' = [pending EXCEPT ![p] = F],
           UNCHANGED <<nextTurn, delivered, lost>>
    PROVE  Ownership'
<1> USE DEF Closes
<1>1. /\ Active' = Active \ S
      /\ \A c \in Active' : turns'[c] = turns[c]
  BY DEF Delete, Active
<1>2. /\ DOMAIN pending' = Emitters
      /\ \A q \in Emitters : pending'[q] = IF q = p THEN F ELSE pending[q]
  BY DEF Ownership
<1>3. \A q \in Emitters : \A f \in pending'[q] :
         \/ q # p /\ f \in pending[q]
         \/ q = p /\ f \in F /\ \E c \in S : f.turn = turns[c]
  BY <1>2
<1>4. IdsInRange'
  <2>1. \A q \in Emitters : \A f \in pending'[q] : f.turn.id \in 1..(nextTurn - 1)
    BY <1>3 DEF Ownership, IdsInRange
  <2> QED  BY <1>1, <2>1 DEF Ownership, IdsInRange, Settled
<1>5. NoTurnTwice'
  <2>1. \A c, d \in Active' : turns'[c].id = turns'[d].id => c = d
    BY <1>1 DEF Ownership, NoTurnTwice
  <2>2. \A q, r \in Emitters : \A f \in pending'[q], g \in pending'[r] :
           f.turn.id = g.turn.id => q = r /\ f = g
    BY <1>3 DEF Ownership, NoTurnTwice
  <2>3. \A q \in Emitters : \A f \in pending'[q] :
           /\ f.turn.id \notin Settled
           /\ \A c \in Active' : turns'[c].id # f.turn.id
    BY <1>1, <1>3 DEF Ownership, NoTurnTwice
  <2>4. \A c \in Active' : turns'[c].id \notin Settled
    BY <1>1 DEF Ownership, NoTurnTwice
  <2> QED  BY <2>1, <2>2, <2>3, <2>4 DEF Ownership, NoTurnTwice, Settled
<1>6. NoTurnForgotten'
  <2> SUFFICES ASSUME NEW i \in 1..(nextTurn - 1), i \notin Settled,
                      ~ \E c \in Active' : turns'[c].id = i
               PROVE  \E q \in Emitters : \E f \in pending'[q] : f.turn.id = i
    BY DEF NoTurnForgotten, Settled
  <2>1. CASE \E c \in Active : turns[c].id = i
    BY <1>1, <1>2, <2>1
  <2>2. CASE ~ \E c \in Active : turns[c].id = i
    BY <1>2, <2>2 DEF Ownership, NoTurnForgotten
  <2> QED  BY <2>1, <2>2
<1> QED  BY <1>2, <1>4, <1>5, <1>6 DEF Ownership

\* The closed turn f of p is offered downstream.
LEMMA SettlingKeepsOwnership ==
    ASSUME Ownership, NEW p \in Emitters, NEW f \in pending[p],
           pending' = [pending EXCEPT ![p] = @ \ {f}],
           \/ delivered' = delivered \cup {f.turn.id} /\ lost' = lost
           \/ lost' = lost \cup {f.turn.id} /\ delivered' = delivered,
           UNCHANGED <<turns, nextTurn>>
    PROVE  Ownership'
<1>1. /\ DOMAIN pending' = Emitters
      /\ \A q \in Emitters :
           pending'[q] = IF q = p THEN pending[p] \ {f} ELSE pending[q]
  BY DEF Ownership
<1>2. /\ Settled' = Settled \cup {f.turn.id}
      /\ Active' = Active
  BY DEF Settled, Active
<1>3. IdsInRange'
  BY <1>1, <1>2 DEF Ownership, IdsInRange
<1>4. NoTurnTwice'
  <2>1. f.turn.id \notin Settled
    BY DEF Ownership, NoTurnTwice
  <2>2. delivered' \cap lost' = {}
    BY <2>1 DEF Ownership, NoTurnTwice, Settled
  <2>3. \A q \in Emitters : \A g \in pending'[q] : g \in pending[q] /\ g.turn.id # f.turn.id
    BY <1>1 DEF Ownership, NoTurnTwice
  <2>4. \A c \in Active : turns[c].id \notin Settled'
    BY <1>2 DEF Ownership, NoTurnTwice
  <2> QED  BY <1>2, <2>2, <2>3, <2>4 DEF Ownership, NoTurnTwice
<1>5. NoTurnForgotten'
  BY <1>1, <1>2 DEF Ownership, NoTurnForgotten
<1> QED  BY <1>1, <1>3, <1>4, <1>5 DEF Ownership

-----------------------------------------------------------------------------

\* A goroutine holds closed turns only on its way to deliver them, and a
\* worker is in the loop over its records exactly while it holds the mutex.
HandsEmpty ==
    /\ sweepPc # "emitting" => pending["sweeper"] = {}
    /\ hostPc # "flushing" => pending["host"] = {}
    /\ \A w \in Workers : pc[w] \in {"idle", "waiting"} => pending[w] = {}

\* Every step the two edges share keeps the owners of turns straight.
LEMMA CommonStepKeepsOwnership ==
    ASSUME Ownership, HandsEmpty, CommonNext
    PROVE  Ownership'
<1>1. ASSUME UNCHANGED <<turns, nextTurn, pending, delivered, lost>>
      PROVE  Ownership'
  BY <1>1, SameOwners DEF Active
<1>2. ASSUME NEW p \in Emitters, EmitStep(p)
      PROVE  Ownership'
  <2>1. PICK f \in pending[p] :
          /\ pending' = [pending EXCEPT ![p] = @ \ {f}]
          /\ \/ delivered' = delivered \cup {f.turn.id} /\ lost' = lost
             \/ lost' = lost \cup {f.turn.id} /\ delivered' = delivered
    BY <1>2 DEF EmitStep, Deliver, Fail
  <2>2. UNCHANGED <<turns, nextTurn>>
    BY <1>2 DEF EmitStep, Deliver, Fail, turnVars
  <2> QED  BY <2>1, <2>2, SettlingKeepsOwnership
<1>3. CASE FlushAll
  <2> DEFINE F == {Finalized(turns[c], "shutdown") : c \in Active}
  <2>1. pending' = [pending EXCEPT !["host"] = F]
    BY <1>3 DEF FlushAll
  <2>2. turns' = Delete(turns, Active) /\ UNCHANGED <<nextTurn, delivered, lost>>
    BY <1>3 DEF FlushAll, historyVars
  <2>3. pending["host"] = {} /\ "host" \in Emitters
    BY <1>3 DEF FlushAll, HandsEmpty, Emitters
  <2>4. Closes(Active, F)
    <3>1. \A t : Finalized(t, "shutdown").turn = t
      BY DEF Finalized
    <3> QED  BY <3>1 DEF Closes
  <2> HIDE DEF F
  <2> QED  BY <2>1, <2>2, <2>3, <2>4, ClosingKeepsOwnership
<1> QED
  BY <1>1, <1>2, <1>3 DEF CommonNext, Call, Lock, Unlock, Return, Tick, Start,
     TickerFires, SweepAgain, SweepStops, Shutdown, ContextExpires,
     ShutdownReturns, Terminated, turnVars, historyVars, vars

\* A goroutine that is not delivering holds no closed turn, whatever step is taken.
LEMMA CommonStepKeepsHandsEmpty ==
    ASSUME Ownership, HandsEmpty, DOMAIN pc = Workers, CommonNext
    PROVE  HandsEmpty'
<1> USE DEF HandsEmpty
<1>1. ASSUME NEW w \in Workers, Call(w) \/ Lock(w) \/ Unlock(w) \/ Return(w)
      PROVE  HandsEmpty'
  BY <1>1 DEF Call, Lock, Unlock, Return, turnVars, historyVars
<1>2. ASSUME NEW p \in Emitters, EmitStep(p)
      PROVE  HandsEmpty'
  <2>1. /\ UNCHANGED <<pc, sweepPc, hostPc>>
        /\ \A q \in Emitters : pending'[q] \subseteq pending[q]
    BY <1>2 DEF EmitStep, Deliver, Fail, Ownership, workerVars
  <2> QED  BY <2>1 DEF Emitters
<1>3. CASE FlushAll
  <2>1. \A q \in Emitters : q # "host" => pending'[q] = pending[q]
    BY <1>3 DEF FlushAll, Ownership
  <2>2. Workers \subseteq Emitters \ {"host"} /\ "sweeper" \in Emitters
    BY EdgeAssumption DEF Emitters
  <2> QED  BY <1>3, <2>1, <2>2 DEF FlushAll, workerVars
<1>4. CASE \/ Tick \/ Start \/ TickerFires \/ SweepAgain \/ SweepStops
           \/ Shutdown \/ ContextExpires \/ ShutdownReturns \/ Terminated
  BY <1>4 DEF Tick, Start, TickerFires, SweepAgain, SweepStops, Shutdown,
     ContextExpires, ShutdownReturns, Terminated, workerVars, vars
<1> QED  BY <1>1, <1>2, <1>3, <1>4 DEF CommonNext

\* The steps of both edges keep the types of the variables of both.
LEMMA CommonStepKeepsTypes ==
    ASSUME Ownership, CommonTypeOK, CommonNext
    PROVE  CommonTypeOK'
<1> USE DEF CommonTypeOK, turnVars, workerVars, historyVars, Active
<1>1. ASSUME NEW w \in Workers, Call(w)
      PROVE  CommonTypeOK'
  <2>1. batch' \in [Workers -> SUBSET Events]
    BY <1>1, EdgeAssumption DEF Call
  <2> QED  BY <1>1, <2>1 DEF Call
<1>2. ASSUME NEW w \in Workers, Lock(w)
      PROVE  CommonTypeOK'
  BY <1>2, EdgeAssumption DEF Lock
<1>3. ASSUME NEW w \in Workers, Unlock(w)
      PROVE  CommonTypeOK'
  BY <1>3, EdgeAssumption DEF Unlock
<1>4. ASSUME NEW w \in Workers, Return(w)
      PROVE  CommonTypeOK'
  BY <1>4, EdgeAssumption DEF Return
<1>5. ASSUME NEW p \in Emitters, EmitStep(p)
      PROVE  CommonTypeOK'
  <2>1. \A f \in pending[p] : f.turn.id \in Nat
    BY DEF Ownership, IdsInRange
  <2> QED  BY <1>5, <2>1 DEF EmitStep, Deliver, Fail
<1>6. CASE Tick
  BY <1>6 DEF Tick
<1>7. CASE TickerFires
  BY <1>7 DEF TickerFires
<1>8. CASE Start \/ SweepAgain \/ SweepStops
  BY <1>8 DEF Start, SweepAgain, SweepStops
<1>9. CASE FlushAll
  BY <1>9 DEF FlushAll, Delete
<1>10. CASE Shutdown \/ ContextExpires \/ ShutdownReturns \/ Terminated
  BY <1>10 DEF Shutdown, ContextExpires, ShutdownReturns, Terminated, vars
<1> QED
  BY <1>1, <1>2, <1>3, <1>4, <1>5, <1>6, <1>7, <1>8, <1>9, <1>10 DEF CommonNext

-----------------------------------------------------------------------------
(* What each effect is to the ledger of turns *)

\* Turn t opens and the turns of S close as F.
LEMMA OpeningEntries ==
    ASSUME Ownership, NEW p \in Emitters, NEW t, NEW S, NEW F,
           Closes(S, F),
           turns' = Insert(Delete(turns, S), t.conv, t),
           pending' = [pending EXCEPT ![p] = @ \cup F]
    PROVE  /\ OpenEntries' = [c \in (DOMAIN OpenEntries \ S) \cup {t.conv} |->
                                IF c = t.conv THEN Entry(t) ELSE OpenEntries[c]]
           /\ ClosedEntries' = ClosedEntries \cup {OpenEntries[c] : c \in S}
<1>1. /\ Active' = (Active \ S) \cup {t.conv}
      /\ \A c \in Active' : turns'[c] = IF c = t.conv THEN t ELSE turns[c]
  BY DEF Insert, Delete, Active
<1>2. /\ DOMAIN OpenEntries = Active
      /\ \A c \in Active : OpenEntries[c] = Entry(turns[c])
  BY DEF OpenEntries
<1>3. OpenEntries' = [c \in Active' |-> Entry(turns'[c])]
  BY DEF OpenEntries, Entry
<1>4. OpenEntries' = [c \in (DOMAIN OpenEntries \ S) \cup {t.conv} |->
                        IF c = t.conv THEN Entry(t) ELSE OpenEntries[c]]
  BY <1>1, <1>2, <1>3
<1>5. \A q \in Emitters : pending'[q] = IF q = p THEN pending[p] \cup F ELSE pending[q]
  BY DEF Ownership
<1>6. {Entry(f.turn) : f \in F} = {OpenEntries[c] : c \in S}
  <2>1. \A f \in F : \E c \in S : Entry(f.turn) = OpenEntries[c]
    BY <1>2 DEF Closes
  <2>2. \A c \in S : \E f \in F : Entry(f.turn) = OpenEntries[c]
    BY <1>2 DEF Closes
  <2> QED  BY <2>1, <2>2
<1>7. ClosedEntries' = UNION {{Entry(f.turn) : f \in pending'[q]} : q \in Emitters}
  BY DEF ClosedEntries, Entry
<1>8. ClosedEntries' = ClosedEntries \cup {Entry(f.turn) : f \in F}
  <2>1. \A x : x \in ClosedEntries' <=>
                 \E q \in Emitters : \E f \in pending'[q] : x = Entry(f.turn)
    BY <1>7
  <2>2. \A x : x \in ClosedEntries <=>
                 \E q \in Emitters : \E f \in pending[q] : x = Entry(f.turn)
    BY DEF ClosedEntries
  <2> QED  BY <1>5, <2>1, <2>2
<1> QED  BY <1>4, <1>6, <1>8

\* The turns of S close as F.
LEMMA ClosingEntries ==
    ASSUME Ownership, NEW p \in Emitters, NEW S, NEW F,
           Closes(S, F),
           pending[p] = {},
           turns' = Delete(turns, S),
           pending' = [pending EXCEPT ![p] = F]
    PROVE  /\ OpenEntries' = [c \in DOMAIN OpenEntries \ S |-> OpenEntries[c]]
           /\ ClosedEntries' = ClosedEntries \cup {OpenEntries[c] : c \in S}
<1>1. /\ Active' = Active \ S
      /\ \A c \in Active' : turns'[c] = turns[c]
  BY DEF Delete, Active
<1>2. /\ DOMAIN OpenEntries = Active
      /\ \A c \in Active : OpenEntries[c] = Entry(turns[c])
  BY DEF OpenEntries
<1>3. OpenEntries' = [c \in Active' |-> Entry(turns'[c])]
  BY DEF OpenEntries, Entry
<1>4. OpenEntries' = [c \in DOMAIN OpenEntries \ S |-> OpenEntries[c]]
  BY <1>1, <1>2, <1>3
<1>5. \A q \in Emitters : pending'[q] = IF q = p THEN F ELSE pending[q]
  BY DEF Ownership
<1>6. {Entry(f.turn) : f \in F} = {OpenEntries[c] : c \in S}
  <2>1. \A f \in F : \E c \in S : Entry(f.turn) = OpenEntries[c]
    BY <1>2 DEF Closes
  <2>2. \A c \in S : \E f \in F : Entry(f.turn) = OpenEntries[c]
    BY <1>2 DEF Closes
  <2> QED  BY <2>1, <2>2
<1>7. ClosedEntries' = ClosedEntries \cup {Entry(f.turn) : f \in F}
  <2>1. \A x : x \in ClosedEntries' <=>
                 \E q \in Emitters : \E f \in pending'[q] : x = Entry(f.turn)
    BY DEF ClosedEntries, Entry
  <2>2. \A x : x \in ClosedEntries <=>
                 \E q \in Emitters : \E f \in pending[q] : x = Entry(f.turn)
    BY DEF ClosedEntries
  <2> QED  BY <1>5, <2>1, <2>2
<1> QED  BY <1>4, <1>6, <1>7

\* The closed turn f is offered: it leaves the closed ones, and no other does.
LEMMA SettlingEntries ==
    ASSUME Ownership, NEW p \in Emitters, NEW f \in pending[p],
           pending' = [pending EXCEPT ![p] = @ \ {f}]
    PROVE  /\ Entry(f.turn) \in ClosedEntries
           /\ ClosedEntries' = ClosedEntries \ {Entry(f.turn)}
<1>1. \A q \in Emitters : pending'[q] = IF q = p THEN pending[p] \ {f} ELSE pending[q]
  BY DEF Ownership
<1>2. \A q \in Emitters : \A g \in pending[q] :
        Entry(g.turn) = Entry(f.turn) => q = p /\ g = f
  BY DEF Ownership, NoTurnTwice, Entry
<1>3. \A x : x \in ClosedEntries' <=>
               \E q \in Emitters : \E g \in pending'[q] : x = Entry(g.turn)
  BY DEF ClosedEntries, Entry
<1>4. \A x : x \in ClosedEntries <=>
               \E q \in Emitters : \E g \in pending[q] : x = Entry(g.turn)
  BY DEF ClosedEntries
<1> QED  BY <1>1, <1>2, <1>3, <1>4

-----------------------------------------------------------------------------
(* Shutdown *)

\* Once callers are stopped before it, nobody adds to what flushAll found, and
\* the sweeper has left before flushAll runs.
Quiescent ==
    UpstreamStopsFirst =>
        /\ hostPc # "up" => \A w \in Workers : pc[w] = "idle"
        /\ hostPc \in {"flushing", "stopped"} =>
              Active = {} /\ sweepPc \in {"off", "exited"}

\* Once callers have stopped, a shared step starts none of them again.
LEMMA CommonStepKeepsQuiescent ==
    ASSUME Quiescent, DOMAIN pc = Workers, CommonNext
    PROVE  Quiescent'
<1> USE DEF Quiescent, turnVars, workerVars, Active
<1>1. ASSUME NEW w \in Workers, Call(w) \/ Lock(w) \/ Unlock(w) \/ Return(w)
      PROVE  Quiescent'
  BY <1>1 DEF Call, CallsAllowed, Lock, Unlock, Return
<1>2. ASSUME NEW p \in Emitters, EmitStep(p)
      PROVE  Quiescent'
  BY <1>2 DEF EmitStep, Deliver, Fail
<1>3. CASE FlushAll
  BY <1>3 DEF FlushAll, Delete
<1>4. CASE Shutdown \/ ContextExpires \/ ShutdownReturns
  BY <1>4 DEF Shutdown, ContextExpires, ShutdownReturns
<1>5. CASE Start \/ TickerFires \/ SweepAgain \/ SweepStops
  BY <1>5 DEF Start, TickerFires, SweepAgain, SweepStops
<1>6. CASE Tick \/ Terminated
  BY <1>6 DEF Tick, Terminated, vars
<1> QED  BY <1>1, <1>2, <1>3, <1>4, <1>5, <1>6 DEF CommonNext

\* The steps of an edge's own keep it too: a worker applies a record only with
\* the mutex, and the sweeper collects only in its select.
LEMMA OwnStepKeepsQuiescent ==
    ASSUME Quiescent,
           \/ \E w \in Workers : pc[w] = "locked" /\ UNCHANGED <<pc, sweepPc, hostPc>>
           \/ sweepPc = "select" /\ UNCHANGED <<pc, hostPc>>
    PROVE  Quiescent'
BY DEF Quiescent

\* When the host has stopped, the quiet edge has offered every turn.
LEMMA QuiescentDrains ==
    ASSUME Ownership, HandsEmpty, Quiescent
    PROVE  ShutdownDrains
<1> SUFFICES ASSUME hostPc = "stopped", UpstreamStopsFirst
             PROVE  /\ Active = {} /\ \A p \in Emitters : pending[p] = {}
                    /\ 1..(nextTurn - 1) \subseteq Settled
  BY DEF ShutdownDrains
<1>1. Active = {} /\ \A p \in Emitters : pending[p] = {}
  BY DEF Quiescent, HandsEmpty, Emitters
<1> QED  BY <1>1 DEF Ownership, NoTurnForgotten
=============================================================================
