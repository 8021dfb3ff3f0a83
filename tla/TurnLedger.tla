----------------------------- MODULE TurnLedger -----------------------------
(***************************************************************************)
(* What a stateful logs edge promises, free of goroutines, clocks and      *)
(* mutexes.  A turn is opened by a record, keeps distinct records of its   *)
(* own conversation up to its capacity, is frozen when it closes, and is   *)
(* then offered downstream once: accepted or lost.  A conversation has at  *)
(* most one open turn and at most MaxOpen conversations have one; the      *)
(* opening of a turn may close one other, or its own predecessor.          *)
(***************************************************************************)
EXTENDS Integers, FiniteSets

CONSTANTS Keys,      \* conversations
          Records,   \* the records of each: a function on Keys
          MaxOpen,   \* bound on the open turns
          Capacity   \* bound on the records of a turn

VARIABLES open,      \* a map from conversations to their open turns
          closed,    \* turns closed and not yet offered
          accepted,  \* ids of the turns downstream took
          refused,   \* ids of the turns downstream refused
          nextId

ledgerVars == <<open, closed, accepted, refused, nextId>>

Init ==
    /\ open = [k \in {} |-> k]
    /\ closed = {}
    /\ accepted = {}
    /\ refused = {}
    /\ nextId = 1

With(k, t, S) == [j \in (DOMAIN open \ S) \cup {k} |-> IF j = k THEN t ELSE open[j]]

\* A record opens a turn of its conversation.  The turns of the conversations
\* in S close: nobody's when there is room, that of the conversation itself,
\* or any one when the bound is reached.
Open(k, r, S) ==
    /\ \/ S = {} /\ k \notin DOMAIN open /\ Cardinality(DOMAIN open) < MaxOpen
       \/ S = {k} /\ k \in DOMAIN open
       \/ /\ k \notin DOMAIN open /\ Cardinality(DOMAIN open) >= MaxOpen
          /\ \E j \in DOMAIN open : S = {j}
    /\ open' = With(k, [id |-> nextId, key |-> k, kept |-> {r}], S)
    /\ closed' = closed \cup {open[j] : j \in S}
    /\ nextId' = nextId + 1
    /\ UNCHANGED <<accepted, refused>>

\* An open turn keeps one more record.
Keep(k, r) ==
    /\ k \in DOMAIN open
    /\ r \notin open[k].kept
    /\ Cardinality(open[k].kept) < Capacity
    /\ open' = [open EXCEPT ![k].kept = @ \cup {r}]
    /\ UNCHANGED <<closed, accepted, refused, nextId>>

\* Any number of turns close at once.
Close(S) ==
    /\ S \subseteq DOMAIN open
    /\ open' = [k \in DOMAIN open \ S |-> open[k]]
    /\ closed' = closed \cup {open[k] : k \in S}
    /\ UNCHANGED <<accepted, refused, nextId>>

\* A closed turn is offered downstream, which takes it or not.
Offer(t) ==
    /\ closed' = closed \ {t}
    /\ \/ accepted' = accepted \cup {t.id} /\ UNCHANGED refused
       \/ refused' = refused \cup {t.id} /\ UNCHANGED accepted
    /\ UNCHANGED <<open, nextId>>

Next ==
    \/ \E k \in Keys : \E r \in Records[k] :
         \/ \E S \in SUBSET DOMAIN open : Open(k, r, S)
         \/ Keep(k, r)
    \/ \E S \in SUBSET DOMAIN open : Close(S)
    \/ \E t \in closed : Offer(t)

Spec == Init /\ [][Next]_ledgerVars
=============================================================================
