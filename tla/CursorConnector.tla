--------------------------- MODULE CursorConnector ---------------------------
(***************************************************************************)
(* The stateful Cursor logs-to-traces edge (cursor/connector.go).  The     *)
(* wire has neither prompts nor completions, so a conversation is cut into *)
(* bursts of activity: silence for the reorder window closes one, and so   *)
(* does its age.  What StatefulEdge calls turns are the bursts.            *)
(***************************************************************************)
EXTENDS StatefulEdge, CursorBurst

\* Mutant of Seen: a redelivery counts only with its timestamp unchanged.
SeenExactly(e) ==
    /\ e.conv \in Active
    /\ \E i \in 1..Len(turns[e.conv].events) : turns[e.conv].events[i] = e

Seen(e) == e.conv \in Active /\ e.id \in turns[e.conv].seen

\* A redelivered record is counted and skipped.
Drop(e) == Seen(e) /\ UNCHANGED <<turnVars, pending>>

Extend(w, e) ==
    /\ e.conv \in Active /\ ~Seen(e)
    /\ turns' = [turns EXCEPT ![e.conv] = Add(@, e, now[w])]
    /\ UNCHANGED <<nextTurn, pending>>

Opened(w, e) == Add(NewBurst(nextTurn, e, now[w]), e, now[w])

\* One iteration of the loop of ConsumeLogs over the sorted records.
Process(w) ==
    \E e \in batch[w] :
        /\ Take(w, e)
        /\ \/ Drop(e)
           \/ Extend(w, e)
           \/ OpenTurn(Opened(w, e))
           \/ EvictAndOpen(w, Opened(w, e))

CollectReady ==
    LET ready == {c \in Active : Ready(turns[c], ticker)}
    IN  Collect(ready,
                {Finalized(turns[c], ReadyReason(turns[c], ticker)) : c \in ready})

Next ==
    \/ CommonNext
    \/ \E w \in Workers : Process(w)
    \/ CollectReady

Spec == Init /\ [][Next]_vars

Fairness ==
    /\ CommonFairness
    /\ \A w \in Workers : WF_vars(Process(w))
    /\ WF_vars(CollectReady)

FairSpec == Spec /\ Fairness

-----------------------------------------------------------------------------
(* Properties *)

Reasons == {"evicted", "quiet", "timeout", "shutdown"}

\* The type invariant: of the variables of every edge, of the active bursts
\* and of the closed ones.
TypeOK ==
    /\ CommonTypeOK
    /\ turns \in [Active -> Burst]
    /\ pending \in [Emitters -> SUBSET [turn : Burst, reason : Reasons]]

\* What a burst retains: records of its own conversation, no event id twice
\* however often records are redelivered, and the ends of the burst the
\* extremes of their timestamps.
BurstConsistent(b) ==
    LET at == 1..Len(b.events)
    IN  /\ b.seen = {b.events[i].id : i \in at}
        /\ \A i, j \in at : b.events[i].id = b.events[j].id => i = j
        /\ \A i \in at : /\ b.events[i].conv = b.conv
                         /\ b.first <= b.events[i].ts /\ b.events[i].ts <= b.last
        /\ \E i \in at : b.events[i].ts = b.first
        /\ \E i \in at : b.events[i].ts = b.last

BurstsConsistent ==
    /\ \A b \in HeldTurns : BurstConsistent(b)
    /\ \A c \in Active : turns[c].conv = c

\* The cap on the growth of a burst that never goes silent: no sweep leaves
\* behind a burst that opened turn_timeout before its tick, if the record
\* that opened it was not dated later than it arrived.
SweepCapsAge ==
    [][sweepPc = "select" /\ sweepPc' = "emitting" =>
          \A c \in DOMAIN turns' :
              turns'[c].events[1].ts <= turns'[c].opened =>
                  ticker - turns'[c].opened < TurnTimeout]_vars

-----------------------------------------------------------------------------
(* The promise of an edge, implemented *)

Ledger == INSTANCE TurnLedger WITH
    Keys     <- Conversations,
    Records  <- [c \in Conversations |-> {e.id : e \in {f \in Events : f.conv = c}}],
    MaxOpen  <- MaxActiveTurns,
    Capacity <- MaxEvents,
    open     <- OpenEntries,
    closed   <- ClosedEntries,
    accepted <- delivered,
    refused  <- lost,
    nextId   <- nextTurn

\* The edge implements the ledger of turns, as the Codex edge does.
LedgerSpec == Ledger!Spec
=============================================================================
