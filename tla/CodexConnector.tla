--------------------------- MODULE CodexConnector ---------------------------
(***************************************************************************)
(* The stateful Codex logs-to-traces edge (codex/connector.go): a turn of  *)
(* a conversation runs from one user prompt to the next, or to a response  *)
(* that nothing followed for the reorder window.                           *)
(***************************************************************************)
EXTENDS StatefulEdge, CodexTurn

Seen(e) == e.conv \in Active /\ e \in turns[e.conv].seen

\* Mutant of Supersedes: only a turn that was answered is superseded.
SupersedesAnswered(e) ==
    e.kind = "prompt" /\ e.conv \in Active /\ turns[e.conv].completeSeen

\* A prompt for a conversation whose turn has its prompt closes that turn.
Supersedes(e) ==
    e.kind = "prompt" /\ e.conv \in Active /\ turns[e.conv].promptSeen

\* A redelivered record is counted and skipped before the prompt check, so a
\* redelivered prompt does not supersede its own turn.
Drop(e) == Seen(e) /\ UNCHANGED <<turnVars, pending>>

Extend(w, e) ==
    /\ e.conv \in Active /\ ~Seen(e) /\ ~Supersedes(e)
    /\ turns' = [turns EXCEPT ![e.conv] = Add(@, e, now[w])]
    /\ UNCHANGED <<nextTurn, pending>>

Opened(w, e) == Add(NewTurn(nextTurn, e, now[w]), e, now[w])

\* The slot of the superseded turn keeps the map below its bound, so the
\* check that follows in the code evicts nothing.
Supersede(w, e) ==
    /\ ~Seen(e) /\ Supersedes(e)
    /\ turns' = Insert(turns, e.conv, Opened(w, e))
    /\ pending' = [pending EXCEPT
                     ![w] = @ \cup {Finalized(turns[e.conv], "superseded")}]
    /\ nextTurn' = nextTurn + 1

\* One iteration of the loop of ConsumeLogs over the sorted records.
Process(w) ==
    \E e \in batch[w] :
        /\ Take(w, e)
        /\ \/ Drop(e)
           \/ Extend(w, e)
           \/ Supersede(w, e)
           \/ OpenTurn(Opened(w, e))
           \/ EvictAndOpen(w, Opened(w, e))

CollectReady ==
    LET ready == {c \in Active : Ready(turns[c], ticker)}
    IN  Collect(ready,
                {Finalized(turns[c], ReadyReason(turns[c], ticker)) : c \in ready})

Next ==
    \/ CommonNext
    \/ \E w \in Workers : Process(w)
    \/ CollectReady

Spec == Init /\ [][Next]_vars

Fairness ==
    /\ CommonFairness
    /\ \A w \in Workers : WF_vars(Process(w))
    /\ WF_vars(CollectReady)

FairSpec == Spec /\ Fairness

-----------------------------------------------------------------------------
(* Properties *)

Reasons == {"superseded", "evicted", "completed", "timeout", "shutdown"}

\* The type invariant: of the variables of every edge, of the active turns
\* and of the closed ones.
TypeOK ==
    /\ CommonTypeOK
    /\ turns \in [Active -> Turn]
    /\ pending \in [Emitters -> SUBSET [turn : Turn, reason : Reasons]]

\* What is retained: a turn holds records of its own conversation, none of
\* them twice however often they are redelivered, its ends are the extremes of
\* their timestamps, and the fingerprint set is exactly the retained records.
TurnsConsistent ==
    /\ \A t \in HeldTurns : Consistent(t)
    /\ \A c \in Active : turns[c].conv = c

\* A turn holds at most one user prompt, and promptSeen says whether: a
\* redelivered prompt must not supersede its own turn, a new one must not be
\* merged into the turn before it.
OnePromptPerTurn == \A t \in HeldTurns : OnePrompt(t)

\* completeSeen, which add() maintains record by record, is what the retained
\* records say: the latest completion by timestamp is among them, and no tool
\* result or model request dated at or after it arrived after it.
CompletionExact == \A t \in HeldTurns : t.completeSeen <=> Answered(t)

\* Why a turn closes follows from the records it retained alone, neither from
\* redeliveries nor from records beyond its capacity.  A tick closes as
\* completed the turns that were answered and have retained nothing for the
\* reorder window, as timed out those that have retained nothing for the turn
\* timeout, and no others ...
Cause(t, at) ==
    IF Answered(t) /\ at - t.newest >= ReorderWindow THEN "completed"
    ELSE IF at - t.newest >= TurnTimeout THEN "timeout" ELSE "none"

SweptForCause ==
    pending'["sweeper"] = {f \in [turn : ActiveTurns, reason : Reasons] :
                              f.reason = Cause(f.turn, ticker)}

\* ... and a turn is evicted only if no other one has retained nothing for
\* longer.
EvictedForCause(w) ==
    \A f \in pending'[w] \ pending[w] : f.reason = "evicted" =>
        f.turn \in ActiveTurns /\ \A t \in ActiveTurns : f.turn.newest <= t.newest

ClosedForCause ==
    [][/\ sweepPc = "select" /\ sweepPc' = "emitting" => SweptForCause
       /\ \A w \in Workers : EvictedForCause(w)]_vars

\* README.md: reorder_window starts after the most recently received event.
\* A turn closes as completed only when the tick is that much later than the
\* latest arrival of a record it retained.
QuietPeriodHonoured ==
    [][\A f \in pending'["sweeper"] \ pending["sweeper"] :
          f.reason = "completed" => ticker - f.turn.newest >= ReorderWindow]_pending

\* docs/design.md: a later tool result or model request invalidates the
\* earlier completion.  A turn closed as completed holds no such record dated
\* after its latest completion.
LaterWorkReopensTurn ==
    \A p \in Emitters : \A f \in pending[p] :
        f.reason = "completed" =>
            \A e \in f.turn.seen :
                e.kind = "continuation" => e.ts <= f.turn.completionAt

-----------------------------------------------------------------------------
(* The promise of an edge, implemented *)

Ledger == INSTANCE TurnLedger WITH
    Keys     <- Conversations,
    Records  <- [c \in Conversations |-> {e \in Events : e.conv = c}],
    MaxOpen  <- MaxActiveTurns,
    Capacity <- MaxEvents,
    open     <- OpenEntries,
    closed   <- ClosedEntries,
    accepted <- delivered,
    refused  <- lost,
    nextId   <- nextTurn

\* The edge implements the ledger of turns: no interleaving of callers,
\* sweeper and shutdown changes a turn that has closed, closes a turn it does
\* not hold, or delivers what was not closed.
LedgerSpec == Ledger!Spec
=============================================================================
