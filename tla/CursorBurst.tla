----------------------------- MODULE CursorBurst -----------------------------
(***************************************************************************)
(* The state the Cursor edge keeps for one activity burst of a             *)
(* conversation (burstState in cursor/connector.go).                       *)
(*                                                                         *)
(* A record is known by its event id, and by nothing else: two records     *)
(* with one id are one record to the edge, whatever their timestamps.      *)
(***************************************************************************)
EXTENDS EdgeConfig

CONSTANT EventIds   \* values of cursor.event.id, or of the derived id

ASSUME CursorEventsAssumption ==
    \A e \in Events : DOMAIN e = {"conv", "id", "ts"} /\ e.id \in EventIds

\* burstState.  Two fields are history, not code: id numbers the bursts in
\* creation order, and opened is when the opening record arrived.
Burst == [id : Nat \ {0}, conv : Conversations,
          events : Seq(Events), seen : SUBSET EventIds,
          first : Nat, last : Nat, lastSeen : Nat,
          truncated : BOOLEAN, opened : Nat]

\* The burst literal of ConsumeLogs.
NewBurst(i, e, at) ==
    [id |-> i, conv |-> e.conv, events |-> <<>>, seen |-> {},
     first |-> e.ts, last |-> e.ts, lastSeen |-> at,
     truncated |-> FALSE, opened |-> at]

\* burstState.add; the caller has already dropped records it has seen.
Add(b, e, at) ==
    IF Len(b.events) >= MaxEvents THEN [b EXCEPT !.truncated = TRUE]
    ELSE [b EXCEPT !.first    = Earlier(@, e.ts),
                   !.last     = Later(@, e.ts),
                   !.lastSeen = at,
                   !.events   = Append(@, e),
                   !.seen     = @ \cup {e.id}]

\* Mutant of TimedOut: the cap runs from the arrival of the last record.
TimedOutByArrival(b, at) == at - b.lastSeen >= TurnTimeout

\* The two conditions of collectReady, tried in this order: the timeout runs
\* from the source timestamp of the earliest record, the quiet period from
\* the arrival of the last.
TimedOut(b, at) == at - b.first >= TurnTimeout
Silent(b, at)   == at - b.lastSeen >= ReorderWindow

\* Mutant of Ready: silence does not close a burst.
ReadyTimedOut(b, at) == TimedOut(b, at)

Ready(b, at) == TimedOut(b, at) \/ Silent(b, at)
ReadyReason(b, at) == IF TimedOut(b, at) THEN "timeout" ELSE "quiet"
=============================================================================
