------------------------------ MODULE CodexTurn ------------------------------
(***************************************************************************)
(* The state the Codex edge keeps for one turn of a conversation, and the  *)
(* way one log record changes it (turnState in codex/connector.go).        *)
(*                                                                         *)
(* Two records are the same record exactly when their fingerprints are     *)
(* equal, so a record is its own fingerprint; body stands for all that     *)
(* the fingerprint covers and the connector does not look at.              *)
(***************************************************************************)
EXTENDS EdgeConfig

\* codex.user_prompt; codex.sse_event of kind response.completed; the three
\* names of continuesTurn; every other codex.* event.
EventKinds == {"prompt", "completed", "continuation", "other"}

ASSUME CodexEventsAssumption ==
    \A e \in Events : DOMAIN e = {"conv", "kind", "ts", "body"} /\ e.kind \in EventKinds

\* turnState.  events is the slice in arrival order, seen the fingerprint set,
\* completionAt = 0 the zero time.  Two fields are history, not code: id
\* numbers the turns in creation order, and newest is the latest arrival time
\* of a retained record.
Turn == [id : Nat \ {0}, conv : Conversations,
         events : Seq(Events), seen : SUBSET Events,
         first : Nat, last : Nat, lastSeen : Nat,
         completeSeen : BOOLEAN, completionAt : Nat,
         promptSeen : BOOLEAN, truncated : BOOLEAN,
         newest : Nat]

\* The turn literal of ConsumeLogs: the opening record sets both ends.
NewTurn(i, e, at) ==
    [id |-> i, conv |-> e.conv, events |-> <<>>, seen |-> {},
     first |-> e.ts, last |-> e.ts, lastSeen |-> at,
     completeSeen |-> FALSE, completionAt |-> 0,
     promptSeen |-> FALSE, truncated |-> FALSE, newest |-> at]

\* A response.completed at or after the recorded one (re)completes the turn.
Completes(t, e) == e.kind = "completed" /\ e.ts >= t.completionAt

\* Mutant of Reopens: work dated exactly at the completion does not count.
ReopensLater(t, e) == e.kind = "continuation" /\ e.ts > t.completionAt

\* A tool result or model request at or after the completion reopens it.
Reopens(t, e) == e.kind = "continuation" /\ e.ts >= t.completionAt

\* Mutants of Retain: the last record to arrive is taken for the latest one;
\* the quiet period runs from the opening of the turn.
RetainUnordered(t, e, at) ==
    [t EXCEPT !.first        = Earlier(@, e.ts),
              !.last         = e.ts,
              !.lastSeen     = at,
              !.promptSeen   = @ \/ e.kind = "prompt",
              !.completeSeen = Completes(t, e) \/ (@ /\ ~Reopens(t, e)),
              !.completionAt = IF Completes(t, e) THEN e.ts ELSE @,
              !.events       = Append(@, e),
              !.seen         = @ \cup {e},
              !.newest       = Later(@, at)]

RetainUnseen(t, e, at) ==
    [t EXCEPT !.first        = Earlier(@, e.ts),
              !.last         = Later(@, e.ts),
              !.promptSeen   = @ \/ e.kind = "prompt",
              !.completeSeen = Completes(t, e) \/ (@ /\ ~Reopens(t, e)),
              !.completionAt = IF Completes(t, e) THEN e.ts ELSE @,
              !.events       = Append(@, e),
              !.seen         = @ \cup {e},
              !.newest       = Later(@, at)]

\* The part of add() reached once the record is neither a duplicate nor
\* beyond the capacity of the turn.
Retain(t, e, at) ==
    [t EXCEPT !.first        = Earlier(@, e.ts),
              !.last         = Later(@, e.ts),
              !.lastSeen     = at,
              !.promptSeen   = @ \/ e.kind = "prompt",
              !.completeSeen = Completes(t, e) \/ (@ /\ ~Reopens(t, e)),
              !.completionAt = IF Completes(t, e) THEN e.ts ELSE @,
              !.events       = Append(@, e),
              !.seen         = @ \cup {e},
              !.newest       = Later(@, at)]

\* Mutants of Add: one record too many is kept; a record beyond the capacity
\* restarts the quiet period.
AddBeyond(t, e, at) ==
    IF e \in t.seen THEN t
    ELSE IF Len(t.events) > MaxEvents THEN [t EXCEPT !.truncated = TRUE]
    ELSE Retain(t, e, at)

AddRefreshes(t, e, at) ==
    IF e \in t.seen THEN t
    ELSE IF Len(t.events) >= MaxEvents THEN [t EXCEPT !.truncated = TRUE, !.lastSeen = at]
    ELSE Retain(t, e, at)

\* turnState.add
Add(t, e, at) ==
    IF e \in t.seen THEN t
    ELSE IF Len(t.events) >= MaxEvents THEN [t EXCEPT !.truncated = TRUE]
    ELSE Retain(t, e, at)

\* The two conditions of collectReady, tried in this order.
Quiet(t, at)   == t.completeSeen /\ at - t.lastSeen >= ReorderWindow
Expired(t, at) == at - t.lastSeen >= TurnTimeout

\* Mutant of Ready: there is no timeout.
ReadyUntimed(t, at) == Quiet(t, at)

Ready(t, at) == Quiet(t, at) \/ Expired(t, at)
ReadyReason(t, at) == IF Quiet(t, at) THEN "completed" ELSE "timeout"

-----------------------------------------------------------------------------
(* What the fields of a turn should say about its retained records *)

Indices(t) == 1..Len(t.events)

Consistent(t) ==
    /\ t.seen = {t.events[i] : i \in Indices(t)}
    /\ \A i, j \in Indices(t) : t.events[i] = t.events[j] => i = j
    /\ \A i \in Indices(t) : /\ t.events[i].conv = t.conv
                             /\ t.first <= t.events[i].ts
                             /\ t.events[i].ts <= t.last
    /\ \E i \in Indices(t) : t.events[i].ts = t.first
    /\ \E i \in Indices(t) : t.events[i].ts = t.last

OnePrompt(t) ==
    /\ \A i, j \in Indices(t) :
         t.events[i].kind = "prompt" /\ t.events[j].kind = "prompt" => i = j
    /\ t.promptSeen <=> \E i \in Indices(t) : t.events[i].kind = "prompt"

\* The i-th record is a completion with the latest timestamp of all, and no
\* later arrival dated at or after it reopened the turn.
CompletedBy(t, i) ==
    /\ t.events[i].kind = "completed"
    /\ \A j \in Indices(t) :
         t.events[j].kind = "completed" => t.events[j].ts <= t.events[i].ts
    /\ \A j \in Indices(t) :
         j > i /\ t.events[j].kind = "continuation" => t.events[j].ts < t.events[i].ts

Answered(t) == \E i \in Indices(t) : CompletedBy(t, i)
=============================================================================
