----------------------------- MODULE EdgeConfig -----------------------------
(***************************************************************************)
(* What both stateful logs edges (codex and cursor) are configured with,   *)
(* and the log records they may be sent.                                   *)
(*                                                                         *)
(* A record is abstracted to what an edge tells apart.  Every record has   *)
(* the conversation it belongs to and its source timestamp; each edge says *)
(* what else its records have.                                             *)
(***************************************************************************)
EXTENDS Integers, Sequences, FiniteSets

CONSTANTS Conversations,   \* values of the conversation id
          Events,          \* the log records upstream may send
          ReorderWindow,   \* reorder_window
          TurnTimeout,     \* turn_timeout
          MaxEvents,       \* max_events_per_turn
          MaxActiveTurns   \* max_active_turns

\* What Config.Validate accepts.
ASSUME ConfigAssumption ==
    /\ TurnTimeout \in Nat \ {0}
    /\ ReorderWindow \in Nat
    /\ ReorderWindow < TurnTimeout
    /\ MaxActiveTurns \in Nat \ {0}
    /\ MaxEvents \in Nat \ {0}

ASSUME EventsAssumption ==
    \A e \in Events : e.conv \in Conversations /\ e.ts \in Nat

Earlier(a, b) == IF a < b THEN a ELSE b
Later(a, b)   == IF a > b THEN a ELSE b
=============================================================================
