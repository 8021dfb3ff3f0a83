-------------------------- MODULE MCCursorConnector --------------------------
(***************************************************************************)
(* Small instances of CursorConnector: the records and the payloads each   *)
(* run sends.  Timestamps and the wall clock share one scale.              *)
(***************************************************************************)
EXTENDS CursorConnector, TLC

Rec(c, i, t) == [conv |-> c, id |-> i, ts |-> t]

MCConversations == {"a", "b"}
MCEventIds == {"e1", "e2", "e3"}

\* Two conversations, an id that comes back with another timestamp, and a
\* payload that touches both conversations.
Crossing == {{Rec("a", "e1", 0), Rec("a", "e2", 1)},
             {Rec("a", "e1", 1), Rec("b", "e1", 0)},
             {Rec("a", "e3", 2)}}

CrossingEvents == UNION Crossing

\* One conversation, records dated before, at and after their arrival, one of
\* them after the end of time.
Skewed == {{Rec("a", "e1", 0)}, {Rec("a", "e2", 1)}, {Rec("a", "e3", 9)}}

SkewedEvents == UNION Skewed

\* Callers are interchangeable; used by runs that check no liveness.
WorkerSymmetry == Permutations(Workers)
=============================================================================
