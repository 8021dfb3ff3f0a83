-------------------------- MODULE MCCodexConnector --------------------------
(***************************************************************************)
(* Small instances of CodexConnector: the records and the payloads each    *)
(* run sends.                                                              *)
(***************************************************************************)
EXTENDS CodexConnector, TLC

Rec(c, k, t) == [conv |-> c, kind |-> k, ts |-> t, body |-> 0]

MCConversations == {"a", "b", "c"}

\* Two turns of one conversation and one of another, with a redelivered
\* prompt and a batch that crosses the conversations.
Crossing == {{Rec("a", "prompt", 1), Rec("a", "completed", 2)},
             {Rec("a", "prompt", 1), Rec("b", "prompt", 1)},
             {Rec("a", "continuation", 3)},
             {Rec("a", "prompt", 4)}}

CrossingEvents == UNION Crossing

\* One conversation whose records arrive in any order, also those of one
\* payload, whose timestamps are equal, and a payload of two others, so that a
\* full map has a choice of turns to evict.
Scattered == {{Rec("a", "prompt", 1)},
              {Rec("a", "completed", 2), Rec("a", "continuation", 2)},
              {Rec("a", "continuation", 3)}, {Rec("a", "completed", 4)},
              {Rec("b", "other", 1), Rec("c", "other", 2)}}

ScatteredEvents == UNION Scattered

\* Enough to open, complete, supersede and evict.
Brief == {{Rec("a", "prompt", 1), Rec("a", "completed", 2)},
          {Rec("a", "prompt", 3), Rec("b", "other", 1)}}

BriefEvents == UNION Brief

\* Callers are interchangeable; used by runs that check no liveness.
WorkerSymmetry == Permutations(Workers)
=============================================================================
