----------------------------- MODULE MCAssembly ------------------------------
(***************************************************************************)
(* What agents send to five of the edges: turns exported span by span, and *)
(* turns and bursts logged record by record.                               *)
(***************************************************************************)
EXTENDS CodexNative, PiEdge, OpenHandsEdge, CodexTrace, CursorTrace

NormalizeOf(e, b) ==
    CASE e = "codex native" -> CodexNormalize(b)
      [] e = "pi" -> PiNormalize(b)
      [] e = "openhands" -> OpenHandsNormalize(b)
      [] e = "codex logs" -> CodexLogsNormalize(b)
      [] e = "cursor logs" -> CursorLogsNormalize(b)

-----------------------------------------------------------------------------
(* Codex: a turn of trace 1 with a dispatch span, a response and a tool below *)
(* it, one nested in it, and a turn of trace 2 with the same span ids.        *)

NativeSpan(t, i, p, start, name, marks, model) ==
    [trace |-> t, id |-> i, parent |-> p, start |-> start, scope |-> "svc",
     name |-> name, marks |-> marks, model |-> model]

Turn(t, model) == NativeSpan(t, 1, 9, 2, "turn", {"codex"}, model)
Dispatch(t) == NativeSpan(t, 2, 1, 3, "dispatch", {}, "none")
Response(t, parent) == NativeSpan(t, 3, parent, 4, "app", {"usage", "codex"}, "none")
CodexTool(t) == NativeSpan(t, 4, 3, 5, "app", {"toolResult"}, "none")
Mcp(t) == NativeSpan(t, 5, 2, 5, "mcp", {}, "none")
Review(t, model) == NativeSpan(t, 6, 2, 1, "turn", {}, model)

NativeExports ==
    {{Turn(1, "m1"), Dispatch(1), Response(1, 2), CodexTool(1), Mcp(1)},
     {Turn(1, "m1"), Dispatch(1), Review(1, "m2"), Response(1, 6)},
     {Turn(1, "m1"), Dispatch(1), Response(1, 2), Turn(2, "m2"), Response(2, 1)},
     {Turn(1, "none"), Response(1, 2), CodexTool(1), Turn(2, "m2")}}

-----------------------------------------------------------------------------
(* Pi: turns with a generation, a tool below it and a foreign span; two turns *)
(* with one id, as the pinned capture has them; the spans of two messages.    *)

PiSpan(t, i, p, start, name, toolName) ==
    [trace |-> t, id |-> i, parent |-> p, start |-> start,
     name |-> name, toolName |-> toolName]

PiMessage == {PiSpan(1, 1, 9, 1, "chat-turn", FALSE),
              PiSpan(1, 2, 1, 2, "llm-generation", FALSE)}

PiMessages ==
    PiMessage \cup {PiSpan(2, 8, 9, 5, "chat-turn", FALSE),
                    PiSpan(2, 6, 8, 6, "llm-generation", FALSE),
                    PiSpan(2, 7, 6, 7, "read", TRUE)}

PiExports ==
    {PiMessage \cup {PiSpan(1, 3, 2, 3, "read", TRUE),
                     PiSpan(1, 4, 1, 2, "http", FALSE),
                     PiSpan(1, 5, 4, 3, "bash", TRUE)},
     PiMessage \cup {PiSpan(1, 1, 9, 5, "chat-turn", FALSE),
                     PiSpan(1, 6, 1, 6, "llm-generation", FALSE),
                     PiSpan(1, 7, 6, 7, "chat-turn", TRUE)},
     PiMessages}

-----------------------------------------------------------------------------
(* OpenHands: a model call in its wrapper, a wrapper around two, a tool call  *)
(* and its result, and the spans of the agent.                                *)

Laminar(t, i, p, start, end, role, call, usage) ==
    [trace |-> t, id |-> i, parent |-> p, start |-> start, end |-> end,
     role |-> role, call |-> call, usage |-> usage]

Conversation == Laminar(1, 1, 0, 2, 9, "root", "none", {})
Step == Laminar(1, 2, 1, 1, 10, "step", "none", {})
Wrapper == Laminar(1, 3, 2, 3, 6, "chat", "none", {"cache"})
LLM == Laminar(1, 4, 3, 3, 5, "chat", "none", {"tokens"})
CachedLLM == Laminar(1, 4, 3, 3, 5, "chat", "none", {"tokens", "cache"})
Around == Laminar(2, 5, 0, 2, 8, "chat", "none", {"cache"})
First == Laminar(2, 6, 5, 3, 4, "chat", "none", {"tokens"})
Second == Laminar(2, 7, 5, 4, 5, "chat", "none", {"tokens"})
OtherStep == Laminar(2, 10, 5, 2, 3, "step", "none", {})
ToolCall == Laminar(1, 8, 2, 6, 7, "tool", "c1", {})
ToolResult == Laminar(1, 9, 2, 6, 8, "tool", "c1", {})

OpenHandsExports ==
    {{Conversation, Step, Wrapper, CachedLLM},
     {Conversation, Step, Wrapper, LLM},
     {Step, ToolCall, ToolResult, Conversation},
     {Step, ToolCall, LLM, OtherStep, Second},
     {Around, First, Second, OtherStep}}

-----------------------------------------------------------------------------
(* Logs of Codex, one timestamp per record: a call with a retry and usage and *)
(* one whose provider reports no usage, its frame alone; a call without usage *)
(* first, and a tool that runs longer than the turn is old; a failed call.    *)

Log(n, ts, kind, dur, call) ==
    [n |-> n, ts |-> ts, kind |-> kind, dur |-> dur, call |-> call]

CodexTurns ==
    {{Log(1, 10, "prompt", 0, 0), Log(2, 14, "request", 2, 1),
      Log(3, 17, "request", 2, 1), Log(4, 20, "frame", 1, 1),
      Log(5, 21, "completion", 0, 1), Log(6, 25, "request", 3, 2),
      Log(7, 27, "frame", 1, 2)},
     {Log(1, 10, "request", 1, 1), Log(2, 12, "frame", 1, 1),
      Log(3, 14, "decision", 0, 0), Log(4, 16, "result", 9, 0),
      Log(5, 18, "request", 1, 2), Log(6, 20, "frame", 1, 2),
      Log(7, 21, "completion", 0, 2)},
     {Log(1, 10, "prompt", 0, 0), Log(2, 12, "request", 1, 1),
      Log(3, 13, "frame", 1, 1), Log(4, 15, "request", 1, 2),
      Log(5, 16, "failed", 0, 2), Log(6, 17, "other", 0, 0)}}

-----------------------------------------------------------------------------
(* Logs of Cursor: requests with an error and a correction that are older and *)
(* younger than they, records that share a timestamp, and a tool.             *)

CursorLog(id, ts, kind, usage, dur) ==
    [id |-> id, ts |-> ts, kind |-> kind, usage |-> usage, dur |-> dur]

CursorLogs ==
    {{CursorLog(3, 10, "request", "u1", 0), CursorLog(2, 10, "error", "u1", 0),
      CursorLog(1, 12, "correction", "u1", 0), CursorLog(4, 12, "tool", "none", 5)},
     {CursorLog(1, 10, "correction", "u1", 0), CursorLog(2, 11, "request", "u1", 0),
      CursorLog(3, 11, "request", "none", 0), CursorLog(4, 11, "other", "none", 0)},
     {CursorLog(1, 10, "request", "u1", 0), CursorLog(2, 10, "request", "u2", 0),
      CursorLog(3, 9, "correction", "u1", 0), CursorLog(4, 12, "error", "u2", 0)}}

-----------------------------------------------------------------------------

Send(e, items, groups, batches) ==
    {[edge |-> e, items |-> S, groups |-> groups, batches |-> batches] : S \in items}

EveryAgent ==
    Send("codex native", NativeExports, 2, 5) \cup Send("pi", PiExports, 2, 5) \cup
    Send("openhands", OpenHandsExports, 2, 5) \cup
    Send("codex logs", CodexTurns, 1, 1) \cup Send("cursor logs", CursorLogs, 1, 4)

TwoMessages == Send("pi", {PiMessages}, 2, 5)
=============================================================================
