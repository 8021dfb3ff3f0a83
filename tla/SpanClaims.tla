----------------------------- MODULE SpanClaims -----------------------------
(***************************************************************************)
(* Which resource groups the six traces edges claim, and which spans of a  *)
(* claimed group they keep: the Contains* functions and the filters in     *)
(* ConsumeTraces of each normalizer.                                       *)
(*                                                                         *)
(* A span is abstracted to what these read: its scope, the class of its    *)
(* name and which of the telling attributes and events it carries.         *)
(***************************************************************************)
EXTENDS Naturals, Sequences

\* "claude": claude_code.*; "ai": one of OpenCode's three ai.* names; "turn":
\* session_task.turn, .compact or .review; "dispatch": codex.exec and
\* op.dispatch.*; "mcp": mcp.tools.call; "conversation", and "step" for the
\* other names only OpenHands gives; "pi": chat-turn and llm-generation*.
SpanNames == {"claude", "ai", "turn", "dispatch", "mcp", "conversation",
              "step", "pi", "app"}

\* gen_ai.operation.name, gen_ai.usage.input_tokens, any codex.* attribute, the
\* event codex.tool_result, toolName, the delegate flag of OpenHands, and a
\* Laminar span type of LLM or TOOL.
Marks == {"operation", "usage", "codex", "toolResult", "toolName",
          "delegate", "laminar"}

\* A scope of a GenAI instrumentation is a member of GenAIScopes; "svc" is a
\* scope like the name of some service.
GenAIScopes == {"strands", "copilot"}
Scopes == {"opencode", "pi", "lmnr", "svc", "other"} \cup GenAIScopes

WireSpan == [scope : Scopes, name : SpanNames, marks : SUBSET Marks]
Group == [service : Scopes \cup {"none"}, piSdk : BOOLEAN,
          spans : SUBSET WireSpan]

HasSpan(g, Test(_)) == \E s \in g.spans : Test(s)

ContainsClaudeSpans(g) == HasSpan(g, LAMBDA s : s.name = "claude")

ContainsOpenCodeSpans(g) == HasSpan(g, LAMBDA s : s.scope = "opencode")

ContainsPiSpans(g) == g.piSdk \/ HasSpan(g, LAMBDA s : s.scope = "pi")

ContainsOpenHandsSpans(g) ==
    HasSpan(g, LAMBDA s : /\ s.scope = "lmnr"
                          /\ \/ s.name \in {"conversation", "step"}
                             \/ "delegate" \in s.marks)

ContainsCodexSpans(g) ==
    HasSpan(g, LAMBDA s : /\ s.scope = g.service
                          /\ \/ s.name \in {"turn", "dispatch"}
                             \/ s.marks \cap {"toolResult", "codex"} # {})

\* Mutant of GenAIClaims: groups of Pi are not left to Pi.
GenAIClaimsPi(g) ==
    /\ ~ContainsClaudeSpans(g)
    /\ ~ContainsOpenCodeSpans(g)
    /\ ~ContainsOpenHandsSpans(g)
    /\ HasSpan(g, LAMBDA s : s.scope \in GenAIScopes)

\* The GenAI edge yields to every edge but the one for native Codex traces.
GenAIClaims(g) ==
    /\ ~ContainsClaudeSpans(g)
    /\ ~ContainsOpenCodeSpans(g)
    /\ ~ContainsPiSpans(g)
    /\ ~ContainsOpenHandsSpans(g)
    /\ HasSpan(g, LAMBDA s : s.scope \in GenAIScopes)

Claims(e, g) ==
    \/ e = "claude" /\ ContainsClaudeSpans(g)
    \/ e = "genai" /\ GenAIClaims(g)
    \/ e = "opencode" /\ ContainsOpenCodeSpans(g)
    \/ e = "pi" /\ ContainsPiSpans(g)
    \/ e = "openhands" /\ ContainsOpenHandsSpans(g)
    \/ e = "codex" /\ ContainsCodexSpans(g)

KeptByCodex(s) ==
    s.name \in {"turn", "mcp"} \/ s.marks \cap {"usage", "toolResult"} # {}

\* Mutant of Keeps: the Claude edge does not remove foreign spans.
KeepsForeign(e, s) ==
    \/ e = "claude"
    \/ e = "genai" /\ s.scope \in GenAIScopes /\ "operation" \in s.marks
    \/ e = "opencode" /\ s.name = "ai"
    \/ e = "pi" /\ ("toolName" \in s.marks \/ s.name = "pi")
    \/ e = "openhands" /\ s.scope = "lmnr"
                       /\ ("laminar" \in s.marks \/ s.name = "conversation")
    \/ e = "codex" /\ KeptByCodex(s)

\* Only two edges look at the scope of a span again once its group is claimed.
Keeps(e, s) ==
    \/ e = "claude" /\ s.name = "claude"
    \/ e = "genai" /\ s.scope \in GenAIScopes /\ "operation" \in s.marks
    \/ e = "opencode" /\ s.name = "ai"
    \/ e = "pi" /\ ("toolName" \in s.marks \/ s.name = "pi")
    \/ e = "openhands" /\ s.scope = "lmnr"
                       /\ ("laminar" \in s.marks \/ s.name = "conversation")
    \/ e = "codex" /\ KeptByCodex(s)

\* newTracesRouter lists the edges in this order.
Order == <<"claude", "genai", "opencode", "pi", "openhands", "codex">>
Edges == {Order[i] : i \in DOMAIN Order}

\* What edge e makes of group g.
Kept(e, g) == IF Claims(e, g) THEN {s \in g.spans : Keeps(e, s)} ELSE {}
=============================================================================
