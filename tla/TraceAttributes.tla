--------------------------- MODULE TraceAttributes ---------------------------
(***************************************************************************)
(* What the six traces edges make of the attributes of a span, as rules in *)
(* the order of the code.  The Claude and GenAI edges write into the       *)
(* attributes of the wire and strip them, the others start from nothing.   *)
(***************************************************************************)
EXTENDS CanonicalContract

Conversation == "gen_ai.conversation.id"
InputTokens == "gen_ai.usage.input_tokens"
OutputTokens == "gen_ai.usage.output_tokens"
TotalTokens == "gen_ai.usage.total_tokens"
CacheRead == "gen_ai.usage.cache_read.input_tokens"
CacheWrite == "gen_ai.usage.cache_write.input_tokens"
Reasoning == "gen_ai.usage.reasoning.output_tokens"
FirstChunk == "gen_ai.response.time_to_first_chunk"
Cost == "coding_agent.usage.cost"
Version == Text("coding_agent.client.version", <<"resource service.version">>)

-----------------------------------------------------------------------------
(* Claude Code *)

ClaudeUsage == <<
    Count(InputTokens, <<"input_tokens">>), Count(OutputTokens, <<"output_tokens">>),
    Count(CacheRead, <<"cache_read_tokens">>),
    Count(CacheWrite, <<"cache_creation_tokens">>),
    Count(FirstChunk, <<"ttft_ms">>),
    Text("gen_ai.response.finish_reasons", <<"stop_reason">>)>>

ClaudeCommon ==
    Const(<<"gen_ai.provider.name", "coding_agent.client.name", "coding_agent.source",
            "gen_ai.operation.name">>) \o <<Version>>

\* Mutant of ClaudeRoot: the session of the resource is not looked at.
ClaudeRootOfSpan(identity) ==
    Const(<<"gen_ai.agent.name", "coding_agent.source.event">>) \o <<
    Text(Conversation, <<Conversation, "session.id", "session_id">>),
    Text("coding_agent.terminal.type", <<"terminal.type">>)>>
    \o If(identity, <<Text("coding_agent.user.id", <<"user.id">>),
                      Text("coding_agent.team.id", <<"organization.id">>)>>)

ClaudeRoot(identity) ==
    Const(<<"gen_ai.agent.name", "coding_agent.source.event">>) \o <<
    Text(Conversation, <<Conversation, "session.id", "session_id", "resource session.id">>),
    Text("coding_agent.terminal.type", <<"terminal.type">>)>>
    \o If(identity, <<Text("coding_agent.user.id", <<"user.id">>),
                      Text("coding_agent.team.id", <<"organization.id">>)>>)

ClaudeChat == Const(<<"coding_agent.source.event">>) \o <<
    Text("gen_ai.request.model", <<"gen_ai.request.model", "model">>),
    Text("gen_ai.request.reasoning.level", <<"effort">>)>> \o ClaudeUsage

ClaudeTool == Const(<<"coding_agent.source.event">>) \o <<
    Text("gen_ai.tool.name", <<"gen_ai.tool.name", "tool_name">>)>>

\* Mutant of Claude: the email, which is not part of a branch of the switch, is
\* not guarded.
ClaudeMailUnguarded(op, identity) == <<
    Text("gen_ai.agent.id", <<"agent_id">>),
    Text("coding_agent.agent.parent_id", <<"parent_agent_id">>),
    Text("coding_agent.user.email", <<"user.email">>)>>
    \o If(op = "root", ClaudeRoot(identity)) \o If(op = "chat", ClaudeChat)
    \o If(op = "tool", ClaudeTool) \o ClaudeCommon

\* A span of any other name, "sub", only gets what all get.
Claude(op, identity) == <<
    Text("gen_ai.agent.id", <<"agent_id">>),
    Text("coding_agent.agent.parent_id", <<"parent_agent_id">>)>>
    \o If(identity, <<Text("coding_agent.user.email", <<"user.email">>)>>)
    \o If(op = "root", ClaudeRoot(identity)) \o If(op = "chat", ClaudeChat)
    \o If(op = "tool", ClaudeTool) \o ClaudeCommon

-----------------------------------------------------------------------------
(* The GenAI conventions.  A span keeps its operation, which it must have. *)

\* Mutant of GenAIUsage: integers only.
GenAIUsageInt == <<
    Absent(Rule(InputTokens, <<"gen_ai.usage.prompt_tokens">>, {"int"}))>>

GenAIUsage == <<
    Absent(Count(InputTokens, <<"gen_ai.usage.prompt_tokens">>)),
    Absent(Count(OutputTokens, <<"gen_ai.usage.completion_tokens">>)),
    Absent(Count(CacheRead, <<"gen_ai.usage.cache_read_input_tokens">>)),
    Absent(Count(CacheWrite, <<"gen_ai.usage.cache_write_input_tokens">>)),
    Absent(Count(CacheWrite, <<"gen_ai.usage.cache_creation.input_tokens">>)),
    Absent(Count(Reasoning, <<"gen_ai.usage.reasoning_tokens">>)),
    Absent(Count(FirstChunk, <<"gen_ai.server.time_to_first_token">>)),
    Absent(Count(FirstChunk, <<"copilot_chat.time_to_first_token">>))>>

GenAI(op, identity) ==
    If(identity /\ op = "root", <<Text("coding_agent.user.id", <<"enduser.pseudo.id">>)>>)
    \o <<Absent(Text("gen_ai.provider.name", <<"gen_ai.system">>))>> \o GenAIUsage
    \o If(op = "chat", <<Rule(Cost, <<"github.copilot.cost">>, {"double"})>>)
    \o Const(<<"coding_agent.source", "coding_agent.source.scope">>)
    \o <<Text("coding_agent.client.name", <<"resource service.name">>), Version>>

-----------------------------------------------------------------------------
(* OpenCode *)

OpenCodeUsage == <<
    Rule(InputTokens, <<"ai.usage.inputTokens">>, {"int"}),
    Rule(OutputTokens, <<"ai.usage.outputTokens">>, {"int"}),
    Rule(CacheRead, <<"ai.usage.cachedInputTokens">>, {"int"}),
    Rule(TotalTokens, <<"ai.usage.totalTokens">>, {"int"}),
    Rule(Reasoning, <<"ai.usage.reasoningTokens",
                      "ai.usage.outputTokenDetails.reasoningTokens">>, {"int", "double"})>>

OpenCodeRoot(identity) ==
    Const(<<"gen_ai.agent.name">>)
    \o <<Text(Conversation, <<"session.id", "resource session.id">>)>>
    \o If(identity, <<Text("coding_agent.user.id", <<"ai.telemetry.metadata.userId">>)>>)
    \o OpenCodeUsage

OpenCodeChat ==
    <<Text("gen_ai.request.model", <<"gen_ai.request.model">>)>> \o OpenCodeUsage \o
    <<Rule(InputTokens, <<InputTokens>>, {"int", "double"}),
      Rule(OutputTokens, <<OutputTokens>>, {"int", "double"}),
      Rule(TotalTokens, <<"ai.usage.totalTokens">>, {"int", "double"}),
      Rule(FirstChunk, <<"ai.response.msToFirstChunk">>, {"int", "double"}),
      Text("gen_ai.response.id", <<"gen_ai.response.id">>),
      Text("gen_ai.response.model", <<"gen_ai.response.model">>),
      Rule("gen_ai.request.max_tokens", <<"gen_ai.request.max_tokens">>, {"int", "double"})>>

OpenCode(op, identity) ==
    Const(<<"coding_agent.source", "coding_agent.client.name", "coding_agent.source.event",
            "gen_ai.operation.name">>)
    \o <<Version, Text("gen_ai.provider.name", <<"ai.model.provider">>)>>
    \o If(op = "root", OpenCodeRoot(identity)) \o If(op = "chat", OpenCodeChat)
    \o If(op = "tool", <<Text("gen_ai.tool.name", <<"ai.toolCall.name">>),
                         Text("gen_ai.tool.call.id", <<"ai.toolCall.id">>)>>)

-----------------------------------------------------------------------------
(* Pi.  "usage{...}" is a member of the serialized usage object, where a   *)
(* number is a double; "model{prefix}" is what comes before the requested  *)
(* model in the model.                                                     *)

UsageMembers == {"usage{input}", "usage{output}", "usage{totalTokens}", "usage{cacheRead}",
                 "usage{cacheWrite}", "usage{reasoning}", "usage{cost.total}"}

PiCount(to, member, flat) ==
    <<Count(to, <<flat>>), Rule(to, <<member>>, {"double", "digits"})>>

PiUsage ==
    PiCount(InputTokens, "usage{input}", "usage.input")
    \o PiCount(OutputTokens, "usage{output}", "usage.output")
    \o PiCount(TotalTokens, "usage{totalTokens}", "usage.total_tokens")
    \o PiCount(CacheRead, "usage{cacheRead}", "usage.cache_read")
    \o PiCount(CacheWrite, "usage{cacheWrite}", "usage.cache_write")
    \o <<Rule(Reasoning, <<"usage{reasoning}">>, {"double", "digits"})>>
    \o PiCount(Cost, "usage{cost.total}", "usage.cost.total")

PiChat == <<
    Text("gen_ai.request.model", <<"requestedModel", "model">>),
    Text("gen_ai.provider.name", <<"provider", "model{prefix}">>),
    Text("gen_ai.request.reasoning.level", <<"thinkingLevel">>),
    Text("gen_ai.response.finish_reasons", <<"stopReason">>),
    Text("gen_ai.response.id", <<"responseId">>),
    Rule(FirstChunk, <<"completion_start_time">>, {"text"})>> \o PiUsage

Pi(op) ==
    Const(<<"coding_agent.source", "coding_agent.client.name", "coding_agent.source.event",
            "gen_ai.operation.name">>) \o <<Version>>
    \o If(op = "root", Const(<<"gen_ai.agent.name">>) \o <<Text(Conversation, <<"sessionId">>)>>)
    \o If(op = "chat", PiChat)
    \o If(op = "tool", <<Text("gen_ai.tool.name", <<"toolName">>),
                         Text("gen_ai.tool.call.id", <<"toolCallId">>)>>)

-----------------------------------------------------------------------------
(* OpenHands.  "wrapper ..." is an attribute of the wrapper span that was  *)
(* folded into a call.                                                     *)

OpenHandsCount(to, key, ofWrapper) == <<
    Rule(to, <<key>>, {"int"}), Absent(Rule(to, <<ofWrapper>>, {"int"}))>>

OpenHandsRoot(identity) ==
    Const(<<"gen_ai.agent.name", "coding_agent.source.scope">>) \o <<
    Text(Conversation, <<"session_id">>), Text("gen_ai.agent.id", <<"subagent_type">>),
    Text("coding_agent.agent.parent_id", <<"parent_session_id">>)>>
    \o If(identity, <<Text("coding_agent.user.id", <<"user_id">>)>>)

OpenHandsChat == <<
    Text("gen_ai.provider.name", <<"gen_ai.system">>),
    Text("gen_ai.request.model", <<"gen_ai.request.model">>),
    Text("gen_ai.request.reasoning.level", <<"gen_ai.request.reasoning_effort">>),
    Rule("gen_ai.request.max_tokens", <<"gen_ai.request.max_tokens">>, {"int"}),
    Text("gen_ai.response.id", <<"gen_ai.response.id">>),
    Text("gen_ai.response.model", <<"gen_ai.response.model">>)>>
    \o OpenHandsCount(InputTokens, InputTokens, "wrapper gen_ai.usage.input_tokens")
    \o OpenHandsCount(OutputTokens, OutputTokens, "wrapper gen_ai.usage.output_tokens")
    \o OpenHandsCount(TotalTokens, "llm.usage.total_tokens", "wrapper llm.usage.total_tokens")
    \o OpenHandsCount(CacheRead, "gen_ai.usage.cache_read_input_tokens",
                      "wrapper gen_ai.usage.cache_read_input_tokens")
    \o OpenHandsCount(CacheWrite, "gen_ai.usage.cache_creation_input_tokens",
                      "wrapper gen_ai.usage.cache_creation_input_tokens")
    \o <<Rule(Cost, <<"gen_ai.usage.cost">>, {"double"}),
         Absent(Rule(Cost, <<"wrapper gen_ai.usage.cost">>, {"double"}))>>

OpenHands(op, identity) ==
    Const(<<"coding_agent.source", "coding_agent.client.name", "gen_ai.operation.name">>)
    \o If(op = "root", OpenHandsRoot(identity)) \o If(op = "chat", OpenHandsChat)
    \o If(op = "tool", Const(<<"gen_ai.tool.name">>)
                       \o <<Text("gen_ai.tool.call.id", <<"tool_call_id">>)>>)

-----------------------------------------------------------------------------
(* Native Codex traces.  "turn ..." is a model found in the batch.         *)

CodexNativeRoot ==
    Const(<<"gen_ai.agent.name", "gen_ai.provider.name">>) \o <<
    Text(Conversation, <<"thread.id", "conversation.id">>),
    Text("gen_ai.request.model", <<"model">>),
    Text("gen_ai.request.reasoning.level", <<"codex.turn.reasoning_effort">>),
    Count(InputTokens, <<"codex.turn.token_usage.input_tokens">>),
    Count(CacheRead, <<"codex.turn.token_usage.cached_input_tokens">>),
    Count(CacheWrite, <<"codex.turn.token_usage.cache_write_input_tokens">>),
    Count(OutputTokens, <<"codex.turn.token_usage.output_tokens">>),
    Count(Reasoning, <<"codex.turn.token_usage.reasoning_output_tokens">>),
    Count(TotalTokens, <<"codex.turn.token_usage.total_tokens">>)>>

CodexNativeChat ==
    Const(<<"gen_ai.provider.name">>) \o <<
    Text("gen_ai.request.model", <<"turn model">>),
    Text("gen_ai.request.reasoning.level", <<"codex.request.reasoning_effort">>)>>
    \o [i \in 1..4 |-> LET k == <<InputTokens, CacheRead, CacheWrite, OutputTokens>>[i]
                       IN  Count(k, <<k>>)]
    \o <<Count(Reasoning, <<"codex.usage.reasoning_output_tokens">>),
         Count(TotalTokens, <<"codex.usage.total_tokens">>)>>

CodexNative(op) ==
    Const(<<"coding_agent.source", "coding_agent.client.name", "coding_agent.source.event",
            "gen_ai.operation.name">>) \o <<Version>>
    \o If(op = "root", CodexNativeRoot) \o If(op = "chat", CodexNativeChat)
    \o If(op = "mcp", Const(<<"gen_ai.tool.type">>) \o <<
            Text("gen_ai.tool.name", <<"tool.name">>),
            Text("gen_ai.tool.call.id", <<"tool.call_id">>),
            Text("server.address", <<"server.address">>),
            Count("server.port", <<"server.port">>)>>)
    \o If(op = "tool", Const(<<"gen_ai.tool.type">>) \o <<
            Text("gen_ai.tool.name", <<"event tool_name">>),
            Text("gen_ai.tool.call.id", <<"event call_id">>)>>)
=============================================================================
