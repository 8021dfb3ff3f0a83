---------------------------- MODULE LogAttributes ----------------------------
(***************************************************************************)
(* What the two logs edges make of the attributes of their records, as the *)
(* rules of CanonicalContract.  A root reads the latest record that has    *)
(* the key (Codex) or the resource of the burst (Cursor).                  *)
(***************************************************************************)
EXTENDS CanonicalContract

\* stringValue: whatever the value is, it is printed.
Printed(to, from) == Rule(to, from, ValueKinds)

Owned == <<"gen_ai.operation.name", "coding_agent.source", "coding_agent.client.name",
           "coding_agent.source.event">>

CodexRoot(identity) ==
    Const(<<"gen_ai.agent.name", "gen_ai.provider.name", "gen_ai.conversation.id">>) \o <<
    Printed("gen_ai.request.model", <<"model">>),
    Printed("coding_agent.client.version", <<"app.version">>),
    Printed("coding_agent.terminal.type", <<"terminal.type">>)>>
    \o If(identity, <<Printed("coding_agent.user.id", <<"user.account_id">>),
                      Printed("coding_agent.user.email", <<"user.email">>)>>)

CodexChat ==
    Const(<<"gen_ai.provider.name">>) \o <<
    Printed("gen_ai.request.model", <<"model">>),
    Printed("gen_ai.request.reasoning.level", <<"model_reasoning_effort">>),
    Printed("coding_agent.request.service_tier", <<"service_tier">>),
    Count("gen_ai.usage.input_tokens", <<"input_token_count">>),
    Count("gen_ai.usage.output_tokens", <<"output_token_count">>),
    Count("gen_ai.usage.cache_read.input_tokens", <<"cached_token_count">>),
    Count("gen_ai.usage.cache_write.input_tokens", <<"cache_write_token_count">>),
    Count("gen_ai.usage.total_tokens", <<"tool_token_count">>),
    Count("gen_ai.usage.reasoning.output_tokens", <<"reasoning_token_count">>),
    Count("gen_ai.response.time_to_first_chunk", <<"ttft_ms">>)>>

\* A tool without a name is called "unknown".
CodexTool == Const(<<"gen_ai.tool.name">>) \o <<
    Printed("gen_ai.tool.name", <<"tool_name">>),
    Printed("gen_ai.tool.call.id", <<"call_id">>),
    Printed("gen_ai.agent.id", <<"agent_name">>)>>

CodexLogs(op, identity) ==
    Const(Owned) \o (CASE op = "root" -> CodexRoot(identity)
                       [] op = "chat" -> CodexChat
                       [] op = "tool" -> CodexTool)

CursorRoot(identity) ==
    Const(<<"gen_ai.agent.name", "gen_ai.conversation.id">>) \o <<
    Printed("coding_agent.client.version", <<"resource service.version">>)>>
    \o If(identity, <<Printed("coding_agent.user.id", <<"resource cursor.user.id">>),
                      Printed("coding_agent.user.email", <<"resource cursor.user.email">>),
                      Printed("coding_agent.team.id", <<"resource cursor.team.id">>)>>)

CursorChat == <<
    Printed("gen_ai.request.model", <<"cursor.model.name">>),
    Count("gen_ai.usage.input_tokens", <<"cursor.api.request.input_tokens">>),
    Count("gen_ai.usage.output_tokens", <<"cursor.api.request.output_tokens">>),
    Count("gen_ai.usage.cache_read.input_tokens", <<"cursor.api.request.cache_read_tokens">>),
    Count("gen_ai.usage.cache_write.input_tokens",
          <<"cursor.api.request.cache_creation_tokens">>)>>

CursorTool == Const(<<"gen_ai.tool.type">>) \o <<
    Printed("gen_ai.tool.name", <<"cursor.tool.name">>),
    Printed("gen_ai.tool.call.id", <<"cursor.grok_bot.tool_call.id">>)>>

CursorLogs(op, identity) ==
    Const(Owned) \o (CASE op = "root" -> CursorRoot(identity)
                       [] op = "chat" -> CursorChat
                       [] op = "tool" -> CursorTool)
=============================================================================
