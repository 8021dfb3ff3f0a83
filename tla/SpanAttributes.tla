---------------------------- MODULE SpanAttributes ---------------------------
(***************************************************************************)
(* A span of any edge comes in with some attributes and goes out with the  *)
(* canonical ones, on a resource that is filtered.  The attributes of the  *)
(* resource are read before the filter removes them.                       *)
(***************************************************************************)
EXTENDS TraceAttributes, LogAttributes, FiniteSets

CONSTANTS
    WiresOf(_, _)   \* The attributes a span of an edge and an operation may have.

VARIABLES
    pending,    \* The span that has not been normalized, if any: [edge, op,
                \* identity, wire].
    emitted     \* [span, attrs, resource] of the span that was, if it went out.

vars == <<pending, emitted>>

Edges == {"claude", "genai", "opencode", "pi", "openhands", "codex_native",
          "codex_logs", "cursor_logs"}

Ops(edge) == {"root", "chat", "tool"}
    \cup (CASE edge = "claude" -> {"sub"} [] edge = "codex_native" -> {"mcp"} [] OTHER -> {})

Rules(edge, op, identity) ==
    CASE edge = "claude" -> Claude(op, identity)
      [] edge = "genai" -> GenAI(op, identity)
      [] edge = "opencode" -> OpenCode(op, identity)
      [] edge = "pi" -> Pi(op)
      [] edge = "openhands" -> OpenHands(op, identity)
      [] edge = "codex_native" -> CodexNative(op)
      [] edge = "codex_logs" -> CodexLogs(op, identity)
      [] edge = "cursor_logs" -> CursorLogs(op, identity)

NamesService(wire) ==
    /\ "resource service.name" \in DOMAIN wire
    /\ wire["resource service.name"] \in Strings

\* The edge of native Codex traces only claims groups under the name of their
\* service.  A number in JSON is a double.
Possible(edge, wire) ==
    /\ edge = "codex_native" => NamesService(wire)
    /\ \A k \in UsageMembers \cap DOMAIN wire : wire[k] # "int"

ASSUME WiresAssumption ==
    \A edge \in Edges : \A op \in Ops(edge) : \A wire \in WiresOf(edge, op) :
        wire \in [DOMAIN wire -> ValueKinds] /\ Possible(edge, wire)

\* The edges that write into the span they got.
InPlace == {"claude", "genai"}

Attributes(s) ==
    LET rules == Rules(s.edge, s.op, s.identity)
    IN  IF s.edge \in InPlace
        THEN Strip(ApplyAll(rules, s.wire, AsIs(s.wire)))
        ELSE Rewrite(rules, s.wire)

\* GenAI drops a span without an operation.
Kept(s) == s.edge = "genai" => "gen_ai.operation.name" \in DOMAIN s.wire

-----------------------------------------------------------------------------
Init ==
    /\ \E edge \in Edges : \E op \in Ops(edge), identity \in BOOLEAN :
           \E wire \in WiresOf(edge, op) :
               pending = {[edge |-> edge, op |-> op, identity |-> identity, wire |-> wire]}
    /\ emitted = {}

Normalize(s) ==
    /\ s \in pending
    /\ Kept(s)
    /\ pending' = {}
    /\ emitted' = {[span |-> s, attrs |-> Attributes(s),
                    resource |-> FilterResource(s.wire, s.identity)]}

Drop(s) ==
    /\ s \in pending
    /\ ~Kept(s)
    /\ pending' = {}
    /\ UNCHANGED emitted

Next == \E s \in pending : Normalize(s) \/ Drop(s)

Spec == Init /\ [][Next]_vars

-----------------------------------------------------------------------------
(* Properties *)

\* What is missing where the resource does not name its service: this name, and
\* of a GenAI span the client, which it takes from there.
Lacking(s) ==
    {k \in RequiredResourceKeys : k \notin DOMAIN s.wire}
    \cup {k \in {"coding_agent.client.name"} : s.edge = "genai" /\ ~NamesService(s.wire)}

\* Without capture_identity, no edge gives a person or a host to what it emits.
\* The edges that write in place let a canonical key of a person pass that the
\* sender itself has put on the span.
IdentityWithheld ==
    \A o \in emitted : ~o.span.identity =>
        /\ \A k \in DOMAIN o.attrs \cap Identity :
             /\ o.span.edge \in InPlace /\ k \in DOMAIN o.span.wire
             /\ o.attrs[k] = [from |-> k, kind |-> o.span.wire[k]]
        /\ "resource host.name" \notin DOMAIN o.resource

\* What goes out satisfies the contract of canonical.Check: no key outside the
\* vocabulary on the span or its resource, and the required keys, but for the
\* two that depend on a resource that names its service; and with
\* capture_identity off no value of the wire becomes the identity of anybody.
Contract ==
    /\ \A o \in emitted : ConformsBut(Lacking(o.span), o.attrs, o.resource)
    /\ IdentityWithheld

\* The counters the rules of a span's edge pair with an attribute of the wire.
Pairs(s) ==
    {<<r.to, k>> : r \in {r \in ToSet(Rules(s.edge, s.op, s.identity)) : r.to \in Counters},
                   k \in DOMAIN s.wire}
Paired(s) ==
    {p \in Pairs(s) : \E r \in ToSet(Rules(s.edge, s.op, s.identity)) :
                        r.to = p[1] /\ p[2] \in ToSet(r.from)}

Counted(o, kinds) ==
    \A p \in Paired(o.span) :
        \/ o.span.wire[p[2]] \notin kinds
        \/ p[1] \in DOMAIN o.attrs /\ o.attrs[p[1]].kind \in Numbers
        \/ o.span.edge = "genai" /\ p[1] \in DOMAIN o.span.wire

IntegersOnly == {"opencode", "openhands"}
Countable(edge) == IF edge \in IntegersOnly THEN {"int"} ELSE Numbers

\* A well-formed counter is not lost: an integer, a double or digits on the
\* wire come out as a number under the canonical key, whatever else the span
\* carries for it.  Two edges only take integers.  (For GenAI the canonical
\* key of the wire stands, well-formed or not.)
CountersKept ==
    \A o \in emitted : Counted(o, Countable(o.span.edge))

\* What GenAI writes itself, whether the span has it or not.
GenAIWrites == {"coding_agent.usage.cost", "coding_agent.user.id",
                "coding_agent.client.name", "coding_agent.client.version",
                "coding_agent.source", "coding_agent.source.scope"}

\* GenAI never replaces an attribute of the conventions that the span has.
CanonicalKeyWins ==
    \A o \in emitted : o.span.edge = "genai" =>
        \A k \in DOMAIN o.span.wire \cap Vocabulary :
            k \in DOMAIN o.attrs
            /\ (k \notin GenAIWrites => o.attrs[k] = [from |-> k, kind |-> o.span.wire[k]])

\* Where an edge finds the conversation, on the span or on the resource.
Sessions(edge) ==
    CASE edge = "claude" -> {"gen_ai.conversation.id", "session.id", "session_id",
                             "resource session.id"}
      [] edge = "opencode" -> {"session.id", "resource session.id"}
      [] edge = "genai" -> {"gen_ai.conversation.id"}
      [] edge = "pi" -> {"sessionId"}
      [] edge = "openhands" -> {"session_id"}
      [] edge = "codex_native" -> {"thread.id", "conversation.id"}
      [] OTHER -> {}

\* A root tells its conversation whenever anything on the span or its resource
\* does: what the filter of the resource removes was read before.
ConversationKept ==
    \A o \in emitted :
        o.span.op = "root"
        /\ (\E k \in Sessions(o.span.edge) \cap DOMAIN o.span.wire : o.span.wire[k] \in Strings)
        => "gen_ai.conversation.id" \in DOMAIN o.attrs
=============================================================================
