--------------------------- MODULE MCTracesRouter ----------------------------
(***************************************************************************)
(* Small instances of TracesRouter.  The spans are the ones each agent     *)
(* sends; a group is any small set of them under one resource, as a        *)
(* collector that groups by resource would put them together.              *)
(***************************************************************************)
EXTENDS TracesRouter, FiniteSetsExt

Wire(scope, name, marks) == [scope |-> scope, name |-> name, marks |-> marks]

NativeSpans == {
    Wire("other", "claude", {}), Wire("opencode", "ai", {}),
    Wire("strands", "app", {"operation", "usage"}),
    Wire("strands", "app", {}),
    Wire("pi", "app", {"toolName"}),
    Wire("lmnr", "conversation", {}), Wire("lmnr", "app", {"laminar", "usage"}),
    Wire("svc", "turn", {"codex"}), Wire("svc", "app", {"usage", "codex"}),
    Wire("other", "app", {"usage"})}

Grouped(n) ==
    [service : {"svc", "none"}, piSdk : BOOLEAN,
     spans : UNION {kSubset(k, NativeSpans) : k \in 1..n}]

\* Every group of up to three spans, one group to a payload.
Singles == {{g} : g \in Grouped(3)}

\* One or two groups to a payload, each of one service and one agent's span.
OfOneAgent == {g \in Grouped(1) : g.service = "svc" /\ ~g.piSdk}
Pairs == {{g, h} : g, h \in OfOneAgent}

SmallPayloads == Singles \cup Pairs

\* The hypothesis of SpanTwiceByCodexAlone holds of what is sent here.
ASSUME OneAgentPerSpan
=============================================================================
