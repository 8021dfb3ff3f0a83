-------------------------- MODULE CanonicalContract --------------------------
(***************************************************************************)
(* The canonical vocabulary as data (internal/canonical), the reduction of *)
(* a span to it (internal/content), and the rules an edge is made of: each *)
(* gives one canonical key a value from the attributes on the wire.        *)
(*                                                                         *)
(* Attributes are a function from keys to the kind of their value; what a  *)
(* rule writes also has the key it was read from.  An attribute of the     *)
(* resource is a key of its own, "resource ...".                           *)
(***************************************************************************)
EXTENDS Naturals, Sequences, SequencesExt

\* A double, an integer, a string of digits or of anything else.
ValueKinds == {"int", "double", "digits", "text"}
Strings == {"digits", "text"}
Numbers == {"int", "double", "digits"}

Identity == {"coding_agent.user.id", "coding_agent.user.email", "coding_agent.team.id"}

\* The usage counters.  The edges' tables below spell them out; so does this.
Counters == {"gen_ai.usage.input_tokens", "gen_ai.usage.output_tokens",
             "gen_ai.usage.total_tokens", "gen_ai.usage.cache_read.input_tokens",
             "gen_ai.usage.cache_write.input_tokens",
             "gen_ai.usage.reasoning.output_tokens"}

RequiredKeys == {"gen_ai.operation.name", "coding_agent.source", "coding_agent.client.name"}

\* The other keys.  "exception.message" stands for all that the prefix
\* "exception." lets in.
OtherKeys ==
    {"gen_ai.provider.name", "gen_ai.request.model", "gen_ai.request.max_tokens",
     "gen_ai.request.stream", "gen_ai.request.reasoning.level", "gen_ai.response.finish_reasons",
     "gen_ai.response.id", "gen_ai.response.model",
     "gen_ai.response.time_to_first_chunk", "gen_ai.agent.id", "gen_ai.agent.name",
     "gen_ai.agent.version", "gen_ai.conversation.id", "gen_ai.tool.call.id", "gen_ai.tool.name",
     "gen_ai.tool.type", "gen_ai.tool.status", "gen_ai.event.start_time",
     "gen_ai.event.end_time", "server.address", "server.port", "exception.message",
     "coding_agent.request.service_tier", "coding_agent.usage.cost",
     "coding_agent.source.scope", "coding_agent.source.event",
     "coding_agent.client.version", "coding_agent.terminal.type",
     "coding_agent.agent.parent_id"}

Vocabulary == Counters \cup Identity \cup RequiredKeys \cup OtherKeys

ResourceKeys == {"resource service.name", "resource service.version",
                 "resource telemetry.sdk.name", "resource host.name"}
RequiredResourceKeys == {"resource service.name"}

Only(f, S) == [k \in DOMAIN f \cap S |-> f[k]]

\* content.Strip
Strip(attrs) == Only(attrs, Vocabulary)

FilterResource(wire, identity) ==
    Only(wire, IF identity THEN ResourceKeys ELSE ResourceKeys \ {"resource host.name"})

\* checkRequired, checkAllowed and checkResource, but for the keys in lacking.
ConformsBut(lacking, attrs, resource) ==
    /\ RequiredKeys \ lacking \subseteq DOMAIN attrs
    /\ DOMAIN attrs \subseteq Vocabulary
    /\ RequiredResourceKeys \ lacking \subseteq DOMAIN resource
    /\ DOMAIN resource \subseteq ResourceKeys

-----------------------------------------------------------------------------
(* Rules.  [to, from, as, over]: the first key of from whose value is of a *)
(* kind in as gives the value; one that is there is replaced if over.      *)

Rule(to, from, as) == [to |-> to, from |-> from, as |-> as, over |-> TRUE]
Text(to, from) == Rule(to, from, Strings)
Count(to, from) == Rule(to, from, Numbers)
Absent(rule) == [rule EXCEPT !.over = FALSE]

\* Keys that get a constant.
Const(keys) == [i \in DOMAIN keys |-> Rule(keys[i], <<>>, {})]

\* Rules of some spans only.
If(condition, rules) == IF condition THEN rules ELSE <<>>

Usable(r, wire) == SelectInSeq(r.from, LAMBDA k : k \in DOMAIN wire /\ wire[k] \in r.as)

\* Mutant of Apply: a value that is there is never kept.
ApplyOver(r, wire, attrs) ==
    LET i == Usable(r, wire)
    IN  IF r.from # <<>> /\ i = 0 THEN attrs
        ELSE LET value == IF i = 0 THEN [from |-> "const", kind |-> "text"]
                          ELSE [from |-> r.from[i], kind |-> wire[r.from[i]]]
             IN  [k \in DOMAIN attrs \cup {r.to} |-> IF k = r.to THEN value ELSE attrs[k]]

Apply(r, wire, attrs) ==
    LET i == Usable(r, wire)
    IN  IF (r.from # <<>> /\ i = 0) \/ (~r.over /\ r.to \in DOMAIN attrs) THEN attrs
        ELSE LET value == IF i = 0 THEN [from |-> "const", kind |-> "text"]
                          ELSE [from |-> r.from[i], kind |-> wire[r.from[i]]]
             IN  [k \in DOMAIN attrs \cup {r.to} |-> IF k = r.to THEN value ELSE attrs[k]]

\* One rule after the other, as the code is written.
ApplyAll(rules, wire, attrs) ==
    LET after[i \in 0..Len(rules)] ==
          IF i = 0 THEN attrs ELSE Apply(rules[i], wire, after[i - 1])
    IN  after[Len(rules)]

Rewrite(rules, wire) == ApplyAll(rules, wire, <<>>)

\* The attributes of the wire as they are.
AsIs(wire) == [k \in DOMAIN wire |-> [from |-> k, kind |-> wire[k]]]
=============================================================================
