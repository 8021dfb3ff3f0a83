--------------------------- MODULE MCSpanAttributes ---------------------------
(***************************************************************************)
(* Spans whose attributes all bear on one canonical key: those its rules   *)
(* read and the key itself, each absent or of any kind, next to what every *)
(* span of the edge has (Always).                                          *)
(***************************************************************************)
EXTENDS TLC, SpanAttributes

CONSTANTS
    Always      \* Attributes every span has.

\* Keys no rule reads, and what a resource may lack.
Strangers == {"vendor.key", "gen_ai.usage.prompt_tokens_details", "gen_ai.system",
              "resource host.name", "resource cloud.region", "resource service.name"}

Subjects == Strangers \cup Vocabulary

Feeding(edge, op, to) ==
    {to} \cup UNION {ToSet(r.from) : r \in {r \in ToSet(Rules(edge, op, TRUE)) : r.to = to}}
         \cup (IF to = Conversation THEN Sessions(edge) ELSE {})

Wires(keys) == UNION {[K -> ValueKinds] : K \in SUBSET keys}

Standing(keys) == [k \in Always \ keys |-> "text"]

MCWires(edge, op) ==
    UNION {LET keys == Feeding(edge, op, subject)
           IN  {w \in {v @@ Standing(keys) : v \in Wires(keys)} : Possible(edge, w)} :
             subject \in Subjects}
=============================================================================
