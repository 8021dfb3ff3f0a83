------------------------------ MODULE Assembly -------------------------------
(***************************************************************************)
(* An edge is a function of what came together.  An agent exports spans,   *)
(* or logs records, in any order and in any composition, and some are      *)
(* lost; an edge makes spans of each batch by itself, and a backend keeps  *)
(* them all.  A batch is a sequence of groups (resource groups, or the     *)
(* slices of two scopes); of a stateful edge it is the one group of        *)
(* records that a turn or a burst retained, in the order of arrival.       *)
(*                                                                         *)
(* A batch that is sent again yields the same spans, so retries change     *)
(* nothing in the backend's set and are left out.                          *)
(***************************************************************************)
EXTENDS Integers, FiniteSets, SequencesExt

CONSTANTS Sent,            \* what an agent may send, see below
          Normalize(_, _)  \* what an edge makes of a batch: a set of outputs

\* edge: who receives it; items: spans or records; groups, batches: how many
\* groups a batch may have, and how many batches there may be.
ASSUME SentAssumption ==
    \A s \in Sent : /\ IsFiniteSet(s.items)
                    /\ {s.groups, s.batches} \subseteq Nat \ {0}

VARIABLES sent,    \* what this agent sends
          unsent,  \* its items that are in no batch
          open,    \* the batch that is being put together
          backend  \* what is in the backend, each with the batch it came in

vars == <<sent, unsent, open, backend>>

Closed == {x.batch : x \in backend}

Init ==
    /\ sent \in Sent
    /\ unsent = sent.items
    /\ open = <<>>
    /\ backend = {}

\* An item comes next, in the last group or as the first of a new one.  An item
\* that never comes is lost.
Add ==
    \E i \in unsent :
        /\ Cardinality(Closed) < sent.batches
        /\ \/ open # <<>> /\ open' = [open EXCEPT ![Len(open)] = Append(@, i)]
           \/ Len(open) < sent.groups /\ open' = Append(open, <<i>>)
        /\ unsent' = unsent \ {i}
        /\ UNCHANGED <<sent, backend>>

\* The batch is exported, or the turn or burst is finalized.
Close ==
    /\ open # <<>>
    /\ backend' = backend \cup
         {[batch |-> open, out |-> o] : o \in Normalize(sent.edge, open)}
    /\ open' = <<>>
    /\ UNCHANGED <<sent, unsent>>

Next == Add \/ Close

Spec == Init /\ [][Next]_vars

-----------------------------------------------------------------------------

\* What an edge put in the backend.
From(e) == IF sent.edge = e THEN backend ELSE {}

ItemsOf(b) == UNION {ToSet(b[i]) : i \in DOMAIN b}

\* The elements of S as a sequence, by their rank in a total order R.
InOrder(S, R) ==
    [p \in 1..Cardinality(S) |->
        CHOOSE x \in S : Cardinality({y \in S : <<y, x>> \in R}) = p - 1]

\* The elements of sequence q at the positions I, in their order.
At(q, I) ==
    LET positions == InOrder(I, {p \in I \X I : p[1] < p[2]})
    IN  [p \in 1..Cardinality(I) |-> q[positions[p]]]

Outputs(e) == {x.out : x \in From(e)}

(* Trees of spans; an output span has a trace, an id, a parent and a kind. *)

None == 0

\* The outputs that came in the same batch as x.
Together(x) == {y.out : y \in {z \in backend : z.batch = x.batch}}

Parents(o, S) == {p \in S : p.trace = o.trace /\ p.id = o.parent}

\* Following parents within S, o comes to a root: whatever holds o and the
\* parents of all it holds, holds a root.
HangsFromRoot(o, S) ==
    \A C \in SUBSET S :
        (o \in C /\ \A p \in C : Parents(p, S) \subseteq C) => \E p \in C : p.kind = "root"
=============================================================================
