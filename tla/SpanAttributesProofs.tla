------------------------ MODULE SpanAttributesProofs ------------------------
(***************************************************************************)
(* What comes out of every edge, for every span that may come in.  Each    *)
(* edge is a table of rules, applied one after the other: what is proved   *)
(* of one rule is carried through a table by induction over its length,    *)
(* and what a property asks of the rules is checked of every table.        *)
(***************************************************************************)
EXTENDS SpanAttributes, InductionLemmas, SequenceTheorems

-----------------------------------------------------------------------------
(* What one rule does to the attributes of a span. *)

IsWire(w) == w \in [DOMAIN w -> ValueKinds]

\* What is written has its kind, and the key of the wire it was read from.
Value(w) == [from : DOMAIN w \cup {"const"}, kind : ValueKinds]

Attrs(w) == UNION {[D -> Value(w)] : D \in SUBSET (Vocabulary \cup DOMAIN w)}

IsRule(r) == /\ r.to \in Vocabulary /\ r.over \in BOOLEAN /\ r.as \subseteq ValueKinds
             /\ Len(r.from) \in Nat /\ DOMAIN r.from = 1..Len(r.from)

\* The attributes of a span, as functions.
LEMMA AttrsFacts ==
    ASSUME NEW w
    PROVE  /\ \A a \in Attrs(w) : /\ DOMAIN a \subseteq Vocabulary \cup DOMAIN w
                                  /\ a \in [DOMAIN a -> Value(w)]
           /\ \A D \in SUBSET (Vocabulary \cup DOMAIN w) :
                \A a \in [D -> Value(w)] : a \in Attrs(w)
  BY DEF Attrs

\* A rule reads the first of its keys whose value is of a kind it takes.
LEMMA UsableIsFirst ==
    ASSUME NEW r, IsRule(r), NEW w
    PROVE  /\ Usable(r, w) \in 0..Len(r.from)
           /\ Usable(r, w) # 0 =>
                /\ r.from[Usable(r, w)] \in DOMAIN w
                /\ w[r.from[Usable(r, w)]] \in r.as
           /\ Usable(r, w) = 0 =>
                \A i \in 1..Len(r.from) : ~(r.from[i] \in DOMAIN w /\ w[r.from[i]] \in r.as)
<1> DEFINE I == {i \in 1..Len(r.from) : r.from[i] \in DOMAIN w /\ w[r.from[i]] \in r.as}
<1>1. Usable(r, w) = IF I # {} THEN Min(I) ELSE 0
  BY DEF Usable, SelectInSeq
<1>2. Len(r.from) \in Nat
  BY DEF IsRule
<1>3. CASE I = {}
  <2>1. Usable(r, w) = 0
    BY <1>1, <1>3
  <2>2. \A i \in 1..Len(r.from) : ~(r.from[i] \in DOMAIN w /\ w[r.from[i]] \in r.as)
    BY <1>3
  <2> QED  BY <1>2, <2>1, <2>2
<1>4. CASE I # {}
  <2>1. I \in SUBSET Int /\ IsFiniteSet(I)
    <3>1. I \in SUBSET (1..Len(r.from)) /\ 1 \in Int /\ Len(r.from) \in Int
      BY <1>2
    <3>2. IsFiniteSet(1..Len(r.from))
      BY <3>1, FS_Interval
    <3>3. IsFiniteSet(I)
      BY <3>1, <3>2, FS_Subset
    <3> QED  BY <3>3, <1>2
  <2> HIDE DEF I
  <2>2. \E m \in I : \A n \in I : m <= n
    BY <1>4, <2>1, LeastNumber
  <2>3. Min(I) \in I
    BY <2>2 DEF Min
  <2>4. Usable(r, w) \in I
    BY <1>1, <1>4, <2>3
  <2> QED  BY <2>4, <1>2 DEF I
<1> QED  BY <1>3, <1>4

\* From attributes a, a rule makes b: it leaves them as they are, or writes its
\* key and nothing else.
Effect(r, w, a, b) ==
    /\ b \in Attrs(w)
    /\ DOMAIN a \subseteq DOMAIN b
    /\ DOMAIN b \subseteq DOMAIN a \cup {r.to}
    /\ \A k \in DOMAIN a : k # r.to => b[k] = a[k]
    /\ ~r.over => \A k \in DOMAIN a : b[k] = a[k]
    /\ r.from # <<>> => b = a \/ b[r.to].kind \in r.as
    /\ (r.from = <<>> \/ Usable(r, w) # 0) => r.to \in DOMAIN b
    /\ (r.over /\ r.from # <<>> /\ Usable(r, w) # 0) => b[r.to].kind \in r.as

\* Every rule has the effect its fields announce (Apply).
LEMMA ApplyWrites ==
    ASSUME NEW r, IsRule(r), NEW w, IsWire(w), NEW a \in Attrs(w)
    PROVE  Effect(r, w, a, Apply(r, w, a))
<1> DEFINE b == Apply(r, w, a)
           i == Usable(r, w)
           value == IF i = 0 THEN [from |-> "const", kind |-> "text"]
                             ELSE [from |-> r.from[i], kind |-> w[r.from[i]]]
           skip == (r.from # <<>> /\ i = 0) \/ (~r.over /\ r.to \in DOMAIN a)
<1> SUFFICES Effect(r, w, a, b)
  OBVIOUS
<1>1. b = IF skip THEN a ELSE [k \in DOMAIN a \cup {r.to} |-> IF k = r.to THEN value ELSE a[k]]
  BY DEF Apply
<1>2. /\ i \in 0..Len(r.from)
      /\ i # 0 => r.from[i] \in DOMAIN w /\ w[r.from[i]] \in r.as
  BY UsableIsFirst
<1>3. /\ r.to \in Vocabulary /\ r.as \subseteq ValueKinds /\ r.over \in BOOLEAN
      /\ DOMAIN a \subseteq Vocabulary \cup DOMAIN w /\ a \in [DOMAIN a -> Value(w)]
  BY AttrsFacts DEF IsRule
<1>4. value \in Value(w) /\ (i # 0 => value.kind \in r.as)
  <2>1. CASE i = 0
    BY <2>1 DEF Value, ValueKinds
  <2>2. CASE i # 0
    BY <1>2, <1>3, <2>2 DEF Value
  <2> QED  BY <2>1, <2>2
<1>5. CASE skip
  <2>1. b = a
    BY <1>1, <1>5
  <2>2. (r.from = <<>> \/ i # 0) => ~r.over /\ r.to \in DOMAIN a
    BY <1>5
  <2> HIDE DEF b
  <2> QED  BY <2>1, <2>2, <1>3 DEF Effect
<1> HIDE DEF value
<1>6. CASE ~skip
  <2>1. b = [k \in DOMAIN a \cup {r.to} |-> IF k = r.to THEN value ELSE a[k]]
    BY <1>1, <1>6
  <2>2. DOMAIN a \cup {r.to} \in SUBSET (Vocabulary \cup DOMAIN w)
    BY <1>3
  <2> HIDE DEF b
  <2>3. b \in [DOMAIN a \cup {r.to} -> Value(w)]
    BY <2>1, <1>3, <1>4
  <2>4. b \in Attrs(w) /\ DOMAIN b = DOMAIN a \cup {r.to}
    BY <2>2, <2>3, AttrsFacts
  <2>5. /\ b[r.to] = value
        /\ \A k \in DOMAIN a : k # r.to => b[k] = a[k]
    BY <2>1
  <2>6. r.from # <<>> => i # 0
    BY <1>6
  <2>7. ~r.over => r.to \notin DOMAIN a
    BY <1>6
  <2> QED  BY <2>4, <2>5, <2>6, <2>7, <1>4 DEF Effect
<1> QED
  BY <1>5, <1>6

-----------------------------------------------------------------------------
(* What many rules do, one after the other.                                *)

\* If I[0] holds the attributes a span starts with, and rule i takes I[i - 1]
\* into I[i], then all rules take the attributes into the last of these sets.
LEMMA ApplyAllSteps ==
    ASSUME NEW n \in Nat, NEW rules, Len(rules) = n, NEW w, NEW I, NEW attrs \in I[0],
           \A i \in 1..n : \A a \in I[i - 1] : Apply(rules[i], w, a) \in I[i]
    PROVE  ApplyAll(rules, w, attrs) \in I[n]
<1> DEFINE S == UNION {I[i] : i \in 0..n}
           Step(i, g) == IF i = 0 THEN attrs ELSE Apply(rules[i], w, g[i - 1])
           Runs(m) == {g \in [0..m -> S] : \A i \in 0..m : g[i] = Step(i, g) /\ g[i] \in I[i]}
           M == {m \in Nat : m <= n => Runs(m) # {}}
<1>1. 0 \in M
  <2> DEFINE g == [i \in 0..0 |-> attrs]
  <2>1. g \in Runs(0)
    OBVIOUS
  <2> HIDE DEF Runs
  <2> QED  BY <2>1
<1>2. ASSUME NEW m \in Nat, m \in M, m + 1 <= n PROVE Runs(m + 1) # {}
  <2>0. Runs(m) # {}
    <3> HIDE DEF Runs
    <3> QED  BY <1>2
  <2>1. PICK g : g \in Runs(m)
    <3> HIDE DEF Runs
    <3> QED  BY <2>0
  <2> DEFINE v == Apply(rules[m + 1], w, g[m])
             h == [i \in 0..(m + 1) |-> IF i = m + 1 THEN v ELSE g[i]]
  <2>2. /\ g \in [0..m -> S]
        /\ \A i \in 0..m : g[i] = Step(i, g) /\ g[i] \in I[i]
    BY <2>1
  <2>3. v \in I[m + 1] /\ v \in S
    <3>1. g[m] \in I[m] /\ m + 1 \in 1..n /\ m = (m + 1) - 1
      BY <2>2, <1>2
    <3>2. v \in I[m + 1]
      BY <3>1
    <3> QED  BY <3>1, <3>2
  <2>4. h \in [0..(m + 1) -> S]
    <3> HIDE DEF S, v
    <3> QED  BY <2>2, <2>3
  <2>5. ASSUME NEW i \in 0..(m + 1) PROVE h[i] = Step(i, h) /\ h[i] \in I[i]
    <3>1. CASE i = 0
      BY <3>1, <2>2
    <3>2. CASE i \in 1..m
      BY <3>2, <2>2
    <3>3. CASE i = m + 1
      BY <3>3, <2>2, <2>3
    <3> QED  BY <3>1, <3>2, <3>3
  <2>6. h \in Runs(m + 1)
    BY <2>4, <2>5
  <2> HIDE DEF Runs
  <2> QED  BY <2>6
<1>3. Runs(n) # {}
  <2> HIDE DEF Runs
  <2>1. \A m \in Nat : m \in M => m + 1 \in M
    BY <1>2
  <2> HIDE DEF M
  <2>2. n \in M
    BY <1>1, <2>1, NatSetInduction
  <2> QED  BY <2>2 DEF M
<1>9. PICK g : g \in Runs(n)
  <2> HIDE DEF Runs
  <2> QED  BY <1>3
<1>4. g = [i \in 0..n |-> IF i = 0 THEN attrs ELSE Apply(rules[i], w, g[i - 1])]
  BY <1>9
<1> DEFINE after == CHOOSE f : f = [i \in 0..Len(rules) |->
                       IF i = 0 THEN attrs ELSE Apply(rules[i], w, f[i - 1])]
           A == {m \in Nat : m <= n => after[m] \in I[m]}
<1>5. after = [i \in 0..n |-> IF i = 0 THEN attrs ELSE Apply(rules[i], w, after[i - 1])]
  BY <1>4
<1> HIDE DEF after
<1>6. 0 \in A
  BY <1>5
<1>7. ASSUME NEW m \in Nat, m \in A PROVE m + 1 \in A
  <2> SUFFICES ASSUME m + 1 <= n PROVE after[m + 1] \in I[m + 1]
    OBVIOUS
  <2>1. after[m + 1] = Apply(rules[m + 1], w, after[m])
    BY <1>5
  <2>2. after[m] \in I[m] /\ m + 1 \in 1..n /\ m = (m + 1) - 1
    BY <1>7
  <2> QED  BY <2>1, <2>2
<1>8. n \in A
  BY <1>6, <1>7, NatSetInduction
<1> QED
  BY <1>8 DEF ApplyAll, after

\* A set of attributes that every rule preserves.
LEMMA ApplyAllStays ==
    ASSUME NEW rules, Len(rules) \in Nat, NEW w, NEW I, NEW attrs \in I,
           \A i \in 1..Len(rules) : \A a \in I : Apply(rules[i], w, a) \in I
    PROVE  ApplyAll(rules, w, attrs) \in I
<1> DEFINE n == Len(rules)
           F == [i \in 0..n |-> I]
<1>1. attrs \in F[0]
  OBVIOUS
<1>2. ASSUME NEW i \in 1..n, NEW a \in F[i - 1] PROVE Apply(rules[i], w, a) \in F[i]
  OBVIOUS
<1>3. F[n] = I
  OBVIOUS
<1> HIDE DEF F
<1>4. ApplyAll(rules, w, attrs) \in F[n]
  BY <1>1, <1>2, ApplyAllSteps
<1> QED  BY <1>3, <1>4

\* A set of attributes J that one rule leads into and every rule preserves,
\* within a set I that all rules preserve.
LEMMA ApplyAllReaches ==
    ASSUME NEW rules, Len(rules) \in Nat, NEW w, NEW I, NEW J, NEW attrs \in I,
           \A i \in 1..Len(rules) : \A a \in I : Apply(rules[i], w, a) \in I,
           \A i \in 1..Len(rules) : \A a \in J : Apply(rules[i], w, a) \in J,
           NEW j \in 1..Len(rules), \A a \in I : Apply(rules[j], w, a) \in J
    PROVE  ApplyAll(rules, w, attrs) \in J
<1> DEFINE n == Len(rules)
           F == [i \in 0..n |-> IF i < j THEN I ELSE J]
<1>1. attrs \in F[0]
  OBVIOUS
<1>2. ASSUME NEW i \in 1..n, NEW a \in F[i - 1] PROVE Apply(rules[i], w, a) \in F[i]
  <2>1. CASE i < j
    BY <2>1
  <2>2. CASE i = j
    BY <2>2
  <2>3. CASE i > j
    BY <2>3
  <2> QED  BY <2>1, <2>2, <2>3
<1>3. F[n] = J
  OBVIOUS
<1> HIDE DEF F
<1>4. ApplyAll(rules, w, attrs) \in F[n]
  BY <1>1, <1>2, ApplyAllSteps
<1> QED  BY <1>3, <1>4

-----------------------------------------------------------------------------
(* The tables of the edges. *)

\* What every rule of an edge is like.
Fine(r, edge, identity) ==
    /\ IsRule(r)
    /\ identity \/ r.to \notin Identity
    /\ edge = "claude" => r.over
    /\ edge = "genai" /\ r.over => r.to \in GenAIWrites
    /\ r.to \in Counters =>
          /\ r.from # <<>> /\ r.as \subseteq Numbers
          /\ \A i \in 1..Len(r.from) : \A kind \in Countable(edge) :
                kind \in r.as \/ (kind = "int" /\ r.from[i] \in UsageMembers)

Table(rules, edge, identity) ==
    /\ rules \in Seq(ToSet(rules))
    /\ \A r \in ToSet(rules) : Fine(r, edge, identity)

\* A table has a rule that gives a key its value: a constant or, unless keys is
\* empty, any of keys that is a string.
Gives(rules, to, keys) ==
    \E r \in ToSet(rules) :
        /\ r.to = to
        /\ \/ r.from = <<>>
           \/ /\ keys # {} /\ r.as = Strings
              /\ \A k \in keys : \E i \in DOMAIN r.from : r.from[i] = k

\* A sequence is a table if each of its rules is fine.
LEMMA TableOf ==
    ASSUME NEW edge, NEW identity, NEW n \in Nat, NEW t,
           DOMAIN t = 1..n, t = [i \in 1..n |-> t[i]],
           \A i \in 1..n : Fine(t[i], edge, identity)
    PROVE  Table(t, edge, identity)
<1>1. t \in Seq(ToSet(t))
  <2>1. t \in [1..n -> ToSet(t)]
    BY DEF ToSet
  <2> QED  BY <2>1, SeqDef
<1>2. \A r \in ToSet(t) : Fine(r, edge, identity)
  BY DEF ToSet
<1> QED  BY <1>1, <1>2 DEF Table

\* Tables one after the other are a table that gives what each of them gives.
LEMMA TableConcat ==
    ASSUME NEW edge, NEW identity, NEW a, NEW b,
           Table(a, edge, identity), Table(b, edge, identity)
    PROVE  /\ Table(a \o b, edge, identity)
           /\ \A to, keys : Gives(a, to, keys) \/ Gives(b, to, keys)
                            => Gives(a \o b, to, keys)
<1> DEFINE X == ToSet(a) \cup ToSet(b)
<1>1. a \in Seq(X) /\ b \in Seq(X)
  BY SeqMonotonic DEF Table
<1>2. /\ a \o b \in Seq(X) /\ Len(a \o b) = Len(a) + Len(b)
      /\ Len(a) \in Nat /\ Len(b) \in Nat
      /\ \A i \in 1 .. Len(a) + Len(b) :
            (a \o b)[i] = IF i <= Len(a) THEN a[i] ELSE b[i - Len(a)]
  BY <1>1, ConcatProperties
<1>3. ToSet(a \o b) \subseteq X
  BY <1>2, LenProperties DEF ToSet
<1>4. X \subseteq ToSet(a \o b)
  <2>1. ASSUME NEW i \in DOMAIN a PROVE a[i] \in ToSet(a \o b)
    <3>1. i \in 1..Len(a) /\ i \in DOMAIN (a \o b) /\ (a \o b)[i] = a[i]
      BY <1>1, <1>2, LenProperties
    <3> QED BY <3>1 DEF ToSet
  <2>2. ASSUME NEW i \in DOMAIN b PROVE b[i] \in ToSet(a \o b)
    <3>1. i \in 1..Len(b) /\ i + Len(a) \in DOMAIN (a \o b) /\ (a \o b)[i + Len(a)] = b[i]
      BY <1>1, <1>2, LenProperties
    <3> QED BY <3>1 DEF ToSet
  <2> QED  BY <2>1, <2>2 DEF ToSet
<1>5. ToSet(a \o b) = X
  BY <1>3, <1>4
<1>6. Table(a \o b, edge, identity)
  <2> HIDE DEF X
  <2> QED  BY <1>2, <1>5 DEF Table, X
<1>7. \A to, keys : Gives(a, to, keys) \/ Gives(b, to, keys) => Gives(a \o b, to, keys)
  BY <1>5 DEF Gives
<1> QED  BY <1>6, <1>7

\* No rules.
LEMMA TableEmpty ==
    \A edge, identity : Table(<<>>, edge, identity)
  BY DEF Table, ToSet

\* Rules of some spans only.
LEMMA TableIf ==
    ASSUME NEW edge, NEW identity, NEW c \in BOOLEAN, NEW t,
           c = TRUE => Table(t, edge, identity)
    PROVE  /\ Table(If(c, t), edge, identity)
           /\ \A to, keys : c = TRUE /\ Gives(t, to, keys) => Gives(If(c, t), to, keys)
  BY TableEmpty DEF If

\* Tables written out.
LEMMA Table1 ==
    ASSUME NEW edge, NEW identity, NEW r1,
           Fine(r1, edge, identity)
    PROVE  Table(<<r1>>, edge, identity)
<1> DEFINE t == <<r1>>
<1>1. DOMAIN t = 1..1 /\ t = [i \in 1..1 |-> t[i]]
  OBVIOUS
<1>2. \A i \in 1..1 : Fine(t[i], edge, identity)
  OBVIOUS
<1> QED  BY <1>1, <1>2, TableOf

\* So is a list of 2 such rules.
LEMMA Table2 ==
    ASSUME NEW edge, NEW identity, NEW r1, NEW r2,
           Fine(r1, edge, identity), Fine(r2, edge, identity)
    PROVE  Table(<<r1, r2>>, edge, identity)
<1> DEFINE t == <<r1, r2>>
<1>1. DOMAIN t = 1..2 /\ t = [i \in 1..2 |-> t[i]]
  OBVIOUS
<1>2. \A i \in 1..2 : Fine(t[i], edge, identity)
  OBVIOUS
<1> QED  BY <1>1, <1>2, TableOf

\* So is a list of 3 such rules.
LEMMA Table3 ==
    ASSUME NEW edge, NEW identity, NEW r1, NEW r2, NEW r3,
           Fine(r1, edge, identity), Fine(r2, edge, identity), Fine(r3, edge, identity)
    PROVE  Table(<<r1, r2, r3>>, edge, identity)
<1> DEFINE t == <<r1, r2, r3>>
<1>1. DOMAIN t = 1..3 /\ t = [i \in 1..3 |-> t[i]]
  OBVIOUS
<1>2. \A i \in 1..3 : Fine(t[i], edge, identity)
  OBVIOUS
<1> QED  BY <1>1, <1>2, TableOf

\* So is a list of 4 such rules.
LEMMA Table4 ==
    ASSUME NEW edge, NEW identity, NEW r1, NEW r2, NEW r3, NEW r4,
           Fine(r1, edge, identity), Fine(r2, edge, identity), Fine(r3, edge, identity),
           Fine(r4, edge, identity)
    PROVE  Table(<<r1, r2, r3, r4>>, edge, identity)
<1> DEFINE t == <<r1, r2, r3, r4>>
<1>1. DOMAIN t = 1..4 /\ t = [i \in 1..4 |-> t[i]]
  OBVIOUS
<1>2. \A i \in 1..4 : Fine(t[i], edge, identity)
  OBVIOUS
<1> QED  BY <1>1, <1>2, TableOf

\* So is a list of 5 such rules.
LEMMA Table5 ==
    ASSUME NEW edge, NEW identity, NEW r1, NEW r2, NEW r3, NEW r4, NEW r5,
           Fine(r1, edge, identity), Fine(r2, edge, identity), Fine(r3, edge, identity),
           Fine(r4, edge, identity), Fine(r5, edge, identity)
    PROVE  Table(<<r1, r2, r3, r4, r5>>, edge, identity)
<1> DEFINE t == <<r1, r2, r3, r4, r5>>
<1>1. DOMAIN t = 1..5 /\ t = [i \in 1..5 |-> t[i]]
  OBVIOUS
<1>2. \A i \in 1..5 : Fine(t[i], edge, identity)
  OBVIOUS
<1> QED  BY <1>1, <1>2, TableOf

\* So is a list of 6 such rules.
LEMMA Table6 ==
    ASSUME NEW edge, NEW identity, NEW r1, NEW r2, NEW r3, NEW r4, NEW r5, NEW r6,
           Fine(r1, edge, identity), Fine(r2, edge, identity), Fine(r3, edge, identity),
           Fine(r4, edge, identity), Fine(r5, edge, identity), Fine(r6, edge, identity)
    PROVE  Table(<<r1, r2, r3, r4, r5, r6>>, edge, identity)
<1> DEFINE t == <<r1, r2, r3, r4, r5, r6>>
<1>1. DOMAIN t = 1..6 /\ t = [i \in 1..6 |-> t[i]]
  OBVIOUS
<1>2. \A i \in 1..6 : Fine(t[i], edge, identity)
  OBVIOUS
<1> QED  BY <1>1, <1>2, TableOf

\* So is a list of 7 such rules.
LEMMA Table7 ==
    ASSUME NEW edge, NEW identity, NEW r1, NEW r2, NEW r3, NEW r4, NEW r5, NEW r6, NEW r7,
           Fine(r1, edge, identity), Fine(r2, edge, identity), Fine(r3, edge, identity),
           Fine(r4, edge, identity), Fine(r5, edge, identity), Fine(r6, edge, identity),
           Fine(r7, edge, identity)
    PROVE  Table(<<r1, r2, r3, r4, r5, r6, r7>>, edge, identity)
<1> DEFINE t == <<r1, r2, r3, r4, r5, r6, r7>>
<1>1. DOMAIN t = 1..7 /\ t = [i \in 1..7 |-> t[i]]
  OBVIOUS
<1>2. \A i \in 1..7 : Fine(t[i], edge, identity)
  OBVIOUS
<1> QED  BY <1>1, <1>2, TableOf

\* So is a list of 8 such rules.
LEMMA Table8 ==
    ASSUME NEW edge, NEW identity,
           NEW r1, NEW r2, NEW r3, NEW r4, NEW r5, NEW r6, NEW r7, NEW r8,
           Fine(r1, edge, identity), Fine(r2, edge, identity), Fine(r3, edge, identity),
           Fine(r4, edge, identity), Fine(r5, edge, identity), Fine(r6, edge, identity),
           Fine(r7, edge, identity), Fine(r8, edge, identity)
    PROVE  Table(<<r1, r2, r3, r4, r5, r6, r7, r8>>, edge, identity)
<1> DEFINE t == <<r1, r2, r3, r4, r5, r6, r7, r8>>
<1>1. DOMAIN t = 1..8 /\ t = [i \in 1..8 |-> t[i]]
  OBVIOUS
<1>2. \A i \in 1..8 : Fine(t[i], edge, identity)
  OBVIOUS
<1> QED  BY <1>1, <1>2, TableOf

\* So is a list of 9 such rules.
LEMMA Table9 ==
    ASSUME NEW edge, NEW identity,
           NEW r1, NEW r2, NEW r3, NEW r4, NEW r5, NEW r6, NEW r7, NEW r8, NEW r9,
           Fine(r1, edge, identity), Fine(r2, edge, identity), Fine(r3, edge, identity),
           Fine(r4, edge, identity), Fine(r5, edge, identity), Fine(r6, edge, identity),
           Fine(r7, edge, identity), Fine(r8, edge, identity), Fine(r9, edge, identity)
    PROVE  Table(<<r1, r2, r3, r4, r5, r6, r7, r8, r9>>, edge, identity)
<1> DEFINE t == <<r1, r2, r3, r4, r5, r6, r7, r8, r9>>
<1>1. DOMAIN t = 1..9 /\ t = [i \in 1..9 |-> t[i]]
  OBVIOUS
<1>2. \A i \in 1..9 : Fine(t[i], edge, identity)
  OBVIOUS
<1> QED  BY <1>1, <1>2, TableOf

\* So is a list of 10 such rules.
LEMMA Table10 ==
    ASSUME NEW edge, NEW identity,
           NEW r1, NEW r2, NEW r3, NEW r4, NEW r5, NEW r6, NEW r7, NEW r8, NEW r9, NEW r10,
           Fine(r1, edge, identity), Fine(r2, edge, identity), Fine(r3, edge, identity),
           Fine(r4, edge, identity), Fine(r5, edge, identity), Fine(r6, edge, identity),
           Fine(r7, edge, identity), Fine(r8, edge, identity), Fine(r9, edge, identity),
           Fine(r10, edge, identity)
    PROVE  Table(<<r1, r2, r3, r4, r5, r6, r7, r8, r9, r10>>, edge, identity)
<1> DEFINE t == <<r1, r2, r3, r4, r5, r6, r7, r8, r9, r10>>
<1>1. DOMAIN t = 1..10 /\ t = [i \in 1..10 |-> t[i]]
  OBVIOUS
<1>2. \A i \in 1..10 : Fine(t[i], edge, identity)
  OBVIOUS
<1> QED  BY <1>1, <1>2, TableOf

\* Keys of the wire a rule reads.
Reads(from) == from # <<>> /\ Len(from) \in Nat /\ DOMAIN from = 1..Len(from)

\* Up to four keys written out.
LEMMA ReadsKeys ==
    /\ \A a : Reads(<<a>>)
    /\ \A a, b : Reads(<<a, b>>)
    /\ \A a, b, c : Reads(<<a, b, c>>)
    /\ \A a, b, c, d : Reads(<<a, b, c, d>>)
  BY DEF Reads

\* The keys that are neither counters nor of a person.
Plain == RequiredKeys \cup OtherKeys

\* No key is a counter and of a person, or one of these and plain.
LEMMA Disjoint ==
    Plain \cap (Counters \cup Identity) = {} /\ Counters \cap Identity = {}
  BY DEF Plain, RequiredKeys, OtherKeys, Counters, Identity

\* Strings and numbers are kinds of values.
LEMMA Kinds ==
    Strings \subseteq ValueKinds /\ Numbers \subseteq ValueKinds
  BY DEF Strings, Numbers, ValueKinds

\* The plain keys the tables write.
LEMMA PlainKeys ==
    /\ "gen_ai.provider.name" \in Plain
    /\ "gen_ai.request.model" \in Plain
    /\ "gen_ai.request.max_tokens" \in Plain
    /\ "gen_ai.request.reasoning.level" \in Plain
    /\ "gen_ai.response.finish_reasons" \in Plain
    /\ "gen_ai.response.id" \in Plain
    /\ "gen_ai.response.model" \in Plain
    /\ "gen_ai.response.time_to_first_chunk" \in Plain
    /\ "gen_ai.agent.id" \in Plain
    /\ "gen_ai.agent.name" \in Plain
    /\ "gen_ai.conversation.id" \in Plain
    /\ "gen_ai.tool.call.id" \in Plain
    /\ "gen_ai.tool.name" \in Plain
    /\ "gen_ai.tool.type" \in Plain
    /\ "server.address" \in Plain
    /\ "server.port" \in Plain
    /\ "coding_agent.request.service_tier" \in Plain
    /\ "coding_agent.usage.cost" \in Plain
    /\ "coding_agent.source.scope" \in Plain
    /\ "coding_agent.source.event" \in Plain
    /\ "coding_agent.client.version" \in Plain
    /\ "coding_agent.terminal.type" \in Plain
    /\ "coding_agent.agent.parent_id" \in Plain
    /\ "gen_ai.operation.name" \in Plain
    /\ "coding_agent.source" \in Plain
    /\ "coding_agent.client.name" \in Plain
    /\ Conversation \in Plain /\ FirstChunk \in Plain /\ Cost \in Plain
  BY DEF Plain, OtherKeys, RequiredKeys, Conversation, FirstChunk, Cost

\* The names of the counters in the tables of the traces edges.
LEMMA CounterKeys ==
    /\ InputTokens \in Counters /\ OutputTokens \in Counters /\ TotalTokens \in Counters
    /\ CacheRead \in Counters /\ CacheWrite \in Counters /\ Reasoning \in Counters
  BY DEF InputTokens, OutputTokens, TotalTokens, CacheRead, CacheWrite, Reasoning, Counters

\* The counters in the tables of the logs edges.
LEMMA LiteralCounters ==
    /\ "gen_ai.usage.input_tokens" \in Counters /\ "gen_ai.usage.output_tokens" \in Counters
    /\ "gen_ai.usage.total_tokens" \in Counters
    /\ "gen_ai.usage.cache_read.input_tokens" \in Counters
    /\ "gen_ai.usage.cache_write.input_tokens" \in Counters
    /\ "gen_ai.usage.reasoning.output_tokens" \in Counters
  BY DEF Counters

\* The keys of a person.
LEMMA PersonKeys ==
    /\ "coding_agent.user.id" \in Identity /\ "coding_agent.user.email" \in Identity
    /\ "coding_agent.team.id" \in Identity
  BY DEF Identity

\* The rules for a key that is neither a counter nor of a person.
LEMMA PlainRule ==
    ASSUME NEW to \in Plain, NEW from, Reads(from) \/ from = <<>>,
           NEW as \in SUBSET ValueKinds, NEW edge, NEW identity,
           edge = "genai" => to \in GenAIWrites
    PROVE  Fine(Rule(to, from, as), edge, identity)
<1>1. Len(from) \in Nat /\ DOMAIN from = 1..Len(from)
  <2>1. Len(<<>>) = 0 /\ DOMAIN <<>> = 1..0
    OBVIOUS
  <2> QED  BY <2>1 DEF Reads
<1> QED
  BY <1>1, Disjoint DEF Fine, Rule, IsRule, Vocabulary, Plain

\* A rule for a plain key may take strings, numbers, or anything and print it.
LEMMA PlainText ==
    ASSUME NEW to \in Plain, NEW from, Reads(from), NEW edge, NEW identity,
           edge = "genai" => to \in GenAIWrites
    PROVE  /\ Fine(Text(to, from), edge, identity)
           /\ Fine(Count(to, from), edge, identity)
           /\ Fine(Printed(to, from), edge, identity)
  BY PlainRule, Kinds DEF Text, Count, Printed

\* A rule for a key of a person is one of a configuration that names people.
LEMMA PersonRule ==
    ASSUME NEW to \in Identity, NEW from, Reads(from), NEW edge,
           NEW identity, identity = TRUE, edge = "genai" => to \in GenAIWrites
    PROVE  Fine(Text(to, from), edge, identity) /\ Fine(Printed(to, from), edge, identity)
  BY Disjoint, Kinds DEF Fine, Rule, Text, Printed, IsRule, Reads, Vocabulary

\* The rules for a counter.
LEMMA CounterRule ==
    ASSUME NEW to \in Counters, NEW from, Reads(from), NEW as \in SUBSET Numbers,
           NEW edge, NEW identity, edge # "genai",
           \A i \in 1..Len(from) : \A kind \in Countable(edge) :
                kind \in as \/ (kind = "int" /\ from[i] \in UsageMembers)
    PROVE  Fine(Rule(to, from, as), edge, identity)
  BY Disjoint, Kinds DEF Fine, Rule, IsRule, Reads, Vocabulary

\* A counter may be read from any kind of number.
LEMMA CounterCount ==
    ASSUME NEW to \in Counters, NEW from, Reads(from),
           NEW edge, NEW identity, edge # "genai"
    PROVE  Fine(Count(to, from), edge, identity)
<1>1. Countable(edge) \subseteq Numbers
  BY DEF Countable, Numbers
<1> QED  BY <1>1, CounterRule DEF Count

\* The rules that keep what is there.
LEMMA AbsentRule ==
    ASSUME NEW to \in Counters \cup Plain, NEW from, Reads(from), NEW as \in SUBSET ValueKinds,
           NEW edge, NEW identity, edge # "claude",
           to \in Counters => Countable(edge) \subseteq as /\ as \subseteq Numbers
    PROVE  Fine(Absent(Rule(to, from, as)), edge, identity)
  BY Disjoint, Kinds DEF Fine, Rule, Absent, IsRule, Reads, Vocabulary, Plain

\* A counter that stands if the span has it.
LEMMA AbsentCount ==
    ASSUME NEW to \in Counters \cup Plain, NEW from, Reads(from),
           NEW edge, NEW identity, edge # "claude"
    PROVE  Fine(Absent(Count(to, from)), edge, identity)
<1>1. Countable(edge) \subseteq Numbers
  BY DEF Countable, Numbers
<1> QED  BY <1>1, Kinds, AbsentRule DEF Count

\* A table of constants gives every one of its keys a value.
LEMMA ConstTable ==
    ASSUME NEW n \in Nat, NEW keys, DOMAIN keys = 1..n, \A i \in 1..n : keys[i] \in Plain,
           NEW edge, NEW identity, edge = "genai" => \A i \in 1..n : keys[i] \in GenAIWrites
    PROVE  /\ Table(Const(keys), edge, identity)
           /\ \A i \in 1..n : \A K : Gives(Const(keys), keys[i], K)
<1> DEFINE t == Const(keys)
<1>1. DOMAIN t = 1..n /\ t = [i \in 1..n |-> t[i]] /\ \A i \in 1..n : t[i] = Rule(keys[i], <<>>, {})
  BY DEF Const
<1> HIDE DEF t
<1>2. \A i \in 1..n : Fine(t[i], edge, identity)
  BY <1>1, PlainRule
<1>3. Table(t, edge, identity)
  BY <1>1, <1>2, TableOf
<1>4. \A i \in 1..n : \A K : Gives(t, keys[i], K)
  BY <1>1 DEF Gives, ToSet, Rule
<1> QED  BY <1>3, <1>4 DEF t

\* Tables of constants written out.
LEMMA Const1 ==
    ASSUME NEW edge, NEW identity, NEW k1 \in Plain,
           edge = "genai" => k1 \in GenAIWrites
    PROVE  /\ Table(Const(<<k1>>), edge, identity)
           /\ \A K : Gives(Const(<<k1>>), k1, K)
<1> DEFINE t == <<k1>>
<1>1. DOMAIN t = 1..1 /\ t[1] = k1
  OBVIOUS
<1>2. \A i \in 1..1 : t[i] \in Plain /\ (edge = "genai" => t[i] \in GenAIWrites)
  OBVIOUS
<1> HIDE DEF t
<1>3. Table(Const(t), edge, identity) /\ \A i \in 1..1 : \A K : Gives(Const(t), t[i], K)
  BY <1>1, <1>2, ConstTable
<1>4. \A K : Gives(Const(t), t[1], K)
  BY <1>3
<1> QED  BY <1>1, <1>3, <1>4 DEF t

\* The same of 2 attributes.
LEMMA Const2 ==
    ASSUME NEW edge, NEW identity, NEW k1 \in Plain, NEW k2 \in Plain,
           edge = "genai" => k1 \in GenAIWrites /\ k2 \in GenAIWrites
    PROVE  /\ Table(Const(<<k1, k2>>), edge, identity)
           /\ \A K : Gives(Const(<<k1, k2>>), k1, K) /\ Gives(Const(<<k1, k2>>), k2, K)
<1> DEFINE t == <<k1, k2>>
<1>1. DOMAIN t = 1..2 /\ t[1] = k1 /\ t[2] = k2
  OBVIOUS
<1>2. \A i \in 1..2 : t[i] \in Plain /\ (edge = "genai" => t[i] \in GenAIWrites)
  OBVIOUS
<1> HIDE DEF t
<1>3. Table(Const(t), edge, identity) /\ \A i \in 1..2 : \A K : Gives(Const(t), t[i], K)
  BY <1>1, <1>2, ConstTable
<1>4. \A K : Gives(Const(t), t[1], K) /\ Gives(Const(t), t[2], K)
  BY <1>3
<1> QED  BY <1>1, <1>3, <1>4 DEF t

\* The same of 3 attributes.
LEMMA Const3 ==
    ASSUME NEW edge, NEW identity, NEW k1 \in Plain, NEW k2 \in Plain, NEW k3 \in Plain,
           edge = "genai" => k1 \in GenAIWrites /\ k2 \in GenAIWrites /\ k3 \in GenAIWrites
    PROVE  /\ Table(Const(<<k1, k2, k3>>), edge, identity)
           /\ \A K : /\ Gives(Const(<<k1, k2, k3>>), k1, K)
                     /\ Gives(Const(<<k1, k2, k3>>), k2, K)
                     /\ Gives(Const(<<k1, k2, k3>>), k3, K)
<1> DEFINE t == <<k1, k2, k3>>
<1>1. DOMAIN t = 1..3 /\ t[1] = k1 /\ t[2] = k2 /\ t[3] = k3
  OBVIOUS
<1>2. \A i \in 1..3 : t[i] \in Plain /\ (edge = "genai" => t[i] \in GenAIWrites)
  OBVIOUS
<1> HIDE DEF t
<1>3. Table(Const(t), edge, identity) /\ \A i \in 1..3 : \A K : Gives(Const(t), t[i], K)
  BY <1>1, <1>2, ConstTable
<1>4. \A K : Gives(Const(t), t[1], K) /\ Gives(Const(t), t[2], K) /\ Gives(Const(t), t[3], K)
  BY <1>3
<1> QED  BY <1>1, <1>3, <1>4 DEF t

\* The same of 4 attributes.
LEMMA Const4 ==
    ASSUME NEW edge, NEW identity,
           NEW k1 \in Plain, NEW k2 \in Plain, NEW k3 \in Plain, NEW k4 \in Plain,
           edge = "genai" => k1 \in GenAIWrites /\ k2 \in GenAIWrites
                             /\ k3 \in GenAIWrites /\ k4 \in GenAIWrites
    PROVE  /\ Table(Const(<<k1, k2, k3, k4>>), edge, identity)
           /\ \A K : /\ Gives(Const(<<k1, k2, k3, k4>>), k1, K)
                     /\ Gives(Const(<<k1, k2, k3, k4>>), k2, K)
                     /\ Gives(Const(<<k1, k2, k3, k4>>), k3, K)
                     /\ Gives(Const(<<k1, k2, k3, k4>>), k4, K)
<1> DEFINE t == <<k1, k2, k3, k4>>
<1>1. DOMAIN t = 1..4 /\ t[1] = k1 /\ t[2] = k2 /\ t[3] = k3 /\ t[4] = k4
  OBVIOUS
<1>2. \A i \in 1..4 : t[i] \in Plain /\ (edge = "genai" => t[i] \in GenAIWrites)
  OBVIOUS
<1> HIDE DEF t
<1>3. Table(Const(t), edge, identity) /\ \A i \in 1..4 : \A K : Gives(Const(t), t[i], K)
  BY <1>1, <1>2, ConstTable
<1>4. \A K : /\ Gives(Const(t), t[1], K)
             /\ Gives(Const(t), t[2], K)
             /\ Gives(Const(t), t[3], K)
             /\ Gives(Const(t), t[4], K)
  BY <1>3
<1> QED  BY <1>1, <1>3, <1>4 DEF t

\* The rule for the version of the client.
LEMMA VersionTable ==
    \A edge, identity : Table(<<Version>>, edge, identity)
<1> TAKE edge, identity
<1>1. "coding_agent.client.version" \in Plain \cap GenAIWrites
  BY DEF Plain, OtherKeys, GenAIWrites
<1>2. Fine(Version, edge, identity)
  BY <1>1, PlainText, ReadsKeys DEF Version
<1> QED  BY <1>2, Table1

\* What an edge needs: a constant for each required key, and on a root a rule for
\* the conversation.  A GenAI span has its operation, and its conversation,
\* already; its client comes from the resource.
Complete(rules, edge, op) ==
    /\ \A k \in RequiredKeys :
         \/ edge = "genai" /\ k = "gen_ai.operation.name"
         \/ Gives(rules, k, IF edge = "genai" /\ k = "coding_agent.client.name"
                            THEN {"resource service.name"} ELSE {})
    /\ op = "root" /\ edge \in {"claude", "opencode", "pi", "openhands", "codex_native"}
        => Gives(rules, Conversation, Sessions(edge))

\* A rule that reads one of K gives its key a value.
LEMMA GivesText ==
    ASSUME NEW t, NEW i \in DOMAIN t, NEW to, NEW from,
           NEW K, K # {}, \A k \in K : \E j \in DOMAIN from : from[j] = k,
           t[i] = Text(to, from)
    PROVE  Gives(t, to, K)
  BY DEF Gives, ToSet, Text, Rule

\* The edges that read the conversation of a root have a key for it.
LEMMA SessionKeys ==
    \A edge \in {"claude", "opencode", "pi", "openhands", "codex_native"} : Sessions(edge) # {}
<1> SUFFICES ASSUME NEW edge \in {"claude", "opencode", "pi", "openhands", "codex_native"}
             PROVE  \E k : k \in Sessions(edge)
  OBVIOUS
<1>1. CASE edge = "claude"
  BY <1>1 DEF Sessions
<1>2. CASE edge = "opencode"
  BY <1>2 DEF Sessions
<1>3. CASE edge = "pi"
  BY <1>3 DEF Sessions
<1>4. CASE edge = "openhands"
  BY <1>4 DEF Sessions
<1>5. CASE edge = "codex_native"
  BY <1>5 DEF Sessions
<1> QED  BY <1>1, <1>2, <1>3, <1>4, <1>5

\* Three to seven tables one after the other.
LEMMA Chain3 ==
    ASSUME NEW edge, NEW identity, NEW a, NEW b, NEW c,
           Table(a, edge, identity), Table(b, edge, identity), Table(c, edge, identity)
    PROVE  /\ Table(a \o b \o c, edge, identity)
           /\ \A to, K : (\E t \in {a, b, c} : Gives(t, to, K))
                         => Gives(a \o b \o c, to, K)
<1>0. Table(a \o b, edge, identity)
  BY TableConcat
<1> QED
  BY <1>0, TableConcat

\* The same of 4 tables in a row.
LEMMA Chain4 ==
    ASSUME NEW edge, NEW identity, NEW a, NEW b, NEW c, NEW d,
           Table(a, edge, identity), Table(b, edge, identity), Table(c, edge, identity),
           Table(d, edge, identity)
    PROVE  /\ Table(a \o b \o c \o d, edge, identity)
           /\ \A to, K : (\E t \in {a, b, c, d} : Gives(t, to, K))
                         => Gives(a \o b \o c \o d, to, K)
<1>0. Table(a \o b, edge, identity)
  BY TableConcat
<1>1. Table(a \o b \o c, edge, identity)
  BY <1>0, TableConcat
<1> QED
  BY <1>0, <1>1, TableConcat

\* The same of 5 tables in a row.
LEMMA Chain5 ==
    ASSUME NEW edge, NEW identity, NEW a, NEW b, NEW c, NEW d, NEW e,
           Table(a, edge, identity), Table(b, edge, identity), Table(c, edge, identity),
           Table(d, edge, identity), Table(e, edge, identity)
    PROVE  /\ Table(a \o b \o c \o d \o e, edge, identity)
           /\ \A to, K : (\E t \in {a, b, c, d, e} : Gives(t, to, K))
                         => Gives(a \o b \o c \o d \o e, to, K)
<1>0. Table(a \o b, edge, identity)
  BY TableConcat
<1>1. Table(a \o b \o c, edge, identity)
  BY <1>0, TableConcat
<1>2. Table(a \o b \o c \o d, edge, identity)
  BY <1>1, TableConcat
<1> QED
  BY <1>0, <1>1, <1>2, TableConcat

\* The same of 6 tables in a row.
LEMMA Chain6 ==
    ASSUME NEW edge, NEW identity, NEW a, NEW b, NEW c, NEW d, NEW e, NEW f,
           Table(a, edge, identity), Table(b, edge, identity), Table(c, edge, identity),
           Table(d, edge, identity), Table(e, edge, identity), Table(f, edge, identity)
    PROVE  /\ Table(a \o b \o c \o d \o e \o f, edge, identity)
           /\ \A to, K : (\E t \in {a, b, c, d, e, f} : Gives(t, to, K))
                         => Gives(a \o b \o c \o d \o e \o f, to, K)
<1>0. Table(a \o b, edge, identity)
  BY TableConcat
<1>1. Table(a \o b \o c, edge, identity)
  BY <1>0, TableConcat
<1>2. Table(a \o b \o c \o d, edge, identity)
  BY <1>1, TableConcat
<1>3. Table(a \o b \o c \o d \o e, edge, identity)
  BY <1>2, TableConcat
<1> QED
  BY <1>0, <1>1, <1>2, <1>3, TableConcat

\* The same of 7 tables in a row.
LEMMA Chain7 ==
    ASSUME NEW edge, NEW identity, NEW a, NEW b, NEW c, NEW d, NEW e, NEW f, NEW g,
           Table(a, edge, identity), Table(b, edge, identity), Table(c, edge, identity),
           Table(d, edge, identity), Table(e, edge, identity), Table(f, edge, identity),
           Table(g, edge, identity)
    PROVE  /\ Table(a \o b \o c \o d \o e \o f \o g, edge, identity)
           /\ \A to, K : (\E t \in {a, b, c, d, e, f, g} : Gives(t, to, K))
                         => Gives(a \o b \o c \o d \o e \o f \o g, to, K)
<1>0. Table(a \o b, edge, identity)
  BY TableConcat
<1>1. Table(a \o b \o c, edge, identity)
  BY <1>0, TableConcat
<1>2. Table(a \o b \o c \o d, edge, identity)
  BY <1>1, TableConcat
<1>3. Table(a \o b \o c \o d \o e, edge, identity)
  BY <1>2, TableConcat
<1>4. Table(a \o b \o c \o d \o e \o f, edge, identity)
  BY <1>3, TableConcat
<1> QED
  BY <1>0, <1>1, <1>2, <1>3, <1>4, TableConcat

-----------------------------------------------------------------------------
(* The edges, one by one.                                                  *)

(* Claude Code *)

\* The usage of a Claude call is counters, and numbers that are none.
LEMMA ClaudeUsageTable ==
    \A identity : Table(ClaudeUsage, "claude", identity)
  BY ReadsKeys, PlainKeys, CounterKeys, PlainText, CounterCount, Table6 DEF ClaudeUsage

\* A Claude root reads its conversation from the span and from the resource.
LEMMA ClaudeRootTable ==
    ASSUME NEW identity \in BOOLEAN
    PROVE  /\ Table(ClaudeRoot(identity), "claude", identity)
           /\ Gives(ClaudeRoot(identity), Conversation, Sessions("claude"))
<1> DEFINE S == Sessions("claude")
           from == <<Conversation, "session.id", "session_id", "resource session.id">>
           session == <<Text(Conversation, from),
                        Text("coding_agent.terminal.type", <<"terminal.type">>)>>
           person == If(identity, <<Text("coding_agent.user.id", <<"user.id">>),
                                    Text("coding_agent.team.id", <<"organization.id">>)>>)
<1>1. Table(ClaudeRoot(identity), "claude", identity)
  BY PlainKeys, PersonKeys, ReadsKeys, PlainText, PersonRule, Table2, TableConcat, TableIf, Const2
     DEF ClaudeRoot
<1>2. \A k \in S : \E i \in DOMAIN from : from[i] = k
  <2>1. \A k \in S : k = from[1] \/ k = from[2] \/ k = from[3] \/ k = from[4]
    BY DEF Sessions, Conversation
  <2>2. DOMAIN from = 1..4
    OBVIOUS
  <2> HIDE DEF from, S
  <2> QED  BY <2>1, <2>2
<1>3. Gives(session, Conversation, S)
  <2> HIDE DEF S, from
  <2>1. 1 \in DOMAIN session /\ session[1] = Text(Conversation, from)
    OBVIOUS
  <2> HIDE DEF session
  <2> QED  BY <1>2, <2>1, GivesText, SessionKeys DEF S
<1>4. Gives(ClaudeRoot(identity), Conversation, S)
  <2> HIDE DEF S, from
  <2>1. Table(session, "claude", identity)
    BY PlainKeys, ReadsKeys, PlainText, Table2 DEF from
  <2>2. Table(person, "claude", identity)
    BY PersonKeys, ReadsKeys, PersonRule, Table2, TableIf
  <2>3. ClaudeRoot(identity) = Const(<<"gen_ai.agent.name", "coding_agent.source.event">>)
                               \o session \o person
    BY DEF ClaudeRoot, from
  <2> HIDE DEF session, person
  <2> QED
    BY <1>3, <2>1, <2>2, <2>3, PlainKeys, Const2, Chain3
<1> QED BY <1>1, <1>4

\* The table of the Claude edge (claude/normalizer.go).
LEMMA ClaudeTable ==
    ASSUME NEW op \in Ops("claude"), NEW identity \in BOOLEAN
    PROVE  /\ Table(Claude(op, identity), "claude", identity)
           /\ Complete(Claude(op, identity), "claude", op)
<1> DEFINE K == {}
           S == Sessions("claude")
           T(t) == Table(t, "claude", identity)
           agents == <<Text("gen_ai.agent.id", <<"agent_id">>),
                       Text("coding_agent.agent.parent_id", <<"parent_agent_id">>)>>
           mail == If(identity, <<Text("coding_agent.user.email", <<"user.email">>)>>)
           root == If(op = "root", ClaudeRoot(identity))
           chat == If(op = "chat", ClaudeChat)
           tool == If(op = "tool", ClaudeTool)
<1>1. T(agents) /\ T(mail)
  BY PlainKeys, PersonKeys, ReadsKeys, PlainText, PersonRule, Table1, Table2, TableIf
<1>2. T(root) /\ T(chat) /\ T(tool)
  BY PlainKeys, ReadsKeys, PlainText, Table1, Table2, TableConcat, TableIf, Const1,
     ClaudeRootTable, ClaudeUsageTable DEF ClaudeChat, ClaudeTool
<1>3. /\ T(ClaudeCommon)
      /\ Gives(ClaudeCommon, "gen_ai.operation.name", K)
      /\ Gives(ClaudeCommon, "coding_agent.source", K)
      /\ Gives(ClaudeCommon, "coding_agent.client.name", K)
  <2> HIDE DEF K
  <2> QED  BY PlainKeys, TableConcat, Const4, VersionTable DEF ClaudeCommon
<1>4. op = "root" => Gives(root, Conversation, S)
  BY ClaudeRootTable, TableIf
<1>5. Claude(op, identity) = agents \o mail \o root \o chat \o tool \o ClaudeCommon
  BY DEF Claude
<1> HIDE DEF K, S, agents, mail, root, chat, tool
<1>6. /\ T(Claude(op, identity))
      /\ op = "root" => Gives(Claude(op, identity), Conversation, S)
      /\ Gives(Claude(op, identity), "gen_ai.operation.name", K)
      /\ Gives(Claude(op, identity), "coding_agent.source", K)
      /\ Gives(Claude(op, identity), "coding_agent.client.name", K)
  BY <1>1, <1>2, <1>3, <1>4, <1>5, Chain6
<1> QED BY <1>6 DEF Complete, RequiredKeys, S, K

(* GenAI *)

\* GenAI never replaces a counter.
LEMMA GenAIUsageTable ==
    \A identity : Table(GenAIUsage, "genai", identity)
  BY ReadsKeys, PlainKeys, CounterKeys, AbsentCount, Table8 DEF GenAIUsage

\* The table of the GenAI edge (genai/normalizer.go).
LEMMA GenAITable ==
    ASSUME NEW op \in Ops("genai"), NEW identity \in BOOLEAN
    PROVE  /\ Table(GenAI(op, identity), "genai", identity)
           /\ Complete(GenAI(op, identity), "genai", op)
<1> DEFINE K == {"resource service.name"}
           T(t) == Table(t, "genai", identity)
           person == If(identity /\ op = "root",
                        <<Text("coding_agent.user.id", <<"enduser.pseudo.id">>)>>)
           provider == <<Absent(Text("gen_ai.provider.name", <<"gen_ai.system">>))>>
           cost == If(op = "chat", <<Rule(Cost, <<"github.copilot.cost">>, {"double"})>>)
           source == Const(<<"coding_agent.source", "coding_agent.source.scope">>)
           client == <<Text("coding_agent.client.name", <<"resource service.name">>), Version>>
<1>1. /\ "coding_agent.user.id" \in GenAIWrites /\ Cost \in GenAIWrites
      /\ "coding_agent.source" \in GenAIWrites /\ "coding_agent.source.scope" \in GenAIWrites
      /\ "coding_agent.client.name" \in GenAIWrites
      /\ "coding_agent.client.version" \in GenAIWrites
      /\ {"double"} \in SUBSET ValueKinds
  BY DEF GenAIWrites, Cost, ValueKinds
<1>2. T(person)
  BY <1>1, PersonKeys, ReadsKeys, PersonRule, Table1, TableIf
<1>3. T(provider)
  BY PlainKeys, ReadsKeys, Kinds, Disjoint, AbsentRule, Table1 DEF Text
<1>4. T(cost)
  BY <1>1, PlainKeys, ReadsKeys, PlainRule, Table1, TableIf
<1>5. T(source) /\ Gives(source, "coding_agent.source", {})
  BY <1>1, PlainKeys, Const2
<1>6. T(client)
  BY <1>1, PlainKeys, ReadsKeys, PlainText, Table2 DEF Version
<1>7. Gives(client, "coding_agent.client.name", K)
  <2> DEFINE from == <<"resource service.name">>
  <2>1. 1 \in DOMAIN from /\ from[1] = "resource service.name"
    OBVIOUS
  <2>2. 1 \in DOMAIN client /\ client[1] = Text("coding_agent.client.name", from)
    OBVIOUS
  <2> HIDE DEF client, from
  <2> QED  BY <2>1, <2>2, GivesText
<1>8. GenAI(op, identity) = person \o provider \o GenAIUsage \o cost \o source \o client
  BY DEF GenAI
<1> HIDE DEF K, person, provider, cost, source, client
<1>9. /\ T(GenAI(op, identity))
      /\ Gives(GenAI(op, identity), "coding_agent.source", {})
      /\ Gives(GenAI(op, identity), "coding_agent.client.name", K)
  BY <1>2, <1>3, <1>4, <1>5, <1>6, <1>7, <1>8, GenAIUsageTable, Chain6
<1> QED  BY <1>9 DEF Complete, RequiredKeys, K

(* OpenCode *)

\* The rules of the edges that take integers only.
LEMMA IntegerRule ==
    ASSUME NEW to \in Counters, NEW from, Reads(from), NEW as \in SUBSET Numbers, "int" \in as,
           NEW edge \in IntegersOnly, NEW identity
    PROVE  /\ Fine(Rule(to, from, as), edge, identity)
           /\ Fine(Absent(Rule(to, from, as)), edge, identity)
<1>1. Countable(edge) = {"int"} /\ edge # "genai" /\ edge # "claude"
  BY DEF Countable, IntegersOnly
<1> QED  BY <1>1, Kinds, CounterRule, AbsentRule

\* The kinds of numbers the integer edges read.
LEMMA NumberKinds ==
    /\ {"int"} \in SUBSET Numbers /\ {"int", "double"} \in SUBSET Numbers
    /\ {"int"} \in SUBSET ValueKinds /\ {"int", "double"} \in SUBSET ValueKinds
    /\ {"double"} \in SUBSET ValueKinds
    /\ "opencode" \in IntegersOnly /\ "openhands" \in IntegersOnly
  BY DEF Numbers, ValueKinds, IntegersOnly

\* The usage of an OpenCode call.
LEMMA OpenCodeUsageTable ==
    \A identity : Table(OpenCodeUsage, "opencode", identity)
  BY ReadsKeys, CounterKeys, NumberKinds, IntegerRule, Table5 DEF OpenCodeUsage

\* An OpenCode root reads its conversation from the span and from the resource.
LEMMA OpenCodeRootTable ==
    ASSUME NEW identity \in BOOLEAN
    PROVE  /\ Table(OpenCodeRoot(identity), "opencode", identity)
           /\ Gives(OpenCodeRoot(identity), Conversation, Sessions("opencode"))
<1> DEFINE S == Sessions("opencode")
           from == <<"session.id", "resource session.id">>
           agent == Const(<<"gen_ai.agent.name">>)
           session == <<Text(Conversation, from)>>
           person == If(identity,
                        <<Text("coding_agent.user.id", <<"ai.telemetry.metadata.userId">>)>>)
           T(t) == Table(t, "opencode", identity)
<1>1. \A k \in S : \E i \in DOMAIN from : from[i] = k
  <2>1. \A k \in S : k = from[1] \/ k = from[2]
    BY DEF Sessions
  <2>2. DOMAIN from = 1..2
    OBVIOUS
  <2> HIDE DEF from, S
  <2> QED  BY <2>1, <2>2
<1>2. T(agent) /\ T(session) /\ T(person)
  BY PlainKeys, PersonKeys, ReadsKeys, PlainText, PersonRule, Const1, Table1, TableIf
<1>3. 1 \in DOMAIN session /\ session[1] = Text(Conversation, from)
  OBVIOUS
<1>4. OpenCodeRoot(identity) = agent \o session \o person \o OpenCodeUsage
  BY DEF OpenCodeRoot
<1> HIDE DEF S, from, agent, session, person
<1>5. Gives(session, Conversation, S)
  BY <1>1, <1>3, GivesText, SessionKeys DEF S
<1> QED  BY <1>2, <1>4, <1>5, OpenCodeUsageTable, Chain4 DEF S

\* The call of OpenCode counts twice, from two vocabularies.
LEMMA OpenCodeChatTable ==
    \A identity : Table(OpenCodeChat, "opencode", identity)
<1> TAKE identity
<1> DEFINE T(t) == Table(t, "opencode", identity)
           model == <<Text("gen_ai.request.model", <<"gen_ai.request.model">>)>>
           others == <<
             Rule(InputTokens, <<InputTokens>>, {"int", "double"}),
             Rule(OutputTokens, <<OutputTokens>>, {"int", "double"}),
             Rule(TotalTokens, <<"ai.usage.totalTokens">>, {"int", "double"}),
             Rule(FirstChunk, <<"ai.response.msToFirstChunk">>, {"int", "double"}),
             Text("gen_ai.response.id", <<"gen_ai.response.id">>),
             Text("gen_ai.response.model", <<"gen_ai.response.model">>),
             Rule("gen_ai.request.max_tokens", <<"gen_ai.request.max_tokens">>, {"int", "double"})>>
<1>1. T(model)
  BY PlainKeys, ReadsKeys, PlainText, Table1
<1>2. T(others)
  BY PlainKeys, CounterKeys, ReadsKeys, NumberKinds, PlainText, PlainRule, IntegerRule, Table7
<1>3. OpenCodeChat = model \o OpenCodeUsage \o others
  BY DEF OpenCodeChat
<1> HIDE DEF model, others
<1> QED  BY <1>1, <1>2, <1>3, OpenCodeUsageTable, Chain3

\* The table of the OpenCode edge (opencode/normalizer.go).
LEMMA OpenCodeTable ==
    ASSUME NEW op \in Ops("opencode"), NEW identity \in BOOLEAN
    PROVE  /\ Table(OpenCode(op, identity), "opencode", identity)
           /\ Complete(OpenCode(op, identity), "opencode", op)
<1> DEFINE K == {}
           S == Sessions("opencode")
           T(t) == Table(t, "opencode", identity)
           owned == Const(<<"coding_agent.source", "coding_agent.client.name",
                            "coding_agent.source.event", "gen_ai.operation.name">>)
           client == <<Version, Text("gen_ai.provider.name", <<"ai.model.provider">>)>>
           root == If(op = "root", OpenCodeRoot(identity))
           chat == If(op = "chat", OpenCodeChat)
           tool == If(op = "tool", <<Text("gen_ai.tool.name", <<"ai.toolCall.name">>),
                                     Text("gen_ai.tool.call.id", <<"ai.toolCall.id">>)>>)
<1>1. /\ T(owned)
      /\ Gives(owned, "gen_ai.operation.name", K) /\ Gives(owned, "coding_agent.source", K)
      /\ Gives(owned, "coding_agent.client.name", K)
  <2> HIDE DEF K
  <2> QED  BY PlainKeys, Const4
<1>2. T(client) /\ T(tool)
  BY PlainKeys, ReadsKeys, PlainText, Table2, TableIf DEF Version
<1>3. T(root) /\ T(chat)
  BY OpenCodeRootTable, OpenCodeChatTable, TableIf
<1>4. op = "root" => Gives(root, Conversation, S)
  BY OpenCodeRootTable, TableIf
<1>5. OpenCode(op, identity) = owned \o client \o root \o chat \o tool
  BY DEF OpenCode
<1> HIDE DEF K, S, owned, client, root, chat, tool
<1>6. /\ T(OpenCode(op, identity))
      /\ op = "root" => Gives(OpenCode(op, identity), Conversation, S)
      /\ Gives(OpenCode(op, identity), "gen_ai.operation.name", K)
      /\ Gives(OpenCode(op, identity), "coding_agent.source", K)
      /\ Gives(OpenCode(op, identity), "coding_agent.client.name", K)
  BY <1>1, <1>2, <1>3, <1>4, <1>5, Chain5
<1> QED  BY <1>6 DEF Complete, RequiredKeys, S, K

(* Pi *)

\* A member of the usage object is never an integer.
LEMMA PiMemberRule ==
    ASSUME NEW to \in Counters \cup Plain, NEW member \in UsageMembers, NEW identity
    PROVE  Fine(Rule(to, <<member>>, {"double", "digits"}), "pi", identity)
<1>1. {"double", "digits"} \in SUBSET Numbers /\ {"double", "digits"} \in SUBSET ValueKinds
  BY DEF Numbers, ValueKinds
<1>2. \A kind \in Countable("pi") : kind \in {"double", "digits"} \/ kind = "int"
  BY DEF Countable, Numbers, IntegersOnly
<1> DEFINE from == <<member>>
<1>3. Reads(from) /\ \A i \in 1..Len(from) : from[i] \in UsageMembers
  BY ReadsKeys
<1> HIDE DEF from
<1>4. Fine(Rule(to, from, {"double", "digits"}), "pi", identity)
  BY <1>1, <1>2, <1>3, CounterRule, PlainRule
<1> QED  BY <1>4 DEF from

\* A counter of Pi, from a flat attribute or the usage object.
LEMMA PiCountTable ==
    ASSUME NEW to \in Counters \cup Plain, NEW member \in UsageMembers, NEW flat, NEW identity
    PROVE  Table(PiCount(to, member, flat), "pi", identity)
<1>1. Fine(Count(to, <<flat>>), "pi", identity)
  BY ReadsKeys, CounterCount, PlainText
<1> QED  BY <1>1, PiMemberRule, Table2 DEF PiCount

\* The members of the usage object.
LEMMA Members ==
    /\ "usage{input}" \in UsageMembers /\ "usage{output}" \in UsageMembers
    /\ "usage{totalTokens}" \in UsageMembers /\ "usage{cacheRead}" \in UsageMembers
    /\ "usage{cacheWrite}" \in UsageMembers /\ "usage{reasoning}" \in UsageMembers
    /\ "usage{cost.total}" \in UsageMembers
  BY DEF UsageMembers

\* The usage of a Pi call.
LEMMA PiUsageTable ==
    \A identity : Table(PiUsage, "pi", identity)
<1> TAKE identity
<1> DEFINE reasoning == <<Rule(Reasoning, <<"usage{reasoning}">>, {"double", "digits"})>>
<1>1. Table(reasoning, "pi", identity)
  BY CounterKeys, Members, PiMemberRule, Table1
<1> HIDE DEF reasoning
<1> QED
  BY <1>1, CounterKeys, PlainKeys, Members, PiCountTable, Chain7 DEF PiUsage, reasoning

\* A Pi call.
LEMMA PiChatTable ==
    \A identity : Table(PiChat, "pi", identity)
<1> TAKE identity
<1> DEFINE call == <<
             Text("gen_ai.request.model", <<"requestedModel", "model">>),
             Text("gen_ai.provider.name", <<"provider", "model{prefix}">>),
             Text("gen_ai.request.reasoning.level", <<"thinkingLevel">>),
             Text("gen_ai.response.finish_reasons", <<"stopReason">>),
             Text("gen_ai.response.id", <<"responseId">>),
             Rule(FirstChunk, <<"completion_start_time">>, {"text"})>>
<1>1. {"text"} \in SUBSET ValueKinds
  BY DEF ValueKinds
<1>2. Table(call, "pi", identity)
  BY <1>1, PlainKeys, ReadsKeys, PlainText, PlainRule, Table6
<1>3. PiChat = call \o PiUsage
  BY DEF PiChat
<1> HIDE DEF call
<1> QED  BY <1>2, <1>3, PiUsageTable, TableConcat

\* The table of the Pi edge (pi/normalizer.go).
LEMMA PiTable ==
    ASSUME NEW op \in Ops("pi"), NEW identity \in BOOLEAN
    PROVE  /\ Table(Pi(op), "pi", identity)
           /\ Complete(Pi(op), "pi", op)
<1> DEFINE K == {}
           S == Sessions("pi")
           T(t) == Table(t, "pi", identity)
           owned == Const(<<"coding_agent.source", "coding_agent.client.name",
                            "coding_agent.source.event", "gen_ai.operation.name">>)
           session == <<Text(Conversation, <<"sessionId">>)>>
           turn == Const(<<"gen_ai.agent.name">>) \o session
           root == If(op = "root", turn)
           chat == If(op = "chat", PiChat)
           tool == If(op = "tool", <<Text("gen_ai.tool.name", <<"toolName">>),
                                     Text("gen_ai.tool.call.id", <<"toolCallId">>)>>)
<1>1. /\ T(owned)
      /\ Gives(owned, "gen_ai.operation.name", K) /\ Gives(owned, "coding_agent.source", K)
      /\ Gives(owned, "coding_agent.client.name", K)
  <2> HIDE DEF K
  <2> QED  BY PlainKeys, Const4
<1>2. T(turn) /\ Gives(turn, Conversation, S)
  <2> DEFINE from == <<"sessionId">>
  <2>1. \A k \in S : k = from[1]
    BY DEF Sessions
  <2>2. 1 \in DOMAIN from /\ 1 \in DOMAIN session /\ session[1] = Text(Conversation, from)
    OBVIOUS
  <2>3. T(session)
    BY PlainKeys, ReadsKeys, PlainText, Table1
  <2> HIDE DEF from, session, S
  <2>4. Gives(session, Conversation, S)
    BY <2>1, <2>2, GivesText, SessionKeys DEF S
  <2> QED  BY <2>3, <2>4, PlainKeys, Const1, TableConcat
<1>3. T(root) /\ (op = "root" => Gives(root, Conversation, S))
  <2> HIDE DEF turn, S
  <2> QED  BY <1>2, TableIf
<1>4. T(chat) /\ T(tool)
  BY PiChatTable, PlainKeys, ReadsKeys, PlainText, Table2, TableIf
<1>5. Pi(op) = owned \o <<Version>> \o root \o chat \o tool
  BY DEF Pi
<1> HIDE DEF K, S, owned, session, turn, root, chat, tool
<1>6. /\ T(Pi(op))
      /\ op = "root" => Gives(Pi(op), Conversation, S)
      /\ Gives(Pi(op), "gen_ai.operation.name", K)
      /\ Gives(Pi(op), "coding_agent.source", K)
      /\ Gives(Pi(op), "coding_agent.client.name", K)
  BY <1>1, <1>3, <1>4, <1>5, VersionTable, Chain5
<1> QED  BY <1>6 DEF Complete, RequiredKeys, S, K

(* OpenHands *)

\* A counter of a call, or of the wrapper folded into it.
LEMMA OpenHandsCountTable ==
    ASSUME NEW to \in Counters, NEW key, NEW ofWrapper, NEW identity
    PROVE  Table(OpenHandsCount(to, key, ofWrapper), "openhands", identity)
  BY ReadsKeys, NumberKinds, IntegerRule, Table2 DEF OpenHandsCount

\* An OpenHands root reads its conversation from the span.
LEMMA OpenHandsRootTable ==
    ASSUME NEW identity \in BOOLEAN
    PROVE  /\ Table(OpenHandsRoot(identity), "openhands", identity)
           /\ Gives(OpenHandsRoot(identity), Conversation, Sessions("openhands"))
<1> DEFINE S == Sessions("openhands")
           from == <<"session_id">>
           agent == Const(<<"gen_ai.agent.name", "coding_agent.source.scope">>)
           session == <<Text(Conversation, from), Text("gen_ai.agent.id", <<"subagent_type">>),
                        Text("coding_agent.agent.parent_id", <<"parent_session_id">>)>>
           person == If(identity, <<Text("coding_agent.user.id", <<"user_id">>)>>)
           T(t) == Table(t, "openhands", identity)
<1>1. /\ \A k \in S : k = from[1]
      /\ 1 \in DOMAIN from
  BY DEF Sessions
<1>2. T(agent) /\ T(session) /\ T(person)
  BY PlainKeys, PersonKeys, ReadsKeys, PlainText, PersonRule, Const2, Table1, Table3, TableIf
<1>3. 1 \in DOMAIN session /\ session[1] = Text(Conversation, from)
  OBVIOUS
<1>4. OpenHandsRoot(identity) = agent \o session \o person
  BY DEF OpenHandsRoot
<1> HIDE DEF S, from, agent, session, person
<1>5. Gives(session, Conversation, S)
  BY <1>1, <1>3, GivesText, SessionKeys DEF S
<1> QED  BY <1>2, <1>4, <1>5, Chain3 DEF S

\* An OpenHands call.
LEMMA OpenHandsChatTable ==
    \A identity : Table(OpenHandsChat, "openhands", identity)
<1> TAKE identity
<1> DEFINE T(t) == Table(t, "openhands", identity)
           call == <<
             Text("gen_ai.provider.name", <<"gen_ai.system">>),
             Text("gen_ai.request.model", <<"gen_ai.request.model">>),
             Text("gen_ai.request.reasoning.level", <<"gen_ai.request.reasoning_effort">>),
             Rule("gen_ai.request.max_tokens", <<"gen_ai.request.max_tokens">>, {"int"}),
             Text("gen_ai.response.id", <<"gen_ai.response.id">>),
             Text("gen_ai.response.model", <<"gen_ai.response.model">>)>>
           cost == <<Rule(Cost, <<"gen_ai.usage.cost">>, {"double"}),
                     Absent(Rule(Cost, <<"wrapper gen_ai.usage.cost">>, {"double"}))>>
<1>1. T(call)
  BY PlainKeys, ReadsKeys, NumberKinds, PlainText, PlainRule, Table6
<1>2. T(cost)
  BY PlainKeys, ReadsKeys, NumberKinds, Disjoint, PlainRule, AbsentRule, Table2
<1> HIDE DEF call, cost
<1> QED
  BY <1>1, <1>2, CounterKeys, OpenHandsCountTable, Chain7 DEF OpenHandsChat, call, cost

\* The table of the OpenHands edge (openhands/normalizer.go).
LEMMA OpenHandsTable ==
    ASSUME NEW op \in Ops("openhands"), NEW identity \in BOOLEAN
    PROVE  /\ Table(OpenHands(op, identity), "openhands", identity)
           /\ Complete(OpenHands(op, identity), "openhands", op)
<1> DEFINE K == {}
           S == Sessions("openhands")
           T(t) == Table(t, "openhands", identity)
           owned == Const(<<"coding_agent.source", "coding_agent.client.name",
                            "gen_ai.operation.name">>)
           root == If(op = "root", OpenHandsRoot(identity))
           chat == If(op = "chat", OpenHandsChat)
           tool == If(op = "tool", Const(<<"gen_ai.tool.name">>)
                                   \o <<Text("gen_ai.tool.call.id", <<"tool_call_id">>)>>)
<1>1. /\ T(owned)
      /\ Gives(owned, "gen_ai.operation.name", K) /\ Gives(owned, "coding_agent.source", K)
      /\ Gives(owned, "coding_agent.client.name", K)
  <2> HIDE DEF K
  <2> QED  BY PlainKeys, Const3
<1>2. T(root) /\ T(chat)
  BY OpenHandsRootTable, OpenHandsChatTable, TableIf
<1>3. T(tool)
  BY PlainKeys, ReadsKeys, PlainText, Const1, Table1, TableConcat, TableIf
<1>4. op = "root" => Gives(root, Conversation, S)
  BY OpenHandsRootTable, TableIf
<1>5. OpenHands(op, identity) = owned \o root \o chat \o tool
  BY DEF OpenHands
<1> HIDE DEF K, S, owned, root, chat, tool
<1>6. /\ T(OpenHands(op, identity))
      /\ op = "root" => Gives(OpenHands(op, identity), Conversation, S)
      /\ Gives(OpenHands(op, identity), "gen_ai.operation.name", K)
      /\ Gives(OpenHands(op, identity), "coding_agent.source", K)
      /\ Gives(OpenHands(op, identity), "coding_agent.client.name", K)
  BY <1>1, <1>2, <1>3, <1>4, <1>5, Chain4
<1> QED  BY <1>6 DEF Complete, RequiredKeys, S, K

(* Codex traces *)

\* A Codex turn reads its conversation from either of its names.
LEMMA CodexNativeRootTable ==
    \A identity : /\ Table(CodexNativeRoot, "codex_native", identity)
                  /\ Gives(CodexNativeRoot, Conversation, Sessions("codex_native"))
<1> TAKE identity
<1> DEFINE S == Sessions("codex_native")
           from == <<"thread.id", "conversation.id">>
           T(t) == Table(t, "codex_native", identity)
           agent == Const(<<"gen_ai.agent.name", "gen_ai.provider.name">>)
           turn == <<
             Text(Conversation, from),
             Text("gen_ai.request.model", <<"model">>),
             Text("gen_ai.request.reasoning.level", <<"codex.turn.reasoning_effort">>),
             Count(InputTokens, <<"codex.turn.token_usage.input_tokens">>),
             Count(CacheRead, <<"codex.turn.token_usage.cached_input_tokens">>),
             Count(CacheWrite, <<"codex.turn.token_usage.cache_write_input_tokens">>),
             Count(OutputTokens, <<"codex.turn.token_usage.output_tokens">>),
             Count(Reasoning, <<"codex.turn.token_usage.reasoning_output_tokens">>),
             Count(TotalTokens, <<"codex.turn.token_usage.total_tokens">>)>>
<1>1. \A k \in S : \E i \in DOMAIN from : from[i] = k
  <2>1. \A k \in S : k = from[1] \/ k = from[2]
    BY DEF Sessions
  <2>2. DOMAIN from = 1..2
    OBVIOUS
  <2> HIDE DEF from, S
  <2> QED  BY <2>1, <2>2
<1>2. T(agent) /\ T(turn)
  BY PlainKeys, CounterKeys, ReadsKeys, PlainText, CounterCount, Const2, Table9
<1>3. 1 \in DOMAIN turn /\ turn[1] = Text(Conversation, from)
  OBVIOUS
<1>4. CodexNativeRoot = agent \o turn
  BY DEF CodexNativeRoot
<1> HIDE DEF S, from, agent, turn
<1>5. Gives(turn, Conversation, S)
  BY <1>1, <1>3, GivesText, SessionKeys DEF S
<1> QED  BY <1>2, <1>4, <1>5, TableConcat DEF S

\* A Codex response keeps the counters of the conventions.
LEMMA CodexNativeChatTable ==
    \A identity : Table(CodexNativeChat, "codex_native", identity)
<1> TAKE identity
<1> DEFINE T(t) == Table(t, "codex_native", identity)
           provider == Const(<<"gen_ai.provider.name">>)
           model == <<Text("gen_ai.request.model", <<"turn model">>),
                      Text("gen_ai.request.reasoning.level",
                           <<"codex.request.reasoning_effort">>)>>
           keys == <<InputTokens, CacheRead, CacheWrite, OutputTokens>>
           plain == [i \in 1..4 |-> LET k == keys[i] IN Count(k, <<k>>)]
           rest == <<Count(Reasoning, <<"codex.usage.reasoning_output_tokens">>),
                     Count(TotalTokens, <<"codex.usage.total_tokens">>)>>
<1>1. T(provider) /\ T(model) /\ T(rest)
  BY PlainKeys, CounterKeys, ReadsKeys, PlainText, CounterCount, Const1, Table2
<1>2. T(plain)
  <2>1. \A i \in 1..4 : keys[i] \in Counters
    BY CounterKeys
  <2> HIDE DEF keys
  <2>2. /\ DOMAIN plain = 1..4 /\ plain = [i \in 1..4 |-> plain[i]]
        /\ \A i \in 1..4 : plain[i] = Count(keys[i], <<keys[i]>>)
    OBVIOUS
  <2> HIDE DEF plain
  <2>3. \A i \in 1..4 : Fine(plain[i], "codex_native", identity)
    BY <2>1, <2>2, ReadsKeys, CounterCount
  <2> QED  BY <2>2, <2>3, TableOf
<1>3. CodexNativeChat = provider \o model \o plain \o rest
  BY DEF CodexNativeChat
<1> HIDE DEF provider, model, plain, rest
<1> QED  BY <1>1, <1>2, <1>3, Chain4

\* The table of the edge for native Codex traces (codextraces/normalizer.go).
LEMMA CodexNativeTable ==
    ASSUME NEW op \in Ops("codex_native"), NEW identity \in BOOLEAN
    PROVE  /\ Table(CodexNative(op), "codex_native", identity)
           /\ Complete(CodexNative(op), "codex_native", op)
<1> DEFINE K == {}
           S == Sessions("codex_native")
           T(t) == Table(t, "codex_native", identity)
           owned == Const(<<"coding_agent.source", "coding_agent.client.name",
                            "coding_agent.source.event", "gen_ai.operation.name">>)
           root == If(op = "root", CodexNativeRoot)
           chat == If(op = "chat", CodexNativeChat)
           type == Const(<<"gen_ai.tool.type">>)
           mcp == If(op = "mcp", type \o <<
                       Text("gen_ai.tool.name", <<"tool.name">>),
                       Text("gen_ai.tool.call.id", <<"tool.call_id">>),
                       Text("server.address", <<"server.address">>),
                       Count("server.port", <<"server.port">>)>>)
           tool == If(op = "tool", type \o <<
                        Text("gen_ai.tool.name", <<"event tool_name">>),
                        Text("gen_ai.tool.call.id", <<"event call_id">>)>>)
<1>1. /\ T(owned)
      /\ Gives(owned, "gen_ai.operation.name", K) /\ Gives(owned, "coding_agent.source", K)
      /\ Gives(owned, "coding_agent.client.name", K)
  <2> HIDE DEF K
  <2> QED  BY PlainKeys, Const4
<1>2. T(root) /\ T(chat)
  BY CodexNativeRootTable, CodexNativeChatTable, TableIf
<1>3. T(mcp)
  BY PlainKeys, ReadsKeys, PlainText, Const1, Table4, TableConcat, TableIf
<1>4. T(tool)
  BY PlainKeys, ReadsKeys, PlainText, Const1, Table2, TableConcat, TableIf
<1>5. op = "root" => Gives(root, Conversation, S)
  BY CodexNativeRootTable, TableIf
<1>6. CodexNative(op) = owned \o <<Version>> \o root \o chat \o mcp \o tool
  BY DEF CodexNative
<1> HIDE DEF K, S, owned, root, chat, mcp, tool
<1>7. /\ T(CodexNative(op))
      /\ op = "root" => Gives(CodexNative(op), Conversation, S)
      /\ Gives(CodexNative(op), "gen_ai.operation.name", K)
      /\ Gives(CodexNative(op), "coding_agent.source", K)
      /\ Gives(CodexNative(op), "coding_agent.client.name", K)
  BY <1>1, <1>2, <1>3, <1>4, <1>5, <1>6, VersionTable, Chain6
<1> QED  BY <1>7 DEF Complete, RequiredKeys, S, K

(* The logs edges *)

\* What both logs edges set on every span.
LEMMA OwnedTable ==
    ASSUME NEW edge, NEW identity, edge # "genai"
    PROVE  /\ Table(Const(Owned), edge, identity)
           /\ \A k \in RequiredKeys : \A K : Gives(Const(Owned), k, K)
<1>1. /\ Table(Const(Owned), edge, identity)
      /\ \A K : /\ Gives(Const(Owned), "gen_ai.operation.name", K)
                /\ Gives(Const(Owned), "coding_agent.source", K)
                /\ Gives(Const(Owned), "coding_agent.client.name", K)
  BY PlainKeys, Const4 DEF Owned
<1> QED  BY <1>1 DEF RequiredKeys

\* The root, the calls and the tools of the Codex logs edge.
LEMMA CodexRootTable ==
    ASSUME NEW identity \in BOOLEAN
    PROVE  Table(CodexRoot(identity), "codex_logs", identity)
<1> DEFINE T(t) == Table(t, "codex_logs", identity)
           turn == Const(<<"gen_ai.agent.name", "gen_ai.provider.name", "gen_ai.conversation.id">>)
           client == <<Printed("gen_ai.request.model", <<"model">>),
                       Printed("coding_agent.client.version", <<"app.version">>),
                       Printed("coding_agent.terminal.type", <<"terminal.type">>)>>
           person == If(identity, <<Printed("coding_agent.user.id", <<"user.account_id">>),
                                    Printed("coding_agent.user.email", <<"user.email">>)>>)
<1>1. T(turn) /\ T(client)
  BY PlainKeys, ReadsKeys, PlainText, Const3, Table3
<1>2. T(person)
  BY PersonKeys, ReadsKeys, PersonRule, Table2, TableIf
<1>3. CodexRoot(identity) = turn \o client \o person
  BY DEF CodexRoot
<1> HIDE DEF turn, client, person
<1> QED  BY <1>1, <1>2, <1>3, Chain3

\* The rules of a chat span of the Codex logs edge, as one table.
LEMMA CodexChatTable ==
    \A identity : Table(CodexChat, "codex_logs", identity)
<1> TAKE identity
<1> DEFINE provider == Const(<<"gen_ai.provider.name">>)
           call == <<
             Printed("gen_ai.request.model", <<"model">>),
             Printed("gen_ai.request.reasoning.level", <<"model_reasoning_effort">>),
             Printed("coding_agent.request.service_tier", <<"service_tier">>),
             Count("gen_ai.usage.input_tokens", <<"input_token_count">>),
             Count("gen_ai.usage.output_tokens", <<"output_token_count">>),
             Count("gen_ai.usage.cache_read.input_tokens", <<"cached_token_count">>),
             Count("gen_ai.usage.cache_write.input_tokens", <<"cache_write_token_count">>),
             Count("gen_ai.usage.total_tokens", <<"tool_token_count">>),
             Count("gen_ai.usage.reasoning.output_tokens", <<"reasoning_token_count">>),
             Count("gen_ai.response.time_to_first_chunk", <<"ttft_ms">>)>>
<1>1. Table(call, "codex_logs", identity)
  BY PlainKeys, LiteralCounters, ReadsKeys, PlainText, CounterCount, Table10
<1>2. Table(provider, "codex_logs", identity)
  BY PlainKeys, Const1
<1>3. CodexChat = provider \o call
  BY DEF CodexChat
<1> HIDE DEF provider, call
<1> QED  BY <1>1, <1>2, <1>3, TableConcat

\* The rules of a tool span of the Codex logs edge, as one table.
LEMMA CodexToolTable ==
    \A identity : Table(CodexTool, "codex_logs", identity)
  BY PlainKeys, ReadsKeys, PlainText, Const1, Table3, TableConcat DEF CodexTool

\* The table of the Codex logs edge (codex/trace.go).
LEMMA CodexLogsTable ==
    ASSUME NEW op \in Ops("codex_logs"), NEW identity \in BOOLEAN
    PROVE  /\ Table(CodexLogs(op, identity), "codex_logs", identity)
           /\ Complete(CodexLogs(op, identity), "codex_logs", op)
<1> DEFINE t == CASE op = "root" -> CodexRoot(identity)
                  [] op = "chat" -> CodexChat
                  [] op = "tool" -> CodexTool
<1>1. op \in {"root", "chat", "tool"}
  BY DEF Ops
<1>2. Table(t, "codex_logs", identity)
  BY <1>1, CodexRootTable, CodexChatTable, CodexToolTable
<1>3. CodexLogs(op, identity) = Const(Owned) \o t
  BY DEF CodexLogs
<1> HIDE DEF t
<1> QED  BY <1>2, <1>3, OwnedTable, TableConcat DEF Complete

\* The root, the calls and the tools of the Cursor logs edge.
LEMMA CursorRootTable ==
    ASSUME NEW identity \in BOOLEAN
    PROVE  Table(CursorRoot(identity), "cursor_logs", identity)
<1> DEFINE T(t) == Table(t, "cursor_logs", identity)
           turn == Const(<<"gen_ai.agent.name", "gen_ai.conversation.id">>)
           client == <<Printed("coding_agent.client.version", <<"resource service.version">>)>>
           person == If(identity, <<
               Printed("coding_agent.user.id", <<"resource cursor.user.id">>),
               Printed("coding_agent.user.email", <<"resource cursor.user.email">>),
               Printed("coding_agent.team.id", <<"resource cursor.team.id">>)>>)
<1>1. T(turn) /\ T(client)
  BY PlainKeys, ReadsKeys, PlainText, Const2, Table1
<1>2. T(person)
  BY PersonKeys, ReadsKeys, PersonRule, Table3, TableIf
<1>3. CursorRoot(identity) = turn \o client \o person
  BY DEF CursorRoot
<1> HIDE DEF turn, client, person
<1> QED  BY <1>1, <1>2, <1>3, Chain3

\* The rules of a chat span of the Cursor logs edge, as one table.
LEMMA CursorChatTable ==
    \A identity : Table(CursorChat, "cursor_logs", identity)
  BY PlainKeys, LiteralCounters, ReadsKeys, PlainText, CounterCount, Table5 DEF CursorChat

\* The rules of a tool span of the Cursor logs edge, as one table.
LEMMA CursorToolTable ==
    \A identity : Table(CursorTool, "cursor_logs", identity)
  BY PlainKeys, ReadsKeys, PlainText, Const1, Table2, TableConcat DEF CursorTool

\* The table of the Cursor logs edge (cursor/trace.go).
LEMMA CursorLogsTable ==
    ASSUME NEW op \in Ops("cursor_logs"), NEW identity \in BOOLEAN
    PROVE  /\ Table(CursorLogs(op, identity), "cursor_logs", identity)
           /\ Complete(CursorLogs(op, identity), "cursor_logs", op)
<1> DEFINE t == CASE op = "root" -> CursorRoot(identity)
                  [] op = "chat" -> CursorChat
                  [] op = "tool" -> CursorTool
<1>1. op \in {"root", "chat", "tool"}
  BY DEF Ops
<1>2. Table(t, "cursor_logs", identity)
  BY <1>1, CursorRootTable, CursorChatTable, CursorToolTable
<1>3. CursorLogs(op, identity) = Const(Owned) \o t
  BY DEF CursorLogs
<1> HIDE DEF t
<1> QED  BY <1>2, <1>3, OwnedTable, TableConcat DEF Complete

\* The table of every edge.
LEMMA EveryTable ==
    ASSUME NEW edge \in Edges, NEW op \in Ops(edge), NEW identity \in BOOLEAN
    PROVE  /\ Table(Rules(edge, op, identity), edge, identity)
           /\ Complete(Rules(edge, op, identity), edge, op)
<1>1. CASE edge = "claude"
  BY <1>1, ClaudeTable DEF Rules
<1>2. CASE edge = "genai"
  BY <1>2, GenAITable DEF Rules
<1>3. CASE edge = "opencode"
  BY <1>3, OpenCodeTable DEF Rules
<1>4. CASE edge = "pi"
  BY <1>4, PiTable DEF Rules
<1>5. CASE edge = "openhands"
  BY <1>5, OpenHandsTable DEF Rules
<1>6. CASE edge = "codex_native"
  BY <1>6, CodexNativeTable DEF Rules
<1>7. CASE edge = "codex_logs"
  BY <1>7, CodexLogsTable DEF Rules
<1>8. CASE edge = "cursor_logs"
  BY <1>8, CursorLogsTable DEF Rules
<1> QED
  BY <1>1, <1>2, <1>3, <1>4, <1>5, <1>6, <1>7, <1>8 DEF Edges

-----------------------------------------------------------------------------
(* What the rules of an edge do to a span. *)

IsSpan(s) ==
    \E edge \in Edges : \E op \in Ops(edge), identity \in BOOLEAN : \E wire \in WiresOf(edge, op) :
        s = [edge |-> edge, op |-> op, identity |-> identity, wire |-> wire]

RulesOf(s) == Rules(s.edge, s.op, s.identity)

\* The attributes a span starts with, and those it has after the last rule.
Start(s) == IF s.edge \in InPlace THEN AsIs(s.wire) ELSE <<>>
Result(s) == ApplyAll(RulesOf(s), s.wire, Start(s))

\* What a span that comes in has, and what its table is like.
LEMMA SpanFacts ==
    ASSUME NEW s, IsSpan(s)
    PROVE  /\ s.edge \in Edges /\ s.op \in Ops(s.edge) /\ s.identity \in BOOLEAN
           /\ IsWire(s.wire)
           /\ \A k \in UsageMembers \cap DOMAIN s.wire : s.wire[k] # "int"
           /\ Table(RulesOf(s), s.edge, s.identity)
           /\ Complete(RulesOf(s), s.edge, s.op)
<1>1. PICK edge \in Edges : \E op \in Ops(edge), identity \in BOOLEAN :
        \E wire \in WiresOf(edge, op) :
            s = [edge |-> edge, op |-> op, identity |-> identity, wire |-> wire]
  BY DEF IsSpan
<1>4. PICK op \in Ops(edge), identity \in BOOLEAN : \E wire \in WiresOf(edge, op) :
            s = [edge |-> edge, op |-> op, identity |-> identity, wire |-> wire]
  BY <1>1
<1>5. PICK wire \in WiresOf(edge, op) :
            s = [edge |-> edge, op |-> op, identity |-> identity, wire |-> wire]
  BY <1>4
<1>2. s.edge = edge /\ s.op = op /\ s.identity = identity /\ s.wire = wire
  BY <1>5
<1>3. /\ Table(Rules(edge, op, identity), edge, identity)
      /\ Complete(Rules(edge, op, identity), edge, op)
  BY EveryTable
<1> QED
  BY <1>2, <1>3, WiresAssumption DEF IsWire, RulesOf, Possible

\* A table by its indices and by its rules.
LEMMA TableFacts ==
    ASSUME NEW t, NEW edge, NEW identity, Table(t, edge, identity)
    PROVE  /\ Len(t) \in Nat
           /\ \A i \in 1..Len(t) : t[i] \in ToSet(t)
           /\ \A r \in ToSet(t) : \E i \in 1..Len(t) : t[i] = r
           /\ \A r \in ToSet(t) : Fine(r, edge, identity) /\ IsRule(r)
  BY LenProperties DEF Table, ToSet, Fine

\* The attributes a span starts with: its own, or none.
LEMMA StartFacts ==
    ASSUME NEW s, IsSpan(s)
    PROVE  /\ Start(s) \in Attrs(s.wire)
           /\ DOMAIN Start(s) = IF s.edge \in InPlace THEN DOMAIN s.wire ELSE {}
           /\ s.edge \in InPlace => \A k \in DOMAIN s.wire :
                                        Start(s)[k] = [from |-> k, kind |-> s.wire[k]]
<1> DEFINE w == s.wire
<1>1. IsWire(w)
  BY SpanFacts
<1> HIDE DEF w
<1>2. AsIs(w) \in [DOMAIN w -> Value(w)]
  BY <1>1 DEF AsIs, IsWire, Value
<1>3. <<>> \in [{} -> Value(w)] /\ DOMAIN <<>> = {}
  OBVIOUS
<1>4. AsIs(w) \in Attrs(w) /\ <<>> \in Attrs(w)
  BY <1>2, <1>3, AttrsFacts
<1> QED
  BY <1>3, <1>4 DEF Start, AsIs, w

\* What all rules preserve, the result has.
LEMMA ResultStays ==
    ASSUME NEW s, IsSpan(s), NEW I \in SUBSET Attrs(s.wire), Start(s) \in I,
           \A r \in ToSet(RulesOf(s)) : \A a \in I : \A b \in Attrs(s.wire) :
                Effect(r, s.wire, a, b) => b \in I
    PROVE  Result(s) \in I
<1> DEFINE t == RulesOf(s)
           w == s.wire
<1>1. Table(t, s.edge, s.identity) /\ IsWire(w)
  BY SpanFacts
<1> HIDE DEF t, w
<1>2. ASSUME NEW i \in 1..Len(t), NEW a \in I PROVE Apply(t[i], w, a) \in I
  <2>1. t[i] \in ToSet(t) /\ IsRule(t[i])
    BY <1>1, TableFacts
  <2>2. Effect(t[i], w, a, Apply(t[i], w, a))
    BY <1>1, <2>1, ApplyWrites DEF w
  <2>3. Apply(t[i], w, a) \in Attrs(w)
    BY <2>2 DEF Effect
  <2> QED  BY <2>1, <2>2, <2>3 DEF t, w
<1>3. ApplyAll(t, w, Start(s)) \in I
  BY <1>1, <1>2, TableFacts, ApplyAllStays
<1> QED  BY <1>3 DEF Result, t, w

\* What one rule brings about and all rules preserve, the result has.
LEMMA ResultReaches ==
    ASSUME NEW s, IsSpan(s), NEW I \in SUBSET Attrs(s.wire), NEW J \in SUBSET Attrs(s.wire),
           Start(s) \in I,
           \A r \in ToSet(RulesOf(s)) : \A b \in Attrs(s.wire) :
                /\ \A a \in I : Effect(r, s.wire, a, b) => b \in I
                /\ \A a \in J : Effect(r, s.wire, a, b) => b \in J,
           NEW q \in ToSet(RulesOf(s)),
           \A a \in I : \A b \in Attrs(s.wire) : Effect(q, s.wire, a, b) => b \in J
    PROVE  Result(s) \in J
<1> DEFINE t == RulesOf(s)
           w == s.wire
<1>1. Table(t, s.edge, s.identity) /\ IsWire(w)
  BY SpanFacts
<1> HIDE DEF t, w
<1>2. ASSUME NEW i \in 1..Len(t), NEW a \in Attrs(w)
      PROVE  /\ t[i] \in ToSet(t) /\ Apply(t[i], w, a) \in Attrs(w)
             /\ Effect(t[i], w, a, Apply(t[i], w, a))
  <2>1. t[i] \in ToSet(t) /\ IsRule(t[i])
    BY <1>1, TableFacts
  <2>2. Effect(t[i], w, a, Apply(t[i], w, a))
    BY <1>1, <2>1, ApplyWrites
  <2> QED  BY <2>1, <2>2 DEF Effect
<1>3. PICK j \in 1..Len(t) : t[j] = q
  BY <1>1, TableFacts DEF t
<1>4. /\ \A i \in 1..Len(t) : \A a \in I : Apply(t[i], w, a) \in I
      /\ \A i \in 1..Len(t) : \A a \in J : Apply(t[i], w, a) \in J
      /\ \A a \in I : Apply(t[j], w, a) \in J
  BY <1>2, <1>3 DEF t, w
<1>5. Len(t) \in Nat
  BY <1>1, TableFacts
<1>6. ApplyAll(t, w, Start(s)) \in J
  BY <1>4, <1>5, ApplyAllReaches
<1> QED  BY <1>6 DEF Result, t, w

\* What goes out are the attributes of the vocabulary.
LEMMA AttributesFacts ==
    ASSUME NEW s, IsSpan(s)
    PROVE  /\ DOMAIN Attributes(s) = DOMAIN Result(s) \cap Vocabulary
           /\ \A k \in DOMAIN Attributes(s) : Attributes(s)[k] = Result(s)[k]
<1>1. CASE s.edge \in InPlace
  BY <1>1 DEF Attributes, Result, Start, Strip, Only, RulesOf
<1>2. CASE s.edge \notin InPlace
  <2> DEFINE I == {a \in Attrs(s.wire) : DOMAIN a \subseteq Vocabulary}
  <2>1. Start(s) \in I
    BY <1>2, StartFacts
  <2>2. ASSUME NEW r \in ToSet(RulesOf(s)), NEW a \in I, NEW b \in Attrs(s.wire),
               Effect(r, s.wire, a, b)
        PROVE  b \in I
    <3>1. r.to \in Vocabulary
      BY SpanFacts, TableFacts DEF IsRule
    <3> QED  BY <2>2, <3>1 DEF Effect
  <2>3. Result(s) \in I
    <3> HIDE DEF I
    <3>1. I \in SUBSET Attrs(s.wire)
      BY DEF I
    <3> QED  BY <2>1, <2>2, <3>1, ResultStays
  <2>4. Attributes(s) = Result(s)
    BY <1>2 DEF Attributes, Result, Rewrite, Start, RulesOf
  <2> QED  BY <2>3, <2>4
<1> QED  BY <1>1, <1>2

\* No rule takes a key away.
LEMMA StartKept ==
    ASSUME NEW s, IsSpan(s), NEW k \in DOMAIN Start(s)
    PROVE  k \in DOMAIN Result(s)
<1> DEFINE I == {a \in Attrs(s.wire) : k \in DOMAIN a}
<1>1. Start(s) \in I
  BY StartFacts
<1>2. \A r \in ToSet(RulesOf(s)) : \A a \in I : \A b \in Attrs(s.wire) :
          Effect(r, s.wire, a, b) => b \in I
  BY DEF Effect
<1>3. Result(s) \in I
  <2> HIDE DEF I
  <2>1. I \in SUBSET Attrs(s.wire)
    BY DEF I
  <2> QED  BY <1>1, <1>2, <2>1, ResultStays
<1> QED  BY <1>3

\* A key that a table gives a value has one.
LEMMA GivenKept ==
    ASSUME NEW s, IsSpan(s), NEW to, NEW K, Gives(RulesOf(s), to, K),
           K = {} \/ \E k \in K \cap DOMAIN s.wire : s.wire[k] \in Strings
    PROVE  to \in DOMAIN Result(s)
<1> DEFINE w == s.wire
           I == Attrs(w)
           J == {a \in Attrs(w) : to \in DOMAIN a}
<1>1. PICK q \in ToSet(RulesOf(s)) :
        /\ q.to = to
        /\ \/ q.from = <<>>
           \/ /\ K # {} /\ q.as = Strings
              /\ \A k \in K : \E i \in DOMAIN q.from : q.from[i] = k
  BY DEF Gives
<1>2. IsRule(q)
  BY SpanFacts, TableFacts
<1>3. q.from = <<>> \/ Usable(q, w) # 0
  <2> SUFFICES ASSUME q.from # <<>>, Usable(q, w) = 0 PROVE FALSE
    OBVIOUS
  <2>1. \A i \in 1..Len(q.from) : ~(q.from[i] \in DOMAIN w /\ w[q.from[i]] \in q.as)
    BY <1>2, UsableIsFirst
  <2>2. PICK k \in K : k \in DOMAIN w /\ w[k] \in Strings
    BY <1>1
  <2>3. PICK i \in DOMAIN q.from : q.from[i] = k
    BY <1>1
  <2> QED  BY <1>1, <1>2, <2>1, <2>2, <2>3 DEF IsRule
<1>4. \A a \in I : \A b \in Attrs(w) : Effect(q, w, a, b) => b \in J
  BY <1>1, <1>3 DEF Effect
<1>5. \A r \in ToSet(RulesOf(s)) : \A b \in Attrs(w) :
          /\ \A a \in I : Effect(r, w, a, b) => b \in I
          /\ \A a \in J : Effect(r, w, a, b) => b \in J
  BY DEF Effect
<1>6. Result(s) \in J
  <2>1. I \in SUBSET Attrs(s.wire) /\ J \in SUBSET Attrs(s.wire) /\ Start(s) \in I
    BY StartFacts
  <2> HIDE DEF I, J
  <2> QED  BY <1>4, <1>5, <2>1, ResultReaches
<1> QED  BY <1>6

\* Without capture_identity, no rule writes a key of a person.
LEMMA PersonWithheld ==
    ASSUME NEW s, IsSpan(s), ~s.identity
    PROVE  \A k \in DOMAIN Result(s) \cap Identity :
             /\ s.edge \in InPlace /\ k \in DOMAIN s.wire
             /\ Result(s)[k] = [from |-> k, kind |-> s.wire[k]]
<1> DEFINE w == s.wire
           I == {a \in Attrs(w) : \A k \in DOMAIN a \cap Identity :
                                    /\ s.edge \in InPlace /\ k \in DOMAIN w
                                    /\ a[k] = [from |-> k, kind |-> w[k]]}
<1>1. Start(s) \in I
  BY StartFacts
<1>2. ASSUME NEW r \in ToSet(RulesOf(s)), NEW a \in I, NEW b \in Attrs(w), Effect(r, w, a, b)
      PROVE  b \in I
  <2>0. Fine(r, s.edge, s.identity)
    BY SpanFacts, TableFacts
  <2>1. r.to \notin Identity
    BY <2>0 DEF Fine
  <2> QED  BY <1>2, <2>1 DEF Effect
<1>3. Result(s) \in I
  <2>1. I \in SUBSET Attrs(s.wire)
    OBVIOUS
  <2> HIDE DEF I
  <2> QED  BY <1>1, <1>2, <2>1, ResultStays
<1> QED  BY <1>3

\* A counter of the wire that a rule reads, and can read, is a number.
LEMMA CounterKept ==
    ASSUME NEW s, IsSpan(s), NEW q \in ToSet(RulesOf(s)), q.to \in Counters,
           NEW k \in DOMAIN s.wire, \E i \in DOMAIN q.from : q.from[i] = k,
           s.wire[k] \in Countable(s.edge),
           s.edge = "genai" => q.to \notin DOMAIN s.wire
    PROVE  q.to \in DOMAIN Result(s) /\ Result(s)[q.to].kind \in Numbers
<1> DEFINE w == s.wire
           to == q.to
           Num(a) == to \in DOMAIN a => a[to].kind \in Numbers
           I == {a \in Attrs(w) : s.edge = "claude" \/ Num(a)}
           J == {a \in Attrs(w) : to \in DOMAIN a /\ a[to].kind \in Numbers}
<1>1. \A r \in ToSet(RulesOf(s)) : IsRule(r) /\ Fine(r, s.edge, s.identity)
  BY SpanFacts, TableFacts
<1>2. Start(s) \in I
  BY StartFacts DEF InPlace
<1>3. Usable(q, w) # 0
  <2> SUFFICES ASSUME Usable(q, w) = 0 PROVE FALSE
    OBVIOUS
  <2>1. \A i \in 1..Len(q.from) : ~(q.from[i] \in DOMAIN w /\ w[q.from[i]] \in q.as)
    BY <1>1, UsableIsFirst
  <2>2. PICK i \in DOMAIN q.from : q.from[i] = k
    OBVIOUS
  <2>3. i \in 1..Len(q.from)
    BY <1>1 DEF IsRule
  <2>4. w[k] \in q.as \/ (w[k] = "int" /\ k \in UsageMembers)
    BY <1>1, <2>2, <2>3 DEF Fine
  <2>5. ~(w[k] = "int" /\ k \in UsageMembers)
    BY SpanFacts
  <2> QED  BY <2>1, <2>2, <2>3, <2>4, <2>5
<1>4. ASSUME NEW r \in ToSet(RulesOf(s)), NEW b \in Attrs(w)
      PROVE  /\ \A a \in I : Effect(r, w, a, b) => b \in I
             /\ \A a \in J : Effect(r, w, a, b) => b \in J
  <2>1. r.to = to => r.from # <<>> /\ r.as \subseteq Numbers
    BY <1>1 DEF Fine
  <2>2. ASSUME NEW a \in I, Effect(r, w, a, b) PROVE b \in I
    BY <2>1, <2>2 DEF Effect
  <2>3. ASSUME NEW a \in J, Effect(r, w, a, b) PROVE b \in J
    BY <2>1, <2>3 DEF Effect
  <2> QED  BY <2>2, <2>3
<1>5. ASSUME NEW a \in I, NEW b \in Attrs(w), Effect(q, w, a, b) PROVE b \in J
  <2>1. /\ q.from # <<>> /\ q.as \subseteq Numbers /\ q.over \in BOOLEAN
        /\ s.edge = "claude" => q.over
    BY <1>1 DEF Fine, IsRule
  <2>2. CASE q.over
    BY <1>3, <1>5, <2>1, <2>2 DEF Effect
  <2>3. CASE ~q.over
    BY <1>3, <1>5, <2>1, <2>3 DEF Effect
  <2> QED  BY <2>1, <2>2, <2>3
<1>6. Result(s) \in J
  <2>1. I \in SUBSET Attrs(s.wire) /\ J \in SUBSET Attrs(s.wire)
    OBVIOUS
  <2> HIDE DEF I, J
  <2> QED  BY <1>2, <1>4, <1>5, <2>1, ResultReaches
<1> QED  BY <1>6

\* GenAI writes few keys that the span already has.
LEMMA CanonicalKept ==
    ASSUME NEW s, IsSpan(s), s.edge = "genai", NEW k \in DOMAIN s.wire \ GenAIWrites
    PROVE  k \in DOMAIN Result(s) /\ Result(s)[k] = [from |-> k, kind |-> s.wire[k]]
<1> DEFINE w == s.wire
           v == [from |-> k, kind |-> s.wire[k]]
           I == {a \in Attrs(w) : k \in DOMAIN a /\ a[k] = v}
<1> HIDE DEF v
<1>1. Start(s) \in I
  BY StartFacts DEF InPlace, v
<1>2. ASSUME NEW r \in ToSet(RulesOf(s)), NEW a \in I, NEW b \in Attrs(w), Effect(r, w, a, b)
      PROVE  b \in I
  <2>0. Fine(r, s.edge, s.identity)
    BY SpanFacts, TableFacts
  <2>1. r.over => r.to # k
    BY <2>0 DEF Fine
  <2> QED  BY <1>2, <2>1 DEF Effect
<1>3. Result(s) \in I
  <2>1. I \in SUBSET Attrs(s.wire)
    OBVIOUS
  <2> HIDE DEF I
  <2> QED  BY <1>1, <1>2, <2>1, ResultStays
<1> QED  BY <1>3 DEF v

-----------------------------------------------------------------------------
(* The invariant: what is pending came in, and what went out came of that. *)

Inv == /\ \A s \in pending : IsSpan(s)
       /\ \A o \in emitted : /\ IsSpan(o.span) /\ Kept(o.span)
                             /\ o.attrs = Attributes(o.span)
                             /\ o.resource = FilterResource(o.span.wire, o.span.identity)

\* What goes out always came of a span that came in, by the rules of its edge.
THEOREM InvAlways == Spec => []Inv
<1>1. Init => Inv
  BY DEF Init, Inv, IsSpan
<1>2. Inv /\ [Next]_vars => Inv'
  <2> SUFFICES ASSUME Inv, [Next]_vars PROVE Inv'
    OBVIOUS
  <2>1. ASSUME NEW s \in pending, Normalize(s) PROVE Inv'
    BY <2>1 DEF Normalize, Inv
  <2>2. ASSUME NEW s \in pending, Drop(s) PROVE Inv'
    BY <2>2 DEF Drop, Inv
  <2>3. CASE UNCHANGED vars
    BY <2>3 DEF vars, Inv
  <2> QED  BY <2>1, <2>2, <2>3 DEF Next
<1> QED  BY <1>1, <1>2, PTL DEF Spec

\* Whatever the wire carries, a normalized span satisfies the contract of
\* canonical.Check, but for the name of the service that the resource did not
\* bring and the client that GenAI takes from it; and without capture_identity
\* no edge makes a key of a person out of what it reads.
THEOREM ContractAlways == Spec => []Contract
<1>1. Inv => Contract
  <2> SUFFICES ASSUME Inv, NEW o \in emitted
               PROVE  /\ ConformsBut(Lacking(o.span), o.attrs, o.resource)
                      /\ ~o.span.identity =>
                            /\ \A k \in DOMAIN o.attrs \cap Identity :
                                 /\ o.span.edge \in InPlace /\ k \in DOMAIN o.span.wire
                                 /\ o.attrs[k] = [from |-> k, kind |-> o.span.wire[k]]
                            /\ "resource host.name" \notin DOMAIN o.resource
    BY DEF Contract, IdentityWithheld
  <2> DEFINE s == o.span
  <2>1. /\ IsSpan(s) /\ Kept(s) /\ o.attrs = Attributes(s)
        /\ o.resource = FilterResource(s.wire, s.identity)
    BY DEF Inv
  <2> HIDE DEF s
  <2>2. DOMAIN o.attrs \subseteq Vocabulary
    BY <2>1, AttributesFacts
  <2>3. ASSUME NEW k \in RequiredKeys \ Lacking(s) PROVE k \in DOMAIN o.attrs
    <3>1. k \in Vocabulary
      BY DEF Vocabulary
    <3>2. CASE s.edge = "genai" /\ k = "gen_ai.operation.name"
      <4>1. k \in DOMAIN Start(s)
        BY <2>1, <3>2, StartFacts DEF Kept, InPlace
      <4> QED  BY <2>1, <3>1, <4>1, StartKept, AttributesFacts
    <3>3. CASE s.edge = "genai" /\ k = "coding_agent.client.name"
      <4>1. Gives(RulesOf(s), k, {"resource service.name"})
        BY <2>1, <3>3, SpanFacts DEF Complete
      <4>2. NamesService(s.wire)
        BY <3>3 DEF Lacking
      <4>3. k \in DOMAIN Result(s)
        BY <2>1, <4>1, <4>2, GivenKept DEF NamesService
      <4> QED  BY <2>1, <3>1, <4>3, AttributesFacts
    <3>4. CASE /\ ~(s.edge = "genai" /\ k = "gen_ai.operation.name")
               /\ ~(s.edge = "genai" /\ k = "coding_agent.client.name")
      <4>1. Gives(RulesOf(s), k, {})
        BY <2>1, <3>4, SpanFacts DEF Complete
      <4>2. k \in DOMAIN Result(s)
        BY <2>1, <4>1, GivenKept
      <4> QED  BY <2>1, <3>1, <4>2, AttributesFacts
    <3> QED  BY <3>2, <3>3, <3>4
  <2>4. /\ RequiredResourceKeys \ Lacking(s) \subseteq DOMAIN o.resource
        /\ DOMAIN o.resource \subseteq ResourceKeys
    BY <2>1 DEF FilterResource, Only, RequiredResourceKeys, ResourceKeys, Lacking
  <2>5. ASSUME ~s.identity
        PROVE  /\ \A k \in DOMAIN o.attrs \cap Identity :
                    /\ s.edge \in InPlace /\ k \in DOMAIN s.wire
                    /\ o.attrs[k] = [from |-> k, kind |-> s.wire[k]]
               /\ "resource host.name" \notin DOMAIN o.resource
    <3>1. \A k \in DOMAIN o.attrs \cap Identity :
             /\ s.edge \in InPlace /\ k \in DOMAIN s.wire
             /\ o.attrs[k] = [from |-> k, kind |-> s.wire[k]]
      <4>1. /\ DOMAIN o.attrs = DOMAIN Result(s) \cap Vocabulary
            /\ \A k \in DOMAIN o.attrs : o.attrs[k] = Result(s)[k]
        BY <2>1, AttributesFacts
      <4>2. \A k \in DOMAIN Result(s) \cap Identity :
              /\ s.edge \in InPlace /\ k \in DOMAIN s.wire
              /\ Result(s)[k] = [from |-> k, kind |-> s.wire[k]]
        BY <2>1, <2>5, PersonWithheld
      <4> QED  BY <4>1, <4>2
    <3>2. "resource host.name" \notin DOMAIN o.resource
      BY <2>1, <2>5 DEF FilterResource, Only
    <3> QED  BY <3>1, <3>2
  <2> QED  BY <2>2, <2>3, <2>4, <2>5 DEF ConformsBut, s
<1> QED  BY <1>1, InvAlways, PTL

\* A well-formed counter on the wire is never lost and never comes out as
\* anything but a number, whatever else the span carries for its key.
THEOREM CountersKeptAlways == Spec => []CountersKept
<1>1. Inv => CountersKept
  <2> SUFFICES ASSUME Inv, NEW o \in emitted, NEW p \in Paired(o.span),
                      o.span.wire[p[2]] \in Countable(o.span.edge),
                      ~(o.span.edge = "genai" /\ p[1] \in DOMAIN o.span.wire)
               PROVE  p[1] \in DOMAIN o.attrs /\ o.attrs[p[1]].kind \in Numbers
    BY DEF CountersKept, Counted
  <2> DEFINE s == o.span
  <2>1. IsSpan(s) /\ o.attrs = Attributes(s)
    BY DEF Inv
  <2>2. PICK q \in ToSet(RulesOf(s)) : q.to = p[1] /\ p[2] \in ToSet(q.from)
    BY DEF Paired, RulesOf
  <2>3. p[1] \in Counters /\ p[2] \in DOMAIN s.wire
    BY DEF Paired, Pairs
  <2>4. \E i \in DOMAIN q.from : q.from[i] = p[2]
    BY <2>2 DEF ToSet
  <2> HIDE DEF s
  <2>5. q.to \in DOMAIN Result(s) /\ Result(s)[q.to].kind \in Numbers
    BY <2>1, <2>2, <2>3, <2>4, CounterKept DEF s
  <2>6. p[1] \in Vocabulary
    BY <2>3 DEF Vocabulary
  <2> QED  BY <2>1, <2>2, <2>5, <2>6, AttributesFacts
<1> QED  BY <1>1, InvAlways, PTL

\* An attribute of the conventions that a GenAI span has goes out as it was,
\* but for the few the edge owns.
THEOREM CanonicalKeyWinsAlways == Spec => []CanonicalKeyWins
<1>1. Inv => CanonicalKeyWins
  <2> SUFFICES ASSUME Inv, NEW o \in emitted, o.span.edge = "genai",
                      NEW k \in DOMAIN o.span.wire \cap Vocabulary
               PROVE  /\ k \in DOMAIN o.attrs
                      /\ k \notin GenAIWrites =>
                            o.attrs[k] = [from |-> k, kind |-> o.span.wire[k]]
    BY DEF CanonicalKeyWins
  <2>1. IsSpan(o.span) /\ o.attrs = Attributes(o.span)
    BY DEF Inv
  <2>2. k \in DOMAIN Result(o.span)
    BY <2>1, StartFacts, StartKept DEF InPlace
  <2>3. k \in DOMAIN o.attrs /\ o.attrs[k] = Result(o.span)[k]
    BY <2>1, <2>2, AttributesFacts
  <2>4. k \notin GenAIWrites => Result(o.span)[k] = [from |-> k, kind |-> o.span.wire[k]]
    BY <2>1, CanonicalKept
  <2> QED  BY <2>3, <2>4
<1> QED  BY <1>1, InvAlways, PTL

\* A root goes out with its conversation whenever the span or its resource
\* tells it, under whichever of the names its edge reads.
THEOREM ConversationKeptAlways == Spec => []ConversationKept
<1>1. Inv => ConversationKept
  <2> SUFFICES ASSUME Inv, NEW o \in emitted, o.span.op = "root",
                      NEW k \in Sessions(o.span.edge) \cap DOMAIN o.span.wire,
                      o.span.wire[k] \in Strings
               PROVE  "gen_ai.conversation.id" \in DOMAIN o.attrs
    BY DEF ConversationKept
  <2> DEFINE s == o.span
             S == Sessions(s.edge)
  <2>1. IsSpan(s) /\ o.attrs = Attributes(s) /\ s.edge \in Edges
    BY SpanFacts DEF Inv
  <2>2. Conversation \in Vocabulary /\ Conversation = "gen_ai.conversation.id"
    BY PlainKeys DEF Vocabulary, Plain, Conversation
  <2>3. CASE s.edge = "genai"
    <3>1. k = "gen_ai.conversation.id"
      BY <2>3 DEF Sessions
    <3>2. k \in DOMAIN Start(s)
      BY <2>1, <2>3, StartFacts DEF InPlace
    <3> QED  BY <2>1, <2>2, <3>1, <3>2, StartKept, AttributesFacts
  <2>4. CASE s.edge \in {"claude", "opencode", "pi", "openhands", "codex_native"}
    <3>1. Gives(RulesOf(s), Conversation, S)
      BY <2>1, <2>4, SpanFacts DEF Complete
    <3> HIDE DEF s, S
    <3>2. \E x \in S \cap DOMAIN s.wire : s.wire[x] \in Strings
      BY DEF s, S
    <3>3. Conversation \in DOMAIN Result(s)
      BY <2>1, <3>1, <3>2, GivenKept
    <3> QED  BY <2>1, <2>2, <3>3, AttributesFacts
  <2>5. CASE s.edge \in {"codex_logs", "cursor_logs"}
    BY <2>5 DEF Sessions
  <2> QED  BY <2>1, <2>3, <2>4, <2>5 DEF Edges
<1> QED  BY <1>1, InvAlways, PTL
=============================================================================
