--------------------------- MODULE AssemblyProofs ---------------------------
(***************************************************************************)
(* The properties of the edges that are functions of a batch, for anything *)
(* an agent may send and any composition of batches.                       *)
(*                                                                         *)
(* One invariant serves all: an item is in one place, and the backend has  *)
(* of every batch what the edge makes of it.  The rest is about the edge's *)
(* function: a sort is known by the one list of a set it can return, a     *)
(* span hangs from a root because a set closed under parents has a least   *)
(* member, and what an agent does not send twice is not shown twice.       *)
(*                                                                         *)
(* A theorem about an edge supposes that Normalize is the edge's function  *)
(* on that edge; it says nothing of the others.                            *)
(***************************************************************************)
EXTENDS CursorTrace, CodexTrace, CodexNative, PiEdge, OpenHandsEdge,
        InductionLemmas, SequenceTheorems

-----------------------------------------------------------------------------
(* Sorting *)

\* R orders the elements of S one after the other.
StrictTotal(R, S) ==
    /\ \A x, y, z \in S : <<x, y>> \in R /\ <<y, z>> \in R => <<x, z>> \in R
    /\ \A x \in S : <<x, x>> \notin R
    /\ \A x, y \in S : x = y \/ <<x, y>> \in R \/ <<y, x>> \in R

\* q lists the elements of S in the order R, each of them once.
Lists(q, S, R) ==
    /\ q = [p \in 1..Cardinality(S) |-> q[p]]
    /\ \A p \in 1..Cardinality(S) : q[p] \in S
    /\ \A x \in S : \E p \in 1..Cardinality(S) : q[p] = x
    /\ \A p, r \in 1..Cardinality(S) : p < r <=> <<q[p], q[r]>> \in R

\* How many elements come before x.
Rank(x, S, R) == Cardinality({y \in S : <<y, x>> \in R})

\* The ranks of the n elements of a finite set are 0 to n - 1, in their order.
LEMMA RankFacts ==
    ASSUME NEW S, IsFiniteSet(S), NEW R, StrictTotal(R, S)
    PROVE  /\ Cardinality(S) \in Nat
           /\ \A x \in S : Rank(x, S, R) \in 0..(Cardinality(S) - 1)
           /\ \A x, y \in S : <<x, y>> \in R <=> Rank(x, S, R) < Rank(y, S, R)
           /\ \A p \in 0..(Cardinality(S) - 1) : \E x \in S : Rank(x, S, R) = p
  BY Ranks, Zenon DEF StrictTotal, Rank

\* Choosing the element of each rank lists the set, as InOrder is said to do.
LEMMA RankedLists ==
    ASSUME NEW S, IsFiniteSet(S), NEW R, StrictTotal(R, S),
           NEW q, q = InOrder(S, R)
    PROVE  Lists(q, S, R)
<1> DEFINE n == Cardinality(S)
<1>1. /\ n \in Nat
      /\ \A x \in S : Rank(x, S, R) \in 0..(n - 1)
      /\ \A x, y \in S : <<x, y>> \in R <=> Rank(x, S, R) < Rank(y, S, R)
      /\ \A p \in 0..(n - 1) : \E x \in S : Rank(x, S, R) = p
  BY RankFacts
<1>2. \A x, y \in S : Rank(x, S, R) = Rank(y, S, R) => x = y
  BY <1>1 DEF StrictTotal
<1>3. \A p \in 1..n : q[p] \in S /\ Rank(q[p], S, R) = p - 1
  <2> SUFFICES ASSUME NEW p \in 1..n PROVE q[p] \in S /\ Rank(q[p], S, R) = p - 1
    OBVIOUS
  <2>1. p - 1 \in 0..(n - 1)
    BY <1>1
  <2>2. \E x \in S : Rank(x, S, R) = p - 1
    BY <1>1, <2>1
  <2>3. q[p] = CHOOSE x \in S : Rank(x, S, R) = p - 1
    BY DEF InOrder, Rank
  <2> QED  BY <2>2, <2>3
<1> HIDE DEF n
<1>4. \A x \in S : \E p \in 1..n : q[p] = x
  <2> SUFFICES ASSUME NEW x \in S PROVE \E p \in 1..n : q[p] = x
    OBVIOUS
  <2>1. Rank(x, S, R) + 1 \in 1..n
    BY <1>1
  <2>2. Rank(q[Rank(x, S, R) + 1], S, R) = Rank(x, S, R) /\ q[Rank(x, S, R) + 1] \in S
    BY <1>1, <1>3, <2>1
  <2> QED  BY <2>1, <2>2, <1>2
<1>5. \A p, r \in 1..n : p < r <=> <<q[p], q[r]>> \in R
  <2> SUFFICES ASSUME NEW p \in 1..n, NEW r \in 1..n PROVE p < r <=> <<q[p], q[r]>> \in R
    OBVIOUS
  <2>1. /\ q[p] \in S /\ q[r] \in S
        /\ Rank(q[p], S, R) = p - 1 /\ Rank(q[r], S, R) = r - 1
    BY <1>3
  <2>2. <<q[p], q[r]>> \in R <=> p - 1 < r - 1
    BY <1>1, <2>1
  <2> QED  BY <2>2, <1>1
<1>6. q = [p \in 1..n |-> q[p]]
  <2> DEFINE Of(p) == CHOOSE x \in S : Cardinality({y \in S : <<y, x>> \in R}) = p - 1
  <2>1. q = [p \in 1..n |-> Of(p)]
    BY Zenon DEF InOrder, n
  <2> HIDE DEF Of
  <2> QED  BY <2>1
<1> QED  BY <1>3, <1>4, <1>5, <1>6 DEF Lists, n

\* There is only one such list, so a sort can be known by what it returns.
LEMMA ListUnique ==
    ASSUME NEW S, IsFiniteSet(S), NEW R, StrictTotal(R, S),
           NEW q, Lists(q, S, R)
    PROVE  q = InOrder(S, R)
<1> DEFINE n == Cardinality(S)
<1>1. /\ n \in Nat
      /\ \A x, y \in S : <<x, y>> \in R <=> Rank(x, S, R) < Rank(y, S, R)
      /\ \A x \in S : Rank(x, S, R) \in 0..(n - 1)
  BY RankFacts
<1>2. \A x, y \in S : Rank(x, S, R) = Rank(y, S, R) => x = y
  BY <1>1 DEF StrictTotal
<1>3. /\ q = [p \in 1..n |-> q[p]]
      /\ \A p \in 1..n : q[p] \in S
      /\ \A x \in S : \E p \in 1..n : q[p] = x
      /\ \A p, r \in 1..n : p < r <=> <<q[p], q[r]>> \in R
  BY DEF Lists
<1> HIDE DEF n
<1>4. ASSUME NEW p \in 1..n PROVE Rank(q[p], S, R) = p - 1
  <2> DEFINE B == {y \in S : <<y, q[p]>> \in R}
  <2>1. \A r, s \in 1..n : q[r] = q[s] => r = s
    <3> SUFFICES ASSUME NEW r \in 1..n, NEW s \in 1..n, q[r] = q[s] PROVE r = s
      OBVIOUS
    <3>1. ~(r < s) /\ ~(s < r)
      BY <1>3 DEF StrictTotal
    <3> QED  BY <3>1, <1>1
  <2> DEFINE f == [r \in 1..(p - 1) |-> q[r]]
  <2>2. p - 1 \in Nat /\ 1..(p - 1) \subseteq 1..n
    BY <1>1
  <2>3. f \in Bijection(1..(p - 1), B)
    <3>1. \A r \in 1..(p - 1) : q[r] \in B
      <4> SUFFICES ASSUME NEW r \in 1..(p - 1) PROVE q[r] \in S /\ <<q[r], q[p]>> \in R
        OBVIOUS
      <4>1. r \in 1..n /\ r < p
        BY <1>1
      <4> QED  BY <4>1, <1>3
    <3>2. \A y \in B : \E r \in 1..(p - 1) : q[r] = y
      <4> SUFFICES ASSUME NEW y \in S, <<y, q[p]>> \in R PROVE \E r \in 1..(p - 1) : q[r] = y
        OBVIOUS
      <4>1. PICK r \in 1..n : q[r] = y
        BY <1>3
      <4>2. r < p
        BY <4>1, <1>3
      <4>3. r \in 1..(p - 1)
        BY <4>2, <1>1
      <4> QED  BY <4>1, <4>3
    <3>3. \A r, s \in 1..(p - 1) : q[r] = q[s] => r = s
      BY <2>2, <2>1
    <3> HIDE DEF B
    <3> QED  BY <3>1, <3>2, <3>3, Fun_IsBij
  <2>4. ExistsBijection(1..(p - 1), B)
    BY <2>3 DEF ExistsBijection
  <2>5. IsFiniteSet(1..(p - 1)) /\ Cardinality(1..(p - 1)) = p - 1
    BY <2>2, FS_Interval, FS_CountingElements
  <2>6. Cardinality(B) = p - 1
    BY <2>4, <2>5, FS_Bijection
  <2> QED  BY <2>6 DEF Rank
<1>5. ASSUME NEW p \in 1..n PROVE q[p] = CHOOSE x \in S : Rank(x, S, R) = p - 1
  <2>1. \A x \in S : Rank(x, S, R) = p - 1 <=> x = q[p]
    BY <1>2, <1>3, <1>4
  <2>2. q[p] \in S
    BY <1>3
  <2> DEFINE c == CHOOSE x \in S : Rank(x, S, R) = p - 1
  <2>3. c \in S /\ Rank(c, S, R) = p - 1
    <3>1. \E x \in S : Rank(x, S, R) = p - 1
      BY <2>1, <2>2
    <3> QED  BY <3>1
  <2> QED  BY <2>1, <2>3
<1> QED  BY <1>3, <1>5 DEF n, InOrder, Rank
-----------------------------------------------------------------------------
(* Batches *)

\* A sequence of groups of elements of I, which have one position each.
Grouped(b, I) ==
    /\ b \in Seq(Seq(I))
    /\ \A i \in DOMAIN b : b[i] # <<>>
    /\ \A i, k \in DOMAIN b : \A j \in DOMAIN b[i] : \A l \in DOMAIN b[k] :
         b[i][j] = b[k][l] => i = k /\ j = l

\* What may come in a batch.
IsBatch(b) == Grouped(b, sent.items) /\ Len(b) <= sent.groups

\* A batch is in the backend with all its outputs and no other.
Delivered(x) ==
    /\ x = [batch |-> x.batch, out |-> x.out]
    /\ x.out \in Normalize(sent.edge, x.batch)
    /\ \A o \in Normalize(sent.edge, x.batch) : [batch |-> x.batch, out |-> o] \in backend

\* Every item is in one place: unsent, in the open batch, or in one batch of those
\* in the backend, which has what the edge makes of each of them.
Inv ==
    /\ sent \in Sent
    /\ unsent \subseteq sent.items
    /\ IsBatch(open)
    /\ ItemsOf(open) \cap unsent = {}
    /\ \A x \in backend : /\ IsBatch(x.batch)
                          /\ x.batch # <<>>
                          /\ ItemsOf(x.batch) \cap (unsent \cup ItemsOf(open)) = {}
                          /\ Delivered(x)
    /\ \A x, y \in backend : x.batch = y.batch \/ ItemsOf(x.batch) \cap ItemsOf(y.batch) = {}

\* Appending, as the prover needs it.
LEMMA AppendFacts ==
    ASSUME NEW S, NEW q \in Seq(S), NEW e \in S
    PROVE  /\ Len(q) \in Nat /\ DOMAIN q = 1..Len(q)
           /\ Append(q, e) \in Seq(S) /\ Append(q, e) # <<>>
           /\ Len(Append(q, e)) = Len(q) + 1
           /\ DOMAIN Append(q, e) = 1..(Len(q) + 1)
           /\ Append(q, e)[Len(q) + 1] = e
           /\ \A i \in 1..Len(q) : Append(q, e)[i] = q[i]
<1>1. Len(q) \in Nat /\ DOMAIN q = 1..Len(q) /\ q \in [1..Len(q) -> S]
  OBVIOUS
<1>2. /\ Append(q, e) \in Seq(S) /\ Append(q, e) # <<>>
      /\ Len(Append(q, e)) = Len(q) + 1
      /\ Append(q, e)[Len(q) + 1] = e
      /\ \A i \in 1..Len(q) : Append(q, e)[i] = q[i]
  BY AppendProperties
<1> QED  BY <1>1, <1>2

\* Replacing one element of a sequence.
LEMMA ExceptFacts ==
    ASSUME NEW S, NEW q \in Seq(S), NEW n \in DOMAIN q, NEW v \in S
    PROVE  /\ [q EXCEPT ![n] = v] \in Seq(S)
           /\ Len([q EXCEPT ![n] = v]) = Len(q)
           /\ DOMAIN [q EXCEPT ![n] = v] = DOMAIN q
           /\ [q EXCEPT ![n] = v][n] = v
           /\ \A i \in DOMAIN q : i # n => [q EXCEPT ![n] = v][i] = q[i]
  BY ExceptSeq

\* An item of a batch is at some position of it.
LEMMA ItemsOfMember ==
    ASSUME NEW b, NEW e
    PROVE  e \in ItemsOf(b) <=> \E i \in DOMAIN b : \E j \in DOMAIN b[i] : b[i][j] = e
<1>1. \A i : e \in ToSet(b[i]) <=> \E j \in DOMAIN b[i] : b[i][j] = e
  BY DEF ToSet
<1> QED  BY <1>1 DEF ItemsOf

\* At first every item is unsent.
LEMMA InitInv == Init => Inv
<1> SUFFICES ASSUME Init PROVE Inv
  OBVIOUS
<1>1. sent.groups \in Nat
  BY SentAssumption DEF Init
<1>2. IsBatch(<<>>)
  <2>1. <<>> \in Seq(Seq(sent.items)) /\ Len(<<>>) = 0 /\ DOMAIN <<>> = {}
    OBVIOUS
  <2> QED  BY <2>1, <1>1 DEF IsBatch, Grouped
<1>3. ItemsOf(<<>>) = {}
  BY DEF ItemsOf
<1> QED  BY <1>2, <1>3 DEF Init, Inv

\* Groups c that have the positions of b and one more, with a new element e.
LEMMA OneMore ==
    ASSUME NEW b, NEW c, NEW e, NEW n, NEW m,
           \A i \in DOMAIN c : \A j \in DOMAIN c[i] :
              \/ i = n /\ j = m /\ c[i][j] = e
              \/ i \in DOMAIN b /\ j \in DOMAIN b[i] /\ c[i][j] = b[i][j] /\ c[i][j] # e,
           \A i \in DOMAIN b : \A j \in DOMAIN b[i] :
              i \in DOMAIN c /\ j \in DOMAIN c[i] /\ c[i][j] = b[i][j],
           n \in DOMAIN c, m \in DOMAIN c[n], c[n][m] = e,
           \A i, k \in DOMAIN b : \A j \in DOMAIN b[i] : \A l \in DOMAIN b[k] :
              b[i][j] = b[k][l] => i = k /\ j = l
    PROVE  /\ ItemsOf(c) = ItemsOf(b) \cup {e}
           /\ \A i, k \in DOMAIN c : \A j \in DOMAIN c[i] : \A l \in DOMAIN c[k] :
                c[i][j] = c[k][l] => i = k /\ j = l
<1>1. \A x \in ItemsOf(c) : x \in ItemsOf(b) \cup {e}
  BY ItemsOfMember
<1>2. \A x \in ItemsOf(b) : x \in ItemsOf(c)
  BY ItemsOfMember
<1>3. e \in ItemsOf(c)
  BY ItemsOfMember
<1>4. ASSUME NEW i \in DOMAIN c, NEW k \in DOMAIN c, NEW j \in DOMAIN c[i],
             NEW l \in DOMAIN c[k], c[i][j] = c[k][l]
      PROVE  i = k /\ j = l
  <2>1. \/ i = n /\ j = m /\ c[i][j] = e
        \/ i \in DOMAIN b /\ j \in DOMAIN b[i] /\ c[i][j] = b[i][j] /\ c[i][j] # e
    OBVIOUS
  <2>2. \/ k = n /\ l = m /\ c[k][l] = e
        \/ k \in DOMAIN b /\ l \in DOMAIN b[k] /\ c[k][l] = b[k][l] /\ c[k][l] # e
    OBVIOUS
  <2> QED  BY <2>1, <2>2, <1>4
<1> QED  BY <1>1, <1>2, <1>3, <1>4

\* Groups with one more element at the end of the last one.
Grown(b, e) == [b EXCEPT ![Len(b)] = Append(@, e)]

\* They are groups, with that element.
LEMMA GrowLastGroup ==
    ASSUME NEW I, NEW b, Grouped(b, I), b # <<>>, NEW e \in I, e \notin ItemsOf(b)
    PROVE  /\ Grouped(Grown(b, e), I)
           /\ Len(Grown(b, e)) = Len(b)
           /\ ItemsOf(Grown(b, e)) = ItemsOf(b) \cup {e}
<1>1. /\ b \in Seq(Seq(I))
      /\ \A i \in DOMAIN b : b[i] # <<>>
      /\ \A i, k \in DOMAIN b : \A j \in DOMAIN b[i] : \A l \in DOMAIN b[k] :
           b[i][j] = b[k][l] => i = k /\ j = l
  BY DEF Grouped
<1>2. \A i \in DOMAIN b : \A j \in DOMAIN b[i] : b[i][j] # e
  BY ItemsOfMember
<1> DEFINE n == Len(b)
           G == Seq(I)
           c == [b EXCEPT ![n] = Append(b[n], e)]
<1>3. n \in Nat /\ DOMAIN b = 1..n /\ n \in DOMAIN b
  BY <1>1
<1>4. b[n] \in G
  BY <1>1, <1>3
<1> DEFINE m == Len(b[n])
<1>5. /\ m \in Nat /\ DOMAIN b[n] = 1..m
      /\ Append(b[n], e) \in G /\ Append(b[n], e) # <<>>
      /\ DOMAIN Append(b[n], e) = 1..(m + 1)
      /\ Append(b[n], e)[m + 1] = e
      /\ \A j \in 1..m : Append(b[n], e)[j] = b[n][j]
  BY <1>4, AppendFacts
<1>6. /\ c \in Seq(G) /\ Len(c) = n /\ DOMAIN c = DOMAIN b
      /\ c[n] = Append(b[n], e)
      /\ \A i \in DOMAIN b : i # n => c[i] = b[i]
  <2>1. b \in Seq(G)
    BY <1>1
  <2> HIDE DEF G, n
  <2> QED  BY <1>3, <1>5, <2>1, ExceptFacts
<1>7. c = Grown(b, e)
  BY DEF Grown
<1> HIDE DEF c, n, m, G
<1>8. /\ DOMAIN c[n] = 1..(m + 1) /\ c[n][m + 1] = e /\ c[n] # <<>>
      /\ \A j \in 1..m : c[n][j] = b[n][j]
  BY <1>5, <1>6
<1>9. \A i \in DOMAIN c : c[i] # <<>>
  BY <1>1, <1>6, <1>8
<1>10. ASSUME NEW i \in DOMAIN c, NEW j \in DOMAIN c[i]
      PROVE  \/ i = n /\ j = m + 1 /\ c[i][j] = e
             \/ i \in DOMAIN b /\ j \in DOMAIN b[i] /\ c[i][j] = b[i][j] /\ c[i][j] # e
  <2>1. CASE i = n
    <3>1. j \in 1..m \/ j = m + 1
      BY <2>1, <1>5, <1>8
    <3> QED  BY <2>1, <3>1, <1>2, <1>3, <1>5, <1>8
  <2>2. CASE i # n
    BY <2>2, <1>2, <1>6
  <2> QED  BY <2>1, <2>2
<1>11. ASSUME NEW i \in DOMAIN b, NEW j \in DOMAIN b[i]
       PROVE  i \in DOMAIN c /\ j \in DOMAIN c[i] /\ c[i][j] = b[i][j]
  <2>1. CASE i = n
    <3>1. j \in 1..(m + 1) /\ j \in 1..m
      BY <2>1, <1>5
    <3> QED  BY <2>1, <3>1, <1>6, <1>8
  <2>2. CASE i # n
    BY <2>2, <1>6
  <2> QED  BY <2>1, <2>2
<1>12. n \in DOMAIN c /\ m + 1 \in DOMAIN c[n] /\ c[n][m + 1] = e
  <2>1. m + 1 \in 1..(m + 1)
    BY <1>5
  <2> QED  BY <1>3, <1>6, <1>8, <2>1
<1>13. /\ ItemsOf(c) = ItemsOf(b) \cup {e}
       /\ \A i, k \in DOMAIN c : \A j \in DOMAIN c[i] : \A l \in DOMAIN c[k] :
            c[i][j] = c[k][l] => i = k /\ j = l
  BY <1>1, <1>10, <1>11, <1>12, OneMore
<1> QED  BY <1>7, <1>6, <1>9, <1>13 DEF Grouped, G, n

\* Groups with one more group, of a new element.
LEMMA NewGroup ==
    ASSUME NEW I, NEW b, Grouped(b, I), NEW e \in I, e \notin ItemsOf(b)
    PROVE  LET c == Append(b, <<e>>)
           IN  Grouped(c, I) /\ Len(c) = Len(b) + 1 /\ ItemsOf(c) = ItemsOf(b) \cup {e}
<1>1. /\ b \in Seq(Seq(I))
      /\ \A i \in DOMAIN b : b[i] # <<>>
      /\ \A i, k \in DOMAIN b : \A j \in DOMAIN b[i] : \A l \in DOMAIN b[k] :
           b[i][j] = b[k][l] => i = k /\ j = l
  BY DEF Grouped
<1>2. \A i \in DOMAIN b : \A j \in DOMAIN b[i] : b[i][j] # e
  BY ItemsOfMember
<1> DEFINE n == Len(b)
           G == Seq(I)
           g == <<e>>
           c == Append(b, g)
<1>3. g \in G /\ DOMAIN g = {1} /\ g[1] = e /\ g # <<>>
  OBVIOUS
<1>4. b \in Seq(G)
  BY <1>1
<1> SUFFICES Grouped(c, I) /\ Len(c) = n + 1 /\ ItemsOf(c) = ItemsOf(b) \cup {e}
  OBVIOUS
<1> HIDE DEF G, g
<1>5. /\ n \in Nat /\ DOMAIN b = 1..n
      /\ c \in Seq(G) /\ Len(c) = n + 1 /\ DOMAIN c = 1..(n + 1)
      /\ c[n + 1] = g
      /\ \A i \in 1..n : c[i] = b[i]
  BY <1>3, <1>4, AppendFacts
<1> HIDE DEF n, c
<1>6. ASSUME NEW i \in DOMAIN c
      PROVE  \/ i = n + 1 /\ c[i] = g
             \/ i \in DOMAIN b /\ c[i] = b[i]
  <2>1. i = n + 1 \/ i \in 1..n
    BY <1>5
  <2>2. c[n + 1] = g /\ DOMAIN b = 1..n /\ \A k \in 1..n : c[k] = b[k]
    BY <1>5
  <2> QED  BY <2>1, <2>2
<1>7. \A i \in DOMAIN c : c[i] # <<>>
  BY <1>1, <1>3, <1>6
<1>8. ASSUME NEW i \in DOMAIN c, NEW j \in DOMAIN c[i]
      PROVE  \/ i = n + 1 /\ j = 1 /\ c[i][j] = e
             \/ i \in DOMAIN b /\ j \in DOMAIN b[i] /\ c[i][j] = b[i][j] /\ c[i][j] # e
  BY <1>2, <1>3, <1>6
<1>9. ASSUME NEW i \in DOMAIN b PROVE i \in DOMAIN c /\ c[i] = b[i]
  BY <1>5
<1>10. n + 1 \in DOMAIN c /\ 1 \in DOMAIN c[n + 1] /\ c[n + 1][1] = e
  BY <1>3, <1>5
<1>11. /\ ItemsOf(c) = ItemsOf(b) \cup {e}
       /\ \A i, k \in DOMAIN c : \A j \in DOMAIN c[i] : \A l \in DOMAIN c[k] :
            c[i][j] = c[k][l] => i = k /\ j = l
  BY <1>1, <1>8, <1>9, <1>10, OneMore
<1> QED  BY <1>5, <1>7, <1>11 DEF Grouped, G

\* An item that comes next makes another batch of the open one.
LEMMA AddToBatch ==
    ASSUME IsBatch(open), sent.groups \in Nat, NEW e \in sent.items, e \notin ItemsOf(open),
           \/ open # <<>> /\ open' = Grown(open, e)
           \/ Len(open) < sent.groups /\ open' = Append(open, <<e>>),
           UNCHANGED sent
    PROVE  IsBatch(open)' /\ ItemsOf(open') = ItemsOf(open) \cup {e}
<1> DEFINE I == sent.items
<1>1. Grouped(open, I) /\ Len(open) <= sent.groups /\ e \in I
  BY DEF IsBatch
<1>2. Len(open) \in Nat
  BY <1>1 DEF Grouped
<1> HIDE DEF I
<1>3. CASE open # <<>> /\ open' = Grown(open, e)
  <2>1. Grouped(open', I) /\ Len(open') = Len(open) /\ ItemsOf(open') = ItemsOf(open) \cup {e}
    BY <1>1, <1>3, GrowLastGroup
  <2> QED  BY <2>1, <1>1 DEF IsBatch, I
<1>4. CASE Len(open) < sent.groups /\ open' = Append(open, <<e>>)
  <2>1. /\ Grouped(open', I) /\ Len(open') = Len(open) + 1
        /\ ItemsOf(open') = ItemsOf(open) \cup {e}
    BY <1>1, <1>4, NewGroup
  <2>2. Len(open') <= sent.groups
    BY <2>1, <1>2, <1>4
  <2> QED  BY <2>1, <2>2 DEF IsBatch, I
<1> QED  BY <1>3, <1>4

\* An item goes from the unsent ones to the open batch.
LEMMA AddKeepsInv == Inv /\ Add => Inv'
<1> SUFFICES ASSUME Inv, Add PROVE Inv'
  OBVIOUS
<1>1. PICK e \in unsent :
        /\ \/ open # <<>> /\ open' = Grown(open, e)
           \/ Len(open) < sent.groups /\ open' = Append(open, <<e>>)
        /\ unsent' = unsent \ {e}
        /\ UNCHANGED <<sent, backend>>
  BY DEF Add, Grown
<1>2. e \in sent.items /\ e \notin ItemsOf(open) /\ IsBatch(open)
  BY <1>1 DEF Inv
<1>3. IsBatch(open)' /\ ItemsOf(open') = ItemsOf(open) \cup {e}
  <2>1. UNCHANGED sent /\ sent.groups \in Nat
    BY <1>1, SentAssumption DEF Inv
  <2> QED  BY <1>1, <1>2, <2>1, AddToBatch
<1>4. \A x \in backend : IsBatch(x.batch)' /\ Delivered(x)'
  BY <1>1 DEF Inv, IsBatch, Grouped, Delivered
<1>5. \A x \in backend : ItemsOf(x.batch) \cap (unsent' \cup ItemsOf(open')) = {}
  BY <1>1, <1>3 DEF Inv
<1> QED  BY <1>1, <1>2, <1>3, <1>4, <1>5 DEF Inv

\* The open batch goes to the backend, with all that is made of it.
LEMMA CloseKeepsInv == Inv /\ Close => Inv'
<1> SUFFICES ASSUME Inv, Close PROVE Inv'
  OBVIOUS
<1> DEFINE new == {[batch |-> open, out |-> o] : o \in Normalize(sent.edge, open)}
<1>1. /\ open # <<>> /\ backend' = backend \cup new /\ open' = <<>>
      /\ UNCHANGED <<sent, unsent>>
  BY DEF Close
<1>2. IsBatch(open)'
  <2>1. sent \in Sent
    BY DEF Inv
  <2>2. sent.groups \in Nat
    BY <2>1, SentAssumption
  <2>3. <<>> \in Seq(Seq(sent.items)) /\ Len(<<>>) = 0 /\ DOMAIN <<>> = {}
    OBVIOUS
  <2> QED  BY <1>1, <2>2, <2>3 DEF IsBatch, Grouped
<1>3. ItemsOf(open') = {}
  BY <1>1 DEF ItemsOf
<1>4. ASSUME NEW x \in new
      PROVE  x.batch = open /\ x = [batch |-> x.batch, out |-> x.out]
             /\ x.out \in Normalize(sent.edge, x.batch)
  BY <1>4
<1>5. \A x \in backend' : Delivered(x)'
  <2> SUFFICES ASSUME NEW x \in backend' PROVE Delivered(x)'
    OBVIOUS
  <2>1. CASE x \in backend
    <3>1. Delivered(x)
      BY <2>1 DEF Inv
    <3> QED  BY <3>1, <1>1 DEF Delivered
  <2>2. CASE x \in new
    <3>1. \A o \in Normalize(sent.edge, open) : [batch |-> open, out |-> o] \in new
      OBVIOUS
    <3> HIDE DEF new
    <3>2. sent' = sent
      BY <1>1
    <3> QED  BY <2>2, <3>1, <3>2, <1>1, <1>4 DEF Delivered
  <2> QED  BY <1>1, <2>1, <2>2
<1> HIDE DEF new
<1>6. ASSUME NEW x \in backend'
      PROVE  IsBatch(x.batch)' /\ x.batch # <<>> /\ ItemsOf(x.batch) \cap unsent' = {}
  <2>1. IsBatch(x.batch) /\ x.batch # <<>> /\ ItemsOf(x.batch) \cap unsent = {}
    BY <1>1, <1>4 DEF Inv
  <2> QED  BY <2>1, <1>1 DEF IsBatch
<1>7. ASSUME NEW x \in backend', NEW y \in backend'
      PROVE  x.batch = y.batch \/ ItemsOf(x.batch) \cap ItemsOf(y.batch) = {}
  BY <1>1, <1>4 DEF Inv
<1> QED  BY <1>1, <1>2, <1>3, <1>5, <1>6, <1>7 DEF Inv

\* What the properties of every edge rest on.
LEMMA Invariant == Spec => []Inv
<1>1. ASSUME Inv, UNCHANGED vars PROVE Inv'
  <2>1. sent' = sent /\ unsent' = unsent /\ open' = open /\ backend' = backend
    BY <1>1 DEF vars
  <2>2. IsBatch(open)'
    BY <1>1, <2>1 DEF Inv, IsBatch
  <2>3. \A x \in backend : IsBatch(x.batch)'
    BY <1>1, <2>1 DEF Inv, IsBatch
  <2>4. \A x \in backend : Delivered(x)'
    BY <1>1, <2>1 DEF Inv, Delivered
  <2> QED  BY <1>1, <2>1, <2>2, <2>3, <2>4 DEF Inv
<1>2. Inv /\ [Next]_vars => Inv'
  BY <1>1, AddKeepsInv, CloseKeepsInv DEF Next
<1> QED  BY InitInv, <1>2, PTL DEF Spec
-----------------------------------------------------------------------------
(* Turns and bursts *)

\* What a turn or a burst retained.
Distinct(es, I) ==
    /\ es \in Seq(I)
    /\ es # <<>>
    /\ \A i, j \in DOMAIN es : es[i] = es[j] => i = j

\* A sequence without repetitions has the positions and the elements of its set.
LEMMA DistinctFacts ==
    ASSUME NEW I, NEW es, Distinct(es, I)
    PROVE  /\ Len(es) \in Nat \ {0} /\ DOMAIN es = 1..Len(es)
           /\ IsFiniteSet(1..Len(es)) /\ Cardinality(1..Len(es)) = Len(es)
           /\ ToSet(es) \subseteq I
           /\ \A i \in 1..Len(es) : es[i] \in ToSet(es) /\ es[i] \in I
           /\ \A e \in ToSet(es) : \E i \in 1..Len(es) : es[i] = e
           /\ IsFiniteSet(ToSet(es)) /\ Cardinality(ToSet(es)) = Len(es)
<1> DEFINE n == Len(es)
<1>1. /\ es \in Seq(I) /\ es # <<>>
      /\ \A i, j \in DOMAIN es : es[i] = es[j] => i = j
  BY DEF Distinct
<1>2. n \in Nat \ {0} /\ DOMAIN es = 1..n /\ \A i \in 1..n : es[i] \in I
  BY <1>1
<1>3. ToSet(es) = {es[i] : i \in 1..n}
  BY <1>2 DEF ToSet
<1>4. IsFiniteSet(1..n) /\ Cardinality(1..n) = n
  BY <1>2, FS_Interval, FS_CountingElements
<1> DEFINE f == [i \in 1..n |-> es[i]]
<1> HIDE DEF n
<1>5. f \in Bijection(1..n, ToSet(es))
  <2>1. \A i \in 1..n : es[i] \in ToSet(es)
    BY <1>3
  <2>2. \A e \in ToSet(es) : \E i \in 1..n : es[i] = e
    BY <1>3
  <2>3. \A i, j \in 1..n : es[i] = es[j] => i = j
    BY <1>1, <1>2
  <2> QED  BY <2>1, <2>2, <2>3, Fun_IsBij
<1>6. ExistsBijection(1..n, ToSet(es))
  BY <1>5 DEF ExistsBijection
<1>7. IsFiniteSet(ToSet(es)) /\ Cardinality(ToSet(es)) = n
  BY <1>4, <1>6, FS_Bijection
<1> QED  BY <1>2, <1>3, <1>4, <1>7 DEF n

\* A batch of a stateful edge is the one turn or burst, with its records.
LEMMA OneGroup ==
    ASSUME Inv, sent.groups = 1, NEW x \in backend
    PROVE  /\ Distinct(x.batch[1], sent.items)
           /\ ItemsOf(x.batch) = ToSet(x.batch[1])
           /\ x.out \in Normalize(sent.edge, x.batch)
<1> DEFINE b == x.batch
<1>1. /\ b \in Seq(Seq(sent.items)) /\ Len(b) <= 1 /\ b # <<>>
      /\ \A i \in DOMAIN b : b[i] # <<>>
      /\ \A i, k \in DOMAIN b : \A j \in DOMAIN b[i] : \A l \in DOMAIN b[k] :
           b[i][j] = b[k][l] => i = k /\ j = l
      /\ x.out \in Normalize(sent.edge, b)
  BY DEF Inv, IsBatch, Grouped, Delivered
<1> HIDE DEF b
<1>2. DOMAIN b = {1}
  <2>1. Len(b) \in Nat /\ Len(b) # 0 /\ DOMAIN b = 1..Len(b)
    BY <1>1
  <2>2. Len(b) = 1
    BY <1>1, <2>1
  <2> QED  BY <2>1, <2>2
<1>3. b[1] \in Seq(sent.items)
  BY <1>1, <1>2
<1>4. ItemsOf(b) = ToSet(b[1])
  BY <1>2 DEF ItemsOf
<1>5. Distinct(b[1], sent.items)
  BY <1>1, <1>2, <1>3 DEF Distinct
<1> QED  BY <1>1, <1>4, <1>5 DEF b

\* Records put in an order of their positions are the same records.
LEMMA Permuted ==
    ASSUME NEW I, NEW es, Distinct(es, I), NEW Q, StrictTotal(Q, 1..Len(es)),
           NEW order, Lists(order, 1..Len(es), Q),
           NEW s, s = [p \in DOMAIN es |-> es[order[p]]]
    PROVE  /\ Distinct(s, I) /\ Len(s) = Len(es) /\ ToSet(s) = ToSet(es)
           /\ \A p \in 1..Len(es) : order[p] \in 1..Len(es) /\ s[p] = es[order[p]]
<1> DEFINE n == Len(es)
<1>1. /\ n \in Nat \ {0} /\ DOMAIN es = 1..n /\ Cardinality(1..n) = n
      /\ \A i \in 1..n : es[i] \in ToSet(es) /\ es[i] \in I
      /\ \A e \in ToSet(es) : \E i \in 1..n : es[i] = e
  BY DistinctFacts
<1>2. \A i, j \in 1..n : es[i] = es[j] => i = j
  BY <1>1 DEF Distinct
<1>3. /\ \A p \in 1..n : order[p] \in 1..n
      /\ \A i \in 1..n : \E p \in 1..n : order[p] = i
      /\ \A p, r \in 1..n : p < r <=> <<order[p], order[r]>> \in Q
  BY <1>1 DEF Lists
<1>4. \A p, r \in 1..n : order[p] = order[r] => p = r
  <2> SUFFICES ASSUME NEW p \in 1..n, NEW r \in 1..n, order[p] = order[r] PROVE p = r
    OBVIOUS
  <2>1. <<order[p], order[r]>> \notin Q /\ <<order[r], order[p]>> \notin Q
    BY <1>3 DEF StrictTotal
  <2>2. ~(p < r) /\ ~(r < p)
    BY <1>3, <2>1
  <2> QED  BY <2>2, <1>1
<1>5. s = [p \in 1..n |-> es[order[p]]]
  BY <1>1
<1> HIDE DEF n
<1>6. \A p \in 1..n : s[p] = es[order[p]] /\ s[p] \in I
  BY <1>1, <1>3, <1>5
<1>7. s \in Seq(I) /\ Len(s) = n /\ DOMAIN s = 1..n /\ s # <<>>
  <2>1. s \in [1..n -> I]
    BY <1>5, <1>6
  <2>2. n \in Nat /\ n # 0
    BY <1>1
  <2> QED  BY <2>1, <2>2
<1>8. ASSUME NEW p \in 1..n, NEW r \in 1..n, s[p] = s[r] PROVE p = r
  <2>1. es[order[p]] = es[order[r]] /\ order[p] \in 1..n /\ order[r] \in 1..n
    BY <1>3, <1>6, <1>8
  <2> QED  BY <2>1, <1>2, <1>4
<1>9. ToSet(s) = ToSet(es)
  <2>1. ToSet(s) = {s[p] : p \in 1..n}
    BY <1>7 DEF ToSet
  <2>2. \A e \in ToSet(s) : e \in ToSet(es)
    BY <2>1, <1>1, <1>3, <1>6
  <2>3. \A e \in ToSet(es) : e \in ToSet(s)
    <3> SUFFICES ASSUME NEW e \in ToSet(es) PROVE e \in ToSet(s)
      OBVIOUS
    <3>1. PICK i \in 1..n : es[i] = e
      BY <1>1
    <3>2. PICK p \in 1..n : order[p] = i
      BY <1>3
    <3> QED  BY <2>1, <3>1, <3>2, <1>6
  <2> QED  BY <2>2, <2>3
<1>10. Distinct(s, I)
  BY <1>7, <1>8 DEF Distinct
<1> QED  BY <1>3, <1>6, <1>7, <1>9, <1>10 DEF n

\* If the order of the positions is an order of the records, the result lists
\* the records.
LEMMA PermutedLists ==
    ASSUME NEW I, NEW es, Distinct(es, I), NEW Q, StrictTotal(Q, 1..Len(es)),
           NEW order, Lists(order, 1..Len(es), Q),
           NEW s, s = [p \in DOMAIN es |-> es[order[p]]],
           NEW R, \A i, j \in 1..Len(es) : <<i, j>> \in Q <=> <<es[i], es[j]>> \in R
    PROVE  Lists(s, ToSet(es), R)
<1> DEFINE n == Len(es)
<1>1. /\ n \in Nat \ {0} /\ DOMAIN es = 1..n /\ Cardinality(1..n) = n
      /\ Cardinality(ToSet(es)) = n
  BY DistinctFacts
<1>2. \A p, r \in 1..n : p < r <=> <<order[p], order[r]>> \in Q
  BY <1>1 DEF Lists
<1>3. /\ Distinct(s, I) /\ Len(s) = n /\ ToSet(s) = ToSet(es)
      /\ \A p \in 1..n : order[p] \in 1..n /\ s[p] = es[order[p]]
  BY Permuted
<1>4. /\ \A i \in 1..n : s[i] \in ToSet(s)
      /\ \A e \in ToSet(s) : \E i \in 1..n : s[i] = e
  <2>1. DOMAIN s = 1..n
    BY <1>1
  <2>2. ToSet(s) = {s[i] : i \in 1..n}
    BY <2>1 DEF ToSet
  <2> QED  BY <2>2
<1>5. s = [p \in 1..n |-> s[p]]
  BY <1>1
<1>6. \A p, r \in 1..n : p < r <=> <<s[p], s[r]>> \in R
  BY <1>2, <1>3
<1> HIDE DEF n
<1> QED  BY <1>1, <1>3, <1>4, <1>5, <1>6 DEF Lists

\* Two lists of one set in one order are equal.
LEMMA ListsEqual ==
    ASSUME NEW S, IsFiniteSet(S), NEW R, StrictTotal(R, S),
           NEW q, Lists(q, S, R), NEW s, Lists(s, S, R)
    PROVE  q = s
  BY ListUnique

\* The elements at some positions of a sequence.
LEMMA AtFacts ==
    ASSUME NEW q, NEW n \in Nat, NEW K \in SUBSET (1..n)
    PROVE  ToSet(At(q, K)) = {q[i] : i \in K}
<1> DEFINE R == {p \in K \X K : p[1] < p[2]}
           order == InOrder(K, R)
<1>1. IsFiniteSet(K)
  <2>1. IsFiniteSet(1..n)
    BY FS_Interval
  <2> QED  BY <2>1, FS_Subset
<1>2. \A i, j \in K : <<i, j>> \in R <=> i < j
  OBVIOUS
<1>3. \A i, j \in K : i \in Nat /\ j \in Nat
  OBVIOUS
<1>4. At(q, K) = [p \in 1..Cardinality(K) |-> q[order[p]]]
  BY DEF At
<1> HIDE DEF R
<1>5. StrictTotal(R, K)
  BY <1>2, <1>3 DEF StrictTotal
<1>6. Lists(order, K, R)
  BY <1>1, <1>5, RankedLists
<1> HIDE DEF order
<1>7. At(q, K) = [p \in 1..Cardinality(K) |-> q[order[p]]]
  BY <1>4
<1>8. /\ \A p \in 1..Cardinality(K) : order[p] \in K
      /\ \A x \in K : \E p \in 1..Cardinality(K) : order[p] = x
  BY <1>6 DEF Lists
<1>9. ToSet(At(q, K)) = {q[order[p]] : p \in 1..Cardinality(K)}
  BY <1>7 DEF ToSet
<1> QED  BY <1>8, <1>9
-----------------------------------------------------------------------------
(* Cursor logs *)

\* A list of a set is a sequence of it.
LEMMA ListDistinct ==
    ASSUME NEW I, NEW S \in SUBSET I, IsFiniteSet(S), S # {}, NEW R, StrictTotal(R, S),
           NEW q, Lists(q, S, R)
    PROVE  Distinct(q, I) /\ ToSet(q) = S
<1> DEFINE n == Cardinality(S)
<1>1. n \in Nat /\ n # 0
  BY FS_CardinalityType, FS_EmptySet
<1>2. /\ q = [p \in 1..n |-> q[p]]
      /\ \A p \in 1..n : q[p] \in S
      /\ \A x \in S : \E p \in 1..n : q[p] = x
      /\ \A p, r \in 1..n : p < r <=> <<q[p], q[r]>> \in R
  BY DEF Lists
<1> HIDE DEF n
<1>3. q \in [1..n -> I]
  BY <1>2
<1>4. q \in Seq(I) /\ DOMAIN q = 1..n /\ q # <<>>
  BY <1>1, <1>3
<1>5. \A p, r \in 1..n : q[p] = q[r] => p = r
  <2> SUFFICES ASSUME NEW p \in 1..n, NEW r \in 1..n, q[p] = q[r] PROVE p = r
    OBVIOUS
  <2>1. <<q[p], q[r]>> \notin R /\ <<q[r], q[p]>> \notin R
    BY <1>2 DEF StrictTotal
  <2>2. ~(p < r) /\ ~(r < p)
    BY <1>2, <2>1
  <2> QED  BY <2>2, <1>1
<1>6. ToSet(q) = S
  <2>1. ToSet(q) = {q[p] : p \in 1..n}
    BY <1>4 DEF ToSet
  <2> QED  BY <2>1, <1>2
<1> QED  BY <1>4, <1>5, <1>6 DEF Distinct

\* The first record is one of the records.
LEMMA FirstOf ==
    ASSUME NEW I, NEW q, Distinct(q, I)
    PROVE  q[1] \in ToSet(q) /\ q[1] \in I
<1>1. Len(q) \in Nat \ {0} /\ \A i \in 1..Len(q) : q[i] \in ToSet(q) /\ q[i] \in I
  BY DistinctFacts
<1>2. 1 \in 1..Len(q)
  BY <1>1
<1> QED  BY <1>1, <1>2

\* What the Cursor edge may be sent.
BurstRecords(I) ==
    /\ \A e \in I : e.id \in Nat /\ e.ts \in Nat
    /\ \A e, f \in I : e.id = f.id => e = f

\* The order of a burst, by timestamp and then by event id.
Earlier(S) ==
    {p \in S \X S : p[1].ts < p[2].ts \/ (p[1].ts = p[2].ts /\ p[1].id < p[2].id)}

\* The order that the property BurstOrderIrrelevant compares with.
ById(S) == {p \in S \X S : p[1].id < p[2].id}

\* Both are total, since a record has an id of its own.
LEMMA EarlierTotal ==
    ASSUME NEW I, BurstRecords(I), NEW S \in SUBSET I
    PROVE  StrictTotal(Earlier(S), S) /\ StrictTotal(ById(S), S)
<1>1. \A e \in S : e.id \in Nat /\ e.ts \in Nat
  BY DEF BurstRecords
<1>2. \A e, f \in S : e.id = f.id => e = f
  BY DEF BurstRecords
<1>3. \A e, f \in S : <<e, f>> \in Earlier(S)
                        <=> (e.ts < f.ts \/ (e.ts = f.ts /\ e.id < f.id))
  <2> SUFFICES ASSUME NEW e \in S, NEW f \in S
               PROVE  <<e, f>> \in Earlier(S)
                        <=> (e.ts < f.ts \/ (e.ts = f.ts /\ e.id < f.id))
    OBVIOUS
  <2>1. <<e, f>>[1] = e /\ <<e, f>>[2] = f /\ <<e, f>> \in S \X S
    OBVIOUS
  <2> QED  BY <2>1 DEF Earlier
<1>4. \A e, f \in S : <<e, f>> \in ById(S) <=> e.id < f.id
  BY DEF ById
<1>5. \A e, f, g \in S : <<e, f>> \in Earlier(S) /\ <<f, g>> \in Earlier(S)
                           => <<e, g>> \in Earlier(S)
  BY <1>1, <1>3
<1>6. \A e \in S : <<e, e>> \notin Earlier(S)
  BY <1>1, <1>3
<1>7. \A e, f \in S : e = f \/ <<e, f>> \in Earlier(S) \/ <<f, e>> \in Earlier(S)
  <2> SUFFICES ASSUME NEW e \in S, NEW f \in S
               PROVE  e = f \/ <<e, f>> \in Earlier(S) \/ <<f, e>> \in Earlier(S)
    OBVIOUS
  <2>1. /\ e.id \in Nat /\ e.ts \in Nat /\ f.id \in Nat /\ f.ts \in Nat
        /\ e.id = f.id => e = f
    BY <1>1, <1>2
  <2> QED  BY <2>1, <1>3
<1>8. \A e, f, g \in S : <<e, f>> \in ById(S) /\ <<f, g>> \in ById(S) => <<e, g>> \in ById(S)
  BY <1>1, <1>4
<1>9. \A e \in S : <<e, e>> \notin ById(S)
  BY <1>1, <1>4
<1>10. \A e, f \in S : e = f \/ <<e, f>> \in ById(S) \/ <<f, e>> \in ById(S)
  <2> SUFFICES ASSUME NEW e \in S, NEW f \in S
               PROVE  e = f \/ <<e, f>> \in ById(S) \/ <<f, e>> \in ById(S)
    OBVIOUS
  <2>1. /\ e.id \in Nat /\ e.ts \in Nat /\ f.id \in Nat /\ f.ts \in Nat
        /\ e.id = f.id => e = f
    BY <1>1, <1>2
  <2> QED  BY <2>1, <1>4
<1> QED  BY <1>5, <1>6, <1>7, <1>8, <1>9, <1>10 DEF StrictTotal

\* sort.Slice lists the records of a burst in their order.
LEMMA SortedBurstFacts ==
    ASSUME NEW I, BurstRecords(I), NEW es, Distinct(es, I)
    PROVE  /\ Distinct(SortedBurst(es), I)
           /\ ToSet(SortedBurst(es)) = ToSet(es)
           /\ Lists(SortedBurst(es), ToSet(es), Earlier(ToSet(es)))
<1> DEFINE n == Len(es)
           Q == {p \in (DOMAIN es) \X (DOMAIN es) : EarlierThan(es, p[1], p[2])}
           order == InOrder(DOMAIN es, Q)
           s == SortedBurst(es)
           R == Earlier(ToSet(es))
<1>1. /\ n \in Nat /\ DOMAIN es = 1..n /\ IsFiniteSet(1..n)
      /\ ToSet(es) \subseteq I
      /\ \A i \in 1..n : es[i] \in ToSet(es) /\ es[i] \in I
  BY DistinctFacts
<1>2. \A i, j \in 1..n : es[i] = es[j] => i = j
  BY <1>1 DEF Distinct
<1>3. s = [p \in DOMAIN es |-> es[order[p]]]
  BY DEF SortedBurst
<1>4. \A i, j \in 1..n : <<i, j>> \in Q <=> EarlierThan(es, i, j)
  BY <1>1
<1>5. \A i, j \in 1..n : EarlierThan(es, i, j) <=> <<es[i], es[j]>> \in R
  BY <1>1 DEF EarlierThan, Earlier
<1>6. StrictTotal(R, ToSet(es))
  BY <1>1, EarlierTotal
<1> HIDE DEF Q, s, R, n
<1>7. StrictTotal(Q, 1..n)
  <2>1. \A i, j \in 1..n : <<i, j>> \in Q <=> <<es[i], es[j]>> \in R
    BY <1>4, <1>5
  <2>2. \A e, f, g \in ToSet(es) : <<e, f>> \in R /\ <<f, g>> \in R => <<e, g>> \in R
    BY <1>6 DEF StrictTotal
  <2>3. \A e \in ToSet(es) : <<e, e>> \notin R
    BY <1>6 DEF StrictTotal
  <2>4. \A e, f \in ToSet(es) : e = f \/ <<e, f>> \in R \/ <<f, e>> \in R
    BY <1>6 DEF StrictTotal
  <2>5. \A i, j, k \in 1..n : <<i, j>> \in Q /\ <<j, k>> \in Q => <<i, k>> \in Q
    BY <2>1, <2>2, <1>1
  <2>6. \A i \in 1..n : <<i, i>> \notin Q
    BY <2>1, <2>3, <1>1
  <2>7. \A i, j \in 1..n : i = j \/ <<i, j>> \in Q \/ <<j, i>> \in Q
    BY <2>1, <2>4, <1>1, <1>2
  <2> QED  BY <2>5, <2>6, <2>7 DEF StrictTotal
<1>8. Lists(order, 1..n, Q)
  <2>1. order = InOrder(1..n, Q)
    BY <1>1
  <2> HIDE DEF order
  <2> QED  BY <2>1, <1>1, <1>7, RankedLists
<1> HIDE DEF order
<1>9. Distinct(s, I) /\ ToSet(s) = ToSet(es)
  BY <1>3, <1>7, <1>8, Permuted DEF n
<1>10. \A i, j \in 1..Len(es) : <<i, j>> \in Q <=> <<es[i], es[j]>> \in R
  BY <1>4, <1>5 DEF n
<1>11. StrictTotal(Q, 1..Len(es)) /\ Lists(order, 1..Len(es), Q)
  BY <1>7, <1>8 DEF n
<1>12. Lists(s, ToSet(es), R)
  BY <1>3, <1>10, <1>11, PermutedLists
<1> QED  BY <1>9, <1>12 DEF s, R

\* The same records in another order are sorted into the same sequence.
LEMMA SortedBurstOfSet ==
    ASSUME NEW I, BurstRecords(I), NEW es, Distinct(es, I), NEW fs, Distinct(fs, I),
           ToSet(es) = ToSet(fs)
    PROVE  SortedBurst(es) = SortedBurst(fs)
<1> DEFINE S == ToSet(es)
           R == Earlier(S)
<1>1. /\ Lists(SortedBurst(es), S, R)
      /\ Lists(SortedBurst(fs), S, R)
  BY SortedBurstFacts
<1>2. S \subseteq I /\ IsFiniteSet(S)
  BY DistinctFacts
<1> HIDE DEF S
<1>3. StrictTotal(R, S)
  BY <1>2, EarlierTotal
<1> HIDE DEF R
<1> QED  BY <1>1, <1>2, <1>3, ListsEqual

\* A trace of the Cursor edge is that of a sorted burst.
LEMMA CursorBurst ==
    ASSUME Inv, \A b : Normalize("cursor logs", b) = CursorLogsNormalize(b),
           NEW x \in From("cursor logs")
    PROVE  /\ BurstRecords(sent.items)
           /\ Distinct(x.batch[1], sent.items)
           /\ ItemsOf(x.batch) = ToSet(x.batch[1])
           /\ x.out = BurstTraceOf(SortedBurst(x.batch[1]))
<1>1. sent.edge = "cursor logs" /\ x \in backend
  BY DEF From
<1>2. sent \in Sent
  BY DEF Inv
<1>3. BurstRecords(sent.items) /\ sent.groups = 1
  BY <1>1, <1>2, CursorLogsAssumption DEF BurstRecords
<1>4. /\ Distinct(x.batch[1], sent.items)
      /\ ItemsOf(x.batch) = ToSet(x.batch[1])
      /\ x.out \in Normalize(sent.edge, x.batch)
  BY <1>1, <1>3, OneGroup
<1>5. x.out \in CursorLogsNormalize(x.batch)
  BY <1>1, <1>4
<1>6. x.out = BurstTraceOf(SortedBurst(x.batch[1]))
  BY <1>5 DEF CursorLogsNormalize, BuildBurstTrace
<1> QED  BY <1>3, <1>4, <1>6

\* The trace of a burst is a function of its set, and names its first record.
LEMMA BurstTracesStableInv ==
    ASSUME Inv, \A b : Normalize("cursor logs", b) = CursorLogsNormalize(b)
    PROVE  BurstTracesStable
<1>1. BurstOrderIrrelevant
  <2> SUFFICES ASSUME NEW x \in From("cursor logs")
               PROVE  x.out = BuildBurstTrace(InOrder(ToSet(x.batch[1]),
                         {p \in ToSet(x.batch[1]) \X ToSet(x.batch[1]) : p[1].id < p[2].id}))
    BY DEF BurstOrderIrrelevant, OfBursts
  <2> DEFINE I == sent.items
             es == x.batch[1]
             S == ToSet(es)
             R == ById(S)
             fs == InOrder(S, R)
  <2>1. /\ BurstRecords(I) /\ Distinct(es, I)
        /\ x.out = BurstTraceOf(SortedBurst(es))
    BY CursorBurst
  <2>2. S \subseteq I /\ IsFiniteSet(S) /\ S # {}
    <3> HIDE DEF I, es
    <3>1. S \subseteq I /\ IsFiniteSet(S) /\ Len(es) \in Nat \ {0} /\ Cardinality(S) = Len(es)
      BY <2>1, DistinctFacts
    <3> HIDE DEF S
    <3> QED  BY <3>1, FS_EmptySet
  <2> SUFFICES x.out = BuildBurstTrace(fs)
    BY DEF ById
  <2> HIDE DEF I, S, es
  <2>3. StrictTotal(R, S)
    BY <2>1, <2>2, EarlierTotal
  <2> HIDE DEF R
  <2>4. Lists(fs, S, R)
    <3>1. fs = InOrder(S, R)
      OBVIOUS
    <3> HIDE DEF fs
    <3> QED  BY <3>1, <2>2, <2>3, RankedLists
  <2> HIDE DEF fs
  <2>5. Distinct(fs, I) /\ ToSet(fs) = S
    BY <2>2, <2>3, <2>4, ListDistinct
  <2>6. SortedBurst(es) = SortedBurst(fs)
    BY <2>1, <2>5, SortedBurstOfSet DEF S
  <2> QED  BY <2>1, <2>6 DEF BuildBurstTrace
<1>2. BurstsApart
  <2> SUFFICES ASSUME NEW x \in From("cursor logs"), NEW y \in From("cursor logs"),
                      ItemsOf(x.batch) \cap ItemsOf(y.batch) = {}, x.out.id = y.out.id
               PROVE  FALSE
    BY DEF BurstsApart
  <2>1. ASSUME NEW z \in From("cursor logs")
        PROVE  \E e \in ItemsOf(z.batch) : e \in sent.items /\ z.out.id = <<"cursor", e.id>>
    <3> DEFINE I == sent.items
               es == z.batch[1]
               s == SortedBurst(es)
    <3>1. /\ BurstRecords(I) /\ Distinct(es, I) /\ ItemsOf(z.batch) = ToSet(es)
          /\ z.out = BurstTraceOf(s)
      BY <2>1, CursorBurst
    <3> HIDE DEF I, es
    <3>2. Distinct(s, I) /\ ToSet(s) = ToSet(es)
      BY <3>1, SortedBurstFacts
    <3> HIDE DEF s
    <3>3. z.out.id = <<"cursor", s[1].id>>
      <4>1. BurstTraceOf(s).id = BurstTraceId(s)
        BY DEF BurstTraceOf
      <4> QED  BY <4>1, <3>1 DEF BurstTraceId
    <3>4. s[1] \in ToSet(s) /\ s[1] \in I
      BY <3>2, FirstOf
    <3> QED  BY <3>1, <3>3, <3>2, <3>4 DEF I
  <2>2. PICK e \in ItemsOf(x.batch) : e \in sent.items /\ x.out.id = <<"cursor", e.id>>
    BY <2>1
  <2>3. PICK f \in ItemsOf(y.batch) : f \in sent.items /\ y.out.id = <<"cursor", f.id>>
    BY <2>1
  <2>4. e.id = f.id
    <3>1. <<"cursor", e.id>> = <<"cursor", f.id>>
      BY <2>2, <2>3
    <3> QED  BY <3>1
  <2>5. BurstRecords(sent.items)
    BY CursorBurst
  <2> QED  BY <2>2, <2>3, <2>4, <2>5 DEF BurstRecords
<1> QED  BY <1>1, <1>2 DEF BurstTracesStable

\* A record of a burst is shown by spans or as an event of the root, and never
\* both: the spans of requests, of tools, and what joins a request are apart.
LEMMA ShownOnce ==
    ASSUME NEW I, BurstRecords(I), NEW s, Distinct(s, I), NEW e \in ToSet(s)
    PROVE  (SpansFor(BurstTraceOf(s), e) # {}) # (e \in ToSet(BurstTraceOf(s).events))
<1> DEFINE t == BurstTraceOf(s)
           n == Len(s)
<1>1. /\ n \in Nat /\ DOMAIN s = 1..n /\ ToSet(s) \subseteq I
      /\ \A i \in 1..n : s[i] \in ToSet(s)
      /\ \A f \in ToSet(s) : \E i \in 1..n : s[i] = f
  BY DistinctFacts
<1>2. \A f, g \in ToSet(s) : f.id = g.id => f = g
  BY <1>1 DEF BurstRecords
<1>3. ToSet(t.events) =
         {f \in ToSet(s) : f.kind \notin {"request", "tool"} /\ ~Joined(s, f)}
  <2> DEFINE K == {i \in 1..n : s[i].kind \notin {"request", "tool"} /\ ~Joined(s, s[i])}
  <2>1. t.events = At(s, K)
    BY <1>1 DEF BurstTraceOf, BurstEvents
  <2>2. K \in SUBSET (1..n)
    OBVIOUS
  <2>3. \A f : f \in {s[i] : i \in K}
           <=> f \in ToSet(s) /\ f.kind \notin {"request", "tool"} /\ ~Joined(s, f)
    BY <1>1
  <2> HIDE DEF K, n, t
  <2>4. ToSet(At(s, K)) = {s[i] : i \in K}
    BY <2>2, <1>1, AtFacts
  <2> QED  BY <2>1, <2>3, <2>4
<1>4. \A r : ToSet(RequestSpan(s, r).events) =
               {f \in ToSet(s) : f.kind = "correction" /\ Joins(f, r)}
  <2> TAKE r
  <2> DEFINE K == {i \in 1..n : s[i].kind = "correction" /\ Joins(s[i], r)}
  <2>1. RequestSpan(s, r).events = At(s, K)
    BY <1>1 DEF RequestSpan
  <2>2. K \in SUBSET (1..n)
    OBVIOUS
  <2>3. \A f : f \in {s[i] : i \in K} <=> f \in ToSet(s) /\ f.kind = "correction" /\ Joins(f, r)
    BY <1>1
  <2> HIDE DEF K, n, t
  <2>4. ToSet(At(s, K)) = {s[i] : i \in K}
    BY <2>2, <1>1, AtFacts
  <2> QED  BY <2>1, <2>3, <2>4
<1>5. \A r : /\ RequestSpan(s, r).kind = "chat" /\ RequestSpan(s, r).id[2] = r.id
             /\ RequestSpan(s, r).errors =
                  {f.id : f \in {g \in ToSet(s) : g.kind = "error" /\ Joins(g, r)}}
             /\ ToolSpan(r).kind = "tool" /\ ToolSpan(r).id[2] = r.id
  BY DEF RequestSpan, ToolSpan
<1>6. t.spans = {RequestSpan(s, r) : r \in {f \in ToSet(s) : f.kind = "request"}}
               \cup {ToolSpan(f) : f \in {g \in ToSet(s) : g.kind = "tool"}}
  BY DEF BurstTraceOf
<1> HIDE DEF t
<1>7. CASE e.kind = "request"
  <2>1. RequestSpan(s, e) \in SpansFor(t, e)
    BY <1>5, <1>6, <1>7 DEF SpansFor
  <2>2. e \notin ToSet(t.events)
    BY <1>3, <1>7
  <2> QED  BY <2>1, <2>2 DEF t
<1>8. CASE e.kind = "tool"
  <2>1. ToolSpan(e) \in SpansFor(t, e)
    BY <1>5, <1>6, <1>8 DEF SpansFor
  <2>2. e \notin ToSet(t.events)
    BY <1>3, <1>8
  <2> QED  BY <2>1, <2>2 DEF t
<1>9. CASE Joined(s, e)
  <2>1. PICK r \in ToSet(s) : Joins(e, r)
    BY <1>9 DEF Joined
  <2>2. r.kind = "request" /\ e.kind \in {"error", "correction"}
    BY <1>9, <2>1 DEF Joined, Joins
  <2>3. RequestSpan(s, r) \in t.spans
    BY <1>6, <2>2
  <2>4. e \in ToSet(RequestSpan(s, r).events) \/ e.id \in RequestSpan(s, r).errors
    BY <1>4, <1>5, <2>1, <2>2
  <2>5. RequestSpan(s, r) \in SpansFor(t, e)
    BY <1>5, <2>3, <2>4 DEF SpansFor
  <2>6. e \notin ToSet(t.events)
    BY <1>3, <1>9
  <2> QED  BY <2>5, <2>6 DEF t
<1>10. CASE e.kind \notin {"request", "tool"} /\ ~Joined(s, e)
  <2>1. e \in ToSet(t.events)
    BY <1>3, <1>10
  <2>2. ASSUME NEW u \in SpansFor(t, e) PROVE FALSE
    <3>1. /\ u \in t.spans
          /\ \/ u.id[2] = e.id
             \/ u.kind = "chat" /\ (e \in ToSet(u.events) \/ e.id \in u.errors)
      BY <2>2 DEF SpansFor
    <3>2. CASE \E r \in ToSet(s) : r.kind = "request" /\ u = RequestSpan(s, r)
      <4>1. PICK r \in ToSet(s) : r.kind = "request" /\ u = RequestSpan(s, r)
        BY <3>2
      <4>2. u.id[2] # e.id
        BY <4>1, <1>2, <1>5, <1>10
      <4>3. e \notin ToSet(u.events)
        BY <4>1, <1>4, <1>10 DEF Joined
      <4>4. e.id \notin u.errors
        BY <4>1, <1>2, <1>5, <1>10 DEF Joined
      <4> QED  BY <3>1, <4>2, <4>3, <4>4
    <3>3. CASE \E f \in ToSet(s) : f.kind = "tool" /\ u = ToolSpan(f)
      BY <3>1, <3>3, <1>2, <1>5, <1>10
    <3> QED  BY <3>1, <3>2, <3>3, <1>6
  <2> QED  BY <2>1, <2>2 DEF t
<1> QED  BY <1>7, <1>8, <1>9, <1>10

\* It holds of every trace in the backend.
LEMMA EveryRecordShownOnceInv ==
    ASSUME Inv, \A b : Normalize("cursor logs", b) = CursorLogsNormalize(b)
    PROVE  EveryRecordShownOnce
<1> SUFFICES ASSUME NEW x \in From("cursor logs"), NEW e \in ToSet(x.batch[1])
             PROVE  (SpansFor(x.out, e) # {}) # (e \in ToSet(x.out.events))
  BY DEF EveryRecordShownOnce, OfBursts
<1> DEFINE s == SortedBurst(x.batch[1])
<1>1. /\ BurstRecords(sent.items) /\ Distinct(x.batch[1], sent.items)
      /\ x.out = BurstTraceOf(s)
  BY CursorBurst
<1>2. Distinct(s, sent.items) /\ e \in ToSet(s)
  BY <1>1, SortedBurstFacts
<1> HIDE DEF s
<1> QED  BY <1>1, <1>2, ShownOnce

\* Whatever a conversation logs, in whatever order, and wherever its bursts
\* close: every record a burst retained is shown once in the trace of the burst,
\* as a span, on the span of its request, or on the root (buildTrace).
THEOREM RecordsShownOnce ==
    ASSUME \A b : Normalize("cursor logs", b) = CursorLogsNormalize(b)
    PROVE  Spec => []EveryRecordShownOnce
<1>1. Inv => EveryRecordShownOnce
  BY EveryRecordShownOnceInv
<1> QED  BY <1>1, Invariant, PTL

\* Whatever a conversation logs: the trace of a burst, its id included, depends
\* on the records and not on their order, and bursts that share no record have
\* traces of their own (sortEvents, deterministicTraceID).
THEOREM BurstTracesAreStable ==
    ASSUME \A b : Normalize("cursor logs", b) = CursorLogsNormalize(b)
    PROVE  Spec => []BurstTracesStable
<1>1. Inv => BurstTracesStable
  BY BurstTracesStableInv
<1> QED  BY <1>1, Invariant, PTL
-----------------------------------------------------------------------------
(* Codex logs *)

\* What the Codex logs edge may be sent.
TurnRecords(I) ==
    /\ \A e \in I : e.ts \in Nat /\ e.dur \in Nat
    /\ \A e, f \in I : e.n = f.n => e = f
    /\ ModelCalls(I)

\* The order of a turn, where its timestamps differ.
ByTime(S) == {p \in S \X S : p[1].ts < p[2].ts}

\* sort.SliceStable puts the records of a turn in the order of their timestamps.
LEMMA SortedTurn ==
    ASSUME NEW I, TurnRecords(I), NEW es, Distinct(es, I)
    PROVE  /\ Distinct(Sorted(es), I)
           /\ ToSet(Sorted(es)) = ToSet(es)
           /\ \A i, j \in 1..Len(Sorted(es)) : i < j => Sorted(es)[i].ts <= Sorted(es)[j].ts
           /\ DistinctTimes(es) => Lists(Sorted(es), ToSet(es), ByTime(ToSet(es)))
<1> DEFINE n == Len(es)
           Q == {p \in (DOMAIN es) \X (DOMAIN es) :
                   es[p[1]].ts < es[p[2]].ts \/ (es[p[1]].ts = es[p[2]].ts /\ p[1] < p[2])}
           order == InOrder(DOMAIN es, Q)
           s == Sorted(es)
           R == ByTime(ToSet(es))
<1>1. /\ n \in Nat /\ DOMAIN es = 1..n /\ IsFiniteSet(1..n)
      /\ ToSet(es) \subseteq I
      /\ \A i \in 1..n : es[i] \in ToSet(es) /\ es[i] \in I
  BY DistinctFacts
<1>2. \A i, j \in 1..n : es[i] = es[j] => i = j
  BY <1>1 DEF Distinct
<1>3. s = [p \in DOMAIN es |-> es[order[p]]]
  BY DEF Sorted
<1>4. \A i, j \in 1..n : <<i, j>> \in Q
                        <=> (es[i].ts < es[j].ts \/ (es[i].ts = es[j].ts /\ i < j))
  BY <1>1
<1>5. \A i \in 1..n : i \in Int /\ es[i].ts \in Nat
  BY <1>1 DEF TurnRecords
<1> HIDE DEF Q, s, n
<1>6. StrictTotal(Q, 1..n)
  <2>1. ASSUME NEW i \in 1..n, NEW j \in 1..n, NEW k \in 1..n, <<i, j>> \in Q, <<j, k>> \in Q
        PROVE  <<i, k>> \in Q
    BY <2>1, <1>4, <1>5
  <2>2. ASSUME NEW i \in 1..n PROVE <<i, i>> \notin Q
    BY <1>4, <1>5
  <2>3. ASSUME NEW i \in 1..n, NEW j \in 1..n PROVE i = j \/ <<i, j>> \in Q \/ <<j, i>> \in Q
    BY <1>4, <1>5
  <2> QED  BY <2>1, <2>2, <2>3 DEF StrictTotal
<1>7. Lists(order, 1..n, Q)
  <2>1. order = InOrder(1..n, Q)
    BY <1>1
  <2> HIDE DEF order
  <2> QED  BY <2>1, <1>1, <1>6, RankedLists
<1> HIDE DEF order
<1>8. /\ Distinct(s, I) /\ Len(s) = n /\ ToSet(s) = ToSet(es)
      /\ \A p \in 1..n : order[p] \in 1..n /\ s[p] = es[order[p]]
  BY <1>3, <1>6, <1>7, Permuted DEF n
<1>9. Cardinality(1..n) = n
  BY DistinctFacts DEF n
<1>10. \A p, r \in 1..n : p < r <=> <<order[p], order[r]>> \in Q
  BY <1>7, <1>9 DEF Lists
<1>11. ASSUME NEW i \in 1..n, NEW j \in 1..n, i < j PROVE s[i].ts <= s[j].ts
  <2>1. <<order[i], order[j]>> \in Q
    BY <1>10, <1>11
  <2>2. es[order[i]].ts \in Nat /\ es[order[j]].ts \in Nat
    BY <1>5, <1>8
  <2>3. es[order[i]].ts < es[order[j]].ts \/ es[order[i]].ts = es[order[j]].ts
    <3>1. order[i] \in 1..n /\ order[j] \in 1..n
      BY <1>8
    <3> QED  BY <3>1, <2>1, <1>4
  <2>4. es[order[i]].ts <= es[order[j]].ts
    BY <2>2, <2>3
  <2> QED  BY <2>4, <1>8
<1>12. ASSUME DistinctTimes(es) PROVE Lists(s, ToSet(es), R)
  <2>1. ASSUME NEW i \in 1..n, NEW j \in 1..n
        PROVE  <<i, j>> \in Q <=> <<es[i], es[j]>> \in R
    <3>1. es[i].ts = es[j].ts => i = j
      BY <1>1, <1>2, <1>12 DEF DistinctTimes
    <3>2. <<es[i], es[j]>> \in R <=> es[i].ts < es[j].ts
      BY <1>1 DEF ByTime
    <3> QED  BY <3>1, <3>2, <1>4, <1>5
  <2>2. \A i, j \in 1..Len(es) : <<i, j>> \in Q <=> <<es[i], es[j]>> \in R
    BY <2>1 DEF n
  <2>3. StrictTotal(Q, 1..Len(es)) /\ Lists(order, 1..Len(es), Q)
    BY <1>6, <1>7 DEF n
  <2> HIDE DEF R
  <2> QED  BY <1>3, <2>2, <2>3, PermutedLists
<1> QED  BY <1>8, <1>11, <1>12 DEF s, R

\* A trace of the Codex edge is that of a sorted turn.
LEMMA CodexTurn ==
    ASSUME Inv, \A b : Normalize("codex logs", b) = CodexLogsNormalize(b),
           NEW x \in From("codex logs")
    PROVE  /\ TurnRecords(sent.items)
           /\ Distinct(x.batch[1], sent.items)
           /\ x.out = TraceOf(Sorted(x.batch[1]))
<1>1. sent.edge = "codex logs" /\ x \in backend
  BY DEF From
<1>2. sent \in Sent
  BY DEF Inv
<1>3. TurnRecords(sent.items) /\ sent.groups = 1
  BY <1>1, <1>2, CodexLogsAssumption DEF TurnRecords
<1>4. /\ Distinct(x.batch[1], sent.items)
      /\ x.out \in Normalize(sent.edge, x.batch)
  BY <1>1, <1>3, OneGroup
<1>5. x.out \in CodexLogsNormalize(x.batch)
  BY <1>1, <1>4
<1>6. x.out = TraceOf(Sorted(x.batch[1]))
  BY <1>5 DEF CodexLogsNormalize, BuildTrace
<1> QED  BY <1>3, <1>4, <1>6

\* Timestamps that differ order the records.
LEMMA ByTimeTotal ==
    ASSUME NEW S, \A e \in S : e.ts \in Nat, \A e, f \in S : e.ts = f.ts => e = f
    PROVE  StrictTotal(ByTime(S), S)
<1>1. \A e, f \in S : <<e, f>> \in ByTime(S) <=> e.ts < f.ts
  BY DEF ByTime
<1>2. \A e, f, g \in S : <<e, f>> \in ByTime(S) /\ <<f, g>> \in ByTime(S)
                           => <<e, g>> \in ByTime(S)
  BY <1>1
<1>3. \A e \in S : <<e, e>> \notin ByTime(S)
  BY <1>1
<1>4. ASSUME NEW e \in S, NEW f \in S
      PROVE  e = f \/ <<e, f>> \in ByTime(S) \/ <<f, e>> \in ByTime(S)
  BY <1>1
<1> QED  BY <1>2, <1>3, <1>4 DEF StrictTotal

\* The same records in another order are sorted into the same sequence.
LEMMA SortedOfSet ==
    ASSUME NEW I, TurnRecords(I), NEW es, Distinct(es, I), NEW fs, Distinct(fs, I),
           ToSet(es) = ToSet(fs), DistinctTimes(es)
    PROVE  Sorted(es) = Sorted(fs)
<1> DEFINE S == ToSet(es)
           R == ByTime(S)
<1>1. DistinctTimes(fs)
  BY DEF DistinctTimes
<1>2. /\ Lists(Sorted(es), S, R)
      /\ Lists(Sorted(fs), S, R)
  BY <1>1, SortedTurn
<1>3. S \subseteq I /\ IsFiniteSet(S)
  BY DistinctFacts
<1>4. StrictTotal(R, S)
  <2>1. \A e \in S : e.ts \in Nat
    BY <1>3 DEF TurnRecords
  <2>2. \A e, f \in S : e.ts = f.ts => e = f
    BY DEF DistinctTimes
  <2> HIDE DEF S
  <2> QED  BY <2>1, <2>2, ByTimeTotal
<1> HIDE DEF R, S
<1> QED  BY <1>2, <1>3, <1>4, ListsEqual

\* So the trace of such a turn is a function of its set.
LEMMA ArrivalOrderIrrelevantInv ==
    ASSUME Inv, \A b : Normalize("codex logs", b) = CodexLogsNormalize(b)
    PROVE  ArrivalOrderIrrelevant
<1> SUFFICES ASSUME NEW x \in From("codex logs"), DistinctTimes(x.batch[1])
             PROVE  x.out = BuildTrace(InOrder(ToSet(x.batch[1]),
                       {p \in ToSet(x.batch[1]) \X ToSet(x.batch[1]) : p[1].ts < p[2].ts}))
  BY DEF ArrivalOrderIrrelevant, OfTurns
<1> DEFINE I == sent.items
           es == x.batch[1]
           S == ToSet(es)
           R == ByTime(S)
           fs == InOrder(S, R)
<1>1. TurnRecords(I) /\ Distinct(es, I) /\ x.out = TraceOf(Sorted(es))
  BY CodexTurn
<1>2. DistinctTimes(es)
  OBVIOUS
<1> SUFFICES x.out = BuildTrace(fs)
  BY DEF ByTime
<1> HIDE DEF I, es
<1>3. S \subseteq I /\ IsFiniteSet(S) /\ S # {}
  <2>1. S \subseteq I /\ IsFiniteSet(S)
    BY <1>1, DistinctFacts
  <2>2. es[1] \in S
    BY <1>1, FirstOf
  <2> QED  BY <2>1, <2>2
<1>4. StrictTotal(R, S)
  <2>1. \A e \in S : e.ts \in Nat
    BY <1>1, <1>3 DEF TurnRecords
  <2>2. \A e, f \in S : e.ts = f.ts => e = f
    BY <1>2 DEF DistinctTimes
  <2> HIDE DEF S
  <2> QED  BY <2>1, <2>2, ByTimeTotal
<1> HIDE DEF R, S
<1>5. Lists(fs, S, R)
  <2>1. fs = InOrder(S, R)
    OBVIOUS
  <2> HIDE DEF fs
  <2> QED  BY <2>1, <1>3, <1>4, RankedLists
<1> HIDE DEF fs
<1>6. Distinct(fs, I) /\ ToSet(fs) = S
  BY <1>3, <1>4, <1>5, ListDistinct
<1>7. Sorted(es) = Sorted(fs)
  BY <1>1, <1>2, <1>6, SortedOfSet DEF S
<1> QED  BY <1>1, <1>7 DEF BuildTrace

\* A turn in the order of its timestamps, as the builder reads it.
Turn(s, I) ==
    /\ Distinct(s, I)
    /\ \A i, j \in 1..Len(s) : i < j => s[i].ts <= s[j].ts

\* The records of a sorted turn that are about model calls, by position: one
\* call after the other, and of each call requests, the frame, the completion.
LEMMA CallsInOrder ==
    ASSUME NEW I, TurnRecords(I), NEW s, Turn(s, I)
    PROVE  /\ Len(s) \in Nat \ {0} /\ DOMAIN s = 1..Len(s)
           /\ \A i \in 1..Len(s) : s[i] \in I /\ s[i].ts \in Nat /\ s[i].dur \in Nat
           /\ \A i, j \in 1..Len(s) : s[i] = s[j] => i = j
           /\ \A i \in 1..Len(s) : s[i].kind \in {"request"} \cup Completions => s[i].call # 0
           /\ \A i, j \in 1..Len(s) : s[i].call = s[j].call /\ s[i].call # 0 =>
                /\ s[i].kind = "request" /\ s[j].kind \in Completions => i < j
                /\ s[i].kind = "frame" /\ s[j].kind \in {"completion", "failed"} => i < j
                /\ s[i].kind = "frame" /\ s[j].kind = "frame" => i = j
                /\ {s[i].kind, s[j].kind} \subseteq {"completion", "failed"} => i = j
           /\ \A i, j, k \in 1..Len(s) :
                i <= j /\ j <= k /\ s[i].call = s[k].call /\ s[i].call # 0 /\ s[j].call # 0
                  => s[j].call = s[i].call
           /\ \A i, j \in 1..Len(s) :
                /\ s[i].kind = "request" /\ s[j].kind = "request"
                /\ s[i].ts - s[i].dur = s[j].ts - s[j].dur
                => s[i].call = s[j].call
<1> DEFINE n == Len(s)
<1>1. /\ n \in Nat \ {0} /\ DOMAIN s = 1..n
      /\ \A i \in 1..n : s[i] \in I
  BY DistinctFacts DEF Turn
<1>2. \A i, j \in 1..n : s[i] = s[j] => i = j
  BY <1>1 DEF Turn, Distinct
<1>3. \A i, j \in 1..n : i < j => s[i].ts <= s[j].ts
  BY DEF Turn
<1>4. \A i \in 1..n : s[i].ts \in Nat /\ s[i].dur \in Nat
  BY <1>1 DEF TurnRecords
<1>5. Completions \ {"frame"} = {"completion", "failed"}
  BY DEF Completions
<1>6. /\ \A e \in I : e.kind \in {"request"} \cup Completions => e.call # 0
      /\ \A e, f \in I : e.call = f.call /\ e.call # 0 =>
           /\ e.kind = "request" /\ f.kind \in Completions => e.ts < f.ts
           /\ e.kind = "frame" /\ f.kind \in {"completion", "failed"} => e.ts < f.ts
           /\ e.kind = "frame" /\ f.kind = "frame" => e = f
           /\ {e.kind, f.kind} \subseteq {"completion", "failed"} => e = f
      /\ \A e, f, g \in I : e.call = g.call /\ 0 \notin {e.call, f.call} /\ e.ts <= f.ts /\ f.ts <= g.ts
                             => f.call = e.call
      /\ \A e, f \in I : e.kind = "request" /\ f.kind = "request" /\ e.ts - e.dur = f.ts - f.dur
                          => e.call = f.call
  <2>1. ModelCalls(I)
    BY DEF TurnRecords
  <2>2. \A e \in I : e.kind \in {"request"} \cup Completions => e.call # 0
    BY <2>1, Zenon DEF ModelCalls
  <2>3. ASSUME NEW e \in I, NEW f \in I, e.call = f.call /\ e.call # 0
        PROVE  /\ e.kind = "request" /\ f.kind \in Completions => e.ts < f.ts
               /\ e.kind = "frame" /\ f.kind \in {"completion", "failed"} => e.ts < f.ts
               /\ e.kind = "frame" /\ f.kind = "frame" => e = f
               /\ {e.kind, f.kind} \subseteq {"completion", "failed"} => e = f
    <3>1. /\ e.kind = "request" /\ f.kind \in Completions => e.ts < f.ts
          /\ e.kind = "frame" /\ f.kind \in Completions \ {"frame"} => e.ts < f.ts
          /\ e.kind = "frame" /\ f.kind = "frame" => e = f
          /\ {e.kind, f.kind} \subseteq Completions \ {"frame"} => e = f
      BY <2>1, <2>3, Zenon DEF ModelCalls
    <3> QED  BY <3>1, <1>5
  <2>4. \A e, f, g \in I : e.call = g.call /\ 0 \notin {e.call, f.call} /\ e.ts <= f.ts /\ f.ts <= g.ts
                             => f.call = e.call
    BY <2>1, Zenon DEF ModelCalls
  <2>5. \A e, f \in I : e.kind = "request" /\ f.kind = "request" /\ e.ts - e.dur = f.ts - f.dur
                          => e.call = f.call
    BY <2>1, Zenon DEF ModelCalls
  <2> QED  BY <2>2, <2>3, <2>4, <2>5, Zenon
<1> HIDE DEF n
<1>7. \A i, j \in 1..n : s[i].ts < s[j].ts => i < j
  <2> SUFFICES ASSUME NEW i \in 1..n, NEW j \in 1..n, s[i].ts < s[j].ts, ~(i < j) PROVE FALSE
    OBVIOUS
  <2>1. s[i].ts \in Nat /\ s[j].ts \in Nat
    BY <1>4
  <2>2. i = j \/ j < i
    BY <1>1
  <2>3. j < i => s[j].ts <= s[i].ts
    BY <1>3
  <2> QED  BY <2>1, <2>2, <2>3
<1>8. \A i, j \in 1..n : i <= j => s[i].ts <= s[j].ts
  <2> SUFFICES ASSUME NEW i \in 1..n, NEW j \in 1..n, i <= j PROVE s[i].ts <= s[j].ts
    OBVIOUS
  <2>1. i = j \/ i < j
    BY <1>1
  <2>2. i = j => s[i].ts <= s[j].ts
    BY <1>4
  <2>3. i < j => s[i].ts <= s[j].ts
    BY <1>3
  <2> QED  BY <2>1, <2>2, <2>3
<1>9. \A i \in 1..n : s[i].kind \in {"request"} \cup Completions => s[i].call # 0
  BY <1>1, <1>6
<1>10. ASSUME NEW i \in 1..n, NEW j \in 1..n, s[i].call = s[j].call /\ s[i].call # 0
       PROVE  /\ s[i].kind = "request" /\ s[j].kind \in Completions => i < j
              /\ s[i].kind = "frame" /\ s[j].kind \in {"completion", "failed"} => i < j
              /\ s[i].kind = "frame" /\ s[j].kind = "frame" => i = j
              /\ {s[i].kind, s[j].kind} \subseteq {"completion", "failed"} => i = j
  <2>1. s[i] \in I /\ s[j] \in I
    BY <1>1
  <2>2. /\ s[i].kind = "request" /\ s[j].kind \in Completions => s[i].ts < s[j].ts
        /\ s[i].kind = "frame" /\ s[j].kind \in {"completion", "failed"} => s[i].ts < s[j].ts
        /\ s[i].kind = "frame" /\ s[j].kind = "frame" => s[i] = s[j]
        /\ {s[i].kind, s[j].kind} \subseteq {"completion", "failed"} => s[i] = s[j]
    BY <2>1, <1>6, <1>10, Zenon
  <2>3. (s[i].ts < s[j].ts => i < j) /\ (s[i] = s[j] => i = j)
    BY <1>2, <1>7
  <2> QED  BY <2>2, <2>3, Zenon
<1>11. ASSUME NEW i \in 1..n, NEW j \in 1..n, NEW k \in 1..n,
              i <= j /\ j <= k /\ s[i].call = s[k].call /\ s[i].call # 0 /\ s[j].call # 0
       PROVE  s[j].call = s[i].call
  <2>1. s[i] \in I /\ s[j] \in I /\ s[k] \in I
    BY <1>1
  <2>2. s[i].ts <= s[j].ts /\ s[j].ts <= s[k].ts
    BY <1>8, <1>11
  <2>3. 0 \notin {s[i].call, s[j].call}
    BY <1>11
  <2> QED  BY <2>1, <2>2, <2>3, <1>6, <1>11, Zenon
<1>12. ASSUME NEW i \in 1..n, NEW j \in 1..n,
              /\ s[i].kind = "request" /\ s[j].kind = "request"
              /\ s[i].ts - s[i].dur = s[j].ts - s[j].dur
       PROVE  s[i].call = s[j].call
  BY <1>1, <1>6, <1>12, Zenon
<1> QED
  BY <1>1, <1>2, <1>4, <1>9, <1>10, <1>11, <1>12, Zenon DEF n

\* A frame whose call also completed is a duplicate (duplicateFrameCompletions).
LEMMA FrameOfCompletion ==
    ASSUME NEW I, TurnRecords(I), NEW s, Turn(s, I), NEW i \in 1..Len(s), NEW k \in 1..Len(s),
           s[i].kind = "frame", s[k].kind = "completion", s[i].call = s[k].call
    PROVE  Duplicate(s, i)
<1> DEFINE n == Len(s)
<1>1. s[i].kind \in Completions /\ s[k].kind \in Completions
  BY DEF Completions
<1>2. /\ n \in Nat /\ DOMAIN s = 1..n
      /\ \A j \in 1..n : s[j].kind \in {"request"} \cup Completions => s[j].call # 0
  BY CallsInOrder
<1>3. s[i].call # 0
  BY <1>1, <1>2
<1>4. i < k
  BY <1>3, CallsInOrder
<1>5. ASSUME NEW l \in (i + 1)..(k - 1), s[l].kind \in Completions PROVE FALSE
  <2>1. l \in 1..n /\ i <= l /\ l <= k /\ l # i /\ l # k
    BY <1>2
  <2>2. s[l].call # 0
    BY <2>1, <1>2, <1>5
  <2>3. s[l].call = s[i].call
    BY <2>1, <2>2, <1>3, CallsInOrder
  <2>4. CASE s[l].kind = "frame"
    BY <2>1, <2>3, <2>4, <1>3, CallsInOrder
  <2>5. CASE s[l].kind \in {"completion", "failed"}
    <3>1. /\ s[l].call = s[k].call /\ s[l].call # 0
          /\ {s[l].kind, s[k].kind} \subseteq {"completion", "failed"}
      BY <2>2, <2>3, <2>5
    <3> QED  BY <2>1, <3>1, CallsInOrder
  <2> QED  BY <2>4, <2>5, <1>5 DEF Completions
<1> QED
  BY <1>2, <1>4, <1>5 DEF Duplicate

\* A frame alone describes its call: the next completion is not of another one,
\* because a completion has its own frame before it and all records came.
LEMMA FrameAlone ==
    ASSUME NEW I, TurnRecords(I), NEW s, Turn(s, I), ToSet(s) = I, NEW i \in 1..Len(s),
           s[i].kind = "frame",
           \A k \in 1..Len(s) : s[k].kind = "completion" => s[k].call # s[i].call
    PROVE  DescribesCall(s, i)
<1> DEFINE n == Len(s)
<1>1. /\ n \in Nat /\ DOMAIN s = 1..n
      /\ \A j \in 1..n : s[j].kind \in {"request"} \cup Completions => s[j].call # 0
  BY CallsInOrder
<1>2. \A f \in I : \E l \in 1..n : s[l] = f
  BY DistinctFacts DEF Turn
<1> SUFFICES ASSUME Duplicate(s, i) PROVE FALSE
  BY DEF DescribesCall
<1>3. PICK j \in 1..n : /\ i < j /\ s[j].kind = "completion"
                        /\ \A k \in (i + 1)..(j - 1) : s[k].kind \notin Completions
  BY <1>1 DEF Duplicate
<1>4. s[i].call # 0 /\ s[j].call # 0
  BY <1>1, <1>3 DEF Completions
<1>5. PICK f \in I : f.kind = "frame" /\ f.call = s[j].call
  <2>1. s[j] \in I
    BY CallsInOrder
  <2>2. \A e \in I : e.kind = "completion" => \E f \in I : f.kind = "frame" /\ f.call = e.call
    BY Zenon DEF TurnRecords, ModelCalls
  <2> QED  BY <2>1, <2>2, <1>3, Zenon
<1>6. PICK l \in 1..n : s[l] = f
  BY <1>2
<1>7. s[l].kind = "frame" /\ s[l].call = s[j].call /\ s[l].call # 0
  BY <1>4, <1>5, <1>6
<1>8. l < j
  <2>1. s[j].kind \in {"completion", "failed"}
    BY <1>3
  <2> QED  BY <2>1, <1>7, CallsInOrder
<1>9. l <= i
  <2>1. l \notin (i + 1)..(j - 1)
    BY <1>3, <1>7 DEF Completions
  <2>2. i \in Int /\ j \in Int /\ l \in Int
    OBVIOUS
  <2> QED  BY <2>1, <2>2, <1>8
<1>10. s[i].call = s[l].call
  <2>1. i <= j
    BY <1>1, <1>3
  <2> QED  BY <2>1, <1>4, <1>7, <1>9, CallsInOrder
<1> QED  BY <1>3, <1>7, <1>10

\* Two positions that describe a call do not describe the same one.
LEMMA CallDescribedOnce ==
    ASSUME NEW I, TurnRecords(I), NEW s, Turn(s, I), NEW i \in 1..Len(s), NEW k \in 1..Len(s),
           DescribesCall(s, i), DescribesCall(s, k), s[i].call = s[k].call
    PROVE  i = k
<1>1. s[i].kind \in {"frame", "completion"} /\ s[k].kind \in {"frame", "completion"}
  BY DEF DescribesCall
<1>2. s[i].call # 0
  <2>1. s[i].kind \in {"request"} \cup Completions
    BY <1>1 DEF Completions
  <2> QED  BY <2>1, CallsInOrder
<1>3. CASE s[i].kind = "frame" /\ s[k].kind = "frame"
  BY <1>2, <1>3, CallsInOrder
<1>4. CASE s[i].kind = "completion" /\ s[k].kind = "completion"
  <2>1. {s[i].kind, s[k].kind} \subseteq {"completion", "failed"}
    BY <1>4
  <2> QED  BY <2>1, <1>2, CallsInOrder
<1>5. CASE s[i].kind = "frame" /\ s[k].kind = "completion"
  BY <1>5, FrameOfCompletion DEF DescribesCall
<1>6. CASE s[i].kind = "completion" /\ s[k].kind = "frame"
  BY <1>6, FrameOfCompletion DEF DescribesCall
<1> QED  BY <1>1, <1>3, <1>4, <1>5, <1>6

\* The chat spans of a trace and the records they are of.
LEMMA ChatsOf ==
    ASSUME NEW s, DOMAIN s = 1..Len(s), NEW u
    PROVE  u \in ChatsIn(TraceOf(s))
             <=> \E i \in 1..Len(s) : DescribesCall(s, i) /\ u = Chat(s, i)
<1>1. \A i : Chat(s, i).kind = "chat" /\ Tool(s, i).kind = "tool"
  BY DEF Chat, Tool
<1>2. TraceOf(s).spans = Chats(s) \cup Tools(s)
  BY DEF TraceOf
<1>3. u \in Chats(s) <=> \E i \in 1..Len(s) : DescribesCall(s, i) /\ u = Chat(s, i)
  BY DEF Chats
<1>4. u \in Tools(s) => \E i \in 1..Len(s) : u = Tool(s, i)
  BY DEF Tools
<1> QED  BY <1>1, <1>2, <1>3, <1>4 DEF ChatsIn

\* What a trace shows of a call are the positions that describe it.
LEMMA ShownAs ==
    ASSUME TurnRecords(sent.items), NEW s, Turn(s, sent.items), NEW c, NEW u
    PROVE  u \in Shown(TraceOf(s), c)
             <=> \E i \in 1..Len(s) : DescribesCall(s, i) /\ s[i].call = c /\ u = Chat(s, i)
<1>1. DOMAIN s = 1..Len(s) /\ \A i \in 1..Len(s) : s[i] \in sent.items
  BY CallsInOrder
<1>2. \A i \in 1..Len(s) : Record(Chat(s, i).of) = s[i]
  <2> SUFFICES ASSUME NEW i \in 1..Len(s) PROVE Record(Chat(s, i).of) = s[i]
    OBVIOUS
  <2>1. Chat(s, i).of = s[i].n
    BY DEF Chat
  <2>2. \A e, f \in sent.items : e.n = f.n => e = f
    BY DEF TurnRecords
  <2>3. s[i] \in sent.items
    BY <1>1
  <2> QED  BY <2>1, <2>2, <2>3 DEF Record
<1>3. u \in ChatsIn(TraceOf(s))
        <=> \E i \in 1..Len(s) : DescribesCall(s, i) /\ u = Chat(s, i)
  BY <1>1, ChatsOf
<1> QED  BY <1>2, <1>3, Zenon DEF Shown

\* No call is shown twice.
LEMMA NoCallTwiceOf ==
    ASSUME TurnRecords(sent.items), NEW s, Turn(s, sent.items), NEW c
    PROVE  /\ Cardinality(Shown(TraceOf(s), c)) <= 1
           /\ Shown(TraceOf(s), c) # {} => Cardinality(Shown(TraceOf(s), c)) = 1
<1> DEFINE T == Shown(TraceOf(s), c)
<1>1. \A u, v \in T : u = v
  <2> SUFFICES ASSUME NEW u \in T, NEW v \in T PROVE u = v
    OBVIOUS
  <2>1. PICK i \in 1..Len(s) : DescribesCall(s, i) /\ s[i].call = c /\ u = Chat(s, i)
    BY ShownAs
  <2>2. PICK k \in 1..Len(s) : DescribesCall(s, k) /\ s[k].call = c /\ v = Chat(s, k)
    BY ShownAs
  <2>3. i = k
    BY <2>1, <2>2, CallDescribedOnce
  <2> QED  BY <2>1, <2>2, <2>3
<1> HIDE DEF T
<1>2. T = {} \/ \E u : T = {u}
  BY <1>1
<1>3. T # {} => Cardinality(T) = 1
  BY <1>2, FS_Singleton
<1>4. T = {} => Cardinality(T) = 0
  BY FS_EmptySet
<1> QED  BY <1>3, <1>4 DEF T

\* Of a whole turn every call that completed is shown.
LEMMA CompletedIsShown ==
    ASSUME TurnRecords(sent.items), NEW s, Turn(s, sent.items), ToSet(s) = sent.items,
           NEW c \in CompletedCalls
    PROVE  Shown(TraceOf(s), c) # {}
<1>1. PICK r \in sent.items : r.kind \in {"frame", "completion"} /\ r.call = c
  BY DEF CompletedCalls
<1>2. PICK i \in 1..Len(s) : s[i] = r
  BY DistinctFacts DEF Turn
<1>3. ASSUME NEW k \in 1..Len(s), s[k].kind = "completion", s[k].call = c
      PROVE  Shown(TraceOf(s), c) # {}
  <2>1. DescribesCall(s, k)
    BY <1>3 DEF DescribesCall, Duplicate
  <2> QED  BY <2>1, <1>3, ShownAs
<1>4. ASSUME \A k \in 1..Len(s) : s[k].kind = "completion" => s[k].call # c
      PROVE  Shown(TraceOf(s), c) # {}
  <2>1. s[i].kind = "frame" /\ s[i].call = c
    BY <1>1, <1>2, <1>4
  <2>2. DescribesCall(s, i)
    BY <2>1, <1>4, FrameAlone
  <2> QED  BY <2>1, <2>2, ShownAs
<1> QED  BY <1>3, <1>4

\* Both hold of every trace in the backend.
LEMMA CallsShownOnceInv ==
    ASSUME Inv, \A b : Normalize("codex logs", b) = CodexLogsNormalize(b)
    PROVE  CallsShownOnce
<1>1. ASSUME NEW x \in From("codex logs")
      PROVE  /\ TurnRecords(sent.items)
             /\ Turn(Sorted(x.batch[1]), sent.items)
             /\ ToSet(Sorted(x.batch[1])) = ToSet(x.batch[1])
             /\ x.out = TraceOf(Sorted(x.batch[1]))
  BY <1>1, CodexTurn, SortedTurn DEF Turn
<1>2. NoCallTwice
  BY <1>1, NoCallTwiceOf DEF NoCallTwice, OfTurns
<1>3. OneChatPerCall
  BY <1>1, NoCallTwiceOf, CompletedIsShown DEF OneChatPerCall, OfTurns
<1> QED  BY <1>2, <1>3 DEF CallsShownOnce

\* The values of a function on a finite set are finitely many.
LEMMA FiniteImage ==
    ASSUME NEW S, IsFiniteSet(S), NEW f
    PROVE  IsFiniteSet({f[x] : x \in S})
<1> DEFINE T == {f[x] : x \in S}
           g == [x \in S |-> f[x]]
<1>1. g \in Surjection(S, T)
  <2>1. \A x \in S : f[x] \in T
    OBVIOUS
  <2>2. \A y \in T : \E x \in S : f[x] = y
    OBVIOUS
  <2> HIDE DEF T
  <2> QED  BY <2>1, <2>2, Fun_IsSurj
<1> HIDE DEF g, T
<1> QED  BY <1>1, FS_Surjection DEF T

\* The bounds of a turn are around everything in it (turnBounds).
LEMMA TurnBoundsHold ==
    ASSUME NEW I, TurnRecords(I), NEW s, Turn(s, I)
    PROVE  /\ TurnStart(s) \in Int /\ TurnBounds(s).start = TurnStart(s)
           /\ \A i \in 1..Len(s) : /\ TurnStart(s) <= s[i].ts
                                   /\ TurnStart(s) <= s[i].ts - s[i].dur
                                   /\ s[i].ts <= TurnBounds(s).end
<1> DEFINE n == Len(s)
           S == ToSet(s)
           A == {e.ts : e \in S}
           B == {e.ts - e.dur : e \in S}
<1>1. n \in Nat \ {0} /\ \A i \in 1..n : s[i].ts \in Nat /\ s[i].dur \in Nat
  BY CallsInOrder
<1>2. /\ IsFiniteSet(S) /\ S \subseteq I
      /\ \A i \in 1..n : s[i] \in S
  BY DistinctFacts DEF Turn
<1>3. \A e \in S : e.ts \in Nat /\ e.dur \in Nat
  BY <1>2 DEF TurnRecords
<1>4. s[1] \in S
  BY FirstOf DEF Turn
<1> DEFINE start == CHOOSE t \in A \cup B : \A u \in A \cup B : t <= u
           end == CHOOSE t \in A : \A u \in A : t >= u
<1>5. TurnStart(s) = start /\ TurnBounds(s).start = start /\ TurnBounds(s).end = end
  BY DEF TurnStart, TurnBounds
<1> HIDE DEF S, n
<1>6. IsFiniteSet(A) /\ A \in SUBSET Int /\ A # {}
  <2>1. IsFiniteSet(A)
    <3> DEFINE f == [e \in S |-> e.ts]
    <3>1. A = {f[e] : e \in S}
      OBVIOUS
    <3> HIDE DEF A, f
    <3> QED  BY <3>1, <1>2, FiniteImage
  <2> QED  BY <2>1, <1>3, <1>4
<1>7. IsFiniteSet(B) /\ B \in SUBSET Int
  <2>1. IsFiniteSet(B)
    <3> DEFINE f == [e \in S |-> e.ts - e.dur]
    <3>1. B = {f[e] : e \in S}
      OBVIOUS
    <3> HIDE DEF B, f
    <3> QED  BY <3>1, <1>2, FiniteImage
  <2> QED  BY <2>1, <1>3
<1>8. \A e \in S : e.ts \in A /\ e.ts - e.dur \in B
  OBVIOUS
<1> HIDE DEF A, B
<1>9. IsFiniteSet(A \cup B) /\ A \cup B \in SUBSET Int /\ A \cup B # {}
  BY <1>6, <1>7, FS_Union
<1>10. \E t \in A \cup B : \A u \in A \cup B : t <= u
  BY <1>9, LeastNumber
<1>11. start \in A \cup B /\ \A u \in A \cup B : start <= u
  BY <1>10
<1>12. \E t \in A : \A u \in A : t >= u
  BY <1>6, GreatestNumber
<1>13. end \in A /\ \A u \in A : end >= u
  BY <1>12
<1> HIDE DEF start, end
<1>14. start \in Int /\ end \in Int
  BY <1>6, <1>9, <1>11, <1>13
<1>15. ASSUME NEW i \in 1..n
       PROVE  start <= s[i].ts /\ start <= s[i].ts - s[i].dur /\ s[i].ts <= end
  <2>1. s[i].ts \in A /\ s[i].ts - s[i].dur \in B
    BY <1>2, <1>8
  <2>2. start <= s[i].ts /\ start <= s[i].ts - s[i].dur /\ end >= s[i].ts
    BY <2>1, <1>11, <1>13
  <2> QED  BY <2>2, <1>1, <1>14
<1> QED  BY <1>5, <1>14, <1>15 DEF n

\* The bounds of a chat span, and the request it starts with.
LEMMA ChatBounds ==
    ASSUME NEW I, TurnRecords(I), NEW s, Turn(s, I), NEW i \in 1..Len(s)
    PROVE  /\ Chat(s, i).end = s[i].ts
           /\ \/ RequestOf(s, i) = {} /\ Chat(s, i).start = TurnStart(s)
              \/ \E j \in RequestOf(s, i) :
                   /\ j \in 1..Len(s) /\ j < i /\ s[j].kind = "request"
                   /\ Chat(s, i).start = s[j].ts - s[j].dur
                   /\ s[j].ts - s[j].dur <= s[i].ts
<1>1. Chat(s, i).end = s[i].ts
  BY DEF Chat
<1>2. CASE RequestOf(s, i) = {}
  <2>1. Chat(s, i).start = TurnStart(s)
    BY <1>2 DEF Chat
  <2> QED  BY <1>1, <1>2, <2>1
<1>3. CASE RequestOf(s, i) # {}
  <2> DEFINE j == CHOOSE k \in RequestOf(s, i) : TRUE
  <2>1. Chat(s, i).start = Least(s[j].ts - s[j].dur, s[i].ts)
    BY <1>3 DEF Chat
  <2>2. j \in RequestOf(s, i)
    BY <1>3
  <2> HIDE DEF j
  <2>3. j \in 1..(i - 1) /\ s[j].kind = "request"
    BY <2>2 DEF RequestOf
  <2>4. Len(s) \in Nat
    BY CallsInOrder
  <2>5. j \in 1..Len(s) /\ j < i
    BY <2>3, <2>4
  <2>6. s[j].ts <= s[i].ts
    BY <2>5 DEF Turn
  <2>7. s[j].ts \in Nat /\ s[j].dur \in Nat /\ s[i].ts \in Nat
    BY <2>5, CallsInOrder
  <2>8. s[j].ts - s[j].dur <= s[i].ts
    BY <2>6, <2>7
  <2>9. Chat(s, i).start = s[j].ts - s[j].dur
    BY <2>1, <2>8 DEF Least
  <2> QED  BY <1>1, <2>2, <2>3, <2>5, <2>8, <2>9
<1> QED  BY <1>2, <1>3

\* The root covers its spans, and none ends before it starts.
LEMMA RootCovers ==
    ASSUME NEW I, TurnRecords(I), NEW s, Turn(s, I), NEW u \in TraceOf(s).spans
    PROVE  TraceOf(s).start <= u.start /\ u.start <= u.end /\ u.end <= TraceOf(s).end
<1>1. /\ TraceOf(s).start = TurnBounds(s).start /\ TraceOf(s).end = TurnBounds(s).end
      /\ TraceOf(s).spans = Chats(s) \cup Tools(s)
  BY DEF TraceOf
<1>2. DOMAIN s = 1..Len(s) /\ \A i \in 1..Len(s) : s[i].ts \in Nat /\ s[i].dur \in Nat
  BY CallsInOrder
<1>3. /\ TurnStart(s) \in Int /\ TurnBounds(s).start = TurnStart(s)
      /\ \A i \in 1..Len(s) : /\ TurnStart(s) <= s[i].ts
                              /\ TurnStart(s) <= s[i].ts - s[i].dur
                              /\ s[i].ts <= TurnBounds(s).end
  BY TurnBoundsHold
<1>4. CASE u \in Chats(s)
  <2>1. PICK i \in 1..Len(s) : u = Chat(s, i)
    BY <1>2, <1>4 DEF Chats
  <2>2. /\ u.end = s[i].ts
        /\ \/ u.start = TurnStart(s)
           \/ \E j \in 1..Len(s) : u.start = s[j].ts - s[j].dur /\ s[j].ts - s[j].dur <= s[i].ts
    BY <2>1, ChatBounds
  <2>3. TurnStart(s) <= u.start /\ u.start <= s[i].ts
    <3>1. CASE u.start = TurnStart(s)
      BY <3>1, <1>3
    <3>2. CASE \E j \in 1..Len(s) : u.start = s[j].ts - s[j].dur /\ s[j].ts - s[j].dur <= s[i].ts
      BY <3>2, <1>3
    <3> QED  BY <2>2, <3>1, <3>2
  <2> QED  BY <1>1, <1>3, <2>2, <2>3
<1>5. CASE u \in Tools(s)
  <2>1. PICK i \in 1..Len(s) : u = Tool(s, i)
    BY <1>2, <1>5 DEF Tools
  <2>2. u.start = s[i].ts - s[i].dur /\ u.end = s[i].ts
    BY <2>1 DEF Tool
  <2>3. s[i].ts - s[i].dur <= s[i].ts
    BY <1>2
  <2> QED  BY <1>1, <1>3, <2>2, <2>3
<1> QED  BY <1>1, <1>4, <1>5

\* The request a chat span starts with is its own, or of a call that is not shown.
LEMMA OwnRequest ==
    ASSUME TurnRecords(sent.items), NEW s, Turn(s, sent.items), NEW u \in ChatsIn(TraceOf(s)),
           NEW e \in ToSet(s), e.kind = "request", u.start = e.ts - e.dur,
           u.start # TraceOf(s).start
    PROVE  \/ e.call = Record(u.of).call
           \/ Shown(TraceOf(s), e.call) = {}
<1> DEFINE I == sent.items
<1>1. DOMAIN s = 1..Len(s) /\ \A i \in 1..Len(s) : s[i] \in I
  BY CallsInOrder
<1>2. PICK i \in 1..Len(s) : DescribesCall(s, i) /\ u = Chat(s, i)
  BY <1>1, ChatsOf
<1>3. u \in Shown(TraceOf(s), s[i].call)
  BY <1>2, ShownAs
<1>4. Record(u.of).call = s[i].call
  BY <1>3 DEF Shown
<1>5. TraceOf(s).start = TurnStart(s)
  <2>1. TraceOf(s).start = TurnBounds(s).start
    BY DEF TraceOf
  <2> QED  BY <2>1, TurnBoundsHold
<1>6. PICK j \in RequestOf(s, i) : /\ j \in 1..Len(s) /\ j < i /\ s[j].kind = "request"
                                   /\ u.start = s[j].ts - s[j].dur
  BY <1>2, <1>5, ChatBounds
<1>7. PICK m \in 1..Len(s) : s[m] = e
  BY DistinctFacts DEF Turn
<1>8. s[m].call = s[j].call
  BY <1>6, <1>7, CallsInOrder
<1> SUFFICES ASSUME e.call # s[i].call, NEW v \in Shown(TraceOf(s), e.call) PROVE FALSE
  BY <1>4
<1>9. PICK k \in 1..Len(s) : DescribesCall(s, k) /\ s[k].call = e.call
  BY ShownAs
<1>10. s[j].call = s[k].call /\ s[j].call # s[i].call
  BY <1>7, <1>8, <1>9
<1>11. s[i].kind \in Completions /\ s[k].kind \in Completions
  BY <1>2, <1>9 DEF DescribesCall, Completions
<1>12. s[i].call # 0 /\ s[j].call # 0
  BY <1>6, <1>11, CallsInOrder
<1>13. j < k
  BY <1>6, <1>10, <1>11, <1>12, CallsInOrder
<1>14. k \notin (j + 1)..(i - 1)
  <2>1. \A l \in (j + 1)..(i - 1) : ~DescribesCall(s, l)
    BY <1>6 DEF RequestOf
  <2> QED  BY <2>1, <1>9
<1>15. i <= k /\ j <= i
  <2>1. i \in Int /\ j \in Int /\ k \in Int
    BY <1>6
  <2> QED  BY <2>1, <1>6, <1>13, <1>14
<1>16. j \in 1..Len(s)
  BY <1>6
<1>17. s[i].call = s[j].call
  BY <1>16, <1>10, <1>12, <1>15, CallsInOrder
<1> QED  BY <1>10, <1>17

\* Both hold of every trace in the backend.
LEMMA BoundsSoundInv ==
    ASSUME Inv, \A b : Normalize("codex logs", b) = CodexLogsNormalize(b)
    PROVE  BoundsSound
<1>1. ASSUME NEW x \in From("codex logs")
      PROVE  /\ TurnRecords(sent.items)
             /\ Turn(Sorted(x.batch[1]), sent.items)
             /\ ToSet(Sorted(x.batch[1])) = ToSet(x.batch[1])
             /\ x.out = TraceOf(Sorted(x.batch[1]))
  BY <1>1, CodexTurn, SortedTurn DEF Turn
<1>2. RootCoversSpans
  BY <1>1, RootCovers DEF RootCoversSpans, OfTurns
<1>3. StartsWithOwnRequest
  <2> SUFFICES ASSUME NEW x \in From("codex logs"), NEW u \in ChatsIn(x.out),
                      NEW e \in ToSet(x.batch[1]),
                      e.kind = "request" /\ u.start = e.ts - e.dur /\ u.start # x.out.start
               PROVE  \/ e.call = Record(u.of).call
                      \/ Shown(x.out, e.call) = {}
    BY DEF StartsWithOwnRequest, OfTurns
  <2> DEFINE s == Sorted(x.batch[1])
  <2>1. /\ TurnRecords(sent.items) /\ Turn(s, sent.items)
        /\ e \in ToSet(s) /\ x.out = TraceOf(s)
    BY <1>1
  <2> HIDE DEF s
  <2> QED  BY <2>1, OwnRequest
<1> QED  BY <1>2, <1>3 DEF BoundsSound

\* Whatever a turn logs, its model calls being sequential, and in whatever order
\* and however incompletely the records come: no model call has two chat spans, and
\* of a turn that came whole each call that completed has one (describesModelCall,
\* duplicateFrameCompletions).
THEOREM ModelCallsShownOnce ==
    ASSUME \A b : Normalize("codex logs", b) = CodexLogsNormalize(b)
    PROVE  Spec => []CallsShownOnce
<1>1. Inv => CallsShownOnce
  BY CallsShownOnceInv
<1> QED  BY <1>1, Invariant, PTL

\* However incomplete a turn: the root covers its spans, no span ends before it
\* starts, and a chat span never starts with the request of another call that is
\* shown (turnBounds, appendChatSpans).
THEOREM SpanBoundsSound ==
    ASSUME \A b : Normalize("codex logs", b) = CodexLogsNormalize(b)
    PROVE  Spec => []BoundsSound
<1>1. Inv => BoundsSound
  BY BoundsSoundInv
<1> QED  BY <1>1, Invariant, PTL

\* Where timestamps differ, the trace of a turn is a function of the set of its
\* records: no order of arrival changes a span or an id (buildTrace).
THEOREM TraceOfRecords ==
    ASSUME \A b : Normalize("codex logs", b) = CodexLogsNormalize(b)
    PROVE  Spec => []ArrivalOrderIrrelevant
<1>1. Inv => ArrivalOrderIrrelevant
  BY ArrivalOrderIrrelevantInv
<1> QED  BY <1>1, Invariant, PTL
-----------------------------------------------------------------------------
(* Concatenated groups *)

\* The elements of a concatenation.
LEMMA ConcatFacts ==
    ASSUME NEW I, NEW p \in Seq(I), NEW q \in Seq(I)
    PROVE  p \o q \in Seq(I) /\ ToSet(p \o q) = ToSet(p) \cup ToSet(q)
<1>1. p \o q \in Seq(I)
  OBVIOUS
<1>2. /\ Len(p) \in Nat /\ Len(q) \in Nat /\ Len(p \o q) = Len(p) + Len(q)
      /\ DOMAIN p = 1..Len(p) /\ DOMAIN q = 1..Len(q) /\ DOMAIN (p \o q) = 1..(Len(p) + Len(q))
  OBVIOUS
<1>3. \A i \in 1..(Len(p) + Len(q)) :
        (p \o q)[i] = IF i <= Len(p) THEN p[i] ELSE q[i - Len(p)]
  BY ConcatProperties
<1> DEFINE m == Len(p)
           n == Len(q)
           r == p \o q
<1> HIDE DEF m, n, r
<1>4. ToSet(r) = {r[i] : i \in 1..(m + n)} /\ ToSet(p) = {p[i] : i \in 1..m}
      /\ ToSet(q) = {q[i] : i \in 1..n}
  BY <1>2 DEF ToSet, r, m, n
<1>5. \A i \in 1..(m + n) : r[i] = IF i <= m THEN p[i] ELSE q[i - m]
  BY <1>3 DEF r, m, n
<1>6. m \in Nat /\ n \in Nat
  BY <1>2 DEF m, n
<1>7. ASSUME NEW i \in 1..(m + n) PROVE r[i] \in ToSet(p) \cup ToSet(q)
  <2>1. CASE i <= m
    <3>1. i \in 1..m
      BY <2>1, <1>6
    <3> QED  BY <2>1, <3>1, <1>4, <1>5
  <2>2. CASE ~(i <= m)
    <3>1. i - m \in 1..n
      BY <2>2, <1>6
    <3> QED  BY <2>2, <3>1, <1>4, <1>5
  <2> QED  BY <2>1, <2>2
<1>8. ASSUME NEW i \in 1..m PROVE p[i] \in ToSet(r)
  <2>1. i \in 1..(m + n) /\ i <= m
    BY <1>6
  <2> QED  BY <2>1, <1>4, <1>5
<1>9. ASSUME NEW i \in 1..n PROVE q[i] \in ToSet(r)
  <2>1. m + i \in 1..(m + n) /\ ~(m + i <= m) /\ (m + i) - m = i
    BY <1>6
  <2>2. r[m + i] = q[i]
    BY <2>1, <1>5
  <2> QED  BY <2>1, <2>2, <1>4
<1>10. ToSet(r) = ToSet(p) \cup ToSet(q)
  BY <1>4, <1>7, <1>8, <1>9
<1> QED  BY <1>1, <1>10 DEF r

\* f concatenates the first groups of b, up to each of them.
IsFlatten(f, b, m) == f = [i \in 1..m |-> IF i = 1 THEN b[i] ELSE f[i - 1] \o b[i]]

\* There is such a function: a step of induction for every group.
LEMMA FlattenExists ==
    ASSUME NEW b, NEW n \in Nat
    PROVE  \E f : IsFlatten(f, b, n)
<1> DEFINE K == {m \in Nat : \E f : IsFlatten(f, b, m)}
<1>1. 0 \in K
  <2> DEFINE f == [i \in 1..0 |-> b]
  <2>1. IsFlatten(f, b, 0)
    BY DEF IsFlatten
  <2> HIDE DEF f
  <2> QED  BY <2>1
<1>2. ASSUME NEW m \in Nat, m \in K PROVE m + 1 \in K
  <2>1. PICK f : IsFlatten(f, b, m)
    BY <1>2
  <2>2. \A i \in 1..m : f[i] = IF i = 1 THEN b[i] ELSE f[i - 1] \o b[i]
    BY <2>1 DEF IsFlatten
  <2> DEFINE last == IF m + 1 = 1 THEN b[m + 1] ELSE f[m] \o b[m + 1]
             g == [i \in 1..(m + 1) |-> IF i = m + 1 THEN last ELSE f[i]]
  <2>3. g[m + 1] = last /\ \A i \in 1..m : g[i] = f[i]
    <3> HIDE DEF last
    <3>1. m + 1 \in 1..(m + 1) /\ \A i \in 1..m : i \in 1..(m + 1) /\ i # m + 1
      OBVIOUS
    <3> QED  BY <3>1
  <2>4. ASSUME NEW i \in 1..(m + 1)
        PROVE  (IF i = m + 1 THEN last ELSE f[i]) = (IF i = 1 THEN b[i] ELSE g[i - 1] \o b[i])
    <3>1. CASE i = m + 1
      <4>1. CASE m = 0
        BY <3>1, <4>1
      <4>2. CASE m # 0
        <5>1. m \in 1..m /\ i # 1 /\ i - 1 = m
          BY <3>1, <4>2
        <5>2. g[i - 1] = f[m]
          BY <5>1, <2>3
        <5> HIDE DEF g
        <5> QED  BY <3>1, <5>1, <5>2
      <4> QED  BY <4>1, <4>2
    <3>2. CASE i # m + 1
      <4>1. i \in 1..m
        BY <3>2
      <4>2. CASE i = 1
        BY <4>1, <4>2, <3>2, <2>2
      <4>3. CASE i # 1
        <5>1. i - 1 \in 1..m
          BY <4>1, <4>3
        <5>2. g[i - 1] = f[i - 1]
          BY <5>1, <2>3
        <5> HIDE DEF g, last
        <5> QED  BY <4>1, <4>3, <5>2, <3>2, <2>2
      <4> QED  BY <4>2, <4>3
    <3> QED  BY <3>1, <3>2
  <2>5. IsFlatten(g, b, m + 1)
    <3> DEFINE h == [i \in 1..(m + 1) |-> IF i = 1 THEN b[i] ELSE g[i - 1] \o b[i]]
    <3>1. g = h
      BY <2>4, Zenon
    <3> QED  BY <3>1 DEF IsFlatten
  <2> HIDE DEF g
  <2> QED  BY <2>5
<1> HIDE DEF K
<1>3. Nat \subseteq K
  BY <1>1, <1>2, NatSetInduction
<1> QED  BY <1>3 DEF K

\* The elements of the concatenated groups are those of the groups.
LEMMA FlattenFacts ==
    ASSUME NEW I, NEW b \in Seq(Seq(I))
    PROVE  FlattenSeq(b) \in Seq(I) /\ ToSet(FlattenSeq(b)) = ItemsOf(b)
<1> DEFINE n == Len(b)
           f == CHOOSE g : g = [i \in 1..n |-> IF i = 1 THEN b[i] ELSE g[i - 1] \o b[i]]
<1>1. n \in Nat /\ DOMAIN b = 1..n /\ \A i \in 1..n : b[i] \in Seq(I)
  OBVIOUS
<1>2. FlattenSeq(b) = IF n = 0 THEN b ELSE f[n]
  BY DEF FlattenSeq
<1> HIDE DEF n
<1>3. IsFlatten(f, b, n)
  <2>1. \E g : IsFlatten(g, b, n)
    BY <1>1, FlattenExists
  <2>2. \E g : g = [i \in 1..n |-> IF i = 1 THEN b[i] ELSE g[i - 1] \o b[i]]
    BY <2>1, Zenon DEF IsFlatten
  <2> QED  BY <2>2, Zenon DEF IsFlatten
<1> HIDE DEF f
<1>4. \A i \in 1..n : f[i] = IF i = 1 THEN b[i] ELSE f[i - 1] \o b[i]
  BY <1>3 DEF IsFlatten
<1> DEFINE Upto(m) == UNION {ToSet(b[k]) : k \in 1..m}
           K == {m \in Nat : m \in 1..n => f[m] \in Seq(I) /\ ToSet(f[m]) = Upto(m)}
<1>5. 0 \in K
  OBVIOUS
<1>6. ASSUME NEW m \in Nat, m \in K PROVE m + 1 \in K
  <2> SUFFICES ASSUME m + 1 \in 1..n
               PROVE  f[m + 1] \in Seq(I) /\ ToSet(f[m + 1]) = Upto(m + 1)
    OBVIOUS
  <2>1. Upto(m + 1) = Upto(m) \cup ToSet(b[m + 1])
    <3>1. \A k : k \in 1..(m + 1) <=> k \in 1..m \/ k = m + 1
      OBVIOUS
    <3> QED  BY <3>1
  <2>2. CASE m = 0
    <3>1. f[m + 1] = b[m + 1]
      BY <2>2, <1>4
    <3>2. Upto(0) = {}
      OBVIOUS
    <3> QED  BY <2>1, <2>2, <3>1, <3>2, <1>1
  <2>3. CASE m # 0
    <3>1. m \in 1..n /\ m + 1 # 1 /\ (m + 1) - 1 = m
      BY <2>3, <1>1
    <3>2. f[m + 1] = f[m] \o b[m + 1]
      BY <3>1, <1>4
    <3>3. f[m] \in Seq(I) /\ ToSet(f[m]) = Upto(m)
      BY <3>1, <1>6
    <3>4. b[m + 1] \in Seq(I)
      BY <1>1
    <3> HIDE DEF Upto
    <3>5. /\ f[m] \o b[m + 1] \in Seq(I)
          /\ ToSet(f[m] \o b[m + 1]) = ToSet(f[m]) \cup ToSet(b[m + 1])
      BY <3>3, <3>4, ConcatFacts
    <3> QED  BY <2>1, <3>2, <3>3, <3>5
  <2> QED  BY <2>2, <2>3
<1>7. Nat \subseteq K
  <2> HIDE DEF K
  <2> QED  BY <1>5, <1>6, NatSetInduction
<1>8. CASE n = 0
  <2>1. FlattenSeq(b) = b /\ b = <<>>
    BY <1>8, <1>1, <1>2 DEF n
  <2>2. DOMAIN b = {}
    BY <1>1, <1>8
  <2>3. ToSet(b) = {} /\ ItemsOf(b) = {}
    BY <2>2 DEF ToSet, ItemsOf
  <2> QED  BY <2>1, <2>3
<1>9. CASE n # 0
  <2>1. n \in 1..n
    BY <1>1, <1>9
  <2>2. n \in 1..n /\ n \in K
    <3> HIDE DEF K
    <3> QED  BY <2>1, <1>1, <1>7
  <2>3. f[n] \in Seq(I) /\ ToSet(f[n]) = Upto(n)
    BY <2>2
  <2>4. Upto(n) = ItemsOf(b)
    BY <1>1 DEF ItemsOf
  <2> QED  BY <1>2, <1>9, <2>3, <2>4
<1> QED  BY <1>8, <1>9
-----------------------------------------------------------------------------
(* Native Codex traces *)

\* What is in the backend of a batch is what the edge made of it.
LEMMA TogetherIs ==
    ASSUME Inv, NEW e, NEW x \in From(e)
    PROVE  /\ sent.edge = e /\ sent \in Sent /\ x.batch \in Seq(Seq(sent.items))
           /\ x.out \in Normalize(e, x.batch)
           /\ Together(x) = Normalize(e, x.batch)
           /\ Together(x) \subseteq Outputs(e)
<1>1. sent.edge = e /\ x \in backend /\ From(e) = backend
  BY DEF From
<1>2. \A y \in backend : /\ y.out \in Normalize(e, y.batch)
                         /\ \A o \in Normalize(e, y.batch) :
                              [batch |-> y.batch, out |-> o] \in backend
  BY <1>1 DEF Inv, Delivered
<1>3. x.batch \in Seq(Seq(sent.items)) /\ sent \in Sent
  BY <1>1 DEF Inv, IsBatch, Grouped
<1>4. ASSUME NEW o \in Together(x) PROVE o \in Normalize(e, x.batch) /\ o \in Outputs(e)
  <2>1. PICK z \in backend : z.batch = x.batch /\ o = z.out
    BY <1>4 DEF Together
  <2> QED  BY <2>1, <1>1, <1>2 DEF Outputs
<1>5. ASSUME NEW o \in Normalize(e, x.batch) PROVE o \in Together(x)
  <2> DEFINE z == [batch |-> x.batch, out |-> o]
  <2>1. z \in backend
    BY <1>1, <1>2
  <2>2. z.batch = x.batch /\ z.out = o
    OBVIOUS
  <2> HIDE DEF z
  <2> QED  BY <2>1, <2>2 DEF Together
<1> QED  BY <1>1, <1>2, <1>3, <1>4, <1>5

\* Of several positions one has the earliest start, and the choice finds it.
LEMMA EarliestOf ==
    ASSUME NEW q, NEW n \in Nat, NEW P \in SUBSET (1..n), P # {},
           \A i \in P : q[i].start \in Nat,
           NEW m, m = CHOOSE i \in P : \A j \in P :
                        q[i].start < q[j].start \/ (q[i].start = q[j].start /\ i <= j)
    PROVE  m \in P /\ \A j \in P : q[m].start <= q[j].start
<1> DEFINE R == {p \in P \X P : q[p[1]].start < q[p[2]].start
                                \/ (q[p[1]].start = q[p[2]].start /\ p[1] < p[2])}
<1>1. IsFiniteSet(P)
  <2>1. IsFiniteSet(1..n)
    BY FS_Interval
  <2> QED  BY <2>1, FS_Subset
<1>2. \A i \in P : i \in Int /\ q[i].start \in Nat
  OBVIOUS
<1>3. \A i, j \in P : <<i, j>> \in R
                        <=> (q[i].start < q[j].start \/ (q[i].start = q[j].start /\ i < j))
  OBVIOUS
<1> HIDE DEF R
<1>4. ASSUME NEW i \in P, NEW j \in P, NEW k \in P, <<i, j>> \in R, <<j, k>> \in R
      PROVE  <<i, k>> \in R
  BY <1>2, <1>3, <1>4
<1>5. ASSUME NEW i \in P PROVE <<i, i>> \notin R
  <2>1. i \in Int /\ q[i].start \in Nat
    BY <1>2
  <2> QED  BY <2>1, <1>3
<1>6. PICK i \in P : \A j \in P : <<j, i>> \notin R
  <2>1. \A i, j, k \in P : <<i, j>> \in R /\ <<j, k>> \in R => <<i, k>> \in R
    BY <1>4
  <2> QED  BY <2>1, <1>1, <1>5, MinimalElement
<1>7. ASSUME NEW j \in P
      PROVE  q[i].start < q[j].start \/ (q[i].start = q[j].start /\ i <= j)
  <2>1. /\ i \in Int /\ j \in Int /\ q[i].start \in Nat /\ q[j].start \in Nat
        /\ <<j, i>> \notin R
    BY <1>2, <1>6
  <2> QED  BY <2>1, <1>3, <1>6
<1>8. m \in P /\ \A j \in P : q[m].start < q[j].start \/ (q[m].start = q[j].start /\ m <= j)
  <2> DEFINE First(k) == \A j \in P : q[k].start < q[j].start
                                     \/ (q[k].start = q[j].start /\ k <= j)
  <2>1. i \in P /\ First(i)
    BY <1>7
  <2>2. m = CHOOSE k \in P : First(k)
    OBVIOUS
  <2>3. m \in P /\ First(m)
    <3> HIDE DEF First
    <3> QED  BY <2>1, <2>2
  <2> QED  BY <2>3
<1>9. ASSUME NEW j \in P PROVE q[m].start <= q[j].start
  <2>1. q[m].start \in Nat /\ q[j].start \in Nat
    BY <1>2, <1>8
  <2>2. q[m].start < q[j].start \/ q[m].start = q[j].start
    BY <1>8
  <2> QED  BY <2>1, <2>2
<1> QED  BY <1>8, <1>9

\* What the edge for native Codex traces may be sent.
NativeSpans(I) ==
    /\ \A r \in I : r.scope = "svc" /\ r.start \in Nat
    /\ \A W \in SUBSET I : W # {} =>
         \E m \in W : \A r \in W : ~(r.trace = m.trace /\ r.id = m.parent)

\* The claimed spans of a batch are its items, and every turn is among them.
LEMMA ClaimedFacts ==
    ASSUME NEW I, NativeSpans(I), NEW b \in Seq(Seq(I))
    PROVE  /\ ClaimedSpans(b) \in Seq(I)
           /\ ToSet(ClaimedSpans(b)) \subseteq ItemsOf(b)
           /\ \A s \in ItemsOf(b) : s.name = "turn" => s \in ToSet(ClaimedSpans(b))
<1> DEFINE c == [i \in DOMAIN b |-> IF Claimed(b[i]) THEN b[i] ELSE <<>>]
           G == Seq(I)
<1>1. \A i \in DOMAIN b : b[i] \in G
  OBVIOUS
<1>2. c \in Seq(G) /\ DOMAIN c = DOMAIN b
  <2>1. Len(b) \in Nat /\ DOMAIN b = 1..Len(b)
    OBVIOUS
  <2>2. <<>> \in G
    OBVIOUS
  <2> HIDE DEF G
  <2>3. \A i \in DOMAIN b : (IF Claimed(b[i]) THEN b[i] ELSE <<>>) \in G
    BY <1>1, <2>2
  <2> QED  BY <2>1, <2>3
<1>3. \A i \in DOMAIN b : c[i] = IF Claimed(b[i]) THEN b[i] ELSE <<>>
  OBVIOUS
<1>4. ClaimedSpans(b) = FlattenSeq(c)
  BY DEF ClaimedSpans
<1> HIDE DEF c
<1>5. ClaimedSpans(b) \in Seq(I) /\ ToSet(ClaimedSpans(b)) = ItemsOf(c)
  <2>1. c \in Seq(Seq(I))
    BY <1>2
  <2> QED  BY <2>1, <1>4, FlattenFacts
<1> HIDE DEF G
<1>6. ToSet(<<>>) = {}
  BY DEF ToSet
<1>7. ItemsOf(c) \subseteq ItemsOf(b)
  BY <1>2, <1>3, <1>6 DEF ItemsOf
<1>8. ASSUME NEW s \in ItemsOf(b), s.name = "turn" PROVE s \in ItemsOf(c)
  <2>1. PICK i \in DOMAIN b : s \in ToSet(b[i])
    BY DEF ItemsOf
  <2>2. s \in I
    <3>1. b[i] \in Seq(I)
      BY <1>1 DEF G
    <3> HIDE DEF G
    <3>2. \A k \in DOMAIN b[i] : b[i][k] \in I
      BY <3>1
    <3> QED  BY <2>1, <3>2 DEF ToSet
  <2>3. s.scope = "svc"
    BY <2>2 DEF NativeSpans
  <2>4. Claimed(b[i])
    BY <2>1, <2>3, <1>8 DEF Claimed, Claims!ContainsCodexSpans, Claims!HasSpan
  <2> QED  BY <2>1, <2>4, <1>2, <1>3 DEF ItemsOf
<1> QED  BY <1>5, <1>7, <1>8

\* What becomes of a span.
NativeOut(s, q) ==
    [trace |-> s.trace, id |-> s.id, parent |-> NewParent(s, q),
     kind |-> Kind(s), model |-> ModelOf(s, q)]

\* The outputs of a batch are of its claimed spans that are not dropped.
LEMMA NativeOutputs ==
    ASSUME NEW b, NEW o
    PROVE  o \in CodexNormalize(b) <=> \E s \in ToSet(ClaimedSpans(b)) :
                                         Kind(s) # "drop" /\ o = NativeOut(s, ClaimedSpans(b))
  BY DEF CodexNormalize, NativeOut

\* The fields of an output.
LEMMA NativeFields ==
    ASSUME NEW s, NEW q
    PROVE  /\ NativeOut(s, q).trace = s.trace /\ NativeOut(s, q).id = s.id
           /\ NativeOut(s, q).parent = NewParent(s, q) /\ NativeOut(s, q).kind = Kind(s)
           /\ NativeOut(s, q).model = ModelOf(s, q)
  BY DEF NativeOut

\* The same, for an output by another name.
LEMMA NativeIs ==
    ASSUME NEW s, NEW q, NEW o, o = NativeOut(s, q)
    PROVE  /\ o.trace = s.trace /\ o.id = s.id /\ o.parent = NewParent(s, q)
           /\ o.kind = Kind(s) /\ o.model = ModelOf(s, q)
  BY NativeFields

\* Where a span goes: to its own parent, if that is kept, to a turn of its
\* trace, or nowhere, if no turn of its trace came (reparentOrphans).
LEMMA NewParentFacts ==
    ASSUME NEW I, NativeSpans(I), NEW q \in Seq(I), NEW s \in ToSet(q), Kind(s) # "root"
    PROVE  \/ NewParent(s, q) = s.parent /\ \E r \in ToSet(q) :
                r.trace = s.trace /\ r.id = s.parent /\ Kind(r) # "drop"
           \/ \E r \in ToSet(q) : r.trace = s.trace /\ Kind(r) = "root" /\ NewParent(s, q) = r.id
           \/ /\ NewParent(s, q) = s.parent
              /\ \A r \in ToSet(q) : ~(r.trace = s.trace /\ Kind(r) = "root")
<1> DEFINE n == Len(q)
           P == {i \in DOMAIN q : q[i].trace = s.trace /\ Kind(q[i]) = "root"}
           m == CHOOSE i \in P : \A j \in P :
                  q[i].start < q[j].start \/ (q[i].start = q[j].start /\ i <= j)
<1>1. n \in Nat /\ DOMAIN q = 1..n /\ \A i \in 1..n : q[i] \in I
  OBVIOUS
<1>2. ToSet(q) = {q[i] : i \in 1..n}
  BY <1>1 DEF ToSet
<1>3. CASE \E r \in ToSet(q) : r.trace = s.trace /\ r.id = s.parent /\ Kind(r) # "drop"
  <2>1. NewParent(s, q) = s.parent
    BY <1>3, Zenon DEF NewParent
  <2> QED  BY <2>1, <1>3
<1>4. CASE ~\E r \in ToSet(q) : r.trace = s.trace /\ Kind(r) = "root"
  <2>1. NewParent(s, q) = s.parent
    BY <1>4, Zenon DEF NewParent
  <2> QED  BY <2>1, <1>4
<1>5. CASE /\ ~\E r \in ToSet(q) : r.trace = s.trace /\ r.id = s.parent /\ Kind(r) # "drop"
           /\ \E r \in ToSet(q) : r.trace = s.trace /\ Kind(r) = "root"
  <2>1. NewParent(s, q) = q[m].id
    BY <1>5, Zenon DEF NewParent, EarliestIn
  <2>2. P # {} /\ P \in SUBSET (1..n)
    BY <1>1, <1>2, <1>5
  <2>3. \A i \in P : q[i].start \in Nat
    BY <1>1 DEF NativeSpans
  <2>4. \A i \in P : q[i] \in ToSet(q) /\ q[i].trace = s.trace /\ Kind(q[i]) = "root"
    BY <1>1, <1>2
  <2> HIDE DEF P, n
  <2>5. m \in P
    <3> DEFINE k == m
    <3>1. k = CHOOSE i \in P : \A j \in P :
                q[i].start < q[j].start \/ (q[i].start = q[j].start /\ i <= j)
      OBVIOUS
    <3> HIDE DEF m, k
    <3>2. k \in P
      BY <3>1, <2>2, <2>3, <1>1, EarliestOf
    <3> QED  BY <3>2 DEF k
  <2> HIDE DEF m
  <2> QED  BY <2>1, <2>4, <2>5
<1> QED  BY <1>3, <1>4, <1>5

\* What a batch of native Codex spans gives.
LEMMA NativeBatch ==
    ASSUME Inv, \A b : Normalize("codex native", b) = CodexNormalize(b),
           NEW x \in From("codex native")
    PROVE  /\ NativeSpans(sent.items) /\ x.batch \in Seq(Seq(sent.items))
           /\ x.out \in CodexNormalize(x.batch)
           /\ Together(x) = CodexNormalize(x.batch)
           /\ Together(x) \subseteq Outputs("codex native")
<1>1. /\ sent.edge = "codex native" /\ sent \in Sent /\ x.batch \in Seq(Seq(sent.items))
      /\ x.out \in Normalize("codex native", x.batch)
      /\ Together(x) = Normalize("codex native", x.batch)
      /\ Together(x) \subseteq Outputs("codex native")
  BY TogetherIs
<1>2. NativeSpans(sent.items)
  BY <1>1, CodexNativeAssumption DEF NativeSpans
<1> QED  BY <1>1, <1>2

\* With a turn of its trace in the batch, a span hangs from a turn.  A set of
\* spans closed under parents has a member that is no child of the others on the
\* wire, and NewParent took that one to a turn or it is one.
LEMMA NativeTree ==
    ASSUME NEW I, NativeSpans(I), NEW b \in Seq(Seq(I)), NEW o \in CodexNormalize(b),
           NEW t \in CodexNormalize(b), t.kind = "root", t.trace = o.trace
    PROVE  HangsFromRoot(o, CodexNormalize(b))
<1> DEFINE S == CodexNormalize(b)
           q == ClaimedSpans(b)
<1> SUFFICES ASSUME NEW C \in SUBSET S, o \in C, \A p \in C : Parents(p, S) \subseteq C
             PROVE  \E p \in C : p.kind = "root"
  BY DEF HangsFromRoot
<1>1. q \in Seq(I)
  BY ClaimedFacts
<1>2. \A p : p \in S <=> \E s \in ToSet(q) : Kind(s) # "drop" /\ p = NativeOut(s, q)
  BY NativeOutputs
<1> HIDE DEF S, q
<1>3. ToSet(q) \in SUBSET I
  <2>1. \A i \in DOMAIN q : q[i] \in I
    BY <1>1
  <2> QED  BY <2>1 DEF ToSet
<1> DEFINE W == {s \in ToSet(q) : /\ Kind(s) # "drop" /\ NativeOut(s, q) \in C
                                  /\ s.trace = o.trace}
<1>4. W # {}
  <2>1. PICK s \in ToSet(q) : Kind(s) # "drop" /\ o = NativeOut(s, q)
    BY <1>2
  <2>2. s \in W
    BY <2>1, NativeFields
  <2> QED  BY <2>2
<1>5. PICK m \in W : \A r \in W : ~(r.trace = m.trace /\ r.id = m.parent)
  <2>1. W \in SUBSET I
    BY <1>3
  <2> HIDE DEF W
  <2> QED  BY <2>1, <1>4 DEF NativeSpans
<1>6. m \in ToSet(q) /\ Kind(m) # "drop" /\ NativeOut(m, q) \in C /\ m.trace = o.trace
  BY <1>5
<1>7. ASSUME NEW r \in ToSet(q), Kind(r) # "drop", r.trace = m.trace, r.id = NewParent(m, q)
      PROVE  NativeOut(r, q) \in C
  <2>1. NativeOut(r, q) \in S
    BY <1>2, <1>7
  <2>2. NativeOut(r, q) \in Parents(NativeOut(m, q), S)
    BY <2>1, <1>7, NativeFields DEF Parents
  <2> QED  BY <2>2, <1>6
<1>8. CASE Kind(m) = "root"
  BY <1>6, <1>8, NativeFields
<1>9. CASE /\ Kind(m) # "root"
           /\ \E r \in ToSet(q) : r.trace = m.trace /\ r.id = m.parent /\ Kind(r) # "drop"
           /\ NewParent(m, q) = m.parent
  <2>1. PICK r \in ToSet(q) : r.trace = m.trace /\ r.id = m.parent /\ Kind(r) # "drop"
    BY <1>9
  <2>2. NativeOut(r, q) \in C
    BY <2>1, <1>7, <1>9
  <2>3. r \in W
    BY <2>1, <2>2, <1>6
  <2> QED  BY <2>1, <2>3, <1>5
<1>10. CASE \E r \in ToSet(q) : r.trace = m.trace /\ Kind(r) = "root" /\ NewParent(m, q) = r.id
  <2>1. PICK r \in ToSet(q) : r.trace = m.trace /\ Kind(r) = "root" /\ NewParent(m, q) = r.id
    BY <1>10
  <2>2. NativeOut(r, q) \in C
    BY <2>1, <1>7
  <2> QED  BY <2>1, <2>2, NativeFields
<1>11. CASE \A r \in ToSet(q) : ~(r.trace = m.trace /\ Kind(r) = "root")
  <2>1. PICK s \in ToSet(q) : Kind(s) # "drop" /\ t = NativeOut(s, q)
    BY <1>2 DEF S
  <2>2. s.trace = m.trace /\ Kind(s) = "root"
    BY <2>1, <1>6, NativeFields
  <2> QED  BY <2>2, <1>11
<1> QED  BY <1>1, <1>6, <1>8, <1>9, <1>10, <1>11, NewParentFacts

\* It holds of every span in the backend, and a loose one had no turn.
LEMMA TurnsAreTreesInv ==
    ASSUME Inv, \A b : Normalize("codex native", b) = CodexNormalize(b)
    PROVE  TurnsAreTrees
<1>1. HangsFromTurn
  <2> SUFFICES ASSUME NEW x \in From("codex native"), NEW t \in RootOf(x)
               PROVE  HangsFromRoot(x.out, Together(x))
    BY DEF HangsFromTurn
  <2>1. /\ NativeSpans(sent.items) /\ x.batch \in Seq(Seq(sent.items))
        /\ x.out \in CodexNormalize(x.batch)
        /\ Together(x) = CodexNormalize(x.batch)
    BY NativeBatch
  <2>2. t \in CodexNormalize(x.batch) /\ t.kind = "root" /\ t.trace = x.out.trace
    BY <2>1 DEF RootOf
  <2> QED  BY <2>1, <2>2, NativeTree
<1>2. LooseOnlyWithoutTurn
  <2> SUFFICES ASSUME NEW x \in From("codex native"),
                      Parents(x.out, Outputs("codex native")) = {}
               PROVE  \/ x.out.kind = "root" /\ x.out.parent = None
                      \/ /\ RootOf(x) = {}
                         /\ \E s \in ItemsOf(x.batch) :
                               /\ s.trace = x.out.trace /\ s.id = x.out.id
                               /\ s.parent = x.out.parent
    BY DEF LooseOnlyWithoutTurn
  <2> DEFINE q == ClaimedSpans(x.batch)
  <2>1. /\ NativeSpans(sent.items) /\ x.batch \in Seq(Seq(sent.items))
        /\ x.out \in CodexNormalize(x.batch)
        /\ Together(x) = CodexNormalize(x.batch)
        /\ Together(x) \subseteq Outputs("codex native")
    BY NativeBatch
  <2>2. q \in Seq(sent.items) /\ ToSet(q) \subseteq ItemsOf(x.batch)
    BY <2>1, ClaimedFacts
  <2>3. \A p : p \in Together(x)
                 <=> \E s \in ToSet(q) : Kind(s) # "drop" /\ p = NativeOut(s, q)
    BY <2>1, NativeOutputs
  <2> HIDE DEF q
  <2>4. PICK s \in ToSet(q) : Kind(s) # "drop" /\ x.out = NativeOut(s, q)
    BY <2>1, <2>3
  <2>5. /\ x.out.trace = s.trace /\ x.out.id = s.id /\ x.out.parent = NewParent(s, q)
        /\ x.out.kind = Kind(s) /\ x.out.model = ModelOf(s, q)
    BY <2>4, NativeIs, Zenon
  <2>6. s \in ItemsOf(x.batch)
    BY <2>2
  <2>7. ASSUME NEW r \in ToSet(q), Kind(r) # "drop", r.trace = s.trace
        PROVE  r.id # NewParent(s, q)
    <3>1. NativeOut(r, q) \in Outputs("codex native")
      BY <2>1, <2>3, <2>7
    <3>2. NativeOut(r, q) \notin Parents(x.out, Outputs("codex native"))
      OBVIOUS
    <3>3. NativeOut(r, q).id = r.id /\ NativeOut(r, q).trace = r.trace
      BY NativeFields
    <3> QED  BY <3>1, <3>2, <3>3, <2>7, <2>5, Zenon DEF Parents
  <2>8. CASE Kind(s) = "root"
    <3>1. NewParent(s, q) = None
      BY <2>8 DEF NewParent
    <3> QED  BY <3>1, <2>8, <2>5
  <2>9. CASE Kind(s) # "root"
    <3>1. /\ NewParent(s, q) = s.parent
          /\ \A r \in ToSet(q) : ~(r.trace = s.trace /\ Kind(r) = "root")
      BY <2>1, <2>2, <2>7, <2>9, NewParentFacts
    <3>2. RootOf(x) = {}
      <4> SUFFICES ASSUME NEW t \in RootOf(x) PROVE FALSE
        OBVIOUS
      <4>1. t \in Together(x) /\ t.kind = "root" /\ t.trace = x.out.trace
        BY DEF RootOf
      <4>2. PICK r \in ToSet(q) : Kind(r) # "drop" /\ t = NativeOut(r, q)
        BY <4>1, <2>3
      <4>3. r.trace = s.trace /\ Kind(r) = "root"
        <5>1. t.trace = r.trace /\ t.kind = Kind(r)
          BY <4>2, NativeIs, Zenon
        <5> QED  BY <5>1, <4>1, <2>5, Zenon
      <4> QED  BY <4>3, <3>1
    <3>3. /\ s \in ItemsOf(x.batch) /\ s.trace = x.out.trace
          /\ s.id = x.out.id /\ s.parent = x.out.parent
      BY <3>1, <2>5, <2>6, Zenon
    <3> QED  BY <3>2, <3>3
  <2> QED  BY <2>8, <2>9
<1> QED  BY <1>1, <1>2 DEF TurnsAreTrees

\* The turns of trace t in S that name a model.
Modelled(S, t) == {s \in S : s.trace = t /\ s.name = "turn" /\ s.model # "none"}

\* model is that of the first of some turns, if there are any.
IsFirstModel(model, turns) ==
    IF turns = {} THEN model = "none"
    ELSE \E s \in turns : s.model = model /\ \A r \in turns : s.start <= r.start

\* turnModel finds the model of the earliest turn of the trace that has one.
LEMMA TurnModelFacts ==
    ASSUME NEW I, NativeSpans(I), NEW q \in Seq(I), NEW t
    PROVE  IsFirstModel(TurnModel(q, t), Modelled(ToSet(q), t))
<1> DEFINE n == Len(q)
           turns == Modelled(ToSet(q), t)
           P == {i \in DOMAIN q : q[i].trace = t /\ q[i].name = "turn" /\ q[i].model # "none"}
           m == CHOOSE i \in P : \A j \in P :
                  q[i].start < q[j].start \/ (q[i].start = q[j].start /\ i <= j)
<1>1. n \in Nat /\ DOMAIN q = 1..n /\ \A i \in 1..n : q[i] \in I
  OBVIOUS
<1>2. ToSet(q) = {q[i] : i \in 1..n}
  BY <1>1 DEF ToSet
<1>3. TurnModel(q, t) = IF \E i \in DOMAIN q :
                              q[i].trace = t /\ q[i].name = "turn" /\ q[i].model # "none"
                        THEN q[m].model ELSE "none"
  BY Zenon DEF TurnModel, EarliestIn
<1>4. /\ P \in SUBSET (1..n) /\ \A i \in P : q[i] \in turns
      /\ \A s \in turns : \E i \in P : s = q[i]
  BY <1>1, <1>2 DEF Modelled
<1>5. P = {} <=> turns = {}
  <2> HIDE DEF P, turns
  <2> QED  BY <1>4
<1>6. TurnModel(q, t) = IF P = {} THEN "none" ELSE q[m].model
  BY <1>3
<1>7. \A i \in P : q[i].start \in Nat
  BY <1>1 DEF NativeSpans
<1> HIDE DEF P, n
<1>8. ASSUME P # {} PROVE m \in P /\ \A j \in P : q[m].start <= q[j].start
  <2> DEFINE k == m
  <2>1. k = CHOOSE i \in P : \A j \in P :
              q[i].start < q[j].start \/ (q[i].start = q[j].start /\ i <= j)
    OBVIOUS
  <2> HIDE DEF m, k
  <2>2. k \in P /\ \A j \in P : q[k].start <= q[j].start
    BY <2>1, <1>1, <1>4, <1>7, <1>8, EarliestOf
  <2> QED  BY <2>2 DEF k
<1> HIDE DEF m, turns
<1> QED  BY <1>4, <1>5, <1>6, <1>8 DEF IsFirstModel, turns

\* A response gets it; the spans that are not claimed have no turn among them.
LEMMA ModelOfResponse ==
    ASSUME NEW I, NativeSpans(I), NEW b \in Seq(Seq(I)), NEW o \in CodexNormalize(b),
           o.kind = "chat"
    PROVE  IsFirstModel(o.model, Modelled(ItemsOf(b), o.trace))
<1> DEFINE q == ClaimedSpans(b)
           t == o.trace
<1>1. /\ q \in Seq(I) /\ ToSet(q) \subseteq ItemsOf(b)
      /\ \A s \in ItemsOf(b) : s.name = "turn" => s \in ToSet(q)
  BY ClaimedFacts
<1>2. Modelled(ItemsOf(b), t) = Modelled(ToSet(q), t)
  BY <1>1 DEF Modelled
<1>3. PICK s \in ToSet(q) : Kind(s) # "drop" /\ o = NativeOut(s, q)
  BY NativeOutputs
<1> HIDE DEF q
<1>4. o.trace = s.trace /\ o.kind = Kind(s) /\ o.model = ModelOf(s, q)
  BY <1>3, NativeFields
<1>5. o.model = TurnModel(q, t)
  BY <1>4 DEF ModelOf
<1> HIDE DEF t
<1>6. IsFirstModel(TurnModel(q, t), Modelled(ToSet(q), t))
  BY <1>1, TurnModelFacts
<1> QED  BY <1>2, <1>5, <1>6 DEF t

\* It holds of every response in the backend.
LEMMA ModelOfOwnTraceInv ==
    ASSUME Inv, \A b : Normalize("codex native", b) = CodexNormalize(b)
    PROVE  ModelOfOwnTrace
<1>1. ASSUME NEW x \in From("codex native"), x.out.kind = "chat"
      PROVE  IsFirstModel(x.out.model, Modelled(ItemsOf(x.batch), x.out.trace))
  <2>1. /\ NativeSpans(sent.items) /\ x.batch \in Seq(Seq(sent.items))
        /\ x.out \in CodexNormalize(x.batch)
    BY NativeBatch
  <2> QED  BY <2>1, <1>1, ModelOfResponse
<1> QED  BY <1>1, Zenon DEF ModelOfOwnTrace, IsFirstModel, Modelled

\* Whatever Codex exports, in any order, split into any groups and batches:
\* where the turn of a trace came, every kept span of the trace in the batch
\* hangs from a turn, and a span is left loose only where none came
\* (reparentOrphans).
THEOREM NativeTurnsAreTrees ==
    ASSUME \A b : Normalize("codex native", b) = CodexNormalize(b)
    PROVE  Spec => []TurnsAreTrees
<1>1. Inv => TurnsAreTrees
  BY TurnsAreTreesInv
<1> QED  BY <1>1, Invariant, PTL

\* Whatever Codex exports: the model of a response is that of the earliest turn
\* of its own trace in its batch that names one, and none without (turnModels).
THEOREM NativeModels ==
    ASSUME \A b : Normalize("codex native", b) = CodexNormalize(b)
    PROVE  Spec => []ModelOfOwnTrace
<1>1. Inv => ModelOfOwnTrace
  BY ModelOfOwnTraceInv
<1> QED  BY <1>1, Invariant, PTL
-----------------------------------------------------------------------------
(* Pi *)

\* What the Pi edge may be sent.
PiSpans(I) ==
    /\ \A e, f \in I : e.id = f.id =>
         /\ PiKind(e) = "foreign" <=> PiKind(f) = "foreign"
         /\ e.trace = f.trace /\ e.start = f.start => e = f
    /\ \A W \in SUBSET I : W # {} => \E m \in W : \A r \in W : r.id # m.parent

\* What a batch of Pi spans gives.
LEMMA PiBatch ==
    ASSUME Inv, \A b : Normalize("pi", b) = PiNormalize(b), NEW x \in From("pi")
    PROVE  /\ PiSpans(sent.items) /\ Grouped(x.batch, sent.items)
           /\ \E i \in DOMAIN x.batch : x.out \in PiSlice(x.batch[i])
           /\ \A i \in DOMAIN x.batch : PiSlice(x.batch[i]) \subseteq Outputs("pi")
<1>1. /\ sent.edge = "pi" /\ sent \in Sent
      /\ x.out \in Normalize("pi", x.batch)
      /\ Together(x) = Normalize("pi", x.batch)
      /\ Together(x) \subseteq Outputs("pi")
  BY TogetherIs
<1>2. PiSpans(sent.items)
  BY <1>1, PiAssumption DEF PiSpans
<1>3. Grouped(x.batch, sent.items)
  BY DEF From, Inv, IsBatch
<1>4. x.out \in PiNormalize(x.batch) /\ PiNormalize(x.batch) \subseteq Outputs("pi")
  BY <1>1
<1> QED  BY <1>2, <1>3, <1>4 DEF PiNormalize

\* What becomes of a span.
PiOut(s, q) ==
    [trace |-> s.trace, id |-> s.id, parent |-> PiParent(s, q),
     kind |-> PiKind(s), start |-> s.start]

\* The outputs of a slice are of its kept spans.
LEMMA PiOutputs ==
    ASSUME NEW q, NEW o
    PROVE  o \in PiSlice(q) <=> \E s \in KeptOf(q) : o = PiOut(s, q)
  BY DEF PiSlice, PiOut

\* The fields of an output.
LEMMA PiFields ==
    ASSUME NEW s, NEW q
    PROVE  /\ PiOut(s, q).trace = s.trace /\ PiOut(s, q).id = s.id
           /\ PiOut(s, q).start = s.start
           /\ PiOut(s, q).parent = PiParent(s, q) /\ PiOut(s, q).kind = PiKind(s)
  BY DEF PiOut

\* The kept span that an output is of.
LEMMA PiMade ==
    ASSUME NEW q, NEW o \in PiSlice(q)
    PROVE  \E s \in KeptOf(q) :
             /\ o.trace = s.trace /\ o.id = s.id /\ o.start = s.start
             /\ o.parent = PiParent(s, q) /\ o.kind = PiKind(s)
<1>1. PICK s \in KeptOf(q) : o = PiOut(s, q)
  BY PiOutputs
<1> QED  BY <1>1, PiFields

\* Where a span goes: to its own parent, to a turn of its slice, or nowhere.
LEMMA PiParentFacts ==
    ASSUME NEW I, PiSpans(I), NEW q \in Seq(I), NEW s, ~IsTurn(s)
    PROVE  \/ PiParent(s, q) = s.parent /\ \E r \in KeptOf(q) : r.id = s.parent
           \/ \E r \in KeptOf(q) : IsTurn(r) /\ PiParent(s, q) = r.id
           \/ PiParent(s, q) = s.parent /\ \A r \in ToSet(q) : ~IsTurn(r)
<1> DEFINE P == {i \in 1..Len(q) : IsTurn(q[i])}
           first == SelectInSeq(q, IsTurn)
<1>1. Len(q) \in Nat /\ DOMAIN q = 1..Len(q) /\ \A i \in 1..Len(q) : q[i] \in I
  OBVIOUS
<1>2. ToSet(q) = {q[i] : i \in 1..Len(q)}
  BY <1>1 DEF ToSet
<1>3. first = IF P # {} THEN Min(P) ELSE 0
  BY DEF SelectInSeq
<1>4. PiParent(s, q) = IF s.parent \in {r.id : r \in KeptOf(q)} \/ first = 0
                       THEN s.parent ELSE q[first].id
  BY DEF PiParent
<1> HIDE DEF first
<1>5. ASSUME P # {} PROVE first \in P
  <2>1. IsFiniteSet(P) /\ P \in SUBSET Int
    <3>1. IsFiniteSet(1..Len(q))
      BY <1>1, FS_Interval
    <3> QED  BY <3>1, FS_Subset
  <2> HIDE DEF P
  <2>2. \E m \in P : \A n \in P : m <= n
    BY <2>1, <1>5, LeastNumber
  <2> QED  BY <2>2, <1>3, <1>5 DEF Min
<1>6. CASE \E r \in KeptOf(q) : r.id = s.parent
  <2>1. PiParent(s, q) = s.parent
    BY <1>4, <1>6
  <2> QED  BY <2>1, <1>6
<1>7. CASE P = {}
  <2>1. PiParent(s, q) = s.parent
    BY <1>3, <1>4, <1>7
  <2>2. \A r \in ToSet(q) : ~IsTurn(r)
    BY <1>2, <1>7
  <2> QED  BY <2>1, <2>2
<1>8. CASE P # {} /\ ~\E r \in KeptOf(q) : r.id = s.parent
  <2>1. first \in 1..Len(q) /\ IsTurn(q[first])
    BY <1>5, <1>8
  <2>2. first # 0
    BY <2>1
  <2>3. PiParent(s, q) = q[first].id
    BY <2>2, <1>4, <1>8
  <2>4. q[first] \in KeptOf(q)
    <3> SUFFICES ASSUME NEW r \in ToSet(q), r.id = q[first].id PROVE PiKind(r) # "foreign"
      BY <2>1, <1>2 DEF KeptOf
    <3>1. r \in I /\ q[first] \in I /\ PiKind(q[first]) # "foreign"
      BY <2>1, <1>1, <1>2 DEF IsTurn
    <3> QED  BY <3>1 DEF PiSpans
  <2> QED  BY <2>1, <2>3, <2>4
<1> QED  BY <1>6, <1>7, <1>8

\* A slice of one trace with a turn is a whole tree, by the same argument as for
\* native Codex spans.
LEMMA PiTree ==
    ASSUME NEW I, PiSpans(I), NEW q \in Seq(I), NEW o, NEW t \in ToSet(q), IsTurn(t),
           \A s \in ToSet(q) : s.trace = o.trace
    PROVE  HangsFromRoot(o, PiSlice(q))
<1> DEFINE S == PiSlice(q)
<1> SUFFICES ASSUME NEW C \in SUBSET S, o \in C, \A p \in C : Parents(p, S) \subseteq C
             PROVE  \E p \in C : p.kind = "root"
  BY DEF HangsFromRoot
<1>1. \A p : p \in S <=> \E s \in KeptOf(q) : p = PiOut(s, q)
  BY PiOutputs
<1> HIDE DEF S
<1>2. KeptOf(q) \subseteq ToSet(q) /\ ToSet(q) \subseteq I
  <2>1. \A i \in DOMAIN q : q[i] \in I
    OBVIOUS
  <2> QED  BY <2>1 DEF ToSet, KeptOf
<1> DEFINE W == {s \in KeptOf(q) : PiOut(s, q) \in C}
<1>3. W # {}
  BY <1>1
<1>4. PICK m \in W : \A r \in W : r.id # m.parent
  <2>1. W \in SUBSET I
    BY <1>2
  <2> HIDE DEF W
  <2> QED  BY <2>1, <1>3 DEF PiSpans
<1>5. m \in KeptOf(q) /\ PiOut(m, q) \in C /\ m.trace = o.trace
  BY <1>2, <1>4
<1>6. ASSUME NEW r \in KeptOf(q), r.id = PiParent(m, q)
      PROVE  PiOut(r, q) \in C
  <2>1. PiOut(r, q) \in S
    BY <1>1
  <2>2. r.trace = m.trace
    BY <1>2, <1>5
  <2>3. PiOut(r, q) \in Parents(PiOut(m, q), S)
    BY <2>1, <2>2, <1>6, PiFields DEF Parents
  <2> QED  BY <2>3, <1>5
<1>7. CASE IsTurn(m)
  BY <1>5, <1>7, PiFields DEF IsTurn
<1>8. CASE /\ ~IsTurn(m) /\ PiParent(m, q) = m.parent
           /\ \E r \in KeptOf(q) : r.id = m.parent
  <2>1. PICK r \in KeptOf(q) : r.id = m.parent
    BY <1>8
  <2>2. r \in W
    BY <2>1, <1>6, <1>8
  <2> QED  BY <2>1, <2>2, <1>4
<1>9. CASE \E r \in KeptOf(q) : IsTurn(r) /\ PiParent(m, q) = r.id
  <2>1. PICK r \in KeptOf(q) : IsTurn(r) /\ PiParent(m, q) = r.id
    BY <1>9
  <2>2. PiOut(r, q) \in C
    BY <2>1, <1>6
  <2> QED  BY <2>1, <2>2, PiFields DEF IsTurn
<1> QED  BY <1>7, <1>8, <1>9, PiParentFacts

\* It holds of every span in the backend, and a loose one had no turn.
LEMMA SlicesAreTreesInv ==
    ASSUME Inv, \A b : Normalize("pi", b) = PiNormalize(b)
    PROVE  SlicesAreTrees
<1>1. SliceIsATree
  <2> SUFFICES ASSUME NEW x \in From("pi"), NEW q \in SlicesOf(x),
                      NEW t \in ToSet(q), IsTurn(t),
                      \A s \in ToSet(q) : s.trace = x.out.trace
               PROVE  HangsFromRoot(x.out, PiSlice(q))
    BY DEF SliceIsATree
  <2>1. PiSpans(sent.items) /\ Grouped(x.batch, sent.items)
    BY PiBatch
  <2>2. q \in Seq(sent.items)
    BY <2>1 DEF SlicesOf, Grouped
  <2> QED  BY <2>1, <2>2, PiTree
<1>2. StrayOnlyWithoutTurn
  <2> SUFFICES ASSUME NEW x \in From("pi"), \A o \in Outputs("pi") : o.id # x.out.parent,
                      ~(x.out.kind = "root" /\ x.out.parent = None), NEW q \in SlicesOf(x)
               PROVE  /\ \A s \in ToSet(q) : ~IsTurn(s)
                      /\ \E s \in ToSet(q) : s.id = x.out.id /\ s.parent = x.out.parent
    BY DEF StrayOnlyWithoutTurn
  <2> DEFINE b == x.batch
             I == sent.items
  <2>1. /\ PiSpans(I) /\ Grouped(b, I)
        /\ \E i \in DOMAIN b : x.out \in PiSlice(b[i])
        /\ \A i \in DOMAIN b : PiSlice(b[i]) \subseteq Outputs("pi")
    BY PiBatch
  <2>2. /\ \A i \in DOMAIN b : b[i] \in Seq(I)
        /\ \A i, k \in DOMAIN b : \A j \in DOMAIN b[i] : \A l \in DOMAIN b[k] :
             b[i][j] = b[k][l] => i = k /\ j = l
    BY <2>1 DEF Grouped
  <2>3. PICK i \in DOMAIN b : x.out \in PiSlice(b[i])
    BY <2>1
  <2>4. PICK s \in KeptOf(b[i]) :
          /\ x.out.trace = s.trace /\ x.out.id = s.id /\ x.out.start = s.start
          /\ x.out.parent = PiParent(s, b[i]) /\ x.out.kind = PiKind(s)
    BY <2>3, PiMade
  <2>5. PICK k \in DOMAIN b : q = b[k] /\ \E r \in ToSet(b[k]) :
              r.trace = x.out.trace /\ r.id = x.out.id /\ r.start = x.out.start
    BY DEF SlicesOf
  <2>6. PICK r \in ToSet(b[k]) : r.trace = x.out.trace /\ r.id = x.out.id /\ r.start = x.out.start
    BY <2>5
  <2> HIDE DEF b, I
  <2>7. s \in ToSet(b[i]) /\ s \in I /\ r \in I
    <3>1. \A h \in DOMAIN b : ToSet(b[h]) \subseteq I
      <4> SUFFICES ASSUME NEW h \in DOMAIN b PROVE ToSet(b[h]) \subseteq I
        OBVIOUS
      <4>1. b[h] \in Seq(I)
        BY <2>2
      <4>2. \A j \in DOMAIN b[h] : b[h][j] \in I
        BY <4>1
      <4> QED  BY <4>2 DEF ToSet
    <3> QED  BY <3>1 DEF KeptOf
  <2>8. r = s
    BY <2>1, <2>6, <2>4, <2>7 DEF PiSpans
  <2>9. k = i
    <3>1. s \in ToSet(b[k]) /\ s \in ToSet(b[i])
      BY <2>7, <2>8
    <3> QED  BY <3>1, <2>2 DEF ToSet
  <2>10. ~IsTurn(s)
    <3> SUFFICES ASSUME IsTurn(s) PROVE FALSE
      OBVIOUS
    <3>1. PiParent(s, b[i]) = None
      BY DEF PiParent
    <3> QED  BY <3>1, <2>4 DEF IsTurn
  <2>11. \A u \in KeptOf(b[i]) : u.id # PiParent(s, b[i])
    <3> SUFFICES ASSUME NEW u \in KeptOf(b[i]), u.id = PiParent(s, b[i]) PROVE FALSE
      OBVIOUS
    <3>1. PiOut(u, b[i]) \in Outputs("pi")
      BY <2>1, PiOutputs
    <3>2. PiOut(u, b[i]).id = u.id
      BY PiFields
    <3> QED  BY <3>1, <3>2, <2>4
  <2>12. PiParent(s, b[i]) = s.parent /\ \A u \in ToSet(b[i]) : ~IsTurn(u)
    <3>1. b[i] \in Seq(I)
      BY <2>2
    <3> QED  BY <3>1, <2>1, <2>10, <2>11, PiParentFacts
  <2> QED  BY <2>5, <2>7, <2>4, <2>9, <2>12
<1> QED  BY <1>1, <1>2 DEF SlicesAreTrees

\* Whatever Pi exports, split into any slices and batches: a slice of one trace
\* with a turn becomes a whole tree, though foreign spans are removed and turns
\* share ids, and a span is left loose only where its slice had no turn
\* (reparentOrphans).
THEOREM PiSlicesAreTrees ==
    ASSUME \A b : Normalize("pi", b) = PiNormalize(b)
    PROVE  Spec => []SlicesAreTrees
<1>1. Inv => SlicesAreTrees
  BY SlicesAreTreesInv
<1> QED  BY <1>1, Invariant, PTL
-----------------------------------------------------------------------------
(* OpenHands *)

\* What the OpenHands edge may be sent.
LaminarSpans(I) ==
    /\ \A e \in I : /\ {e.id, e.start, e.end} \subseteq Nat
                    /\ e.call # "none" => e.role = "tool"
    /\ \A e, f \in I :
         /\ e.id = f.id => e = f
         /\ f.parent = e.id => f.trace = e.trace
         /\ e.call = f.call /\ e.call # "none" => e.trace = f.trace
    /\ \A w, e, f \in I :
         (w.role = "chat" /\ e.role = "chat" /\ f.role = "chat" /\ e.parent = w.id)
             => f.parent # e.id

\* Claimed groups: a span is in one of them only.
Groups(Gs, I) ==
    /\ LaminarSpans(I)
    /\ \A q \in Gs : q \in Seq(I)
    /\ \A q, r \in Gs : \A s \in ToSet(q) : s \in ToSet(r) => q = r

\* What becomes of claimed groups.
FragmentsOf(Gs) == UNION {UNION {Fragment(q, t) : t \in GroupTraces(q)} : q \in Gs}

\* The root that is made of a trace in a group.
RootOut(q, t) ==
    [trace |-> t, id |-> RootId(q, t), parent |-> <<>>, kind |-> "root",
     start |-> Window(q, t).start, end |-> Window(q, t).end, usage |-> {}]

\* The span that a call becomes.
CallOut(q, s) ==
    [trace |-> s.trace, id |-> <<s.id>>, parent |-> RootId(q, s.trace), kind |-> s.role,
     start |-> s.start, end |-> s.end, usage |-> UsageOf(q, s)]

\* A span of group q that becomes a call.
IsCall(q, s) == s \in ToSet(q) /\ s \in Emitted(q, s.trace)

\* Calls are the chat and tool spans, without wrappers and repetitions.
LEMMA CallFacts ==
    ASSUME NEW q, NEW s
    PROVE  /\ IsCall(q, s) <=> /\ s \in ToSet(q) /\ s.role \in {"chat", "tool"}
                               /\ ~IsWrapper(q, s) /\ ~Repeated(q, s)
           /\ IsCall(q, s) => s.trace \in GroupTraces(q)
<1>1. IsCall(q, s) <=> /\ s \in ToSet(q) /\ s.role \in {"chat", "tool"}
                       /\ ~IsWrapper(q, s) /\ ~Repeated(q, s)
  BY DEF IsCall, Emitted, Calls, TraceIn
<1>2. IsCall(q, s) => s.trace \in GroupTraces(q)
  BY <1>1 DEF GroupTraces
<1> QED  BY <1>1, <1>2

\* A span of the backend is the root of a fragment or one of its calls.
LEMMA FragmentCases ==
    ASSUME NEW Gs, NEW o
    PROVE  o \in FragmentsOf(Gs)
             <=> \E q \in Gs : \/ \E t \in GroupTraces(q) : o = RootOut(q, t)
                               \/ \E s : IsCall(q, s) /\ o = CallOut(q, s)
<1>1. \A q, t : \A s \in Emitted(q, t) : s \in ToSet(q) /\ s.trace = t
  BY DEF Emitted, Calls, TraceIn
<1>2. \A q, t : o \in Fragment(q, t)
        <=> \/ o = RootOut(q, t)
            \/ \E s \in Emitted(q, t) :
                 o = [trace |-> t, id |-> <<s.id>>, parent |-> RootId(q, t), kind |-> s.role,
                      start |-> s.start, end |-> s.end, usage |-> UsageOf(q, s)]
  BY DEF Fragment, RootOut
<1>3. \A q, t : o \in Fragment(q, t)
        <=> \/ o = RootOut(q, t)
            \/ \E s : IsCall(q, s) /\ s.trace = t /\ o = CallOut(q, s)
  BY <1>1, <1>2 DEF IsCall, CallOut
<1>4. o \in FragmentsOf(Gs) <=> \E q \in Gs : \E t \in GroupTraces(q) : o \in Fragment(q, t)
  BY DEF FragmentsOf
<1>5. \A q, s : IsCall(q, s) => s.trace \in GroupTraces(q)
  BY CallFacts
<1> QED  BY <1>3, <1>4, <1>5

\* A group has finitely many spans.
LEMMA SeqFinite ==
    ASSUME NEW I, NEW q \in Seq(I)
    PROVE  IsFiniteSet(ToSet(q)) /\ ToSet(q) \subseteq I
<1>1. Len(q) \in Nat /\ DOMAIN q = 1..Len(q) /\ \A i \in 1..Len(q) : q[i] \in I
  OBVIOUS
<1>2. ToSet(q) = {q[i] : i \in 1..Len(q)}
  BY <1>1 DEF ToSet
<1>3. IsFiniteSet(1..Len(q))
  BY <1>1, FS_Interval
<1> QED  BY <1>1, <1>2, <1>3, FiniteImage

\* A root has the id of a conversation span, or a hash that is no such id.
LEMMA RootIdFacts ==
    ASSUME NEW I, LaminarSpans(I), NEW q \in Seq(I), NEW t
    PROVE  \/ \E r \in ToSet(q) : r.trace = t /\ r.role = "root" /\ RootId(q, t) = <<r.id>>
           \/ RootId(q, t) = <<"synthetic", t, Window(q, t).start, Window(q, t).end>>
<1> DEFINE roots == Conversations(q, t)
<1>1. roots = {s \in ToSet(q) : s.trace = t /\ s.role = "root"}
  BY DEF Conversations, TraceIn
<1>2. IsFiniteSet(roots) /\ \A s \in roots : s.start \in Nat
  <2>1. IsFiniteSet(ToSet(q)) /\ ToSet(q) \subseteq I
    BY SeqFinite
  <2>2. IsFiniteSet(roots)
    BY <1>1, <2>1, FS_Subset
  <2> QED  BY <1>1, <2>1, <2>2 DEF LaminarSpans
<1>3. RootId(q, t) = IF roots # {}
                     THEN <<(CHOOSE r \in roots : \A s \in roots : r.start <= s.start).id>>
                     ELSE <<"synthetic", t, Window(q, t).start, Window(q, t).end>>
  BY DEF RootId
<1> HIDE DEF roots
<1>4. ASSUME roots # {} PROVE \E r \in roots : \A s \in roots : r.start <= s.start
  <2> DEFINE R == {p \in roots \X roots : p[1].start < p[2].start}
  <2>1. \A r, s \in roots : <<r, s>> \in R <=> r.start < s.start
    OBVIOUS
  <2> HIDE DEF R
  <2>2. \A r, s, u \in roots : <<r, s>> \in R /\ <<s, u>> \in R => <<r, u>> \in R
    <3> SUFFICES ASSUME NEW r \in roots, NEW s \in roots, NEW u \in roots,
                        <<r, s>> \in R, <<s, u>> \in R
                 PROVE  <<r, u>> \in R
      OBVIOUS
    <3>1. r.start < s.start /\ s.start < u.start
      BY <2>1
    <3>2. r.start < u.start
      BY <3>1, <1>2
    <3> QED  BY <3>2, <2>1
  <2>3. \A r \in roots : <<r, r>> \notin R
    BY <2>1, <1>2
  <2>4. PICK r \in roots : \A s \in roots : <<s, r>> \notin R
    BY <2>2, <2>3, <1>2, <1>4, MinimalElement
  <2>5. ASSUME NEW s \in roots PROVE r.start <= s.start
    <3>1. r.start \in Nat /\ s.start \in Nat /\ ~(s.start < r.start)
      BY <2>1, <2>4, <1>2
    <3> QED  BY <3>1
  <2> QED  BY <2>5
<1>5. CASE roots # {}
  <2> DEFINE r == CHOOSE r \in roots : \A s \in roots : r.start <= s.start
  <2>1. r \in roots
    BY <1>4, <1>5
  <2>2. RootId(q, t) = <<r.id>>
    BY <1>3, <1>5
  <2> HIDE DEF r
  <2> QED  BY <2>1, <2>2, <1>1
<1> QED  BY <1>3, <1>5

\* An id that is drawn is no hash of a trace and its bounds.
LEMMA IdsApart ==
    ASSUME NEW a, NEW b, NEW c, NEW d, NEW e
    PROVE  <<a>> # <<b, c, d, e>>
<1>1. Len(<<a>>) = 1 /\ Len(<<b, c, d, e>>) = 4
  OBVIOUS
<1> QED  BY <1>1

\* Two outputs with one trace and one id are the same.
LEMMA OneSpanPerIdOf ==
    ASSUME NEW I, NEW Gs, Groups(Gs, I),
           NEW o \in FragmentsOf(Gs), NEW p \in FragmentsOf(Gs), o.trace = p.trace, o.id = p.id
    PROVE  o = p
<1>1. /\ LaminarSpans(I)
      /\ \A q \in Gs : q \in Seq(I) /\ ToSet(q) \subseteq I
      /\ \A q, r \in Gs : \A s \in ToSet(q) : s \in ToSet(r) => q = r
  BY SeqFinite DEF Groups
<1>2. \A e, f \in I : e.id = f.id => e = f
  BY <1>1 DEF LaminarSpans
<1>3. \A q, s : IsCall(q, s) => s \in ToSet(q) /\ s.role # "root"
  BY CallFacts
<1>4. ASSUME NEW q \in Gs, NEW r \in Gs, NEW s \in ToSet(q), NEW u \in ToSet(r),
             <<s.id>> = <<u.id>>
      PROVE  s = u /\ q = r
  <2>1. s.id = u.id
    BY <1>4
  <2>2. s = u
    BY <2>1, <1>1, <1>2
  <2> QED  BY <2>2, <1>1
<1>5. PICK q \in Gs : \/ \E t \in GroupTraces(q) : o = RootOut(q, t)
                      \/ \E s : IsCall(q, s) /\ o = CallOut(q, s)
  BY FragmentCases
<1>6. PICK r \in Gs : \/ \E t \in GroupTraces(r) : p = RootOut(r, t)
                      \/ \E s : IsCall(r, s) /\ p = CallOut(r, s)
  BY FragmentCases
<1>7. \A g, t : RootOut(g, t).trace = t /\ RootOut(g, t).id = RootId(g, t)
  BY DEF RootOut
<1>8. \A g, s : CallOut(g, s).trace = s.trace /\ CallOut(g, s).id = <<s.id>>
  BY DEF CallOut
<1>9. ASSUME NEW g \in Gs, NEW t
      PROVE  \/ \E s \in ToSet(g) : s.trace = t /\ s.role = "root" /\ RootId(g, t) = <<s.id>>
             \/ RootId(g, t) = <<"synthetic", t, Window(g, t).start, Window(g, t).end>>
  BY <1>1, RootIdFacts
<1>10. ASSUME NEW g \in Gs, NEW h \in Gs, NEW t, NEW s, IsCall(h, s)
       PROVE  RootId(g, t) # <<s.id>>
  <2>1. CASE \E u \in ToSet(g) : u.trace = t /\ u.role = "root" /\ RootId(g, t) = <<u.id>>
    <3>1. PICK u \in ToSet(g) : u.trace = t /\ u.role = "root" /\ RootId(g, t) = <<u.id>>
      BY <2>1
    <3>2. s \in ToSet(h) /\ s.role # "root"
      BY <1>3, <1>10
    <3> QED  BY <3>1, <3>2, <1>4
  <2>2. CASE RootId(g, t) = <<"synthetic", t, Window(g, t).start, Window(g, t).end>>
    BY <2>2, IdsApart
  <2> QED  BY <2>1, <2>2, <1>9
<1>11. CASE /\ \E t \in GroupTraces(q) : o = RootOut(q, t)
            /\ \E t \in GroupTraces(r) : p = RootOut(r, t)
  <2>1. PICK t \in GroupTraces(q) : o = RootOut(q, t)
    BY <1>11
  <2>2. PICK t2 \in GroupTraces(r) : p = RootOut(r, t2)
    BY <1>11
  <2>3. t2 = t /\ RootId(q, t) = RootId(r, t)
    BY <2>1, <2>2, <1>7
  <2>4. CASE \E s \in ToSet(q) : s.trace = t /\ s.role = "root" /\ RootId(q, t) = <<s.id>>
    <3>1. PICK s \in ToSet(q) : RootId(q, t) = <<s.id>>
      BY <2>4
    <3>2. RootId(r, t) # <<"synthetic", t, Window(r, t).start, Window(r, t).end>>
      BY <3>1, <2>3, IdsApart
    <3>3. PICK u \in ToSet(r) : RootId(r, t) = <<u.id>>
      BY <3>2, <1>9
    <3>4. q = r
      BY <3>1, <3>3, <2>3, <1>4
    <3> QED  BY <3>4, <2>1, <2>2, <2>3
  <2>5. CASE RootId(q, t) = <<"synthetic", t, Window(q, t).start, Window(q, t).end>>
    <3>1. ~\E u \in ToSet(r) : RootId(r, t) = <<u.id>>
      BY <2>5, <2>3, IdsApart
    <3>2. RootId(r, t) = <<"synthetic", t, Window(r, t).start, Window(r, t).end>>
      BY <3>1, <1>9
    <3>3. Window(q, t).start = Window(r, t).start /\ Window(q, t).end = Window(r, t).end
      BY <3>2, <2>3, <2>5
    <3> QED  BY <3>3, <2>1, <2>2, <2>3 DEF RootOut
  <2> QED  BY <2>4, <2>5, <1>9
<1>12. CASE /\ \E t \in GroupTraces(q) : o = RootOut(q, t)
            /\ \E s : IsCall(r, s) /\ p = CallOut(r, s)
  <2>1. PICK t \in GroupTraces(q) : o = RootOut(q, t)
    BY <1>12
  <2>2. PICK s : IsCall(r, s) /\ p = CallOut(r, s)
    BY <1>12
  <2>3. RootId(q, t) = <<s.id>>
    BY <2>1, <2>2, <1>7, <1>8
  <2> QED  BY <2>2, <2>3, <1>10
<1>13. CASE /\ \E s : IsCall(q, s) /\ o = CallOut(q, s)
            /\ \E t \in GroupTraces(r) : p = RootOut(r, t)
  <2>1. PICK s : IsCall(q, s) /\ o = CallOut(q, s)
    BY <1>13
  <2>2. PICK t \in GroupTraces(r) : p = RootOut(r, t)
    BY <1>13
  <2>3. RootId(r, t) = <<s.id>>
    BY <2>1, <2>2, <1>7, <1>8
  <2> QED  BY <2>1, <2>3, <1>10
<1>14. CASE /\ \E s : IsCall(q, s) /\ o = CallOut(q, s)
            /\ \E s : IsCall(r, s) /\ p = CallOut(r, s)
  <2>1. PICK s : IsCall(q, s) /\ o = CallOut(q, s)
    BY <1>14
  <2>2. PICK u : IsCall(r, u) /\ p = CallOut(r, u)
    BY <1>14
  <2>3. <<s.id>> = <<u.id>> /\ s \in ToSet(q) /\ u \in ToSet(r)
    BY <2>1, <2>2, <1>3, <1>8
  <2>4. s = u /\ q = r
    BY <2>3, <1>4
  <2> QED  BY <2>1, <2>2, <2>4
<1> QED  BY <1>5, <1>6, <1>11, <1>12, <1>13, <1>14

\* The window of a trace is around all its spans of the group.
LEMMA WindowCovers ==
    ASSUME NEW I, LaminarSpans(I), NEW q \in Seq(I), NEW t, NEW s \in TraceIn(q, t)
    PROVE  Window(q, t).start <= s.start /\ s.end <= Window(q, t).end
<1> DEFINE S == TraceIn(q, t)
           A == {u.start : u \in S}
           B == {u.end : u \in S}
<1>1. IsFiniteSet(S) /\ S \subseteq I
  <2>1. IsFiniteSet(ToSet(q)) /\ ToSet(q) \subseteq I
    BY SeqFinite
  <2>2. S \subseteq ToSet(q)
    BY DEF TraceIn
  <2> HIDE DEF S
  <2>3. IsFiniteSet(S)
    BY <2>1, <2>2, FS_Subset
  <2> QED  BY <2>1, <2>2, <2>3
<1>2. \A u \in S : u.start \in Nat /\ u.end \in Nat
  BY <1>1 DEF LaminarSpans
<1>3. /\ Window(q, t).start = CHOOSE m \in A : \A n \in A : m <= n
      /\ Window(q, t).end = CHOOSE m \in B : \A n \in B : m >= n
  BY DEF Window, MinOf, MaxOf
<1> HIDE DEF S
<1>4. IsFiniteSet(A) /\ IsFiniteSet(B)
  <2> DEFINE f == [u \in S |-> u.start]
             g == [u \in S |-> u.end]
  <2>1. A = {f[u] : u \in S} /\ B = {g[u] : u \in S}
    OBVIOUS
  <2> HIDE DEF A, B, f, g
  <2> QED  BY <2>1, <1>1, FiniteImage
<1>5. A \in SUBSET Int /\ B \in SUBSET Int /\ s.start \in A /\ s.end \in B
  BY <1>2 DEF S
<1> HIDE DEF A, B
<1>6. \E m \in A : \A n \in A : m <= n
  BY <1>4, <1>5, LeastNumber
<1>7. \E m \in B : \A n \in B : m >= n
  BY <1>4, <1>5, GreatestNumber
<1>8. Window(q, t).start \in A /\ \A n \in A : Window(q, t).start <= n
  BY <1>3, <1>6
<1>9. Window(q, t).end \in B /\ \A n \in B : Window(q, t).end >= n
  BY <1>3, <1>7
<1>10. Window(q, t).end >= s.end /\ Window(q, t).end \in Int /\ s.end \in Int
  BY <1>5, <1>9
<1> QED  BY <1>5, <1>8, <1>10

\* A call and the root it hangs from, which covers its trace in the group.
LEMMA RootOfCall ==
    ASSUME NEW I, NEW Gs, Groups(Gs, I), NEW q \in Gs, NEW s, IsCall(q, s)
    PROVE  /\ RootOut(q, s.trace) \in Fragment(q, s.trace)
           /\ s.trace \in GroupTraces(q)
           /\ RootOut(q, s.trace).kind = "root" /\ RootOut(q, s.trace).trace = s.trace
           /\ RootOut(q, s.trace).id = CallOut(q, s).parent
           /\ \A u \in TraceIn(q, s.trace) : /\ RootOut(q, s.trace).start <= u.start
                                             /\ u.end <= RootOut(q, s.trace).end
<1>1. q \in Seq(I) /\ LaminarSpans(I)
  BY DEF Groups
<1>2. RootOut(q, s.trace) \in Fragment(q, s.trace)
  BY DEF Fragment, RootOut
<1>3. /\ RootOut(q, s.trace).kind = "root" /\ RootOut(q, s.trace).trace = s.trace
      /\ RootOut(q, s.trace).id = CallOut(q, s).parent
      /\ RootOut(q, s.trace).start = Window(q, s.trace).start
      /\ RootOut(q, s.trace).end = Window(q, s.trace).end
  BY DEF RootOut, CallOut
<1> QED  BY <1>1, <1>2, <1>3, CallFacts, WindowCovers

\* A wrapper has one model call in its group.
LEMMA WrapperFacts ==
    ASSUME NEW I, NEW q \in Seq(I), NEW w
    PROVE  IsWrapper(q, w) <=> w.role = "chat" /\ \E s : ChatKids(q, w) = {s}
<1>1. IsFiniteSet(ToSet(q)) /\ ChatKids(q, w) \subseteq ToSet(q)
  BY SeqFinite DEF ChatKids, ChatSpans, TraceIn
<1>2. IsFiniteSet(ChatKids(q, w))
  BY <1>1, FS_Subset
<1>3. Cardinality(ChatKids(q, w)) = 1 <=> \E s : ChatKids(q, w) = {s}
  BY <1>2, FS_Singleton
<1> QED  BY <1>3 DEF IsWrapper

\* The model calls directly below a span.
LEMMA ChatKidsFacts ==
    ASSUME NEW q, NEW w, NEW s
    PROVE  s \in ChatKids(q, w) <=> /\ s \in ToSet(q) /\ s.trace = w.trace /\ s.role = "chat"
                                    /\ s.parent = w.id
  BY DEF ChatKids, ChatSpans, TraceIn

\* The counters of a call: its own, and those of its wrapper that it has not.
LEMMA UsageFacts ==
    ASSUME NEW q, NEW s, NEW c, NEW i
    PROVE  <<c, i>> \in UsageOf(q, s)
             <=> \/ c \in s.usage /\ i = s.id
                 \/ /\ s.role = "chat" /\ c \notin s.usage
                    /\ \E w \in ToSet(q) : /\ w.trace = s.trace /\ w.id = s.parent
                                           /\ IsWrapper(q, w) /\ c \in w.usage /\ i = w.id
<1>1. \A w : w \in ChatSpans(q, s.trace) /\ IsWrapper(q, w)
        <=> w \in ToSet(q) /\ w.trace = s.trace /\ IsWrapper(q, w)
  BY DEF ChatSpans, TraceIn, IsWrapper
<1> DEFINE V == {v \in ChatSpans(q, s.trace) :
                   s.role = "chat" /\ v.id = s.parent /\ IsWrapper(q, v)}
<1>2. UsageOf(q, s) = {<<d, s.id>> : d \in s.usage} \cup
                      UNION {{<<d, w.id>> : d \in w.usage \ s.usage} : w \in V}
  BY DEF UsageOf
<1>3. \A w : w \in V <=> /\ w \in ToSet(q) /\ w.trace = s.trace /\ IsWrapper(q, w)
                         /\ s.role = "chat" /\ w.id = s.parent
  BY <1>1
<1> HIDE DEF V
<1>4. <<c, i>> \in {<<d, s.id>> : d \in s.usage} <=> c \in s.usage /\ i = s.id
  OBVIOUS
<1>5. <<c, i>> \in UNION {{<<d, w.id>> : d \in w.usage \ s.usage} : w \in V}
        <=> \E w \in V : c \in w.usage /\ c \notin s.usage /\ i = w.id
  OBVIOUS
<1>6. <<c, i>> \in UsageOf(q, s)
        <=> \/ c \in s.usage /\ i = s.id
            \/ \E w \in V : c \in w.usage /\ c \notin s.usage /\ i = w.id
  BY <1>2, <1>4, <1>5
<1> QED  BY <1>3, <1>6

\* A counter and where it comes from are a pair.
LEMMA UsagePairs ==
    ASSUME NEW q, NEW s, NEW u \in UsageOf(q, s)
    PROVE  u = <<u[1], u[2]>>
  BY DEF UsageOf

\* What holds of spans of claimed groups, fact by fact.
LEMMA GroupFacts ==
    ASSUME NEW I, NEW Gs, Groups(Gs, I)
    PROVE  /\ \A q \in Gs : q \in Seq(I) /\ ToSet(q) \subseteq I
           /\ \A q, r \in Gs : \A s \in ToSet(q) : s \in ToSet(r) => q = r
           /\ \A e, f \in I : e.id = f.id => e = f
           /\ \A e, f \in I : f.parent = e.id => f.trace = e.trace
           /\ \A e, f \in I : e.call = f.call /\ e.call # "none" => e.trace = f.trace
           /\ \A e \in I : e.call # "none" => e.role = "tool"
           /\ \A e \in I : e.id \in Nat /\ e.start \in Nat
           /\ \A w, e, f \in I :
                (w.role = "chat" /\ e.role = "chat" /\ f.role = "chat" /\ e.parent = w.id)
                    => f.parent # e.id
  BY SeqFinite DEF Groups, LaminarSpans

\* Where a counter comes from: the call, or the wrapper around it.
LEMMA SourceOf ==
    ASSUME NEW I, NEW Gs, Groups(Gs, I), NEW o \in FragmentsOf(Gs), NEW u \in o.usage
    PROVE  \E q \in Gs : \E s, v \in ToSet(q) :
              /\ IsCall(q, s) /\ o = CallOut(q, s) /\ v.id = u[2]
              /\ v = s \/ (IsWrapper(q, v) /\ s \in ChatKids(q, v))
<1>1. PICK q \in Gs : \/ \E t \in GroupTraces(q) : o = RootOut(q, t)
                      \/ \E s : IsCall(q, s) /\ o = CallOut(q, s)
  BY FragmentCases
<1>2. \A t : RootOut(q, t).usage = {}
  BY DEF RootOut
<1>3. PICK s : IsCall(q, s) /\ o = CallOut(q, s)
  BY <1>1, <1>2
<1>4. CallOut(q, s).usage = UsageOf(q, s)
  BY DEF CallOut
<1>5. u \in UsageOf(q, s)
  BY <1>3, <1>4
<1>6. <<u[1], u[2]>> \in UsageOf(q, s)
  BY <1>5, UsagePairs
<1>7. s \in ToSet(q)
  BY <1>3, CallFacts
<1>8. \/ u[2] = s.id
      \/ \E w \in ToSet(q) : w.trace = s.trace /\ w.id = s.parent
                             /\ IsWrapper(q, w) /\ s.role = "chat" /\ u[2] = w.id
  BY <1>6, UsageFacts
<1>9. CASE u[2] = s.id
  BY <1>3, <1>7, <1>9
<1>10. CASE \E w \in ToSet(q) : w.trace = s.trace /\ w.id = s.parent
                             /\ IsWrapper(q, w) /\ s.role = "chat" /\ u[2] = w.id
  <2>1. PICK w \in ToSet(q) : w.trace = s.trace /\ w.id = s.parent
                             /\ IsWrapper(q, w) /\ s.role = "chat" /\ u[2] = w.id
    BY <1>10
  <2>2. s \in ChatKids(q, w)
    BY <2>1, <1>7, ChatKidsFacts
  <2> QED  BY <2>1, <2>2, <1>3, <1>7
<1> QED  BY <1>8, <1>9, <1>10

\* A counter of a wire span is in one span of the backend only.
LEMMA NothingTwiceOf ==
    ASSUME NEW I, NEW Gs, Groups(Gs, I), NEW o \in FragmentsOf(Gs), NEW p \in FragmentsOf(Gs),
           NEW u \in o.usage, u \in p.usage
    PROVE  o = p
<1>1. PICK q \in Gs : \E s, v \in ToSet(q) :
              /\ IsCall(q, s) /\ o = CallOut(q, s) /\ v.id = u[2]
              /\ v = s \/ (IsWrapper(q, v) /\ s \in ChatKids(q, v))
  BY SourceOf
<1>2. PICK s, v \in ToSet(q) :
              /\ IsCall(q, s) /\ o = CallOut(q, s) /\ v.id = u[2]
              /\ v = s \/ (IsWrapper(q, v) /\ s \in ChatKids(q, v))
  BY <1>1
<1>3. PICK r \in Gs : \E t, w \in ToSet(r) :
              /\ IsCall(r, t) /\ p = CallOut(r, t) /\ w.id = u[2]
              /\ w = t \/ (IsWrapper(r, w) /\ t \in ChatKids(r, w))
  BY SourceOf
<1>4. PICK t, w \in ToSet(r) :
              /\ IsCall(r, t) /\ p = CallOut(r, t) /\ w.id = u[2]
              /\ w = t \/ (IsWrapper(r, w) /\ t \in ChatKids(r, w))
  BY <1>3
<1>5. v = w /\ q = r
  <2>1. v \in I /\ w \in I /\ v.id = w.id
    BY <1>2, <1>4, GroupFacts
  <2>2. v = w
    BY <2>1, GroupFacts
  <2> QED  BY <2>2, <1>2, <1>4, GroupFacts
<1>6. ~IsWrapper(q, s) /\ ~IsWrapper(q, t)
  BY <1>2, <1>4, <1>5, CallFacts
<1>7. s = t
  <2>1. CASE v = s /\ w = t
    BY <2>1, <1>5
  <2>2. CASE IsWrapper(q, v) /\ s \in ChatKids(q, v) /\ t \in ChatKids(q, v)
    <3>1. q \in Seq(I)
      BY GroupFacts
    <3>2. PICK k : ChatKids(q, v) = {k}
      BY <2>2, <3>1, WrapperFacts
    <3> QED  BY <3>2, <2>2
  <2> QED  BY <2>1, <2>2, <1>2, <1>4, <1>5, <1>6
<1> QED  BY <1>2, <1>4, <1>5, <1>7

\* A call and its wrapper that came together are one span with the counters of both.
LEMMA CountedOnceOf ==
    ASSUME NEW I, NEW Gs, Groups(Gs, I), NEW q \in Gs, NEW w \in ToSet(q), NEW s \in ToSet(q),
           w.role = "chat", s.role = "chat", s.parent = w.id,
           \A r \in Gs : \A k \in ToSet(r) : k.role = "chat" /\ k.parent = w.id => k = s,
           NEW c \in w.usage \cup s.usage
    PROVE  \E p \in FragmentsOf(Gs) :
             {o \in FragmentsOf(Gs) : \E u \in o.usage : u[1] = c /\ u[2] \in {w.id, s.id}} = {p}
<1>1. q \in Seq(I) /\ w \in I /\ s \in I
  BY GroupFacts
<1>2. s.trace = w.trace
  BY <1>1, GroupFacts
<1>3. ChatKids(q, w) = {s}
  <2>1. \A k : k \in ChatKids(q, w) => k = s
    BY ChatKidsFacts
  <2>2. s \in ChatKids(q, w)
    BY <1>2, ChatKidsFacts
  <2> QED  BY <2>1, <2>2
<1>4. IsWrapper(q, w)
  BY <1>1, <1>3, WrapperFacts
<1>5. ~IsWrapper(q, s)
  <2> SUFFICES ASSUME NEW k, ChatKids(q, s) = {k} PROVE FALSE
    BY <1>1, WrapperFacts
  <2>1. k \in ToSet(q) /\ k.role = "chat" /\ k.parent = s.id
    BY ChatKidsFacts
  <2>2. k \in I
    BY <2>1, GroupFacts
  <2> QED  BY <2>1, <2>2, <1>1, GroupFacts
<1>6. ~Repeated(q, s)
  BY DEF Repeated
<1>7. IsCall(q, s)
  BY <1>5, <1>6, CallFacts
<1> DEFINE p == CallOut(q, s)
           T == {o \in FragmentsOf(Gs) : \E u \in o.usage : u[1] = c /\ u[2] \in {w.id, s.id}}
<1>8. p \in FragmentsOf(Gs)
  BY <1>7, FragmentCases
<1>9. p.usage = UsageOf(q, s)
  BY DEF CallOut
<1>10. <<c, s.id>> \in p.usage \/ <<c, w.id>> \in p.usage
  <2>1. CASE c \in s.usage
    <3>1. <<c, s.id>> \in UsageOf(q, s)
      BY <2>1, UsageFacts
    <3> QED  BY <3>1, <1>9
  <2>2. CASE c \notin s.usage
    <3>1. <<c, w.id>> \in UsageOf(q, s)
      BY <2>2, <1>2, <1>4, UsageFacts
    <3> QED  BY <3>1, <1>9
  <2> QED  BY <2>1, <2>2
<1>11. ASSUME NEW o \in FragmentsOf(Gs), NEW u \in o.usage, u[2] \in {w.id, s.id} PROVE o = p
  <2>1. PICK r \in Gs : \E t, v \in ToSet(r) :
              /\ IsCall(r, t) /\ o = CallOut(r, t) /\ v.id = u[2]
              /\ v = t \/ (IsWrapper(r, v) /\ t \in ChatKids(r, v))
    BY SourceOf
  <2>2. PICK t, v \in ToSet(r) :
              /\ IsCall(r, t) /\ o = CallOut(r, t) /\ v.id = u[2]
              /\ v = t \/ (IsWrapper(r, v) /\ t \in ChatKids(r, v))
    BY <2>1
  <2>3. v = w \/ v = s
    <3>1. v \in I
      BY <2>2, GroupFacts
    <3>2. v.id = w.id \/ v.id = s.id
      BY <2>2, <1>11
    <3> QED  BY <3>1, <3>2, <1>1, GroupFacts
  <2>4. r = q
    BY <2>2, <2>3, GroupFacts
  <2>5. ~IsWrapper(q, t)
    BY <2>2, <2>4, CallFacts
  <2>6. t = s
    BY <2>2, <2>3, <2>4, <2>5, <1>3, <1>4, <1>5
  <2> QED  BY <2>2, <2>4, <2>6
<1> HIDE DEF p
<1>12. p \in T
  <2>1. <<c, s.id>>[1] = c /\ <<c, s.id>>[2] = s.id /\ <<c, w.id>>[1] = c /\ <<c, w.id>>[2] = w.id
    OBVIOUS
  <2>2. \E u \in p.usage : u[1] = c /\ u[2] \in {w.id, s.id}
    BY <2>1, <1>10
  <2> QED  BY <2>2, <1>8
<1>13. T = {p}
  <2>1. \A o \in T : o = p
    BY <1>11
  <2> HIDE DEF T
  <2> QED  BY <2>1, <1>12
<1> QED  BY <1>8, <1>13

\* A span with the id of a wire span that is no conversation is that span's.
LEMMA IdOfCall ==
    ASSUME NEW I, NEW Gs, Groups(Gs, I), NEW q \in Gs, NEW s \in ToSet(q), s.role # "root",
           NEW o \in FragmentsOf(Gs), o.id = <<s.id>>
    PROVE  IsCall(q, s) /\ o = CallOut(q, s)
<1>1. \A r \in Gs : \A u \in ToSet(r) : <<u.id>> = <<s.id>> => u = s /\ r = q
  <2> SUFFICES ASSUME NEW r \in Gs, NEW u \in ToSet(r), <<u.id>> = <<s.id>> PROVE u = s /\ r = q
    OBVIOUS
  <2>1. u.id = s.id
    OBVIOUS
  <2>2. u = s
    BY <2>1, GroupFacts
  <2> QED  BY <2>2, GroupFacts
<1>2. PICK r \in Gs : \/ \E t \in GroupTraces(r) : o = RootOut(r, t)
                      \/ \E u : IsCall(r, u) /\ o = CallOut(r, u)
  BY FragmentCases
<1>3. CASE \E t \in GroupTraces(r) : o = RootOut(r, t)
  <2>1. PICK t \in GroupTraces(r) : o = RootOut(r, t)
    BY <1>3
  <2>2. RootId(r, t) = <<s.id>>
    BY <2>1 DEF RootOut
  <2>3. r \in Seq(I) /\ LaminarSpans(I)
    BY DEF Groups
  <2>4. RootId(r, t) # <<"synthetic", t, Window(r, t).start, Window(r, t).end>>
    BY <2>2, IdsApart
  <2>5. PICK u \in ToSet(r) : u.role = "root" /\ RootId(r, t) = <<u.id>>
    BY <2>3, <2>4, RootIdFacts
  <2> QED  BY <2>2, <2>5, <1>1
<1>4. CASE \E u : IsCall(r, u) /\ o = CallOut(r, u)
  <2>1. PICK u : IsCall(r, u) /\ o = CallOut(r, u)
    BY <1>4
  <2>2. u \in ToSet(r) /\ CallOut(r, u).id = <<u.id>>
    BY <2>1, CallFacts DEF CallOut
  <2> QED  BY <2>1, <2>2, <1>1
<1> QED  BY <1>2, <1>3, <1>4

\* Of two records of one tool call in one group, one becomes a span.
LEMMA ToolOnceOf ==
    ASSUME NEW I, NEW Gs, Groups(Gs, I), NEW q \in Gs, NEW r \in ToSet(q), NEW s \in ToSet(q),
           r # s, r.call = s.call, r.call # "none",
           NEW o \in FragmentsOf(Gs), o.id = <<r.id>>, NEW p \in FragmentsOf(Gs), p.id = <<s.id>>
    PROVE  FALSE
<1>1. r \in I /\ s \in I
  BY GroupFacts
<1>2. r.role = "tool" /\ s.role = "tool" /\ r.trace = s.trace
  BY <1>1, GroupFacts
<1>3. IsCall(q, r) /\ IsCall(q, s)
  BY <1>2, IdOfCall
<1>4. ~Repeated(q, r) /\ ~Repeated(q, s)
  BY <1>3, CallFacts
<1>5. r \in Calls(q, s.trace) /\ s \in Calls(q, r.trace)
  BY <1>2 DEF Calls, TraceIn
<1>6. r.start \in Nat /\ s.start \in Nat /\ r.id \in Nat /\ s.id \in Nat
  BY <1>1, GroupFacts
<1>7. Before(r, s) \/ Before(s, r)
  BY <1>6 DEF Before
<1> QED  BY <1>2, <1>4, <1>5, <1>7 DEF Repeated

\* The groups of a batch that the edge claims.
ClaimedIn(b) == {b[i] : i \in {j \in DOMAIN b : ContainsOpenHandsSpans(b[j])}}
\* The groups that it claimed of all batches.
ClaimedGroups == UNION {ClaimedIn(x.batch) : x \in From("openhands")}

\* What the edge makes of a batch are the fragments of the claimed groups.
LEMMA ClaimedInFacts ==
    ASSUME NEW b, NEW q
    PROVE  /\ q \in ClaimedIn(b)
                <=> \E i \in DOMAIN b : ContainsOpenHandsSpans(b[i]) /\ q = b[i]
           /\ OpenHandsNormalize(b) = FragmentsOf(ClaimedIn(b))
<1>1. q \in ClaimedIn(b) <=> \E i \in DOMAIN b : ContainsOpenHandsSpans(b[i]) /\ q = b[i]
  BY DEF ClaimedIn
<1>2. \A o : o \in OpenHandsNormalize(b)
        <=> \E i \in DOMAIN b : /\ ContainsOpenHandsSpans(b[i])
                                /\ o \in UNION {Fragment(b[i], t) : t \in GroupTraces(b[i])}
  BY DEF OpenHandsNormalize
<1>3. \A o : o \in FragmentsOf(ClaimedIn(b))
        <=> \E i \in DOMAIN b : /\ ContainsOpenHandsSpans(b[i])
                                /\ o \in UNION {Fragment(b[i], t) : t \in GroupTraces(b[i])}
  BY DEF FragmentsOf, ClaimedIn
<1> QED  BY <1>1, <1>2, <1>3

\* The assumption about what is sent, by name.
LEMMA SentLaminar ==
    ASSUME NEW s \in Sent, s.edge = "openhands"
    PROVE  LaminarSpans(s.items)
  BY OpenHandsAssumption DEF LaminarSpans

\* A span is in one claimed group of the backend: batches share no item, and
\* neither do the groups of a batch.
LEMMA ClaimedGroupsAre ==
    ASSUME Inv, From("openhands") # {}
    PROVE  Groups(ClaimedGroups, sent.items)
<1>1. sent \in Sent /\ sent.edge = "openhands" /\ From("openhands") = backend
  BY DEF From, Inv
<1>2. LaminarSpans(sent.items)
  BY <1>1, SentLaminar
<1>3. \A q : q \in ClaimedGroups
        <=> \E x \in backend : \E i \in DOMAIN x.batch :
               ContainsOpenHandsSpans(x.batch[i]) /\ q = x.batch[i]
  BY <1>1, ClaimedInFacts DEF ClaimedGroups
<1>4. \A x \in backend : Grouped(x.batch, sent.items)
  BY DEF Inv, IsBatch
<1>5. \A x, y \in backend : x.batch = y.batch \/ ItemsOf(x.batch) \cap ItemsOf(y.batch) = {}
  BY DEF Inv
<1>6. ASSUME NEW q \in ClaimedGroups PROVE q \in Seq(sent.items)
  BY <1>3, <1>4 DEF Grouped
<1>7. ASSUME NEW q \in ClaimedGroups, NEW r \in ClaimedGroups, NEW s \in ToSet(q), s \in ToSet(r)
      PROVE  q = r
  <2>1. PICK x \in backend : \E i \in DOMAIN x.batch : q = x.batch[i]
    BY <1>3
  <2>2. PICK i \in DOMAIN x.batch : q = x.batch[i]
    BY <2>1
  <2>3. PICK y \in backend : \E k \in DOMAIN y.batch : r = y.batch[k]
    BY <1>3
  <2>4. PICK k \in DOMAIN y.batch : r = y.batch[k]
    BY <2>3
  <2>5. PICK j \in DOMAIN q : q[j] = s
    BY DEF ToSet
  <2>6. PICK l \in DOMAIN r : r[l] = s
    BY <1>7 DEF ToSet
  <2>7. s \in ItemsOf(x.batch) /\ s \in ItemsOf(y.batch)
    BY <2>2, <2>4, <2>5, <2>6, ItemsOfMember
  <2>8. x.batch = y.batch
    BY <2>7, <1>5
  <2>9. i = k
    BY <2>2, <2>4, <2>5, <2>6, <2>8, <1>4 DEF Grouped
  <2> QED  BY <2>2, <2>4, <2>8, <2>9
<1> QED  BY <1>2, <1>6, <1>7 DEF Groups

\* What is in the backend of a batch.
LEMMA FragmentsOfBatch ==
    ASSUME Inv, \A b : Normalize("openhands", b) = OpenHandsNormalize(b),
           NEW x \in From("openhands")
    PROVE  /\ x.out \in FragmentsOf(ClaimedIn(x.batch))
           /\ Together(x) = FragmentsOf(ClaimedIn(x.batch))
           /\ FragmentsOf(ClaimedIn(x.batch)) \subseteq Outputs("openhands")
<1>1. /\ x.out \in Normalize("openhands", x.batch)
      /\ Together(x) = Normalize("openhands", x.batch)
      /\ Together(x) \subseteq Outputs("openhands")
  BY TogetherIs
<1>2. Normalize("openhands", x.batch) = FragmentsOf(ClaimedIn(x.batch))
  <2>1. Normalize("openhands", x.batch) = OpenHandsNormalize(x.batch)
    OBVIOUS
  <2> QED  BY <2>1, ClaimedInFacts
<1> QED  BY <1>1, <1>2

\* What is in the backend are fragments of claimed groups.
LEMMA OutputsAre ==
    ASSUME Inv, \A b : Normalize("openhands", b) = OpenHandsNormalize(b)
    PROVE  \A o \in Outputs("openhands") : o \in FragmentsOf(ClaimedGroups)
<1> SUFFICES ASSUME NEW o \in Outputs("openhands") PROVE o \in FragmentsOf(ClaimedGroups)
  OBVIOUS
<1>1. PICK x \in From("openhands") : o = x.out
  BY DEF Outputs
<1>2. o \in FragmentsOf(ClaimedIn(x.batch))
  BY <1>1, FragmentsOfBatch
<1>3. PICK q \in ClaimedIn(x.batch) : \/ \E t \in GroupTraces(q) : o = RootOut(q, t)
                                      \/ \E s : IsCall(q, s) /\ o = CallOut(q, s)
  BY <1>2, FragmentCases
<1>4. q \in ClaimedGroups
  BY DEF ClaimedGroups
<1> QED  BY <1>3, <1>4, FragmentCases

\* All fragments of claimed groups are in the backend.
LEMMA FragmentsAre ==
    ASSUME Inv, \A b : Normalize("openhands", b) = OpenHandsNormalize(b)
    PROVE  \A o \in FragmentsOf(ClaimedGroups) : o \in Outputs("openhands")
<1> SUFFICES ASSUME NEW o \in FragmentsOf(ClaimedGroups) PROVE o \in Outputs("openhands")
  OBVIOUS
<1>1. PICK q \in ClaimedGroups : \/ \E t \in GroupTraces(q) : o = RootOut(q, t)
                                 \/ \E s : IsCall(q, s) /\ o = CallOut(q, s)
  BY FragmentCases
<1>2. PICK x \in From("openhands") : q \in ClaimedIn(x.batch)
  BY DEF ClaimedGroups
<1>3. o \in FragmentsOf(ClaimedIn(x.batch))
  BY <1>1, <1>2, FragmentCases
<1> QED  BY <1>3, FragmentsOfBatch

\* A backend never merges two spans.
LEMMA OneSpanPerIdInv ==
    ASSUME Inv, \A b : Normalize("openhands", b) = OpenHandsNormalize(b)
    PROVE  OneSpanPerId
<1> SUFFICES ASSUME NEW o \in Outputs("openhands"), NEW p \in Outputs("openhands"),
                    o.trace = p.trace, o.id = p.id
             PROVE  o = p
  BY DEF OneSpanPerId
<1>1. From("openhands") # {}
  BY DEF Outputs
<1> QED  BY <1>1, ClaimedGroupsAre, OutputsAre, OneSpanPerIdOf

\* Every call in the backend hangs from a root that covers its group.
LEMMA RootCoversGroupInv ==
    ASSUME Inv, \A b : Normalize("openhands", b) = OpenHandsNormalize(b)
    PROVE  RootCoversGroup
<1> SUFFICES ASSUME NEW x \in From("openhands"), x.out.kind # "root"
             PROVE  \E r \in Together(x) :
                      /\ r.kind = "root" /\ r.trace = x.out.trace /\ r.id = x.out.parent
                      /\ \E i \in DOMAIN x.batch :
                           /\ \E s \in ToSet(x.batch[i]) : <<s.id>> = x.out.id
                           /\ \A s \in TraceIn(x.batch[i], r.trace) :
                                r.start <= s.start /\ s.end <= r.end
  BY DEF RootCoversGroup
<1>1. Groups(ClaimedGroups, sent.items)
  BY ClaimedGroupsAre
<1>2. x.out \in FragmentsOf(ClaimedIn(x.batch)) /\ Together(x) = FragmentsOf(ClaimedIn(x.batch))
  BY FragmentsOfBatch
<1>3. PICK q \in ClaimedIn(x.batch) : \/ \E t \in GroupTraces(q) : x.out = RootOut(q, t)
                                      \/ \E s : IsCall(q, s) /\ x.out = CallOut(q, s)
  BY <1>2, FragmentCases
<1>4. \A t : RootOut(q, t).kind = "root"
  BY DEF RootOut
<1>5. PICK s : IsCall(q, s) /\ x.out = CallOut(q, s)
  BY <1>3, <1>4
<1>6. q \in ClaimedGroups
  BY DEF ClaimedGroups
<1>7. PICK i \in DOMAIN x.batch : q = x.batch[i]
  BY ClaimedInFacts
<1>8. CallOut(q, s).trace = s.trace /\ CallOut(q, s).id = <<s.id>> /\ s \in ToSet(q)
  BY <1>5, CallFacts DEF CallOut
<1> DEFINE r == RootOut(q, s.trace)
<1>9. /\ s.trace \in GroupTraces(q)
      /\ r.kind = "root" /\ r.trace = s.trace /\ r.id = CallOut(q, s).parent
      /\ \A u \in TraceIn(q, s.trace) : r.start <= u.start /\ u.end <= r.end
  BY <1>1, <1>5, <1>6, RootOfCall
<1>10. r \in Together(x)
  BY <1>2, <1>9, FragmentCases
<1> HIDE DEF r
<1>11. /\ r.kind = "root" /\ r.trace = x.out.trace /\ r.id = x.out.parent
       /\ \E u \in ToSet(x.batch[i]) : <<u.id>> = x.out.id
       /\ \A u \in TraceIn(x.batch[i], r.trace) : r.start <= u.start /\ u.end <= r.end
  BY <1>5, <1>7, <1>8, <1>9
<1> QED  BY <1>10, <1>11

\* Two spans that came together are in one claimed group.
LEMMA CameTogetherIn ==
    ASSUME NEW s, NEW r, CameTogether(s, r)
    PROVE  \E q \in ClaimedGroups : s \in ToSet(q) /\ r \in ToSet(q)
<1>1. PICK x \in From("openhands") : \E i \in DOMAIN x.batch :
        ContainsOpenHandsSpans(x.batch[i]) /\ {s, r} \subseteq ToSet(x.batch[i])
  BY DEF CameTogether
<1>2. PICK i \in DOMAIN x.batch :
        ContainsOpenHandsSpans(x.batch[i]) /\ {s, r} \subseteq ToSet(x.batch[i])
  BY <1>1
<1>3. x.batch[i] \in ClaimedGroups
  BY <1>2, ClaimedInFacts DEF ClaimedGroups
<1> QED  BY <1>2, <1>3

\* What CountedOnceOf says, in the words of the property.
LEMMA CountedOnceTogetherInv ==
    ASSUME Inv, \A b : Normalize("openhands", b) = OpenHandsNormalize(b)
    PROVE  CountedOnceTogether
<1> SUFFICES ASSUME NEW p \in CallPairs, NEW c \in Counters, CameTogether(p[1], p[2]),
                    c \in p[1].usage \cup p[2].usage
             PROVE  Cardinality(Reports(c, p[1], p[2])) = 1
  BY DEF CountedOnceTogether
<1> DEFINE w == p[1]
           s == p[2]
<1>1. PICK q \in ClaimedGroups : w \in ToSet(q) /\ s \in ToSet(q)
  BY CameTogetherIn
<1>2. Groups(ClaimedGroups, sent.items)
  <2>1. From("openhands") # {}
    BY DEF CameTogether
  <2> QED  BY <2>1, ClaimedGroupsAre
<1>3. /\ w.role = "chat" /\ s.role = "chat"
      /\ {k \in WireSpans : k.role = "chat" /\ k.parent = w.id} = {s}
  BY DEF CallPairs
<1>4. s.parent = w.id
  BY <1>3
<1>5. ASSUME NEW r \in ClaimedGroups, NEW k \in ToSet(r), k.role = "chat", k.parent = w.id
      PROVE  k = s
  <2>1. PICK x \in From("openhands") : r \in ClaimedIn(x.batch)
    BY DEF ClaimedGroups
  <2>2. PICK i \in DOMAIN x.batch : r = x.batch[i]
    BY <2>1, ClaimedInFacts
  <2>3. k \in WireSpans
    BY <2>2, <1>5 DEF WireSpans, ItemsOf
  <2> QED  BY <2>3, <1>3, <1>5
<1>6. \A o : o \in Outputs("openhands") <=> o \in FragmentsOf(ClaimedGroups)
  BY OutputsAre, FragmentsAre
<1>7. Reports(c, w, s) = {o \in FragmentsOf(ClaimedGroups) :
                            \E u \in o.usage : u[1] = c /\ u[2] \in {w.id, s.id}}
  BY <1>6 DEF Reports
<1> HIDE DEF w, s
<1>8. c \in w.usage \cup s.usage
  BY DEF w, s
<1>9. PICK o : Reports(c, w, s) = {o}
  <2>1. \A r \in ClaimedGroups : \A k \in ToSet(r) : k.role = "chat" /\ k.parent = w.id => k = s
    BY <1>5
  <2>2. w.role = "chat" /\ s.role = "chat"
    BY <1>3
  <2>3. \E o \in FragmentsOf(ClaimedGroups) :
          {x \in FragmentsOf(ClaimedGroups) :
             \E u \in x.usage : u[1] = c /\ u[2] \in {w.id, s.id}} = {o}
    BY <2>1, <2>2, <1>1, <1>2, <1>4, <1>8, CountedOnceOf
  <2> QED  BY <2>3, <1>7
<1>10. Cardinality(Reports(c, w, s)) = 1
  BY <1>9, FS_Singleton
<1> QED  BY <1>10 DEF w, s

\* Nothing is lost or reported twice in the backend.
LEMMA CountedOnceInv ==
    ASSUME Inv, \A b : Normalize("openhands", b) = OpenHandsNormalize(b)
    PROVE  CountedOnce
<1>1. NothingReportedTwice
  <2> SUFFICES ASSUME NEW o \in Outputs("openhands"), NEW p \in Outputs("openhands"), o # p,
                      NEW u, u \in o.usage, u \in p.usage
               PROVE  FALSE
    BY DEF NothingReportedTwice
  <2>1. Groups(ClaimedGroups, sent.items)
    <3>1. From("openhands") # {}
      BY DEF Outputs
    <3> QED  BY <3>1, ClaimedGroupsAre
  <2> QED  BY <2>1, OutputsAre, NothingTwiceOf
<1>2. ToolOncePerGroup
  <2> SUFFICES ASSUME NEW r \in WireSpans, NEW s \in WireSpans, r # s, r.call = s.call,
                      r.call # "none", CameTogether(r, s),
                      {<<r.id>>, <<s.id>>} \subseteq {o.id : o \in Outputs("openhands")}
               PROVE  FALSE
    BY DEF ToolOncePerGroup
  <2>1. PICK q \in ClaimedGroups : r \in ToSet(q) /\ s \in ToSet(q)
    BY CameTogetherIn
  <2>2. Groups(ClaimedGroups, sent.items)
    <3>1. From("openhands") # {}
      BY DEF CameTogether
    <3> QED  BY <3>1, ClaimedGroupsAre
  <2>3. PICK o \in Outputs("openhands") : o.id = <<r.id>>
    OBVIOUS
  <2>4. PICK p \in Outputs("openhands") : p.id = <<s.id>>
    OBVIOUS
  <2> QED  BY <2>1, <2>2, <2>3, <2>4, OutputsAre, ToolOnceOf
<1> QED  BY <1>1, <1>2, CountedOnceTogetherInv DEF CountedOnce

\* However a conversation is cut into groups and batches: no two spans of the
\* backend have one trace and one id, and every call hangs from a root that came
\* with it and covers every span of its trace in the group (collect,
\* rootSpanID).
THEOREM OpenHandsFragmentsStand ==
    ASSUME \A b : Normalize("openhands", b) = OpenHandsNormalize(b)
    PROVE  Spec => []FragmentsStand
<1>1. Inv => FragmentsStand
  BY OneSpanPerIdInv, RootCoversGroupInv DEF FragmentsStand
<1> QED  BY <1>1, Invariant, PTL

\* However a conversation is cut: a counter of a model call that came with its
\* wrapper is reported exactly once, none is reported twice, and of the records
\* of a tool call that came together one becomes a span (foldLLMWrappers,
\* foldUsage, emitGroup).
THEOREM OpenHandsCountedOnce ==
    ASSUME \A b : Normalize("openhands", b) = OpenHandsNormalize(b)
    PROVE  Spec => []CountedOnce
<1>1. Inv => CountedOnce
  BY CountedOnceInv
<1> QED  BY <1>1, Invariant, PTL
=============================================================================
