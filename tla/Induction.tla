----------------------------- MODULE Induction -----------------------------
(***************************************************************************)
(* Induction on sequences and on finite sets, stated with a set instead of *)
(* an operator parameter and derived from the well-foundedness of the      *)
(* naturals, and by it the laws of sums over finite sets.                  *)
(***************************************************************************)
EXTENDS Integers, Sequences, FiniteSets, Functions, SequenceTheorems,
        NaturalsInduction, WellFoundedInduction, FiniteSetTheorems, TLAPS

\* Every set of naturals that is not empty has a least element.
LEMMA LeastNat ==
    ASSUME NEW T \in SUBSET Nat, T # {}
    PROVE  \E m \in T : \A n \in T : m <= n
<1>1. IsWellFoundedOn(OpToRel(<, Nat), Nat)
  BY NatLessThanWellFounded
<1>2. PICK m \in T : \A n \in T : ~(<<n, m>> \in OpToRel(<, Nat))
  BY <1>1, WFMin
<1>3. \A n \in T : ~(n < m)
  BY <1>2 DEF OpToRel
<1> QED
  BY <1>3

\* A set of sequences that holds the empty one and is closed under Append is
\* the set of all sequences.
LEMMA SeqSetInduction ==
    ASSUME NEW S, NEW T \in SUBSET Seq(S),
           <<>> \in T,
           \A s \in T : \A e \in S : Append(s, e) \in T
    PROVE  T = Seq(S)
<1> DEFINE Missed == {n \in Nat : \E s \in Seq(S) : Len(s) = n /\ s \notin T}
<1>1. SUFFICES ASSUME Missed # {} PROVE FALSE
  <2>1. \A s \in Seq(S) : Len(s) \in Nat
    BY LenProperties
  <2> QED
    BY <2>1
<1>2. PICK m \in Missed : \A n \in Missed : m <= n
  BY <1>1, LeastNat
<1>3. PICK s \in Seq(S) : Len(s) = m /\ s \notin T
  BY <1>2
<1>4. PICK front \in Seq(S), e \in S : s = Append(front, e)
  BY <1>3, SequenceEmptyOrAppend
<1>5. Len(s) = Len(front) + 1 /\ Len(front) \in Nat
  BY <1>4, AppendProperties, LenProperties
<1>6. front \notin T
  BY <1>3, <1>4
<1>7. Len(front) \in Missed
  BY <1>5, <1>6
<1>8. m <= Len(front) /\ m \in Nat
  BY <1>2, <1>7
<1> QED
  BY <1>3, <1>5, <1>8

\* A family of subsets of a finite set that holds a set as soon as it holds
\* everything strictly smaller holds them all.
LEMMA SubsetInduction ==
    ASSUME NEW S, IsFiniteSet(S), NEW T \in SUBSET SUBSET S,
           \A s \in SUBSET S : (\A t \in SUBSET s : t # s => t \in T) => s \in T
    PROVE  T = SUBSET S
<1> DEFINE Missed == {n \in Nat : \E s \in SUBSET S : Cardinality(s) = n /\ s \notin T}
<1>1. \A s \in SUBSET S : IsFiniteSet(s) /\ Cardinality(s) \in Nat
  BY FS_Subset, FS_CardinalityType
<1>2. SUFFICES ASSUME Missed # {} PROVE FALSE
  BY <1>1
<1>3. PICK m \in Missed : \A n \in Missed : m <= n
  BY <1>2, LeastNat
<1>4. PICK s \in SUBSET S : Cardinality(s) = m /\ s \notin T
  BY <1>3
<1>5. ASSUME NEW t \in SUBSET s, t # s
      PROVE  t \in T
  <2>1. Cardinality(t) <= Cardinality(s) /\ Cardinality(t) # Cardinality(s)
    BY <1>1, <1>5, FS_Subset
  <2>2. Cardinality(t) \in Nat /\ Cardinality(s) \in Nat /\ t \in SUBSET S
    BY <1>1
  <2>3. Cardinality(t) \notin Missed
    BY <2>1, <2>2, <1>3, <1>4
  <2> QED
    BY <2>2, <2>3
<1> QED
  BY <1>4, <1>5

-----------------------------------------------------------------------------
(* Sums over finite sets: SumFunctionOnSet of the community modules, which   *)
(* adds the values in an order of its own.                                   *)
First(s) == CHOOSE x \in s : TRUE

\* h tabulates the sums of g over the subsets of S.
Adds(h, g, S) ==
    h = [s \in SUBSET S |->
           IF s = {} THEN 0 ELSE g[First(s)] + h[s \ {First(s)}]]

LEMMA SumDef ==
    ASSUME NEW g, NEW S
    PROVE  SumFunctionOnSet(g, S) = (CHOOSE h : Adds(h, g, S))[S]
BY DEF SumFunctionOnSet, FoldFunctionOnSet, MapThenFoldSet, Adds, First

\* A table of the sums over the smaller sets gives one entry more.
LEMMA SumTableExists ==
    ASSUME NEW g, NEW S, IsFiniteSet(S)
    PROVE  \E h : Adds(h, g, S)
<1> DEFINE T == {s \in SUBSET S : \E h : Adds(h, g, s)}
<1>1. ASSUME NEW s \in SUBSET S, \A t \in SUBSET s : t # s => t \in T
      PROVE  s \in T
  <2>1. CASE s = {}
    <3>1. Adds([t \in SUBSET {} |-> 0], g, {})
      BY DEF Adds
    <3> QED
      BY <2>1, <3>1
  <2>2. CASE s # {}
    <3> DEFINE x == First(s)
               r == s \ {x}
    <3>1. x \in s
      BY <2>2 DEF First
    <3> HIDE DEF x
    <3>2. r \in SUBSET s /\ r # s
      BY <3>1
    <3> HIDE DEF r
    <3>3. \A t \in SUBSET s : t # s => \E h : Adds(h, g, t)
      BY <1>1
    <3> DEFINE tab(t) == CHOOSE h : Adds(h, g, t)
    <3>4. \A t \in SUBSET s : t # s => Adds(tab(t), g, t)
      BY <3>3
    <3> HIDE DEF tab
    \* The tables of two sets agree on what both cover.
    <3>5. ASSUME NEW t \in SUBSET s, t # s, NEW u \in SUBSET t
          PROVE  tab(t)[u] = tab(u)[u]
      <4> DEFINE A == {v \in SUBSET u : tab(t)[v] = tab(u)[v]}
      <4>1. Adds(tab(t), g, t) /\ Adds(tab(u), g, u)
        BY <3>4, <3>5
      <4>2. ASSUME NEW v \in SUBSET u, \A w \in SUBSET v : w # v => w \in A
            PROVE  v \in A
        <5>1. CASE v = {}
          BY <4>1, <5>1, <3>5 DEF Adds
        <5>2. CASE v # {}
          <6>1. First(v) \in v
            BY <5>2 DEF First
          <6>2. v \ {First(v)} \in A
            BY <4>2, <6>1
          <6>3. v \in SUBSET t
            BY <3>5
          <6>4. /\ tab(t)[v] = g[First(v)] + tab(t)[v \ {First(v)}]
                /\ tab(u)[v] = g[First(v)] + tab(u)[v \ {First(v)}]
            BY <4>1, <5>2, <6>3 DEF Adds
          <6> QED
            BY <6>2, <6>4
        <5> QED
          BY <5>1, <5>2
      <4>3. A \in SUBSET SUBSET u /\ IsFiniteSet(u)
        BY FS_Subset, <3>5
      <4> HIDE DEF A
      <4>4. A = SUBSET u
        BY <4>2, <4>3, SubsetInduction
      <4> QED
        BY <4>4 DEF A
    <3> DEFINE h == [t \in SUBSET s |->
                       IF t = s THEN g[x] + tab(r)[r] ELSE tab(t)[t]]
    <3>6. \A t \in SUBSET s :
             h[t] = IF t = {} THEN 0 ELSE g[First(t)] + h[t \ {First(t)}]
      <4> SUFFICES ASSUME NEW t \in SUBSET s
                   PROVE  h[t] = IF t = {} THEN 0
                                 ELSE g[First(t)] + h[t \ {First(t)}]
        OBVIOUS
      <4>1. CASE t = s
        BY <4>1, <2>2, <3>2 DEF x, r
      <4>2. CASE t = {}
        <5>1. Adds(tab(t), g, t)
          BY <3>4, <4>2, <2>2
        <5>2. tab(t)[t] = 0
          BY <5>1, <4>2 DEF Adds
        <5> QED
          BY <5>2, <4>2, <2>2
      <4>3. CASE t # s /\ t # {}
        <5> DEFINE y == First(t)
                   q == t \ {y}
        <5>1. y \in t
          BY <4>3 DEF First
        <5> HIDE DEF y
        <5>2. q \in SUBSET t /\ q # s /\ q \in SUBSET s
          BY <5>1, <4>3
        <5> HIDE DEF q
        <5>3. Adds(tab(t), g, t)
          BY <3>4, <4>3
        <5>4. tab(t)[t] = g[y] + tab(t)[q]
          BY <5>3, <4>3 DEF Adds, y, q
        <5>5. tab(t)[q] = tab(q)[q]
          BY <3>5, <4>3, <5>2
        <5>6. h[t] = tab(t)[t] /\ h[q] = tab(q)[q]
          BY <4>3, <5>2
        <5> HIDE DEF h
        <5> QED
          BY <5>4, <5>5, <5>6, <4>3 DEF y, q
      <4> QED
        BY <4>1, <4>2, <4>3
    <3>7. Adds(h, g, s)
      <4>1. DOMAIN h = SUBSET s /\ h = [t \in SUBSET s |-> h[t]]
        OBVIOUS
      <4> HIDE DEF h
      <4> QED
        BY <3>6, <4>1 DEF Adds
    <3> QED
      BY <3>7
  <2> QED
    BY <2>1, <2>2
<1>2. T \in SUBSET SUBSET S
  OBVIOUS
<1> HIDE DEF T
<1>3. T = SUBSET S
  BY <1>1, <1>2, SubsetInduction
<1> QED
  BY <1>3 DEF T

LEMMA SumTable ==
    ASSUME NEW g, NEW S, IsFiniteSet(S), NEW h, Adds(h, g, S), NEW u \in SUBSET S
    PROVE  h[u] = SumFunctionOnSet(g, u)
<1> DEFINE c == CHOOSE k : Adds(k, g, u)
           A == {v \in SUBSET u : h[v] = c[v]}
<1>1. IsFiniteSet(u)
  BY FS_Subset
<1>2. Adds(c, g, u)
  BY <1>1, SumTableExists
<1>3. SumFunctionOnSet(g, u) = c[u]
  BY SumDef
<1> HIDE DEF c
<1>4. ASSUME NEW v \in SUBSET u, \A w \in SUBSET v : w # v => w \in A
      PROVE  v \in A
  <2>1. CASE v = {}
    BY <1>2, <2>1 DEF Adds
  <2>2. CASE v # {}
    <3>1. First(v) \in v
      BY <2>2 DEF First
    <3>2. v \ {First(v)} \in A
      BY <1>4, <3>1
    <3>3. v \in SUBSET S
      OBVIOUS
    <3>4. /\ h[v] = g[First(v)] + h[v \ {First(v)}]
          /\ c[v] = g[First(v)] + c[v \ {First(v)}]
      BY <1>2, <2>2, <3>3 DEF Adds
    <3> QED
      BY <3>2, <3>4
  <2> QED
    BY <2>1, <2>2
<1>5. A \in SUBSET SUBSET u
  OBVIOUS
<1> HIDE DEF A
<1>6. A = SUBSET u
  BY <1>1, <1>4, <1>5, SubsetInduction
<1> QED
  BY <1>3, <1>6 DEF A

LEMMA SumEmpty ==
    ASSUME NEW g
    PROVE  SumFunctionOnSet(g, {}) = 0
<1>1. IsFiniteSet({})
  BY FS_EmptySet
<1>2. PICK h : Adds(h, g, {})
  BY <1>1, SumTableExists
<1>3. h[{}] = 0
  BY <1>2 DEF Adds
<1> QED
  BY <1>1, <1>2, <1>3, SumTable

LEMMA SumFirst ==
    ASSUME NEW g, NEW S, IsFiniteSet(S), S # {}
    PROVE  /\ First(S) \in S
           /\ SumFunctionOnSet(g, S)
                = g[First(S)] + SumFunctionOnSet(g, S \ {First(S)})
<1>1. PICK h : Adds(h, g, S)
  BY SumTableExists
<1>2. First(S) \in S
  BY DEF First
<1>3. h[S] = g[First(S)] + h[S \ {First(S)}]
  BY <1>1 DEF Adds
<1>4. h[S] = SumFunctionOnSet(g, S)
  BY <1>1, SumTable
<1> DEFINE r == S \ {First(S)}
<1>5. r \in SUBSET S
  OBVIOUS
<1> HIDE DEF r
<1>6. h[r] = SumFunctionOnSet(g, r)
  BY <1>1, <1>5, SumTable
<1> QED
  BY <1>2, <1>3, <1>4, <1>6 DEF r

\* A sum of naturals is a natural.
LEMMA SumNat ==
    ASSUME NEW S, IsFiniteSet(S), NEW g, \A x \in S : g[x] \in Nat
    PROVE  SumFunctionOnSet(g, S) \in Nat
<1> DEFINE T == {s \in SUBSET S : SumFunctionOnSet(g, s) \in Nat}
<1>1. ASSUME NEW s \in SUBSET S, \A t \in SUBSET s : t # s => t \in T
      PROVE  s \in T
  <2>1. CASE s = {}
    BY <2>1, SumEmpty
  <2>2. CASE s # {}
    <3>1. IsFiniteSet(s)
      BY FS_Subset
    <3>2. /\ First(s) \in s
          /\ SumFunctionOnSet(g, s)
               = g[First(s)] + SumFunctionOnSet(g, s \ {First(s)})
      BY <2>2, <3>1, SumFirst
    <3>3. SumFunctionOnSet(g, s \ {First(s)}) \in Nat
      BY <1>1, <3>2
    <3> QED
      BY <3>2, <3>3
  <2> QED
    BY <2>1, <2>2
<1>2. T \in SUBSET SUBSET S
  OBVIOUS
<1> HIDE DEF T
<1>3. T = SUBSET S
  BY <1>1, <1>2, SubsetInduction
<1> QED
  BY <1>3 DEF T

\* Any element may be added first.
LEMMA SumRemove ==
    ASSUME NEW S, IsFiniteSet(S), NEW g, \A x \in S : g[x] \in Nat, NEW a \in S
    PROVE  SumFunctionOnSet(g, S) = g[a] + SumFunctionOnSet(g, S \ {a})
<1> DEFINE Sum(s) == SumFunctionOnSet(g, s)
           T == {s \in SUBSET S : \A x \in s : Sum(s) = g[x] + Sum(s \ {x})}
<1>0. \A s \in SUBSET S : IsFiniteSet(s) /\ Sum(s) \in Nat
  BY FS_Subset, SumNat
<1>1. ASSUME NEW s \in SUBSET S, \A t \in SUBSET s : t # s => t \in T
      PROVE  s \in T
  <2> SUFFICES ASSUME NEW x \in s PROVE Sum(s) = g[x] + Sum(s \ {x})
    OBVIOUS
  <2> DEFINE y == First(s)
  <2>1. y \in s /\ Sum(s) = g[y] + Sum(s \ {y})
    BY <1>0, SumFirst
  <2> HIDE DEF y, Sum
  <2>2. CASE x = y
    BY <2>1, <2>2
  <2>3. CASE x # y
    <3>1. s \ {y} \in T /\ x \in s \ {y}
      BY <1>1, <2>1, <2>3
    <3>2. s \ {x} \in T /\ y \in s \ {x}
      BY <1>1, <2>1, <2>3
    <3>3. Sum(s \ {y}) = g[x] + Sum((s \ {y}) \ {x})
      BY <3>1
    <3>4. Sum(s \ {x}) = g[y] + Sum((s \ {x}) \ {y})
      BY <3>2
    <3>5. (s \ {y}) \ {x} = (s \ {x}) \ {y}
      OBVIOUS
    <3> DEFINE z == (s \ {x}) \ {y}
    <3>6. z \in SUBSET S
      OBVIOUS
    <3>7. Sum(z) \in Nat /\ g[x] \in Nat /\ g[y] \in Nat
      BY <3>6, <1>0, <2>1
    <3>8. Sum(s) = g[y] + (g[x] + Sum(z)) /\ Sum(s \ {x}) = g[y] + Sum(z)
      BY <2>1, <3>3, <3>4, <3>5
    <3> HIDE DEF z
    <3> QED
      BY <3>7, <3>8
  <2> QED
    BY <2>2, <2>3
<1>2. T \in SUBSET SUBSET S
  OBVIOUS
<1> HIDE DEF T, Sum
<1>3. T = SUBSET S
  BY <1>1, <1>2, SubsetInduction
<1> QED
  BY <1>3 DEF T, Sum

\* Sums add up element by element.
LEMMA SumPlus ==
    ASSUME NEW S, IsFiniteSet(S), NEW g, NEW h, NEW k,
           \A x \in S : g[x] \in Nat /\ h[x] \in Nat /\ k[x] = g[x] + h[x]
    PROVE  SumFunctionOnSet(k, S) = SumFunctionOnSet(g, S) + SumFunctionOnSet(h, S)
<1> DEFINE G(s) == SumFunctionOnSet(g, s)
           H(s) == SumFunctionOnSet(h, s)
           K(s) == SumFunctionOnSet(k, s)
           T == {s \in SUBSET S : K(s) = G(s) + H(s)}
<1>0. \A s \in SUBSET S : IsFiniteSet(s) /\ G(s) \in Nat /\ H(s) \in Nat
  BY FS_Subset, SumNat
<1>1. ASSUME NEW s \in SUBSET S, \A t \in SUBSET s : t # s => t \in T
      PROVE  s \in T
  <2>1. CASE s = {}
    BY <2>1, SumEmpty
  <2>2. CASE s # {}
    <3> DEFINE x == First(s)
               r == s \ {First(s)}
    <3>1. /\ x \in s
          /\ G(s) = g[x] + G(r) /\ H(s) = h[x] + H(r) /\ K(s) = k[x] + K(r)
      BY <2>2, <1>0, SumFirst
    <3>2. r \in SUBSET S /\ r \in SUBSET s /\ r # s
      BY <3>1
    <3> HIDE DEF x, r
    <3>3. K(r) = G(r) + H(r)
      BY <1>1, <3>2
    <3>4. G(r) \in Nat /\ H(r) \in Nat
      BY <1>0, <3>2
    <3>5. g[x] \in Nat /\ h[x] \in Nat /\ k[x] = g[x] + h[x]
      BY <3>1
    <3> HIDE DEF G, H, K
    <3> QED
      BY <3>1, <3>3, <3>4, <3>5
  <2> QED
    BY <2>1, <2>2
<1>2. T \in SUBSET SUBSET S
  OBVIOUS
<1> HIDE DEF T
<1>3. T = SUBSET S
  BY <1>1, <1>2, SubsetInduction
<1> QED
  BY <1>3 DEF T

\* Equal terms have equal sums.
LEMMA SumSame ==
    ASSUME NEW S, IsFiniteSet(S), NEW g, NEW h, \A x \in S : g[x] = h[x]
    PROVE  SumFunctionOnSet(g, S) = SumFunctionOnSet(h, S)
<1> DEFINE G(s) == SumFunctionOnSet(g, s)
           H(s) == SumFunctionOnSet(h, s)
           T == {s \in SUBSET S : G(s) = H(s)}
<1>0. \A s \in SUBSET S : IsFiniteSet(s)
  BY FS_Subset
<1>1. ASSUME NEW s \in SUBSET S, \A t \in SUBSET s : t # s => t \in T
      PROVE  s \in T
  <2>1. CASE s = {}
    BY <2>1, SumEmpty
  <2>2. CASE s # {}
    <3> DEFINE x == First(s)
               r == s \ {First(s)}
    <3>1. /\ x \in s
          /\ G(s) = g[x] + G(r) /\ H(s) = h[x] + H(r)
      BY <2>2, <1>0, SumFirst
    <3>2. r \in SUBSET s /\ r # s
      BY <3>1
    <3> HIDE DEF x, r
    <3>3. G(r) = H(r) /\ g[x] = h[x]
      BY <1>1, <3>1, <3>2
    <3> HIDE DEF G, H
    <3> QED
      BY <3>1, <3>3
  <2> QED
    BY <2>1, <2>2
<1>2. T \in SUBSET SUBSET S
  OBVIOUS
<1> HIDE DEF T
<1>3. T = SUBSET S
  BY <1>1, <1>2, SubsetInduction
<1> QED
  BY <1>3 DEF T

\* A factor common to all terms.
LEMMA SumTimes ==
    ASSUME NEW S, IsFiniteSet(S), NEW c \in Nat, NEW g, NEW k,
           \A x \in S : g[x] \in Nat /\ k[x] = c * g[x]
    PROVE  SumFunctionOnSet(k, S) = c * SumFunctionOnSet(g, S)
<1> DEFINE G(s) == SumFunctionOnSet(g, s)
           K(s) == SumFunctionOnSet(k, s)
           T == {s \in SUBSET S : K(s) = c * G(s)}
<1>0. \A s \in SUBSET S : IsFiniteSet(s) /\ G(s) \in Nat
  BY FS_Subset, SumNat
<1>1. ASSUME NEW s \in SUBSET S, \A t \in SUBSET s : t # s => t \in T
      PROVE  s \in T
  <2>1. CASE s = {}
    <3>1. K({}) = 0 /\ G({}) = 0
      BY SumEmpty
    <3> HIDE DEF K, G
    <3> QED
      BY <2>1, <3>1
  <2>2. CASE s # {}
    <3> DEFINE x == First(s)
               r == s \ {First(s)}
    <3>1. /\ x \in s
          /\ G(s) = g[x] + G(r) /\ K(s) = k[x] + K(r)
      BY <2>2, <1>0, SumFirst
    <3>2. r \in SUBSET S /\ r \in SUBSET s /\ r # s
      BY <3>1
    <3> HIDE DEF x, r
    <3>3. K(r) = c * G(r) /\ G(r) \in Nat /\ g[x] \in Nat /\ k[x] = c * g[x]
      BY <1>0, <1>1, <3>1, <3>2
    <3> HIDE DEF G, K
    <3>4. \A a, b \in Nat : c * a + c * b = c * (a + b)
      OBVIOUS
    <3>5. c * g[x] + c * G(r) = c * (g[x] + G(r))
      BY <3>3, <3>4
    <3>6. K(s) = c * (g[x] + G(r))
      BY <3>1, <3>3, <3>5
    <3>7. K(s) = c * G(s)
      BY <3>1, <3>6
    <3> QED
      BY <3>7
  <2> QED
    BY <2>1, <2>2
<1>2. T \in SUBSET SUBSET S
  OBVIOUS
<1> HIDE DEF T
<1>3. T = SUBSET S
  BY <1>1, <1>2, SubsetInduction
<1> QED
  BY <1>3 DEF T

\* Terms that are zero need not be added.
LEMMA SumSubset ==
    ASSUME NEW S, IsFiniteSet(S), NEW g, \A x \in S : g[x] \in Nat,
           NEW E \in SUBSET S, \A x \in S \ E : g[x] = 0
    PROVE  SumFunctionOnSet(g, S) = SumFunctionOnSet(g, E)
<1> DEFINE G(s) == SumFunctionOnSet(g, s)
           T == {s \in SUBSET S : G(s) = G(s \cap E)}
<1>0. \A s \in SUBSET S : IsFiniteSet(s) /\ G(s) \in Nat
  BY FS_Subset, SumNat
<1>1. ASSUME NEW s \in SUBSET S, \A t \in SUBSET s : t # s => t \in T
      PROVE  s \in T
  <2>1. CASE s = {}
    <3>1. s \cap E = s
      BY <2>1
    <3> QED
      BY <3>1
  <2>2. CASE s # {}
    <3> DEFINE x == First(s)
               r == s \ {First(s)}
    <3>1. x \in s /\ G(s) = g[x] + G(r)
      BY <2>2, <1>0, SumFirst
    <3>2. r \in SUBSET S /\ r \in SUBSET s /\ r # s /\ r = s \ {x}
      BY <3>1
    <3> HIDE DEF x, r
    <3>3. G(r) = G(r \cap E) /\ G(r) \in Nat /\ G(s) \in Nat
      BY <1>0, <1>1, <3>2
    <3>4. CASE x \in E
      <4> DEFINE e == s \cap E
      <4>1. e \in SUBSET S /\ x \in e /\ r \cap E = e \ {x} /\ \A y \in e : g[y] \in Nat
        BY <3>1, <3>2, <3>4
      <4>2. IsFiniteSet(e)
        BY <1>0, <4>1
      <4> HIDE DEF e
      <4>3. G(e) = g[x] + G(e \ {x})
        BY <4>1, <4>2, SumRemove
      <4>4. G(s) = G(e)
        BY <3>1, <3>3, <4>1, <4>3
      <4> QED
        BY <4>4 DEF e
    <3>5. CASE x \notin E
      <4>1. g[x] = 0 /\ r \cap E = s \cap E
        BY <3>1, <3>2, <3>5
      <4> HIDE DEF G
      <4>2. G(s) = G(s \cap E)
        BY <3>1, <3>3, <4>1
      <4> QED
        BY <4>2
    <3> QED
      BY <3>4, <3>5
  <2> QED
    BY <2>1, <2>2
<1>2. T \in SUBSET SUBSET S
  OBVIOUS
<1> HIDE DEF T
<1>3. T = SUBSET S
  BY <1>1, <1>2, SubsetInduction
<1>4. S \cap E = E
  OBVIOUS
<1> QED
  BY <1>3, <1>4 DEF T

\* One term changes, and the sum by as much.
LEMMA SumChange ==
    ASSUME NEW S, IsFiniteSet(S), NEW g, NEW h, NEW a \in S,
           \A x \in S : g[x] \in Nat /\ h[x] \in Nat,
           \A x \in S : x # a => h[x] = g[x]
    PROVE  SumFunctionOnSet(h, S) + g[a] = SumFunctionOnSet(g, S) + h[a]
<1>1. IsFiniteSet(S \ {a})
  BY FS_Subset
<1>2. SumFunctionOnSet(g, S \ {a}) = SumFunctionOnSet(h, S \ {a})
  BY <1>1, SumSame
<1>3. SumFunctionOnSet(g, S) = g[a] + SumFunctionOnSet(g, S \ {a})
  BY SumRemove
<1>4. SumFunctionOnSet(h, S) = h[a] + SumFunctionOnSet(h, S \ {a})
  BY SumRemove
<1>5. SumFunctionOnSet(g, S \ {a}) \in Nat
  BY <1>1, SumNat
<1> QED
  BY <1>2, <1>3, <1>4, <1>5

\* Smaller terms have a smaller sum.
LEMMA SumLeq ==
    ASSUME NEW S, IsFiniteSet(S), NEW g, NEW h,
           \A x \in S : g[x] \in Nat /\ h[x] \in Nat /\ g[x] <= h[x]
    PROVE  SumFunctionOnSet(g, S) <= SumFunctionOnSet(h, S)
<1> DEFINE d == [x \in S |-> h[x] - g[x]]
<1>1. \A x \in S : d[x] \in Nat /\ h[x] = g[x] + d[x]
  OBVIOUS
<1> HIDE DEF d
<1>2. SumFunctionOnSet(h, S) = SumFunctionOnSet(g, S) + SumFunctionOnSet(d, S)
  BY <1>1, SumPlus
<1>3. SumFunctionOnSet(g, S) \in Nat /\ SumFunctionOnSet(d, S) \in Nat
  BY <1>1, SumNat
<1> QED
  BY <1>2, <1>3

\* As many terms, none above c.
LEMMA SumBound ==
    ASSUME NEW S, IsFiniteSet(S), NEW c \in Nat, NEW g,
           \A x \in S : g[x] \in Nat /\ g[x] <= c
    PROVE  SumFunctionOnSet(g, S) <= c * Cardinality(S)
<1> DEFINE G(s) == SumFunctionOnSet(g, s)
           T == {s \in SUBSET S : G(s) <= c * Cardinality(s)}
<1>0. \A s \in SUBSET S : IsFiniteSet(s) /\ G(s) \in Nat /\ Cardinality(s) \in Nat
  BY FS_Subset, FS_CardinalityType, SumNat
<1>1. ASSUME NEW s \in SUBSET S, \A t \in SUBSET s : t # s => t \in T
      PROVE  s \in T
  <2>1. CASE s = {}
    <3>1. G({}) = 0 /\ Cardinality({}) = 0
      BY SumEmpty, FS_EmptySet
    <3> HIDE DEF G
    <3> QED
      BY <2>1, <3>1
  <2>2. CASE s # {}
    <3> DEFINE x == First(s)
               r == s \ {First(s)}
    <3>1. x \in s /\ G(s) = g[x] + G(r)
      BY <2>2, <1>0, SumFirst
    <3>2. r \in SUBSET S /\ r \in SUBSET s /\ r # s /\ r = s \ {x}
      BY <3>1
    <3> HIDE DEF x, r
    <3>3. Cardinality(r) = Cardinality(s) - 1
      BY <1>0, <3>1, <3>2, FS_RemoveElement
    <3>4. G(r) <= c * Cardinality(r)
      BY <1>1, <3>2
    <3> HIDE DEF G
    <3>5. /\ G(r) \in Nat /\ G(s) \in Nat /\ g[x] \in Nat /\ g[x] <= c
          /\ Cardinality(r) \in Nat /\ Cardinality(s) = Cardinality(r) + 1
      BY <1>0, <3>1, <3>2, <3>3
    <3>6. \A n \in Nat : c * (n + 1) = c * n + c /\ c * n \in Nat
      OBVIOUS
    <3>7. c * Cardinality(s) = c * Cardinality(r) + c /\ c * Cardinality(r) \in Nat
      BY <3>5, <3>6
    <3>8. G(s) <= c * Cardinality(s)
      BY <3>1, <3>4, <3>5, <3>7
    <3> QED
      BY <3>8
  <2> QED
    BY <2>1, <2>2
<1>2. T \in SUBSET SUBSET S
  OBVIOUS
<1> HIDE DEF T
<1>3. T = SUBSET S
  BY <1>1, <1>2, SubsetInduction
<1> QED
  BY <1>3 DEF T

\* Only the values on its domain make a function's sum.
LEMMA SumFunctionIs ==
    ASSUME NEW S, IsFiniteSet(S), NEW g, DOMAIN g = S,
           NEW h, \A x \in S : g[x] = h[x]
    PROVE  SumFunction(g) = SumFunctionOnSet(h, S)
<1>1. SumFunction(g) = SumFunctionOnSet(g, S)
  BY DEF SumFunction
<1> QED
  BY <1>1, SumSame

\* The sum over an interval and the same one further on.
LEMMA SumShift ==
    ASSUME NEW n \in Nat, NEW g, NEW h,
           \A i \in 1..n : h[i] \in Nat /\ g[i + 1] = h[i]
    PROVE  SumFunctionOnSet(g, 2..n + 1) = SumFunctionOnSet(h, 1..n)
<1> DEFINE G(k) == SumFunctionOnSet(g, 2..k + 1)
           H(k) == SumFunctionOnSet(h, 1..k)
           Missed == {k \in 0..n : G(k) # H(k)}
<1>1. SUFFICES Missed = {}
  BY DEF Missed
<1>2. SUFFICES ASSUME Missed # {} PROVE FALSE
  OBVIOUS
<1>3. Missed \subseteq Nat
  OBVIOUS
<1>4. PICK k \in Missed : \A j \in Missed : k <= j
  BY <1>2, <1>3, LeastNat
<1>5. k \in 0..n /\ G(k) # H(k)
  OBVIOUS
<1>6. k # 0
  <2>1. 2..0 + 1 = {} /\ 1..0 = {}
    OBVIOUS
  <2>2. G(0) = 0 /\ H(0) = 0
    BY <2>1, SumEmpty
  <2> QED
    BY <1>5, <2>2
<1> DEFINE j == k - 1
<1>7. j \in 0..n /\ k \in 1..n /\ k \in Nat
  BY <1>5, <1>6
<1>8. G(j) = H(j)
  <2>1. j \notin Missed
    BY <1>4, <1>7
  <2> QED
    BY <1>7, <2>1
<1> HIDE DEF Missed
<1>9. G(k) = g[k + 1] + G(j)
  <2> DEFINE S == 2..k + 1
  <2>0. IsFiniteSet(S)
    BY <1>7, FS_Interval
  <2>1. k + 1 \in S /\ S \ {k + 1} = 2..j + 1
    BY <1>7
  <2>2. \A i \in S : g[i] \in Nat
    <3>1. ASSUME NEW i \in S PROVE g[i] \in Nat
      <4>1. i - 1 \in 1..n /\ (i - 1) + 1 = i
        BY <1>7
      <4> QED
        BY <4>1
    <3> QED
      BY <3>1
  <2> HIDE DEF S, j
  <2>3. SumFunctionOnSet(g, S) = g[k + 1] + SumFunctionOnSet(g, S \ {k + 1})
    BY <2>0, <2>1, <2>2, SumRemove
  <2> QED
    BY <2>1, <2>3 DEF S
<1>10. H(k) = h[k] + H(j)
  <2> DEFINE S == 1..k
  <2>0. IsFiniteSet(S)
    BY <1>7, FS_Interval
  <2>1. k \in S /\ S \ {k} = 1..j
    BY <1>7
  <2>2. \A i \in S : h[i] \in Nat
    BY <1>7
  <2> HIDE DEF S, j
  <2>3. SumFunctionOnSet(h, S) = h[k] + SumFunctionOnSet(h, S \ {k})
    BY <2>0, <2>1, <2>2, SumRemove
  <2> QED
    BY <2>1, <2>3 DEF S
<1>11. g[k + 1] = h[k]
  BY <1>7
<1> QED
  BY <1>5, <1>8, <1>9, <1>10, <1>11
=============================================================================
