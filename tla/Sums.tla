--------------------------------- MODULE Sums ---------------------------------
(***************************************************************************)
(* Facts about the sum of a function over a finite set, from the           *)
(* definition of the fold and the well-foundedness of the finite subsets   *)
(* of a finite set.                                                        *)
(***************************************************************************)
EXTENDS Integers, Functions, FiniteSetTheorems, WellFoundedInduction, TLAPS

Total(g, S) == SumFunctionOnSet(g, S)

\* How such a sum is computed: one element after the other.
FirstOf(s) == CHOOSE x \in s : TRUE
Adds(f, g, S) ==
    f = [s \in SUBSET S |-> IF s = {} THEN 0 ELSE g[FirstOf(s)] + f[s \ {FirstOf(s)}]]

\* What a finite set inherits from its proper subsets holds of it.
LEMMA SetInduction ==
    ASSUME NEW S, IsFiniteSet(S), NEW G,
           \A t \in SUBSET S :
            IsFiniteSet(t) /\ (\A u \in SUBSET t : u # t => u \in G) => t \in G
    PROVE  S \in G
<1>. DEFINE B == (SUBSET S) \ G
<1>1. SUFFICES ASSUME B # {} PROVE FALSE
  OBVIOUS
<1>2. B \subseteq FiniteSubsetsOf(S)
  BY FS_Subset DEF FiniteSubsetsOf
<1>3. PICK t \in B : \A u \in B : <<u, t>> \notin StrictSubsetOrdering(S)
  <2>. HIDE DEF B
  <2>. QED
    BY <1>1, <1>2, FS_StrictSubsetOrderingWellFounded, WFMin
<1>4. IsFiniteSet(t)
  BY FS_Subset
<1>5. ASSUME NEW u \in SUBSET t, u # t PROVE u \in G
  BY <1>3, <1>5 DEF StrictSubsetOrdering
<1>. QED
  BY <1>4, <1>5

LEMMA FirstIn ==
    ASSUME NEW s, s # {}
    PROVE  FirstOf(s) \in s
<1>. QED
  BY DEF FirstOf

LEMMA AddsAgree ==
    ASSUME NEW g, NEW S, NEW T, NEW f, Adds(f, g, S), NEW h, Adds(h, g, T),
           NEW s \in SUBSET S, s \in SUBSET T, IsFiniteSet(s)
    PROVE  f[s] = h[s]
<1>. DEFINE G == {t \in SUBSET s : f[t] = h[t]}
<1>1. ASSUME NEW t \in SUBSET s, \A u \in SUBSET t : u # t => u \in G
      PROVE  t \in G
  <2>1. CASE t = {}
    BY <2>1 DEF Adds
  <2>2. CASE t # {}
    <3>1. FirstOf(t) \in t
      BY <2>2, FirstIn
    <3>2. f[t \ {FirstOf(t)}] = h[t \ {FirstOf(t)}]
      BY <1>1, <3>1
    <3>3. t \in SUBSET S /\ t \in SUBSET T
      OBVIOUS
    <3>4. f[t] = g[FirstOf(t)] + f[t \ {FirstOf(t)}]
      BY <2>2, <3>3 DEF Adds
    <3>5. h[t] = g[FirstOf(t)] + h[t \ {FirstOf(t)}]
      BY <2>2, <3>3 DEF Adds
    <3>. QED
      BY <3>2, <3>4, <3>5
  <2>. QED
    BY <2>1, <2>2
<1>2. s \in G
  <2>. HIDE DEF G
  <2>. QED
    BY <1>1, SetInduction
<1>. QED
  BY <1>2

LEMMA TotalIs ==
    ASSUME NEW g, NEW S
    PROVE  Total(g, S) = (CHOOSE f : Adds(f, g, S))[S]
<1>. QED
  BY DEF Total, SumFunctionOnSet, FoldFunctionOnSet, MapThenFoldSet, Adds, FirstOf

LEMMA TotalOf ==
    ASSUME NEW g, NEW S, NEW f, Adds(f, g, S), NEW s \in SUBSET S, IsFiniteSet(s),
           \E h : Adds(h, g, s)
    PROVE  f[s] = Total(g, s)
<1>. DEFINE h == CHOOSE h : Adds(h, g, s)
<1>1. Adds(h, g, s)
  BY Zenon
<1>2. Total(g, s) = h[s]
  BY TotalIs
<1>. HIDE DEF h
<1>. QED
  BY <1>1, <1>2, AddsAgree

LEMMA AddsExists ==
    ASSUME NEW g, NEW S, IsFiniteSet(S)
    PROVE  \E f : Adds(f, g, S)
<1>. DEFINE G == {t \in SUBSET S : \E f : Adds(f, g, t)}
<1>1. ASSUME NEW t \in SUBSET S, IsFiniteSet(t), \A u \in SUBSET t : u # t => u \in G
      PROVE  t \in G
  <2>. DEFINE Add(s) == g[FirstOf(s)] + Total(g, s \ {FirstOf(s)})
              F == [s \in SUBSET t |-> IF s = {} THEN 0 ELSE Add(s)]
  <2>1. ASSUME NEW s \in SUBSET t, s # t PROVE F[s] = Total(g, s)
    <3>1. PICK h : Adds(h, g, s)
      BY <1>1, <2>1
    <3>2. IsFiniteSet(s) /\ s \in SUBSET s
      BY <1>1, FS_Subset
    <3>3. h[s] = Total(g, s)
      BY <3>1, <3>2, TotalOf
    <3>4. CASE s = {}
      BY <3>1, <3>3, <3>4 DEF Adds
    <3>5. CASE s # {}
      <4>1. FirstOf(s) \in s /\ s \ {FirstOf(s)} \in SUBSET s /\ s \ {FirstOf(s)} # t
        BY <3>5, FirstIn
      <4>2. (\E f : Adds(f, g, s \ {FirstOf(s)})) /\ IsFiniteSet(s \ {FirstOf(s)})
        BY <1>1, <3>2, <4>1, FS_Subset
      <4>3. h[s \ {FirstOf(s)}] = Total(g, s \ {FirstOf(s)})
        BY <3>1, <4>1, <4>2, TotalOf
      <4>4. h[s] = g[FirstOf(s)] + h[s \ {FirstOf(s)}]
        BY <3>1, <3>2, <3>5 DEF Adds
      <4>. QED
        BY <3>3, <3>5, <4>3, <4>4
    <3>. QED
      BY <3>4, <3>5
  <2>2. ASSUME NEW s \in SUBSET t, s # {}
        PROVE  F[s \ {FirstOf(s)}] = Total(g, s \ {FirstOf(s)})
    <3>1. FirstOf(s) \in s /\ s \ {FirstOf(s)} \in SUBSET t /\ s \ {FirstOf(s)} # t
      BY <2>2, FirstIn
    <3>. HIDE DEF F
    <3>. QED
      BY <2>1, <3>1
  <2>3. Adds(F, g, t)
    <3>1. F = [s \in SUBSET t |-> IF s = {} THEN 0 ELSE g[FirstOf(s)] + F[s \ {FirstOf(s)}]]
      BY <2>2
    <3>. HIDE DEF F
    <3>. QED
      BY <3>1 DEF Adds
  <2>. HIDE DEF F
  <2>. QED
    BY <2>3
<1>2. S \in G
  <2>. HIDE DEF G
  <2>. QED
    BY <1>1, SetInduction
<1>. QED
  BY <1>2

\* A sum is that of one element and the rest.
LEMMA TotalFirst ==
    ASSUME NEW g, NEW S, IsFiniteSet(S)
    PROVE  /\ S = {} => Total(g, S) = 0
           /\ S # {} => Total(g, S) = g[FirstOf(S)] + Total(g, S \ {FirstOf(S)})
<1>1. PICK f : Adds(f, g, S)
  BY AddsExists
<1>2. f[S] = Total(g, S)
  BY <1>1, TotalOf
<1>3. f[S \ {FirstOf(S)}] = Total(g, S \ {FirstOf(S)})
  <2>1. S \ {FirstOf(S)} \in SUBSET S /\ IsFiniteSet(S \ {FirstOf(S)})
    BY FS_Subset
  <2>. QED
    BY <1>1, <2>1, TotalOf, AddsExists
<1>4. /\ S = {} => f[S] = 0
      /\ S # {} => f[S] = g[FirstOf(S)] + f[S \ {FirstOf(S)}]
  BY <1>1 DEF Adds
<1>. QED
  BY <1>2, <1>3, <1>4

LEMMA TotalType ==
    ASSUME NEW g, NEW S, IsFiniteSet(S), \A x \in S : g[x] \in Nat
    PROVE  Total(g, S) \in Nat
<1>. DEFINE G == {t \in SUBSET S : Total(g, t) \in Nat}
<1>1. ASSUME NEW t \in SUBSET S, IsFiniteSet(t), \A u \in SUBSET t : u # t => u \in G
      PROVE  t \in G
  <2>1. CASE t = {}
    <3>1. Total(g, t) = 0
      BY <1>1, <2>1, TotalFirst
    <3>. QED
      BY <3>1
  <2>2. CASE t # {}
    <3>1. FirstOf(t) \in t
      BY <2>2, FirstIn
    <3>2. Total(g, t \ {FirstOf(t)}) \in Nat /\ g[FirstOf(t)] \in Nat
      BY <1>1, <3>1
    <3>. QED
      BY <1>1, <2>2, <3>2, TotalFirst
  <2>. QED
    BY <2>1, <2>2
<1>2. S \in G
  <2>. HIDE DEF G
  <2>. QED
    BY <1>1, SetInduction
<1>. QED
  BY <1>2

\* ... whichever element it is.
LEMMA TotalRemove ==
    ASSUME NEW g, NEW S, IsFiniteSet(S), \A x \in S : g[x] \in Nat, NEW y \in S
    PROVE  Total(g, S) = g[y] + Total(g, S \ {y})
<1>. DEFINE Parts(t, x) == Total(g, t) = g[x] + Total(g, t \ {x})
            G == {t \in SUBSET S : \A x \in t : Parts(t, x)}
<1>1. ASSUME NEW t \in SUBSET S, IsFiniteSet(t), \A u \in SUBSET t : u # t => u \in G
      PROVE  t \in G
  <2>1. SUFFICES ASSUME NEW z \in t PROVE Parts(t, z)
    OBVIOUS
  <2>2. PICK x \in t : x = FirstOf(t) /\ Parts(t, x)
    BY <1>1, FirstIn, TotalFirst
  <2>3. CASE x = z
    BY <2>2, <2>3
  <2>4. CASE x # z
    <3>1. t \ {x} \in G /\ t \ {z} \in G /\ z \in t \ {x} /\ x \in t \ {z}
      BY <1>1, <2>4
    <3>2. Parts(t \ {x}, z) /\ Parts(t \ {z}, x)
      BY <3>1
    <3>3. (t \ {x}) \ {z} = (t \ {z}) \ {x} /\ IsFiniteSet((t \ {x}) \ {z})
      BY <1>1, FS_Subset
    <3>4. PICK r \in Nat : r = Total(g, (t \ {x}) \ {z})
      BY <3>3, TotalType
    <3>5. /\ Total(g, t) = g[x] + (g[z] + r) /\ Total(g, t \ {z}) = g[x] + r
          /\ g[x] \in Nat /\ g[z] \in Nat
      BY <2>2, <3>2, <3>3, <3>4
    <3>. QED
      BY <3>5
  <2>. QED
    BY <2>3, <2>4
<1>2. S \in G
  <2>. HIDE DEF G
  <2>. QED
    BY <1>1, SetInduction
<1>. QED
  BY <1>2

\* Weights that agree on the elements have one sum.
LEMMA TotalSame ==
    ASSUME NEW g, NEW h, NEW S, IsFiniteSet(S), \A x \in S : g[x] = h[x]
    PROVE  Total(g, S) = Total(h, S)
<1>. DEFINE G == {t \in SUBSET S : Total(g, t) = Total(h, t)}
<1>1. ASSUME NEW t \in SUBSET S, IsFiniteSet(t), \A u \in SUBSET t : u # t => u \in G
      PROVE  t \in G
  <2>1. CASE t = {}
    BY <1>1, <2>1, TotalFirst
  <2>2. CASE t # {}
    <3>1. FirstOf(t) \in t /\ Total(g, t \ {FirstOf(t)}) = Total(h, t \ {FirstOf(t)})
      BY <1>1, <2>2, FirstIn
    <3>. QED
      BY <1>1, <2>2, <3>1, TotalFirst
  <2>. QED
    BY <2>1, <2>2
<1>2. S \in G
  <2>. HIDE DEF G
  <2>. QED
    BY <1>1, SetInduction
<1>. QED
  BY <1>2

\* The sum moves with the weight of one element.
LEMMA TotalChanged ==
    ASSUME NEW g, NEW h, NEW S, IsFiniteSet(S), NEW y \in S,
           \A x \in S : g[x] \in Nat /\ h[x] \in Nat, \A x \in S \ {y} : g[x] = h[x]
    PROVE  /\ Total(g, S) \in Nat /\ Total(h, S) \in Nat
           /\ Total(h, S) = Total(g, S) - g[y] + h[y]
<1>1. IsFiniteSet(S \ {y}) /\ Total(g, S \ {y}) = Total(h, S \ {y})
  BY FS_Subset, TotalSame
<1>2. /\ Total(g, S) = g[y] + Total(g, S \ {y})
      /\ Total(h, S) = h[y] + Total(h, S \ {y})
      /\ Total(g, S \ {y}) \in Nat
      /\ g[y] \in Nat /\ h[y] \in Nat
  BY <1>1, TotalRemove, TotalType
<1>. QED
  BY <1>1, <1>2

\* A sum is that of a part and the rest.
LEMMA TotalSplit ==
    ASSUME NEW g, NEW S, IsFiniteSet(S), \A x \in S : g[x] \in Nat, NEW T \in SUBSET S
    PROVE  /\ Total(g, S) = Total(g, T) + Total(g, S \ T)
           /\ Total(g, S) \in Nat /\ Total(g, T) \in Nat /\ Total(g, S \ T) \in Nat
<1>1. \A t \in SUBSET S : IsFiniteSet(t) /\ Total(g, t) \in Nat
  BY FS_Subset, TotalType
<1>. DEFINE G == {t \in SUBSET T : Total(g, S) = Total(g, t) + Total(g, S \ t)}
<1>2. ASSUME NEW t \in SUBSET T, \A u \in SUBSET t : u # t => u \in G
      PROVE  t \in G
  <2>1. CASE t = {}
    <3>1. S \ t = S /\ Total(g, t) = 0
      BY <2>1, TotalFirst, FS_EmptySet
    <3>. QED
      BY <1>1, <3>1
  <2>2. CASE t # {}
    <3>1. PICK x \in t : TRUE
      BY <2>2
    <3>2. PICK u : u = t \ {x}
      OBVIOUS
    <3>3. /\ u \in SUBSET t /\ u # t /\ x \in S \ u /\ (S \ u) \ {x} = S \ t
          /\ S \ u \in SUBSET S /\ S \ t \in SUBSET S /\ t \in SUBSET S /\ u \in SUBSET S
      BY <3>1, <3>2
    <3>4. Total(g, S) = Total(g, u) + Total(g, S \ u)
      BY <1>2, <3>3
    <3>5. Total(g, S \ u) = g[x] + Total(g, S \ t)
      BY <1>1, <3>3, TotalRemove
    <3>6. Total(g, t) = g[x] + Total(g, u)
      BY <1>1, <3>1, <3>2, <3>3, TotalRemove
    <3>7. /\ g[x] \in Nat /\ Total(g, u) \in Nat /\ Total(g, S \ t) \in Nat
      BY <1>1, <3>1, <3>3
    <3>. QED
      BY <3>4, <3>5, <3>6, <3>7
  <2>. QED
    BY <2>1, <2>2
<1>3. T \in G
  <2>1. IsFiniteSet(T)
    BY <1>1
  <2>. HIDE DEF G
  <2>. QED
    BY <1>2, <2>1, SetInduction
<1>. QED
  BY <1>1, <1>3

\* What weighs nothing sums to nothing.
LEMMA TotalZero ==
    ASSUME NEW g, NEW S, IsFiniteSet(S), \A x \in S : g[x] = 0
    PROVE  Total(g, S) = 0
<1>. DEFINE G == {t \in SUBSET S : Total(g, t) = 0}
<1>1. ASSUME NEW t \in SUBSET S, IsFiniteSet(t), \A u \in SUBSET t : u # t => u \in G
      PROVE  t \in G
  <2>1. CASE t = {}
    BY <1>1, <2>1, TotalFirst
  <2>2. CASE t # {}
    <3>1. FirstOf(t) \in t
      BY <2>2, FirstIn
    <3>2. Total(g, t \ {FirstOf(t)}) = 0 /\ g[FirstOf(t)] = 0
      BY <1>1, <3>1
    <3>. QED
      BY <1>1, <2>2, <3>2, TotalFirst
  <2>. QED
    BY <2>1, <2>2
<1>2. S \in G
  <2>. HIDE DEF G
  <2>. QED
    BY <1>1, SetInduction
<1>. QED
  BY <1>2

\* A sum over a part is the sum over the whole with nothing outside the part.
LEMMA TotalMasked ==
    ASSUME NEW g, NEW h, NEW S, IsFiniteSet(S), NEW T \in SUBSET S,
           \A x \in T : g[x] \in Nat /\ h[x] = g[x], \A x \in S \ T : h[x] = 0
    PROVE  Total(h, S) = Total(g, T) /\ Total(h, S) \in Nat
<1>1. \A x \in S : h[x] \in Nat
  OBVIOUS
<1>2. Total(h, S) = Total(h, T) + Total(h, S \ T) /\ Total(h, T) \in Nat
  BY <1>1, TotalSplit
<1>3. Total(h, T) = Total(g, T)
  BY FS_Subset, TotalSame
<1>4. Total(h, S \ T) = 0
  BY FS_Subset, TotalZero
<1>. QED
  BY <1>2, <1>3, <1>4

\* The sum over a column of pairs.
Column(o, K) == {o} \X K

LEMMA TotalColumn ==
    ASSUME NEW g, NEW h, NEW o, NEW K, IsFiniteSet(K),
           \A s \in K : g[<<o, s>>] = h[s], \A s \in K : h[s] \in Nat
    PROVE  Total(g, Column(o, K)) = Total(h, K)
<1>. DEFINE G == {t \in SUBSET K : Total(g, {o} \X t) = Total(h, t)}
<1>1. ASSUME NEW t \in SUBSET K, IsFiniteSet(t), \A u \in SUBSET t : u # t => u \in G
      PROVE  t \in G
  <2>1. IsFiniteSet({o} \X t)
    BY <1>1, FS_Product, FS_Singleton
  <2>2. CASE t = {}
    <3>1. {o} \X t = {}
      BY <2>2
    <3>. QED
      BY <2>2, <3>1, TotalFirst, FS_EmptySet
  <2>3. CASE t # {}
    <3>1. PICK s \in t : TRUE
      BY <2>3
    <3>2. PICK T, y : T = {o} \X t /\ y = <<o, s>>
      OBVIOUS
    <3>6. y \in T /\ T \ {y} = {o} \X (t \ {s}) /\ \A x \in T : g[x] \in Nat
      BY <3>1, <3>2
    <3>3. Total(g, T) = g[y] + Total(g, T \ {y})
      BY <2>1, <3>2, <3>6, TotalRemove
    <3>4. Total(h, t) = h[s] + Total(h, t \ {s})
      <4>1. \A x \in t : h[x] \in Nat
        OBVIOUS
      <4>. QED
        BY <1>1, <3>1, <4>1, TotalRemove
    <3>5. t \ {s} \in G
      BY <1>1, <3>1
    <3>. QED
      BY <3>2, <3>3, <3>4, <3>5, <3>6
  <2>. QED
    BY <2>2, <2>3
<1>2. K \in G
  <2>. HIDE DEF G
  <2>. QED
    BY <1>1, SetInduction
<1>. QED
  BY <1>2 DEF Column
=============================================================================
