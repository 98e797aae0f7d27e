--------------------------- MODULE BomDesk_proofs ---------------------------
(***************************************************************************)
(* Proofs about BomDesk, for any files, catalogue, stock and operators.    *)
(*                                                                         *)
(* The recursive definitions (the lines of a table, a sum) are reached by  *)
(* induction over sets of numbers, which needs no operator as a parameter. *)
(***************************************************************************)
EXTENDS BomDesk, SequenceTheorems, FiniteSetTheorems, WellFoundedInduction, TLAPS

-----------------------------------------------------------------------------
(* Induction over the numbers up to n, and what it defines.                *)

LEMMA SmallestExists ==
    ASSUME NEW U, U \subseteq Nat, U # {}
    PROVE  \E x \in U : \A y \in U : x <= y
  <1> DEFINE Below == {pair \in Nat \X Nat : pair[1] < pair[2]}
  <1>1. IsWellFoundedOn(Below, Nat)
    BY NatLessThanWellFounded DEF OpToRel
  <1>2. PICK x \in U : \A y \in U : <<y, x>> \notin Below
    <2> HIDE DEF Below
    <2> QED BY <1>1, WFMin
  <1>3. ASSUME NEW y \in U PROVE x <= y
    <2>1. x \in Nat /\ y \in Nat
      OBVIOUS
    <2>2. ~(y < x)
      BY <1>2, <2>1
    <2> QED BY <2>1, <2>2
  <1> QED BY <1>3

LEMMA LargestExists ==
    ASSUME NEW n \in Nat, NEW U, U \subseteq 1..n, U # {}
    PROVE  \E x \in U : \A y \in U : y <= x
  <1> DEFINE V == {n - y : y \in U}
  <1>1. V \subseteq Nat /\ V # {}
    <2>1. \A y \in U : n - y \in Nat
      OBVIOUS
    <2> QED BY <2>1
  <1>2. PICK v \in V : \A w \in V : v <= w
    <2> HIDE DEF V
    <2> QED BY <1>1, SmallestExists
  <1>3. PICK x \in U : v = n - x
    OBVIOUS
  <1>4. ASSUME NEW y \in U PROVE y <= x
    <2>1. n - y \in V /\ y \in Int /\ x \in Int
      OBVIOUS
    <2> QED BY <2>1, <1>2, <1>3
  <1> QED BY <1>4

LEMMA SetInduction ==
    ASSUME NEW n \in Nat, NEW T, 0 \in T, \A k \in 1..n : k - 1 \in T => k \in T
    PROVE  \A k \in 0..n : k \in T
  <1> DEFINE U == (0..n) \ T
  <1> SUFFICES ASSUME U # {} PROVE FALSE
    OBVIOUS
  <1>1. U \subseteq Nat
    OBVIOUS
  <1>2. PICK x \in U : \A y \in U : x <= y
    <2> HIDE DEF U
    <2> QED BY <1>1, SmallestExists
  <1>3. x \in 1..n /\ x - 1 \in 0..n
    OBVIOUS
  <1>4. x - 1 \notin U
    <2> HIDE DEF U
    <2> QED BY <1>2, <1>3
  <1> QED BY <1>3, <1>4

\* f begins with base, and goes on from each value by the step of its number.
Runs(f, n, base, step) ==
    f[0] = base /\ \A k \in 1..n : f[k] = step[<<k, f[k - 1]>>]

LEMMA RecursionDefines ==
    ASSUME NEW n \in Nat, NEW S, NEW base \in S, NEW step \in [(1..n) \X S -> S]
    PROVE  \E f \in [0..n -> S] : Runs(f, n, base, step)
  <1> DEFINE T == {m \in 0..n : \E f \in [0..n -> S] : Runs(f, m, base, step)}
  <1>1. 0 \in T
    <2>1. Runs([k \in 0..n |-> base], 0, base, step)
      BY DEF Runs
    <2>2. [k \in 0..n |-> base] \in [0..n -> S]
      OBVIOUS
    <2> QED BY <2>1, <2>2
  <1>2. ASSUME NEW m \in 1..n, m - 1 \in T PROVE m \in T
    <2>1. PICK f \in [0..n -> S] : Runs(f, m - 1, base, step)
      BY <1>2
    <2> DEFINE g == [f EXCEPT ![m] = step[<<m, f[m - 1]>>]]
    <2>2. g \in [0..n -> S]
      OBVIOUS
    <2>3. Runs(g, m, base, step)
      <3>1. 0 \in 0..n /\ 0 # m /\ g[0] = base
        BY <2>1 DEF Runs
      <3>2. ASSUME NEW k \in 1..m PROVE g[k] = step[<<k, g[k - 1]>>]
        <4>1. k - 1 \in 0..n /\ k - 1 # m /\ g[k - 1] = f[k - 1]
          OBVIOUS
        <4>2. CASE k = m
          BY <4>1, <4>2
        <4>3. CASE k # m
          <5>1. k \in 1..m - 1 /\ g[k] = f[k]
            BY <4>3
          <5> HIDE DEF g
          <5> QED BY <4>1, <5>1, <2>1 DEF Runs
        <4> QED BY <4>2, <4>3
      <3> HIDE DEF g
      <3> QED BY <3>1, <3>2 DEF Runs
    <2> HIDE DEF g
    <2> QED BY <2>2, <2>3
  <1>3. n \in T
    <2> HIDE DEF T
    <2> QED BY <1>1, <1>2, SetInduction
  <1> QED BY <1>3

\* What the first value and every step have, all values have.
LEMMA StaysIn ==
    ASSUME NEW n \in Nat, NEW S, NEW f, f[0] \in S,
           \A k \in 1..n : f[k - 1] \in S => f[k] \in S
    PROVE  \A k \in 0..n : f[k] \in S
  <1> DEFINE T == {k \in 0..n : f[k] \in S}
  <1>1. 0 \in T
    OBVIOUS
  <1>2. \A k \in 1..n : k - 1 \in T => k \in T
    OBVIOUS
  <1>3. \A k \in 0..n : k \in T
    <2> HIDE DEF T
    <2> QED BY <1>1, <1>2, SetInduction
  <1> QED BY <1>3

LEMMA FunctionIsSeq ==
    ASSUME NEW n \in Nat, NEW S, NEW s \in [1..n -> S]
    PROVE  s \in Seq(S) /\ Len(s) = n
  <1>1. s \in Seq(S)
    BY SeqDef
  <1> QED BY <1>1, LenProperties

-----------------------------------------------------------------------------
(* Sums over finite sets.                                                  *)

(* A set with a smaller one for each element that is taken away.           *)
LEMMA SubsetInduction ==
    ASSUME NEW T, IsFiniteSet(T), NEW P, {} \in P,
           \A s \in SUBSET T : s # {} /\ (\A x \in s : s \ {x} \in P) => s \in P
    PROVE  \A s \in SUBSET T : s \in P
  <1>1. PICK n \in Nat : n = Cardinality(T)
    BY FS_CardinalityType
  <1> DEFINE K == {k \in 0..n : \A s \in SUBSET T : Cardinality(s) = k => s \in P}
  <1>2. 0 \in K
    <2>1. \A s \in SUBSET T : Cardinality(s) = 0 => s = {}
      BY FS_EmptySet, FS_Subset
    <2> QED BY <2>1
  <1>3. ASSUME NEW k \in 1..n, k - 1 \in K PROVE k \in K
    <2>1. ASSUME NEW s \in SUBSET T, Cardinality(s) = k PROVE s \in P
      <3>1. IsFiniteSet(s) /\ s # {}
        BY <2>1, FS_Subset, FS_EmptySet
      <3>2. ASSUME NEW x \in s PROVE s \ {x} \in P
        <4>1. Cardinality(s \ {x}) = k - 1
          BY <2>1, <3>1, FS_RemoveElement
        <4> QED BY <1>3, <4>1
      <3> QED BY <3>1, <3>2
    <2> QED BY <2>1
  <1>4. \A k \in 0..n : k \in K
    <2> HIDE DEF K
    <2> QED BY <1>2, <1>3, SetInduction
  <1>5. ASSUME NEW s \in SUBSET T PROVE s \in P
    <2>1. Cardinality(s) \in 0..n
      BY <1>1, FS_Subset, FS_CardinalityType
    <2> QED BY <1>4, <2>1
  <1> QED BY <1>5

AnElement(s) == CHOOSE x \in s : TRUE

NatOn(g, T) == \A x \in T : g[x] \in Nat

\* it has the sum of every part of T, by the recursion of the fold.
Totals(g, T, it) ==
    \A s \in SUBSET T :
        it[s] = IF s = {} THEN 0 ELSE g[AnElement(s)] + it[s \ {AnElement(s)}]

LEMMA SumIsATotal ==
    ASSUME NEW g, NEW T
    PROVE  LET it == CHOOSE h : h = [s \in SUBSET T |->
                        IF s = {} THEN 0 ELSE g[AnElement(s)] + h[s \ {AnElement(s)}]]
           IN  SumFunctionOnSet(g, T) = it[T]
  BY DEF SumFunctionOnSet, FoldFunctionOnSet, MapThenFoldSet, AnElement

LEMMA ElementIsThere ==
    ASSUME NEW s, s # {}
    PROVE  AnElement(s) \in s
  BY DEF AnElement

LEMMA TotalsExist ==
    ASSUME NEW T, IsFiniteSet(T), NEW g, NatOn(g, T)
    PROVE  \E it \in [SUBSET T -> Nat] : Totals(g, T, it)
  <1>1. PICK n \in Nat : n = Cardinality(T)
    BY FS_CardinalityType
  <1> DEFINE Step(it, s) == IF s = {} THEN 0 ELSE g[AnElement(s)] + it[s \ {AnElement(s)}]
             UpTo(k, it) == \A s \in SUBSET T : Cardinality(s) <= k => it[s] = Step(it, s)
             K == {k \in 0..n : \E it \in [SUBSET T -> Nat] : UpTo(k, it)}
  <1>2. ASSUME NEW s \in SUBSET T
        PROVE  \E c \in 0..n :
                  /\ c = Cardinality(s) /\ (c = 0 <=> s = {})
                  /\ s # {} => \E x \in s :
                        /\ x = AnElement(s) /\ g[x] \in Nat
                        /\ Cardinality(s \ {x}) = c - 1
    <2>1. IsFiniteSet(s) /\ Cardinality(s) \in 0..n
      BY <1>1, FS_Subset, FS_CardinalityType
    <2>2. Cardinality(s) = 0 <=> s = {}
      BY <2>1, FS_EmptySet
    <2>3. ASSUME s # {} PROVE AnElement(s) \in s /\ g[AnElement(s)] \in Nat
      BY <2>3, ElementIsThere DEF NatOn
    <2>4. ASSUME s # {} PROVE Cardinality(s \ {AnElement(s)}) = Cardinality(s) - 1
      BY <2>1, <2>3, <2>4, FS_RemoveElement
    <2>5. PICK c \in 0..n : c = Cardinality(s)
      BY <2>1
    <2> QED BY <2>2, <2>3, <2>4, <2>5
  <1>3. 0 \in K
    <2>1. [s \in SUBSET T |-> 0] \in [SUBSET T -> Nat]
      OBVIOUS
    <2>2. UpTo(0, [s \in SUBSET T |-> 0])
      <3>1. ASSUME NEW s \in SUBSET T, Cardinality(s) <= 0 PROVE s = {}
        <4>1. PICK c \in 0..n : c = Cardinality(s) /\ (c = 0 <=> s = {})
          BY <1>2
        <4> QED BY <3>1, <4>1
      <3> QED BY <3>1
    <2>3. 0 \in 0..n
      OBVIOUS
    <2> HIDE DEF UpTo
    <2> QED BY <2>1, <2>2, <2>3
  <1>4. ASSUME NEW k \in 1..n, k - 1 \in K PROVE k \in K
    <2>1. PICK it \in [SUBSET T -> Nat] : UpTo(k - 1, it)
      BY <1>4
    <2> DEFINE new == [s \in SUBSET T |-> IF Cardinality(s) = k THEN Step(it, s) ELSE it[s]]
    <2>2. new \in [SUBSET T -> Nat]
      <3>1. ASSUME NEW s \in SUBSET T PROVE Step(it, s) \in Nat
        <4>1. CASE s # {}
          <5>1. PICK x \in s : x = AnElement(s) /\ g[x] \in Nat
            BY <1>2, <4>1
          <5>2. it[s \ {x}] \in Nat
            OBVIOUS
          <5> QED BY <4>1, <5>1, <5>2
        <4> QED BY <4>1
      <3> HIDE DEF Step
      <3> QED BY <3>1
    <2>3. ASSUME NEW s \in SUBSET T, Cardinality(s) <= k PROVE new[s] = Step(new, s)
      <3>1. CASE s = {}
        <4>0. PICK c \in 0..n : c = Cardinality(s) /\ (c = 0 <=> s = {})
          BY <1>2
        <4>1. Cardinality(s) # k /\ Cardinality(s) <= k - 1
          BY <4>0, <3>1
        <4>2. it[s] = 0
          BY <2>1, <3>1, <4>1
        <4> QED BY <3>1, <4>1, <4>2
      <3>2. CASE s # {}
        <4>0. PICK c \in 0..n : c = Cardinality(s)
                 /\ \E x \in s : x = AnElement(s) /\ Cardinality(s \ {x}) = c - 1
          BY <1>2, <3>2
        <4>1. PICK x \in s, r \in SUBSET T :
                 /\ x = AnElement(s) /\ r = s \ {x} /\ c = Cardinality(s)
                 /\ Cardinality(r) = c - 1
          BY <4>0
        <4>2. new[r] = it[r]
          BY <2>3, <4>1
        <4>3. CASE c = k
          BY <3>2, <4>1, <4>2, <4>3
        <4>4. CASE c # k
          <5>1. c <= k - 1 /\ new[s] = it[s]
            BY <2>3, <4>1, <4>4
          <5>2. it[s] = Step(it, s)
            BY <2>1, <4>1, <5>1
          <5> QED BY <3>2, <4>1, <4>2, <5>1, <5>2
        <4> QED BY <4>3, <4>4
      <3> QED BY <3>1, <3>2
    <2>4. UpTo(k, new)
      <3> HIDE DEF new, Step
      <3> QED BY <2>3
    <2> HIDE DEF new, UpTo
    <2> QED BY <2>2, <2>4
  <1>5. n \in K
    <2> HIDE DEF K
    <2> QED BY <1>3, <1>4, SetInduction
  <1>6. PICK it \in [SUBSET T -> Nat] : UpTo(n, it)
    BY <1>5
  <1>7. Totals(g, T, it)
    <2>1. ASSUME NEW s \in SUBSET T PROVE it[s] = Step(it, s)
      <3>0. PICK c \in 0..n : c = Cardinality(s)
        BY <1>2
      <3>1. Cardinality(s) <= n
        BY <3>0
      <3> HIDE DEF Step
      <3> QED BY <1>6, <3>1
    <2> QED BY <2>1 DEF Totals
  <1> QED BY <1>7

LEMMA TotalsAgree ==
    ASSUME NEW T, IsFiniteSet(T), NEW g, NEW f, NEW h, Totals(g, T, f), Totals(g, T, h)
    PROVE  \A s \in SUBSET T : f[s] = h[s]
  <1> DEFINE P == {s \in SUBSET T : f[s] = h[s]}
  <1>1. {} \in P
    BY DEF Totals
  <1>2. ASSUME NEW s \in SUBSET T, s # {}, \A x \in s : s \ {x} \in P
        PROVE  s \in P
    <2>1. PICK x \in s : x = AnElement(s)
      BY <1>2, ElementIsThere
    <2>2. f[s \ {x}] = h[s \ {x}]
      BY <1>2
    <2>3. f[s] = g[x] + f[s \ {x}] /\ h[s] = g[x] + h[s \ {x}]
      BY <1>2, <2>1 DEF Totals
    <2> QED BY <2>2, <2>3
  <1>3. \A s \in SUBSET T : s \in P
    <2> HIDE DEF P
    <2> QED BY <1>1, <1>2, SubsetInduction
  <1> QED BY <1>3

(* One function has the sums over all parts of a finite set.               *)
SumsAre(g, T, it) ==
    Totals(g, T, it) /\ \A U \in SUBSET T : SumFunctionOnSet(g, U) = it[U]

LEMMA SumsAreTotals ==
    ASSUME NEW T, IsFiniteSet(T), NEW g, NatOn(g, T)
    PROVE  \E it \in [SUBSET T -> Nat] : SumsAre(g, T, it)
  <1>1. PICK it \in [SUBSET T -> Nat] : Totals(g, T, it)
    BY TotalsExist
  <1>2. ASSUME NEW U \in SUBSET T PROVE SumFunctionOnSet(g, U) = it[U]
    <2> DEFINE IsFold(h) == h = [s \in SUBSET U |->
                       IF s = {} THEN 0 ELSE g[AnElement(s)] + h[s \ {AnElement(s)}]]
               sums == CHOOSE h : IsFold(h)
    <2>1. SumFunctionOnSet(g, U) = sums[U]
      BY SumIsATotal
    <2>2. IsFold([s \in SUBSET U |-> it[s]])
      <3>1. ASSUME NEW s \in SUBSET U
            PROVE  it[s] = IF s = {} THEN 0
                           ELSE g[AnElement(s)] + [r \in SUBSET U |-> it[r]][s \ {AnElement(s)}]
        <4>1. s \in SUBSET T /\ s \ {AnElement(s)} \in SUBSET U
          OBVIOUS
        <4> QED BY <1>1, <4>1 DEF Totals
      <3> QED BY <3>1
    <2>3. IsFold(sums)
      <3> HIDE DEF IsFold
      <3> QED BY <2>2
    <2>4. Totals(g, U, sums)
      <3>1. PICK h : h = sums
        OBVIOUS
      <3>2. IsFold(h)
        <4> HIDE DEF IsFold, sums
        <4> QED BY <2>3, <3>1
      <3>3. Totals(g, U, h)
        BY <3>2 DEF Totals
      <3> HIDE DEF sums
      <3> QED BY <3>1, <3>3
    <2>5. Totals(g, U, it)
      BY <1>1 DEF Totals
    <2>6. IsFiniteSet(U)
      BY FS_Subset
    <2>7. \A s \in SUBSET U : sums[s] = it[s]
      <3> HIDE DEF sums
      <3> QED BY <2>4, <2>5, <2>6, TotalsAgree
    <2> HIDE DEF sums
    <2> QED BY <2>1, <2>7
  <1> QED BY <1>1, <1>2 DEF SumsAre

LEMMA SumTakes ==
    ASSUME NEW T, IsFiniteSet(T), NEW g, NatOn(g, T), NEW x \in T
    PROVE  SumFunctionOnSet(g, T) = g[x] + SumFunctionOnSet(g, T \ {x})
  <1>0. PICK it \in [SUBSET T -> Nat] : SumsAre(g, T, it)
    BY SumsAreTotals
  <1>1. Totals(g, T, it) /\ \A U \in SUBSET T : SumFunctionOnSet(g, U) = it[U]
    BY <1>0 DEF SumsAre
  <1> DEFINE P == {s \in SUBSET T : \A y \in s : it[s] = g[y] + it[s \ {y}]}
  <1>2. ASSUME NEW s \in SUBSET T, s # {}, \A y \in s : s \ {y} \in P
        PROVE  s \in P
    <2>1. PICK e \in s : e = AnElement(s) /\ it[s] = g[e] + it[s \ {e}]
      BY <1>1, <1>2, ElementIsThere DEF Totals
    <2>2. ASSUME NEW y \in s PROVE it[s] = g[y] + it[s \ {y}]
      <3>1. CASE y = e
        BY <2>1, <3>1
      <3>2. CASE y # e
        <4>1. it[s \ {e}] = g[y] + it[(s \ {e}) \ {y}]
          BY <1>2, <3>2
        <4>2. it[s \ {y}] = g[e] + it[(s \ {y}) \ {e}]
          BY <1>2, <3>2
        <4>3. PICK r \in SUBSET T : r = (s \ {e}) \ {y} /\ r = (s \ {y}) \ {e}
          OBVIOUS
        <4>4. PICK a \in Nat, b \in Nat, c \in Nat : a = g[e] /\ b = g[y] /\ c = it[r]
          BY DEF NatOn
        <4>5. it[s \ {e}] = b + c /\ it[s \ {y}] = a + c
          BY <4>1, <4>2, <4>3, <4>4
        <4> QED BY <2>1, <4>4, <4>5
      <3> QED BY <3>1, <3>2
    <2> QED BY <2>2
  <1>3. \A s \in SUBSET T : s \in P
    <2>1. {} \in P
      OBVIOUS
    <2> HIDE DEF P
    <2> QED BY <1>2, <2>1, SubsetInduction
  <1>4. it[T] = g[x] + it[T \ {x}]
    BY <1>3
  <1> QED BY <1>1, <1>4

LEMMA SumIsNat ==
    ASSUME NEW T, IsFiniteSet(T), NEW g, NatOn(g, T)
    PROVE  SumFunctionOnSet(g, T) \in Nat
  <1>1. PICK it \in [SUBSET T -> Nat] : SumsAre(g, T, it)
    BY SumsAreTotals
  <1> QED BY <1>1 DEF SumsAre

LEMMA SumOfNone ==
    ASSUME NEW g
    PROVE  SumFunctionOnSet(g, {}) = 0
  <1>1. IsFiniteSet({}) /\ NatOn(g, {})
    BY FS_EmptySet DEF NatOn
  <1>2. PICK it \in [SUBSET {} -> Nat] : SumsAre(g, {}, it)
    BY <1>1, SumsAreTotals
  <1> QED BY <1>2 DEF SumsAre, Totals

LEMMA SumOfOne ==
    ASSUME NEW g, NEW x, g[x] \in Nat
    PROVE  SumFunctionOnSet(g, {x}) = g[x]
  <1>1. IsFiniteSet({x}) /\ NatOn(g, {x}) /\ {x} \ {x} = {}
    BY FS_Singleton DEF NatOn
  <1> QED BY <1>1, SumTakes, SumOfNone

LEMMA SumIsAtLeast ==
    ASSUME NEW T, IsFiniteSet(T), NEW g, NatOn(g, T), NEW x \in T
    PROVE  g[x] <= SumFunctionOnSet(g, T)
  <1>1. IsFiniteSet(T \ {x}) /\ NatOn(g, T \ {x})
    BY FS_RemoveElement DEF NatOn
  <1>2. PICK rest \in Nat : rest = SumFunctionOnSet(g, T \ {x})
    BY <1>1, SumIsNat
  <1>3. PICK a \in Nat : a = g[x]
    BY DEF NatOn
  <1> QED BY <1>2, <1>3, SumTakes

LEMMA SumsAreOrdered ==
    ASSUME NEW T, IsFiniteSet(T), NEW g, NatOn(g, T), NEW h, NatOn(h, T),
           \A x \in T : g[x] <= h[x]
    PROVE  SumFunctionOnSet(g, T) <= SumFunctionOnSet(h, T)
  <1>0. PICK f \in [SUBSET T -> Nat], k \in [SUBSET T -> Nat] :
           SumsAre(g, T, f) /\ SumsAre(h, T, k)
    BY SumsAreTotals
  <1>1. Totals(g, T, f) /\ \A s \in SUBSET T : SumFunctionOnSet(g, s) = f[s]
    BY <1>0 DEF SumsAre
  <1>2. Totals(h, T, k) /\ \A s \in SUBSET T : SumFunctionOnSet(h, s) = k[s]
    BY <1>0 DEF SumsAre
  <1> DEFINE P == {s \in SUBSET T : f[s] <= k[s]}
  <1>3. {} \in P
    <2>1. f[{}] = 0 /\ k[{}] = 0
      BY <1>1, <1>2 DEF Totals
    <2> QED BY <2>1
  <1>4. ASSUME NEW s \in SUBSET T, s # {}, \A x \in s : s \ {x} \in P
        PROVE  s \in P
    <2>1. PICK x \in s : x = AnElement(s)
      BY <1>4, ElementIsThere
    <2>2. PICK a \in Nat, b \in Nat, c \in Nat, d \in Nat :
             a = g[x] /\ b = f[s \ {x}] /\ c = h[x] /\ d = k[s \ {x}]
      BY DEF NatOn
    <2>3. f[s] = a + b /\ k[s] = c + d
      BY <1>1, <1>2, <1>4, <2>1, <2>2 DEF Totals
    <2>4. a <= c /\ b <= d
      BY <1>4, <2>2
    <2> QED BY <2>3, <2>4
  <1>5. \A s \in SUBSET T : s \in P
    <2> HIDE DEF P
    <2> QED BY <1>3, <1>4, SubsetInduction
  <1> QED BY <1>1, <1>2, <1>5

\* What is nothing adds nothing.
LEMMA SumWithoutNothing ==
    ASSUME NEW T, IsFiniteSet(T), NEW g, NatOn(g, T), NEW U \in SUBSET T,
           \A x \in T \ U : g[x] = 0
    PROVE  SumFunctionOnSet(g, T) = SumFunctionOnSet(g, U)
  <1>0. PICK f \in [SUBSET T -> Nat] : SumsAre(g, T, f)
    BY SumsAreTotals
  <1>1. Totals(g, T, f) /\ \A s \in SUBSET T : SumFunctionOnSet(g, s) = f[s]
    BY <1>0 DEF SumsAre
  <1> DEFINE P == {s \in SUBSET T : f[s] = f[s \cap U]}
  <1>2. {} \in P
    <2>1. {} \cap U = {}
      OBVIOUS
    <2> QED BY <2>1
  <1>3. ASSUME NEW s \in SUBSET T, NEW x \in s PROVE f[s] = g[x] + f[s \ {x}]
    <2>1. IsFiniteSet(s) /\ NatOn(g, s)
      BY FS_Subset DEF NatOn
    <2>2. SumFunctionOnSet(g, s) = g[x] + SumFunctionOnSet(g, s \ {x})
      BY <2>1, SumTakes
    <2> QED BY <1>1, <2>2
  <1>4. ASSUME NEW s \in SUBSET T, s # {}, \A x \in s : s \ {x} \in P
        PROVE  s \in P
    <2>1. PICK x \in s : TRUE
      BY <1>4
    <2>2. f[s] = g[x] + f[s \ {x}] /\ f[s \ {x}] = f[(s \ {x}) \cap U]
      BY <1>3, <1>4
    <2>3. CASE x \in U
      <3>1. x \in s \cap U /\ (s \cap U) \ {x} = (s \ {x}) \cap U
        BY <2>3
      <3>2. f[s \cap U] = g[x] + f[(s \cap U) \ {x}]
        BY <1>3, <3>1
      <3> QED BY <2>2, <3>1, <3>2
    <2>4. CASE x \notin U
      <3>1. s \cap U = (s \ {x}) \cap U /\ g[x] = 0 /\ f[s \ {x}] \in Nat
        BY <2>4
      <3>2. f[s] = f[s \ {x}]
        BY <2>2, <3>1
      <3>3. f[s] = f[s \cap U]
        BY <2>2, <3>1, <3>2
      <3> QED BY <3>3
    <2> QED BY <2>3, <2>4
  <1>5. \A s \in SUBSET T : s \in P
    <2> HIDE DEF P
    <2> QED BY <1>2, <1>4, SubsetInduction
  <1>6. f[T] = f[T \cap U] /\ T \cap U = U
    BY <1>5
  <1> QED BY <1>1, <1>6

-----------------------------------------------------------------------------
(* What is read from a file.                                               *)

RawLines == Seq([part : STRING, qty : STRING, optional : BOOLEAN])
ReadLines == Seq([part : STRING, qty : Nat, optional : BOOLEAN])

LEMMA LineOfType ==
    ASSUME NEW row \in Seq(STRING), NEW pn, NEW qty, NEW opt, IsLine(row, pn, qty)
    PROVE  LineOf(row, pn, qty, opt) \in [part : STRING, qty : STRING, optional : BOOLEAN]
  <1> DEFINE optional == opt \in DOMAIN row /\ Truthy(row[opt])
  <1>1. optional \in BOOLEAN
    OBVIOUS
  <1>2. pn \in DOMAIN row /\ qty \in DOMAIN row
    BY DEF IsLine
  <1>3. row[pn] \in STRING /\ row[qty] \in STRING
    BY <1>2
  <1>4. LineOf(row, pn, qty, opt) = [part |-> row[pn], qty |-> row[qty], optional |-> optional]
    BY DEF LineOf
  <1> HIDE DEF optional
  <1> QED BY <1>1, <1>3, <1>4

(* The lines of the first k rows.                                          *)
LinesAt(f, rows, pn, qty, opt) ==
    /\ f[0] = <<>>
    /\ \A k \in 1..Len(rows) :
          f[k] = IF IsLine(rows[k], pn, qty)
                 THEN Append(f[k - 1], LineOf(rows[k], pn, qty, opt)) ELSE f[k - 1]

LEMMA LinesOfRuns ==
    ASSUME NEW rows \in Seq(Seq(STRING)), NEW pn, NEW qty, NEW opt
    PROVE  \E f \in [0..Len(rows) -> RawLines] :
              LinesAt(f, rows, pn, qty, opt) /\ LinesOf(rows, pn, qty, opt) = f[Len(rows)]
  <1> DEFINE After(k, lines) ==
                 IF IsLine(rows[k], pn, qty)
                 THEN Append(lines, LineOf(rows[k], pn, qty, opt)) ELSE lines
             Counts(m, g) == g = [k \in 0..m |-> IF k = 0 THEN <<>> ELSE After(k, g[k - 1])]
             UpTo == CHOOSE g : Counts(Len(rows), g)
  <1>1. LinesOf(rows, pn, qty, opt) = UpTo[Len(rows)]
    BY DEF LinesOf
  <1> HIDE DEF UpTo
  <1>2. PICK n \in Nat : n = Len(rows)
    OBVIOUS
  <1>3. ASSUME NEW k \in 1..n, NEW lines \in RawLines PROVE After(k, lines) \in RawLines
    <2>1. rows[k] \in Seq(STRING)
      BY <1>2
    <2>2. CASE IsLine(rows[k], pn, qty)
      BY <2>1, <2>2, LineOfType DEF RawLines
    <2> QED BY <2>2
  <1> HIDE DEF After
  <1> DEFINE step == [p \in (1..n) \X RawLines |-> After(p[1], p[2])]
  <1>4. step \in [(1..n) \X RawLines -> RawLines]
    BY <1>3
  <1>5. <<>> \in RawLines
    BY DEF RawLines
  <1>6. PICK g \in [0..n -> RawLines] : Runs(g, n, <<>>, step)
    <2> HIDE DEF step
    <2> QED BY <1>4, <1>5, RecursionDefines
  <1>7. ASSUME NEW k \in 1..n PROVE g[k] = After(k, g[k - 1])
    <2>1. g[k - 1] \in RawLines
      OBVIOUS
    <2> QED BY <1>6, <2>1 DEF Runs
  <1>8. Counts(n, g)
    <2>1. g[0] = <<>>
      BY <1>6 DEF Runs
    <2>2. \A k \in 0..n : g[k] = IF k = 0 THEN <<>> ELSE After(k, g[k - 1])
      BY <1>7, <2>1
    <2>3. g = [k \in 0..n |-> g[k]]
      BY <1>6
    <2> QED BY <2>2, <2>3
  <1>9. Counts(n, UpTo)
    <2> HIDE DEF Counts
    <2> QED BY <1>2, <1>8 DEF UpTo
  <1>10. UpTo[0] = <<>> /\ \A k \in 1..n : UpTo[k] = After(k, UpTo[k - 1])
    BY <1>9
  <1>11. UpTo \in [0..n -> RawLines]
    <2>1. UpTo[0] \in RawLines
      BY <1>5, <1>10
    <2>2. ASSUME NEW k \in 1..n, UpTo[k - 1] \in RawLines PROVE UpTo[k] \in RawLines
      BY <1>3, <1>10, <2>2
    <2>3. \A k \in 0..n : UpTo[k] \in RawLines
      BY <2>1, <2>2, StaysIn
    <2>4. UpTo = [k \in 0..n |-> UpTo[k]]
      BY <1>9
    <2> HIDE DEF Counts
    <2> QED BY <2>3, <2>4
  <1>12. LinesAt(UpTo, rows, pn, qty, opt)
    BY <1>2, <1>10 DEF LinesAt, After
  <1> QED BY <1>1, <1>2, <1>11, <1>12

LEMMA LinesOfType ==
    ASSUME NEW rows \in Seq(Seq(STRING)), NEW pn, NEW qty, NEW opt
    PROVE  LinesOf(rows, pn, qty, opt) \in RawLines
  <1>1. PICK f \in [0..Len(rows) -> RawLines] : LinesOf(rows, pn, qty, opt) = f[Len(rows)]
    BY LinesOfRuns
  <1>2. Len(rows) \in 0..Len(rows)
    OBVIOUS
  <1> QED BY <1>1, <1>2

(* What is not refused has lines with numbers.                             *)
HasLines(parsed) == parsed.ok => parsed.lines \in ReadLines

LEMMA CheckedHasLines ==
    ASSUME NEW code, NEW name, NEW version, NEW lines \in RawLines
    PROVE  HasLines(Checked(code, name, version, lines))
  <1>1. ~Refused.ok
    BY DEF Refused
  <1>2. CASE Checked(code, name, version, lines) = Refused
    BY <1>1, <1>2 DEF HasLines
  <1>3. CASE \A i \in DOMAIN lines : lines[i].qty \in Numerals
    <2> DEFINE counted == [i \in DOMAIN lines |-> [lines[i] EXCEPT !.qty = Value[lines[i].qty]]]
    <2>1. ASSUME NEW i \in DOMAIN lines
          PROVE  counted[i] \in [part : STRING, qty : Nat, optional : BOOLEAN]
      <3>1. lines[i] \in [part : STRING, qty : STRING, optional : BOOLEAN]
        BY ElementOfSeq, LenProperties DEF RawLines
      <3>2. Value[lines[i].qty] \in Nat
        BY <1>3, NumeralsAssumption
      <3> QED BY <3>1, <3>2
    <2>2. PICK n \in Nat : DOMAIN lines = 1..n
      BY DEF RawLines
    <2>3. counted \in [1..n -> [part : STRING, qty : Nat, optional : BOOLEAN]]
      <3>1. counted = [i \in 1..n |-> counted[i]]
        BY <2>2
      <3> HIDE DEF counted
      <3> QED BY <2>1, <2>2, <3>1
    <2>4. counted \in ReadLines
      <3> HIDE DEF counted
      <3> QED BY <2>3, FunctionIsSeq DEF ReadLines
    <2>5. Checked(code, name, version, lines) = Refused \/
          Checked(code, name, version, lines).lines = counted
      BY DEF Checked
    <2> HIDE DEF counted
    <2> QED BY <1>2, <2>4, <2>5 DEF HasLines
  <1> QED BY <1>2, <1>3 DEF Checked

LEMMA ParsedHasLines ==
    ASSUME NEW code, NEW name, NEW version, NEW head, NEW rows \in Seq(Seq(STRING))
    PROVE  HasLines(Parsed(code, name, version, head, rows))
  BY LinesOfType, CheckedHasLines DEF Parsed

LEMMA RefusedHasLines == HasLines(Refused)
  BY DEF HasLines, Refused

LEMMA LineHeadIsARow ==
    ASSUME NEW rows \in Seq(Seq(STRING)), NEW meta \in Nat
    PROVE  LineHead(rows, meta) \in Nat
  <1> DEFINE heads == {j \in (meta + 1)..Len(rows) :
                         "part_number" \in Cells(rows[j]) \/ rows[j][1] \in PartHeads}
  <1>1. heads \subseteq Nat
    OBVIOUS
  <1>2. LineHead(rows, meta) =
        IF heads = {} THEN 0 ELSE CHOOSE j \in heads : \A k \in heads : j <= k
    BY DEF LineHead
  <1> HIDE DEF heads
  <1>3. CASE heads = {}
    BY <1>2, <1>3
  <1>4. CASE heads # {}
    BY <1>1, <1>2, <1>4, SmallestExists
  <1> QED BY <1>3, <1>4

LEMMA ParseHasLines ==
    ASSUME NEW rows \in Seq(Seq(STRING))
    PROVE  HasLines(Parse(rows))
  <1>1. CASE rows = <<>>
    BY <1>1, RefusedHasLines DEF Parse
  <1>2. CASE rows # <<>>
    <2>1. Tail(rows) \in Seq(Seq(STRING))
      BY <1>2
    <2>2. HasLines(ParseFlat(rows))
      BY <2>1, ParsedHasLines, RefusedHasLines DEF ParseFlat
    <2>3. ASSUME NEW meta, NEW at \in Nat PROVE HasLines(Sectioned(rows, meta, at))
      <3>1. CASE at = 0
        BY <3>1, RefusedHasLines DEF Sectioned
      <3>2. CASE at # 0
        <4>1. SubSeq(rows, at + 1, Len(rows)) \in Seq(Seq(STRING))
          OBVIOUS
        <4> QED BY <3>2, <4>1, ParsedHasLines DEF Sectioned
      <3> QED BY <3>1, <3>2
    <2>4. HeadRow(rows) \in Nat
      BY DEF HeadRow
    <2>5. LineHead(rows, HeadRow(rows)) \in Nat
      BY <2>4, LineHeadIsARow
    <2> QED BY <1>2, <2>2, <2>3, <2>5 DEF Parse, ParseSections
  <1> QED BY <1>1, <1>2

LEMMA FilesHaveLines == \A f \in Files : ParsedOf[f].lines \in ReadLines
  <1> TAKE f \in Files
  <1>1. HasLines(ParsedOf[f])
    BY ParseHasLines, BomAssumption DEF ParsedOf
  <1> QED BY <1>1, BomAssumption DEF HasLines

-----------------------------------------------------------------------------
(* Type correctness.                                                       *)

LEMMA BomLinesGrow ==
    ASSUME NEW A, NEW B, A \subseteq B
    PROVE  /\ BomLines(A) \subseteq BomLines(B)
           /\ SavedBoms(A) \subseteq SavedBoms(B)
           /\ ReadFiles(A) \subseteq ReadFiles(B)
  <1>1. [part : A, qty : Nat, optional : BOOLEAN]
           \subseteq [part : B, qty : Nat, optional : BOOLEAN]
    OBVIOUS
  <1>2. BomLines(A) \subseteq BomLines(B)
    BY <1>1, SeqMonotonic DEF BomLines
  <1> QED BY <1>2 DEF SavedBoms, ReadFiles

(* What there is is told from "there is none".                             *)
LEMMA SavedIsNotNone ==
    ASSUME BomTypeOK
    PROVE  /\ PartIds \subseteq Nat \ {0}
           /\ NoBom \notin MixedHeads
           /\ NoBom \notin SavedBoms(PartIds)
           /\ NoImport \notin ReadFiles(PartIds)
  <1>1. PartIds \subseteq Nat \ {0}
    BY DEF BomTypeOK, PartIds
  <1> QED BY <1>1, NoneAssumption, BomLinesGrow

LEMMA PartOfIsAPart ==
    ASSUME catalogue \in Seq(DOMAIN Key), NEW number, PartOf(number) # 0
    PROVE  PartOf(number) \in PartIds /\ Key[catalogue[PartOf(number)]] = Key[number]
  <1> DEFINE ids == {i \in PartIds : Key[catalogue[i]] = Key[number]}
  <1>1. PartOf(number) = IF ids = {} THEN 0
                         ELSE CHOOSE i \in ids : \A j \in ids : j <= i
    BY DEF PartOf
  <1>2. PICK n \in Nat : PartIds = 1..n
    BY DEF PartIds
  <1>3. ids \subseteq 1..n
    BY <1>2
  <1>4. PartOf(number) \in ids
    <2> HIDE DEF ids
    <2> QED BY <1>1, <1>3, LargestExists
  <1> QED BY <1>4

(* The lines of a file, about parts of the catalogue.                      *)
Resolved(lines) == [i \in DOMAIN lines |-> [lines[i] EXCEPT !.part = PartOf(lines[i].part)]]

LEMMA ResolvedLines ==
    ASSUME catalogue \in Seq(DOMAIN Key), NEW lines \in ReadLines, AllKnown(lines)
    PROVE  /\ Resolved(lines) \in BomLines(PartIds)
           /\ Len(Resolved(lines)) = Len(lines)
           /\ \A i \in DOMAIN lines :
                /\ Key[catalogue[Resolved(lines)[i].part]] = Key[lines[i].part]
                /\ Resolved(lines)[i].qty = lines[i].qty
                /\ Resolved(lines)[i].optional = lines[i].optional
  <1>1. PICK n \in Nat : n = Len(lines) /\ DOMAIN lines = 1..n
    BY DEF ReadLines
  <1>2. ASSUME NEW i \in 1..n
        PROVE  /\ Resolved(lines)[i] \in [part : PartIds, qty : Nat, optional : BOOLEAN]
               /\ Key[catalogue[Resolved(lines)[i].part]] = Key[lines[i].part]
               /\ Resolved(lines)[i].qty = lines[i].qty
               /\ Resolved(lines)[i].optional = lines[i].optional
    <2>1. PICK line \in [part : STRING, qty : Nat, optional : BOOLEAN] : line = lines[i]
      BY <1>1, ElementOfSeq DEF ReadLines
    <2>2. PICK id \in PartIds : id = PartOf(line.part) /\ Key[catalogue[id]] = Key[line.part]
      BY <1>1, <2>1, PartOfIsAPart DEF AllKnown
    <2>3. Resolved(lines)[i] = [line EXCEPT !.part = id]
      BY <1>1, <2>1, <2>2 DEF Resolved
    <2> QED BY <2>1, <2>2, <2>3
  <1>3. Resolved(lines) = [i \in 1..n |-> Resolved(lines)[i]]
    BY <1>1 DEF Resolved
  <1>4. Resolved(lines) \in [1..n -> [part : PartIds, qty : Nat, optional : BOOLEAN]]
    <2> DEFINE r == Resolved(lines)
    <2> HIDE DEF r
    <2>1. r = [i \in 1..n |-> r[i]] /\ \A i \in 1..n :
             r[i] \in [part : PartIds, qty : Nat, optional : BOOLEAN]
      BY <1>2, <1>3 DEF r
    <2>2. r \in [1..n -> [part : PartIds, qty : Nat, optional : BOOLEAN]]
      BY <2>1
    <2> QED BY <2>2 DEF r
  <1>5. Resolved(lines) \in BomLines(PartIds) /\ Len(Resolved(lines)) = n
    <2> DEFINE r == Resolved(lines)
    <2> HIDE DEF r
    <2>1. r \in [1..n -> [part : PartIds, qty : Nat, optional : BOOLEAN]]
      BY <1>4 DEF r
    <2>2. r \in BomLines(PartIds) /\ Len(r) = n
      BY <2>1, FunctionIsSeq DEF BomLines
    <2> QED BY <2>2 DEF r
  <1> QED BY <1>1, <1>2, <1>5

LEMMA BomInitTyped == BomInit => BomTypeOK
  <1> SUFFICES ASSUME BomInit PROVE BomTypeOK
    OBVIOUS
  <1>1. stock \in [Slots -> [part : PartIds \cup {0}, qty : 0..MaxQty]]
    BY BomAssumption DEF BomInit
  <1> QED BY <1>1 DEF BomInit, BomTypeOK, PartIds

LEMMA CreatePartTyped ==
    ASSUME BomTypeOK, NEW number \in DOMAIN Key, CreatePart(number)
    PROVE  /\ BomTypeOK'
           /\ PartIds \subseteq PartIds'
           /\ \A i \in PartIds : catalogue'[i] = catalogue[i]
  <1>1. PICK n \in Nat : n = Len(catalogue) /\ PartIds = 1..n
    BY DEF BomTypeOK, PartIds
  <1>2. catalogue' = Append(catalogue, number) /\ catalogue \in Seq(DOMAIN Key)
    BY DEF CreatePart, BomTypeOK
  <1>3. catalogue' \in Seq(DOMAIN Key) /\ PartIds' = 1..n + 1
    BY <1>1, <1>2 DEF PartIds
  <1>4. catalogue'[n + 1] = number /\ \A i \in 1..n : catalogue'[i] = catalogue[i]
    BY <1>1, <1>2
  <1>5. ASSUME NEW i \in PartIds', NEW j \in PartIds', catalogue'[i] = catalogue'[j]
        PROVE  i = j
    BY <1>1, <1>3, <1>4, <1>5 DEF CreatePart, BomTypeOK
  <1>6. PartIds \subseteq PartIds'
    BY <1>1, <1>3
  <1>7. UNCHANGED <<stock, boms, import, stale>>
    BY DEF CreatePart
  <1>8. stock' \in [Slots -> [part : PartIds' \cup {0}, qty : 0..MaxQty]]
    <2>1. [part : PartIds \cup {0}, qty : 0..MaxQty]
             \subseteq [part : PartIds' \cup {0}, qty : 0..MaxQty]
      BY <1>6
    <2> QED BY <1>7, <2>1 DEF BomTypeOK
  <1>9. /\ SavedBoms(PartIds) \subseteq SavedBoms(PartIds')
        /\ ReadFiles(PartIds) \subseteq ReadFiles(PartIds')
    BY <1>6, BomLinesGrow
  <1>10. boms' \in [Codes -> SavedBoms(PartIds') \cup {NoBom}]
    BY <1>7, <1>9 DEF BomTypeOK
  <1>11. import' \in [Operators -> ReadFiles(PartIds') \cup {NoImport}]
    BY <1>7, <1>9 DEF BomTypeOK
  <1>12. stale' \subseteq Codes
    BY <1>7 DEF BomTypeOK
  <1> QED BY <1>1, <1>3, <1>4, <1>5, <1>6, <1>8, <1>10, <1>11, <1>12 DEF BomTypeOK, Codes

LEMMA StockMovesTyped ==
    ASSUME BomTypeOK, NEW s \in Slots, NEW id \in PartIds \cup {0}, NEW n \in 0..MaxQty,
           StockMoves(s, id, n)
    PROVE  BomTypeOK'
  <1>1. stock' \in [Slots -> [part : PartIds \cup {0}, qty : 0..MaxQty]]
    BY DEF StockMoves, BomTypeOK
  <1> QED BY <1>1 DEF StockMoves, BomTypeOK, PartIds

LEMMA ReadImportTyped ==
    ASSUME BomTypeOK, NEW o \in Operators, NEW f \in Files, ReadImport(o, f)
    PROVE  BomTypeOK'
  <1> DEFINE p == ParsedOf[f]
             found == IF boms[p.code] = NoBom THEN NoBom ELSE boms[p.code].head
             read == [file |-> f, found |-> found, lines |-> Resolved(p.lines)]
  <1>1. p.code \in Codes
    BY DEF Codes
  <1>2. found \in MixedHeads \cup {NoBom}
    BY <1>1 DEF BomTypeOK, SavedBoms
  <1>3. Resolved(p.lines) \in BomLines(PartIds)
    BY FilesHaveLines, ResolvedLines DEF ReadImport, BomTypeOK
  <1>4. import' = [import EXCEPT ![o] = read]
    BY DEF ReadImport, Resolved
  <1> HIDE DEF p, found
  <1>5. read \in ReadFiles(PartIds)
    BY <1>2, <1>3 DEF ReadFiles
  <1> HIDE DEF read
  <1>6. import' \in [Operators -> ReadFiles(PartIds) \cup {NoImport}]
    BY <1>4, <1>5 DEF BomTypeOK
  <1> QED BY <1>6 DEF ReadImport, BomTypeOK, PartIds

(* A BOM that an import found is not deleted before it writes.             *)
FoundIsSaved ==
    \A o \in Operators : import[o] # NoImport /\ import[o].found # NoBom
                            => boms[ParsedOf[import[o].file].code] # NoBom

LEMMA SavedHeads ==
    ASSUME BomTypeOK, NEW c \in Codes, boms[c] # NoBom
    PROVE  boms[c] \in SavedBoms(PartIds) /\ boms[c].head \in MixedHeads
  BY DEF BomTypeOK, SavedBoms

(* What an import holds, and what it does when it writes: a BOM of its     *)
(* code with its lines, whose head is its own unless it is stale.          *)
LEMMA ImportFields ==
    ASSUME BomTypeOK, NEW o \in Operators, import[o] # NoImport
    PROVE  /\ import[o].file \in Files
           /\ import[o].found \in MixedHeads \cup {NoBom}
           /\ import[o].lines \in BomLines(PartIds)
           /\ ParsedOf[import[o].file].code \in Codes
  <1>1. import[o] \in ReadFiles(PartIds)
    BY DEF BomTypeOK
  <1>2. import[o].file \in Files
    BY <1>1 DEF ReadFiles
  <1> QED BY <1>1, <1>2 DEF ReadFiles, Codes

HeadOf(f) == [name |-> ParsedOf[f].name, version |-> ParsedOf[f].version]

LEMMA HeadAfterWrites ==
    ASSUME NEW found \in MixedHeads \cup {NoBom}, NEW now, NEW new \in MixedHeads,
           found # NoBom => now.head \in MixedHeads
    PROVE  /\ HeadAfter(found, now, new) \in MixedHeads
           /\ found = NoBom \/ found = now.head => HeadAfter(found, now, new) = new
  <1>1. CASE found = NoBom
    BY <1>1 DEF HeadAfter
  <1>2. CASE found # NoBom
    <2>1. PICK head \in MixedHeads : head = now.head
      BY <1>2
    <2>2. HeadAfter(found, now, new) =
             [name |-> Update(head.name, found.name, new.name),
              version |-> Update(head.version, found.version, new.version)]
      BY <1>2, <2>1 DEF HeadAfter
    <2>3. HeadAfter(found, now, new) \in MixedHeads
      BY <1>2, <2>2 DEF Update, MixedHeads
    <2>4. ASSUME found = head PROVE HeadAfter(found, now, new) = new
      BY <2>2, <2>4 DEF Update, MixedHeads
    <2> QED BY <1>2, <2>1, <2>3, <2>4
  <1> QED BY <1>1, <1>2

LEMMA WriteImportEffect ==
    ASSUME BomTypeOK, FoundIsSaved, NEW o \in Operators, WriteImport(o)
    PROVE  \/ UNCHANGED <<boms, stale>>
           \/ \E head \in MixedHeads :
                LET f == import[o].file
                    code == ParsedOf[f].code
                IN /\ boms' = [boms EXCEPT ![code] = [head |-> head, lines |-> import[o].lines]]
                   /\ stale' \in {stale \ {code}, stale \cup {code}}
                   /\ code \notin stale' => head = HeadOf(f)
  <1> DEFINE f == import[o].file
             code == ParsedOf[f].code
             found == import[o].found
             now == boms[code]
             head == HeadAfter(found, now, HeadOf(f))
  <1>1. import[o] # NoImport /\ WriteBom(o, code, ParsedOf[f].name, ParsedOf[f].version)
    BY DEF WriteImport
  <1>2. f \in Files /\ found \in MixedHeads \cup {NoBom} /\ code \in Codes
    BY <1>1, ImportFields
  <1>3. HeadOf(f) \in MixedHeads
    BY <1>2 DEF HeadOf, MixedHeads
  <1>4. found # NoBom => now.head \in MixedHeads
    BY <1>1, <1>2, SavedHeads DEF FoundIsSaved
  <1>5. head \in MixedHeads /\ (found = NoBom \/ found = now.head => head = HeadOf(f))
    <2> HIDE DEF found, now
    <2> QED BY <1>2, <1>3, <1>4, HeadAfterWrites
  <1>6. UNCHANGED <<boms, stale>> \/
        /\ boms' = [boms EXCEPT ![code] = [head |-> head, lines |-> import[o].lines]]
        /\ stale' = IF found = NoBom \/ found = now.head THEN stale \ {code}
                    ELSE stale \cup {code}
    BY <1>1 DEF WriteBom, LinesAfter, HeadOf
  <1> HIDE DEF head
  <1> QED BY <1>5, <1>6

LEMMA WriteImportTyped ==
    ASSUME BomTypeOK, FoundIsSaved, NEW o \in Operators, WriteImport(o)
    PROVE  BomTypeOK'
  <1>1. import[o] # NoImport /\ UNCHANGED <<catalogue, stock>>
        /\ import' = [import EXCEPT ![o] = NoImport]
    BY DEF WriteImport
  <1>2. import' \in [Operators -> ReadFiles(PartIds) \cup {NoImport}]
    BY <1>1 DEF BomTypeOK
  <1>3. boms' \in [Codes -> SavedBoms(PartIds) \cup {NoBom}] /\ stale' \subseteq Codes
    <2>1. CASE UNCHANGED <<boms, stale>>
      BY <2>1 DEF BomTypeOK
    <2>2. CASE ~UNCHANGED <<boms, stale>>
      <3> DEFINE code == ParsedOf[import[o].file].code
      <3>1. PICK head \in MixedHeads :
               /\ boms' = [boms EXCEPT ![code] = [head |-> head, lines |-> import[o].lines]]
               /\ stale' \in {stale \ {code}, stale \cup {code}}
        BY <2>2, WriteImportEffect
      <3>2. code \in Codes /\ import[o].lines \in BomLines(PartIds)
        BY <1>1, ImportFields
      <3> HIDE DEF code
      <3>3. [head |-> head, lines |-> import[o].lines] \in SavedBoms(PartIds)
        BY <3>2 DEF SavedBoms
      <3> QED BY <3>1, <3>2, <3>3 DEF BomTypeOK
    <2> QED BY <2>1, <2>2
  <1> QED BY <1>1, <1>2, <1>3 DEF BomTypeOK, PartIds

LEMMA FoundStaysSaved ==
    ASSUME BomTypeOK, FoundIsSaved, [BomNext]_bomVars
    PROVE  FoundIsSaved'
  <1>1. ASSUME UNCHANGED <<boms, import>> PROVE FoundIsSaved'
    BY <1>1 DEF FoundIsSaved
  <1>2. ASSUME NEW o \in Operators, NEW f \in Files, ReadImport(o, f) PROVE FoundIsSaved'
    <2> SUFFICES ASSUME NEW q \in Operators, import'[q] # NoImport, import'[q].found # NoBom
                 PROVE  boms'[ParsedOf[import'[q].file].code] # NoBom
      BY DEF FoundIsSaved
    <2>1. boms' = boms /\ q # o => import'[q] = import[q]
      BY <1>2 DEF ReadImport
    <2>2. CASE q # o
      BY <1>2, <2>1, <2>2 DEF FoundIsSaved, ReadImport
    <2>3. CASE q = o
      BY <1>2, <2>3 DEF ReadImport, BomTypeOK
    <2> QED BY <2>2, <2>3
  <1>3. ASSUME NEW o \in Operators, WriteImport(o) PROVE FoundIsSaved'
    <2> SUFFICES ASSUME NEW q \in Operators, import'[q] # NoImport, import'[q].found # NoBom
                 PROVE  boms'[ParsedOf[import'[q].file].code] # NoBom
      BY DEF FoundIsSaved
    <2>1. import'[q] = import[q]
      BY <1>3 DEF WriteImport, BomTypeOK
    <2>2. boms[ParsedOf[import[q].file].code] # NoBom
      BY <2>1 DEF FoundIsSaved
    <2>3. boms'[ParsedOf[import[q].file].code] # NoBom
      <3>1. CASE UNCHANGED <<boms, stale>>
        BY <2>2, <3>1
      <3>2. CASE ~UNCHANGED <<boms, stale>>
        <4> DEFINE code == ParsedOf[import[o].file].code
        <4>1. PICK head \in MixedHeads :
                 boms' = [boms EXCEPT ![code] = [head |-> head, lines |-> import[o].lines]]
          BY <1>3, <3>2, WriteImportEffect
        <4>2. import[o].lines \in BomLines(PartIds)
          BY <1>3, ImportFields DEF WriteImport
        <4>3. [head |-> head, lines |-> import[o].lines] # NoBom
          BY <4>2, SavedIsNotNone DEF SavedBoms
        <4>4. boms \in [Codes -> SavedBoms(PartIds) \cup {NoBom}]
          BY DEF BomTypeOK
        <4>5. ParsedOf[import[q].file].code \in Codes
          BY <2>1, ImportFields
        <4> HIDE DEF code
        <4> QED BY <2>2, <4>1, <4>3, <4>4, <4>5
      <3> QED BY <3>1, <3>2
    <2> QED BY <2>1, <2>3
  <1> QED BY <1>1, <1>2, <1>3 DEF BomNext, CreatePart, StockMoves, bomVars

LEMMA BomStepTyped ==
    ASSUME BomTypeOK, FoundIsSaved, [BomNext]_bomVars
    PROVE  BomTypeOK'
  <1>1. CASE UNCHANGED bomVars
    BY <1>1 DEF bomVars, BomTypeOK, PartIds
  <1>2. CASE BomNext
    <2>1. ASSUME NEW number \in DOMAIN Key, CreatePart(number) PROVE BomTypeOK'
      BY <2>1, CreatePartTyped
    <2>2. ASSUME NEW s \in Slots, NEW id \in PartIds \cup {0}, NEW n \in 0..MaxQty,
                 StockMoves(s, id, n)
          PROVE  BomTypeOK'
      BY <2>2, StockMovesTyped
    <2>3. 0 \in 0..MaxQty /\ 1..MaxQty \subseteq 0..MaxQty
      BY BomAssumption
    <2>4. ASSUME NEW o \in Operators, NEW f \in Files, ReadImport(o, f) PROVE BomTypeOK'
      BY <2>4, ReadImportTyped
    <2>5. ASSUME NEW o \in Operators, WriteImport(o) PROVE BomTypeOK'
      BY <2>5, WriteImportTyped
    <2> QED BY <1>2, <2>1, <2>2, <2>3, <2>4, <2>5 DEF BomNext
  <1> QED BY <1>1, <1>2

LEMMA BomTypedInv == BomSpec => [](BomTypeOK /\ FoundIsSaved)
  <1>1. BomInit => BomTypeOK /\ FoundIsSaved
    BY BomInitTyped DEF BomInit, FoundIsSaved
  <1>2. BomTypeOK /\ FoundIsSaved /\ [BomNext]_bomVars => (BomTypeOK /\ FoundIsSaved)'
    BY BomStepTyped, FoundStaysSaved
  <1> QED BY <1>1, <1>2, PTL DEF BomSpec

(* The catalogue, the stock, the saved BOMs and the imports on their way   *)
(* keep their types: whatever two imports overlap and whatever is added to *)
(* the catalogue meanwhile, every line is about a part that is there.      *)
THEOREM BomTypeCorrect == BomSpec => []BomTypeOK
  BY BomTypedInv, PTL

-----------------------------------------------------------------------------
(* Saved BOMs are what was written.                                        *)

(* The reader made of a file what its author wrote.                        *)
ReadAsWritten ==
    \A f \in Files : /\ ParsedOf[f].code = f.doc.code
                     /\ ParsedOf[f].lines = f.doc.lines
                     /\ HeadOf(f) = [name |-> f.doc.name, version |-> f.doc.version]

(* The lines are those of the file, about parts with their numbers.        *)
LinesSay(lines, f) ==
    /\ Len(lines) = Len(f.doc.lines)
    /\ \A i \in DOMAIN f.doc.lines :
         /\ Key[catalogue[lines[i].part]] = Key[f.doc.lines[i].part]
         /\ lines[i].qty = f.doc.lines[i].qty
         /\ lines[i].optional = f.doc.lines[i].optional

ImportsSay == \A o \in Operators : import[o] # NoImport => LinesSay(import[o].lines, import[o].file)

HeadSays(c, f) == c \in stale \/ boms[c].head = [name |-> f.doc.name, version |-> f.doc.version]

LEMMA SaysIs ==
    ASSUME NEW c, NEW f
    PROVE  Says(c, f) <=> f.doc.code = c /\ LinesSay(boms[c].lines, f)
  BY DEF Says, LinesSay

(* What lines say does not change when the catalogue grows.                *)
LEMMA LinesKeepSaying ==
    ASSUME BomTypeOK, ReadAsWritten, NEW f \in Files, NEW lines \in BomLines(PartIds),
           LinesSay(lines, f), \A i \in PartIds : catalogue'[i] = catalogue[i]
    PROVE  LinesSay(lines, f)'
  <1>1. PICK n \in Nat : n = Len(f.doc.lines) /\ DOMAIN f.doc.lines = 1..n
    BY FilesHaveLines DEF ReadAsWritten, ReadLines
  <1>2. Len(lines) = n
    BY <1>1 DEF LinesSay
  <1>3. ASSUME NEW i \in 1..n PROVE lines[i].part \in PartIds
    <2>1. lines[i] \in [part : PartIds, qty : Nat, optional : BOOLEAN]
      BY <1>2, ElementOfSeq DEF BomLines
    <2> QED BY <2>1
  <1> QED BY <1>1, <1>3 DEF LinesSay

LEMMA ReadingSays ==
    ASSUME BomTypeOK, ReadAsWritten, NEW f \in Files, AllKnown(ParsedOf[f].lines)
    PROVE  LinesSay(Resolved(ParsedOf[f].lines), f)
  BY FilesHaveLines, ResolvedLines DEF ReadAsWritten, LinesSay, BomTypeOK

SavedInv == BomTypeOK /\ FoundIsSaved /\ ImportsSay /\ SavedAsWritten

LEMMA CatalogueKeepsSaved ==
    ASSUME SavedInv, ReadAsWritten, \A i \in PartIds : catalogue'[i] = catalogue[i],
           UNCHANGED <<boms, import, stale>>
    PROVE  ImportsSay' /\ SavedAsWritten'
  <1>1. ASSUME NEW o \in Operators, import'[o] # NoImport
        PROVE  LinesSay(import[o].lines, import[o].file)'
    <2>1. import[o].lines \in BomLines(PartIds) /\ import[o].file \in Files
      BY <1>1, ImportFields DEF SavedInv
    <2>2. LinesSay(import[o].lines, import[o].file)
      BY <1>1 DEF SavedInv, ImportsSay
    <2>3. PICK f \in Files, lines \in BomLines(PartIds) :
             f = import[o].file /\ lines = import[o].lines
      BY <2>1
    <2>4. LinesSay(lines, f)'
      BY <2>2, <2>3, LinesKeepSaying DEF SavedInv
    <2> QED BY <2>3, <2>4
  <1>2. ASSUME NEW c \in Codes, boms'[c] # NoBom
        PROVE  \E f \in Files : Says(c, f)' /\ HeadSays(c, f)'
    <2>1. PICK f \in Files : Says(c, f) /\ HeadSays(c, f)
      BY <1>2 DEF SavedInv, SavedAsWritten, HeadSays
    <2>2. PICK lines \in BomLines(PartIds) : lines = boms[c].lines
      BY <1>2, SavedHeads DEF SavedInv, SavedBoms
    <2>3. LinesSay(lines, f)'
      BY <2>1, <2>2, SaysIs, LinesKeepSaying DEF SavedInv
    <2>4. Says(c, f)'
      BY <2>1, <2>2, <2>3 DEF Says, LinesSay
    <2> QED BY <2>1, <2>4 DEF HeadSays
  <1> QED BY <1>1, <1>2 DEF ImportsSay, SavedAsWritten, HeadSays, Codes

LEMMA ReadImportKeepsSaved ==
    ASSUME SavedInv, ReadAsWritten, NEW o \in Operators, NEW f \in Files, ReadImport(o, f)
    PROVE  ImportsSay' /\ SavedAsWritten'
  <1>1. UNCHANGED <<catalogue, boms, stale>>
    BY DEF ReadImport
  <1>2. SavedAsWritten'
    BY <1>1 DEF SavedInv, SavedAsWritten, Says, Codes
  <1>3. import'[o].file = f /\ import'[o].lines = Resolved(ParsedOf[f].lines)
        /\ \A q \in Operators \ {o} : import'[q] = import[q]
    BY DEF ReadImport, Resolved, SavedInv, BomTypeOK
  <1>4. LinesSay(Resolved(ParsedOf[f].lines), f)
    BY ReadingSays DEF ReadImport, SavedInv
  <1>5. ASSUME NEW q \in Operators, import'[q] # NoImport
        PROVE  LinesSay(import'[q].lines, import'[q].file)
    BY <1>3, <1>4, <1>5 DEF SavedInv, ImportsSay
  <1> QED BY <1>1, <1>2, <1>5 DEF ImportsSay, LinesSay

LEMMA WriteImportKeepsSaved ==
    ASSUME SavedInv, ReadAsWritten, NEW o \in Operators, WriteImport(o)
    PROVE  ImportsSay' /\ SavedAsWritten'
  <1>1. catalogue' = catalogue /\ import[o] # NoImport
        /\ \A q \in Operators : import'[q] \in {import[q], NoImport}
    BY DEF WriteImport, SavedInv, BomTypeOK
  <1>2. ImportsSay'
    BY <1>1 DEF SavedInv, ImportsSay, LinesSay
  <1>3. CASE UNCHANGED <<boms, stale>>
    <2>1. SavedAsWritten'
      BY <1>1, <1>3 DEF SavedInv, SavedAsWritten, Says, Codes
    <2> QED BY <1>2, <2>1
  <1>4. CASE ~UNCHANGED <<boms, stale>>
    <2>1. PICK f \in Files, code \in Codes :
             f = import[o].file /\ code = ParsedOf[f].code /\ code = f.doc.code
      BY <1>1, ImportFields DEF SavedInv, ReadAsWritten
    <2>2. PICK head \in MixedHeads, lines \in BomLines(PartIds) :
             /\ lines = import[o].lines
             /\ boms' = [boms EXCEPT ![code] = [head |-> head, lines |-> lines]]
             /\ stale' \in {stale \ {code}, stale \cup {code}}
             /\ code \notin stale' => head = HeadOf(f)
      BY <1>1, <1>4, <2>1, ImportFields, WriteImportEffect DEF SavedInv
    <2>3. boms'[code] = [head |-> head, lines |-> lines]
          /\ \A c \in Codes \ {code} : boms'[c] = boms[c] /\ (c \in stale' <=> c \in stale)
      BY <2>1, <2>2 DEF SavedInv, BomTypeOK
    <2>4. LinesSay(lines, f)
      BY <1>1, <2>1, <2>2 DEF SavedInv, ImportsSay
    <2>5. Says(code, f)' /\ HeadSays(code, f)'
      <3>1. LinesSay(lines, f)'
        BY <1>1, <2>4 DEF LinesSay
      <3>2. Says(code, f)'
        <4>1. boms'[code].lines = lines
          BY <2>3
        <4> QED BY <2>1, <3>1, <4>1 DEF Says, LinesSay
      <3>3. HeadSays(code, f)'
        BY <2>1, <2>2, <2>3 DEF HeadSays, ReadAsWritten
      <3> QED BY <3>2, <3>3
    <2>6. ASSUME NEW c \in Codes, c # code, boms'[c] # NoBom
          PROVE  \E g \in Files : Says(c, g)' /\ HeadSays(c, g)'
      <3>1. PICK g \in Files : Says(c, g) /\ HeadSays(c, g)
        BY <2>3, <2>6 DEF SavedInv, SavedAsWritten, HeadSays
      <3>2. Says(c, g)' /\ HeadSays(c, g)'
        BY <1>1, <2>3, <2>6, <3>1 DEF Says, HeadSays
      <3> QED BY <3>2
    <2>7. ASSUME NEW c \in Codes, boms'[c] # NoBom
          PROVE  \E g \in Files : Says(c, g)' /\ HeadSays(c, g)'
      <3>1. CASE c = code
        BY <2>5, <3>1
      <3>2. CASE c # code
        BY <2>6, <2>7, <3>2
      <3> QED BY <3>1, <3>2
    <2>8. SavedAsWritten'
      BY <2>7 DEF SavedAsWritten, HeadSays, Codes
    <2> QED BY <1>2, <2>8
  <1> QED BY <1>3, <1>4

LEMMA SavedStep ==
    ASSUME SavedInv, ReadAsWritten, [BomNext]_bomVars
    PROVE  SavedInv'
  <1>1. BomTypeOK' /\ FoundIsSaved'
    BY BomStepTyped, FoundStaysSaved DEF SavedInv
  <1>2. CASE catalogue' = catalogue /\ UNCHANGED <<boms, import, stale>>
    BY <1>1, <1>2, CatalogueKeepsSaved DEF SavedInv
  <1>3. ASSUME NEW number \in DOMAIN Key, CreatePart(number) PROVE SavedInv'
    <2>1. UNCHANGED <<boms, import, stale>> /\ \A i \in PartIds : catalogue'[i] = catalogue[i]
      BY <1>3, CreatePartTyped DEF CreatePart, SavedInv
    <2> QED BY <1>1, <2>1, CatalogueKeepsSaved DEF SavedInv
  <1>4. ASSUME NEW o \in Operators, NEW f \in Files, ReadImport(o, f) PROVE SavedInv'
    BY <1>1, <1>4, ReadImportKeepsSaved DEF SavedInv
  <1>5. ASSUME NEW o \in Operators, WriteImport(o) PROVE SavedInv'
    BY <1>1, <1>5, WriteImportKeepsSaved DEF SavedInv
  <1> QED BY <1>2, <1>3, <1>4, <1>5 DEF BomNext, StockMoves, bomVars

-----------------------------------------------------------------------------
(* A file is read as it is written.                                        *)

LEMMA ColumnIs ==
    ASSUME NEW head \in Seq(STRING), NEW kind,
           \A i, j \in Columns(head, kind) : i = j
    PROVE  /\ Column(head, kind) = 0 => Columns(head, kind) = {}
           /\ Column(head, kind) # 0 => Columns(head, kind) = {Column(head, kind)}
           /\ Column(head, kind) \in Nat
  <1> DEFINE at == Columns(head, kind)
  <1>1. Column(head, kind) = IF at = {} THEN 0 ELSE CHOOSE i \in at : \A j \in at : j <= i
    BY DEF Column, Columns
  <1>2. at \subseteq Nat \ {0}
    BY DEF Columns
  <1>3. CASE at = {}
    BY <1>1, <1>3
  <1>4. CASE at # {}
    <2>1. PICK i : at = {i}
      BY <1>4
    <2>2. \A j \in at : j <= i
      BY <1>2, <2>1
    <2>3. Column(head, kind) \in at
      <3> HIDE DEF at
      <3> QED BY <1>1, <1>4, <2>1, <2>2
    <2> QED BY <1>2, <2>1, <2>3
  <1> QED BY <1>3, <1>4

(* A line with its quantity as a number.                                   *)
Counted(line) == [line EXCEPT !.qty = Value[line.qty]]

CountedLines(lines) == [i \in DOMAIN lines |-> Counted(lines[i])]

LEMMA CountedIs ==
    ASSUME NEW part, NEW qty, NEW optional
    PROVE  Counted([part |-> part, qty |-> qty, optional |-> optional]) =
              [part |-> part, qty |-> Value[qty], optional |-> optional]
  BY DEF Counted

HasColumns(head, pn, qty, opt) ==
    /\ Columns(head, "part_number") = {pn} /\ Columns(head, "quantity") = {qty}
    /\ Columns(head, "optional") = IF opt = 0 THEN {} ELSE {opt}

(* One row of a table.                                                     *)
LEMMA RowIsRead ==
    ASSUME NEW head \in Seq(STRING), NEW row \in Seq(STRING),
           NEW line \in [part : STRING, qty : Nat, optional : BOOLEAN],
           RowSays(head, row, line), NEW pn, NEW qty, NEW opt, HasColumns(head, pn, qty, opt)
    PROVE  /\ IsLine(row, pn, qty)
           /\ row[qty] \in Numerals
           /\ Counted(LineOf(row, pn, qty, opt)) = line
  <1>0. /\ Columns(head, "part_number") = {pn} /\ Columns(head, "quantity") = {qty}
        /\ Columns(head, "optional") = IF opt = 0 THEN {} ELSE {opt}
    BY DEF HasColumns
  <1>1. pn \in DOMAIN row /\ qty \in DOMAIN row
    BY <1>0 DEF RowSays, Columns
  <1>2. row[pn] = line.part /\ line.part # "" /\ row[qty] \in Numerals /\ Value[row[qty]] = line.qty
    BY <1>0 DEF RowSays
  <1>3. (opt \in DOMAIN row /\ Truthy(row[opt])) = line.optional
    <2>1. CASE opt = 0
      <3>1. opt \notin DOMAIN row
        BY <2>1
      <3>2. line.optional = FALSE
        BY <1>0, <2>1 DEF RowSays
      <3> QED BY <3>1, <3>2
    <2>2. CASE opt # 0
      <3>1. opt \in DOMAIN row
        BY <1>0, <2>2 DEF RowSays, Columns
      <3>2. CASE Truthy(row[opt])
        <4>1. line.optional = TRUE
          BY <1>0, <2>2, <3>2 DEF RowSays
        <4> QED BY <3>1, <3>2, <4>1
      <3>3. CASE ~Truthy(row[opt])
        <4>1. line.optional = FALSE
          BY <1>0, <2>2, <3>3 DEF RowSays
        <4> QED BY <3>3, <4>1
      <3> QED BY <3>2, <3>3
    <2> QED BY <2>1, <2>2
  <1>4. LineOf(row, pn, qty, opt) =
           [part |-> line.part, qty |-> row[qty], optional |-> line.optional]
    BY <1>2, <1>3 DEF LineOf
  <1>5. line = [part |-> line.part, qty |-> line.qty, optional |-> line.optional]
    OBVIOUS
  <1>6. PICK part, cell, optional :
           part = line.part /\ cell = row[qty] /\ optional = line.optional
    OBVIOUS
  <1>8. Counted([part |-> part, qty |-> cell, optional |-> optional]) =
           [part |-> part, qty |-> Value[cell], optional |-> optional]
    BY CountedIs
  <1>9. Counted(LineOf(row, pn, qty, opt)) = line
    BY <1>2, <1>4, <1>5, <1>6, <1>8
  <1>7. IsLine(row, pn, qty)
    BY <1>1, <1>2 DEF IsLine
  <1> QED BY <1>2, <1>7, <1>9

AllAreLines(body, n, pn, qty) == \A k \in 1..n : IsLine(body[k], pn, qty)

LineForLine(raw, body, n, pn, qty, opt) ==
    /\ raw \in RawLines /\ Len(raw) = n
    /\ \A i \in 1..n : raw[i] = LineOf(body[i], pn, qty, opt)

(* Every row of a table is a line: nothing is passed over.                 *)
LEMMA RowsAreLines ==
    ASSUME NEW body \in Seq(Seq(STRING)), NEW n \in Nat, n = Len(body),
           NEW pn, NEW qty, NEW opt, AllAreLines(body, n, pn, qty)
    PROVE  LineForLine(LinesOf(body, pn, qty, opt), body, n, pn, qty, opt)
  <1>1. PICK f \in [0..n -> RawLines] :
           LinesAt(f, body, pn, qty, opt) /\ LinesOf(body, pn, qty, opt) = f[n]
    BY LinesOfRuns
  <1>2. f[0] = <<>> /\ \A k \in 1..n : f[k] = Append(f[k - 1], LineOf(body[k], pn, qty, opt))
    BY <1>1 DEF LinesAt, AllAreLines
  <1> DEFINE Done(k) == Len(f[k]) = k /\ \A i \in 1..k : f[k][i] = LineOf(body[i], pn, qty, opt)
             T == {k \in 0..n : Done(k)}
  <1>3. Done(0)
    BY <1>2
  <1>4. ASSUME NEW k \in 1..n, Done(k - 1) PROVE Done(k)
    <2>0. k - 1 \in 0..n
      OBVIOUS
    <2>1. PICK g \in RawLines : g = f[k - 1]
      BY <2>0
    <2>2. Len(g) = k - 1 /\ \A i \in 1..k - 1 : g[i] = LineOf(body[i], pn, qty, opt)
      BY <1>4, <2>1
    <2>3. PICK line : line = LineOf(body[k], pn, qty, opt)
      OBVIOUS
    <2>4. PICK h : h = Append(g, line)
      OBVIOUS
    <2>5. Len(h) = k /\ h[k] = line /\ \A i \in 1..k - 1 : h[i] = g[i]
      BY <2>2, <2>4 DEF RawLines
    <2>6. f[k] = h
      BY <1>2, <2>1, <2>3, <2>4
    <2> QED BY <2>2, <2>3, <2>5, <2>6
  <1>5. n \in T
    <2> HIDE DEF Done
    <2>1. 0 \in T
      BY <1>3
    <2>2. ASSUME NEW k \in 1..n, k - 1 \in T PROVE k \in T
      BY <1>4, <2>2
    <2>3. \A k \in 0..n : k \in T
      <3> HIDE DEF T
      <3> QED BY <2>1, <2>2, SetInduction
    <2> QED BY <2>3
  <1> QED BY <1>1, <1>5 DEF LineForLine

ReadAs(raw, lines) ==
    /\ raw # <<>> /\ \A i \in DOMAIN raw : raw[i].qty \in Numerals
    /\ CountedLines(raw) = lines

LEMMA TableLines ==
    ASSUME NEW head \in Seq(STRING), NEW body \in Seq(Seq(STRING)), NEW lines \in ReadLines,
           TableSays(head, body, lines), NEW pn, NEW qty, NEW opt,
           HasColumns(head, pn, qty, opt)
    PROVE  ReadAs(LinesOf(body, pn, qty, opt), lines)
  <1>0. PICK raw : raw = LinesOf(body, pn, qty, opt)
    OBVIOUS
  <1>1. PICK n \in Nat \ {0} : n = Len(lines) /\ n = Len(body)
    BY EmptySeq, LenProperties DEF TableSays, ReadLines
  <1>2. DOMAIN lines = 1..n /\ lines = [i \in 1..n |-> lines[i]]
    BY <1>1, LenProperties DEF ReadLines
  <1>3. ASSUME NEW k \in 1..n
        PROVE  /\ IsLine(body[k], pn, qty) /\ body[k][qty] \in Numerals
               /\ Counted(LineOf(body[k], pn, qty, opt)) = lines[k]
    <2>1. PICK row \in Seq(STRING) : row = body[k]
      BY <1>1, ElementOfSeq
    <2>2. PICK line \in [part : STRING, qty : Nat, optional : BOOLEAN] : line = lines[k]
      BY <1>1, ElementOfSeq DEF ReadLines
    <2>3. RowSays(head, row, line)
      BY <1>2, <2>1, <2>2 DEF TableSays
    <2>4. /\ IsLine(row, pn, qty) /\ row[qty] \in Numerals
          /\ Counted(LineOf(row, pn, qty, opt)) = line
      BY <2>3, RowIsRead
    <2> QED BY <2>1, <2>2, <2>4
  <1>4. AllAreLines(body, n, pn, qty)
    BY <1>3 DEF AllAreLines
  <1>5. LineForLine(raw, body, n, pn, qty, opt)
    BY <1>0, <1>1, <1>4, RowsAreLines
  <1>6. DOMAIN raw = 1..n /\ raw # <<>>
    BY <1>1, <1>5, LenProperties, EmptySeq DEF RawLines, LineForLine
  <1>7. ASSUME NEW i \in 1..n PROVE raw[i].qty \in Numerals /\ Counted(raw[i]) = lines[i]
    <2>1. raw[i].qty = body[i][qty]
      BY <1>5 DEF LineOf, LineForLine
    <2> QED BY <1>3, <1>5, <2>1 DEF LineForLine
  <1>8. CountedLines(raw) = [i \in 1..n |-> lines[i]]
    BY <1>6, <1>7 DEF CountedLines
  <1> QED BY <1>0, <1>2, <1>6, <1>7, <1>8 DEF ReadAs

Accepted(code, name, version, lines) ==
    [ok |-> TRUE, code |-> code, name |-> IF name = "" THEN code ELSE name,
     version |-> version, lines |-> lines]

LEMMA TableIsRead ==
    ASSUME NEW code, code # "", NEW name, NEW version,
           NEW head \in Seq(STRING), NEW body \in Seq(Seq(STRING)), NEW lines \in ReadLines,
           TableSays(head, body, lines)
    PROVE  Parsed(code, name, version, head, body) = Accepted(code, name, version, lines)
  <1>1. PICK pn, qty, opt, raw :
           /\ pn = Column(head, "part_number") /\ qty = Column(head, "quantity")
           /\ opt = Column(head, "optional") /\ raw = LinesOf(body, pn, qty, opt)
    OBVIOUS
  <1>2. HasColumns(head, pn, qty, opt)
    BY <1>1, ColumnIs DEF TableSays, HasColumns
  <1>3. ReadAs(raw, lines)
    BY <1>1, <1>2, TableLines
  <1>4. Parsed(code, name, version, head, body) = Checked(code, name, version, raw)
    BY <1>1 DEF Parsed
  <1> QED BY <1>3, <1>4 DEF Checked, CountedLines, Counted, ReadAs, Accepted

(* A whole file, in each of the three layouts.                             *)
ReadsAs(rows, doc) ==
    Parse(rows) = [ok |-> TRUE, code |-> doc.code, name |-> doc.name,
                   version |-> doc.version, lines |-> doc.lines]

Written(doc) == "" \notin {doc.code, doc.name, doc.version} /\ doc.lines \in ReadLines

LEMMA LineHeadIs ==
    ASSUME NEW rows \in Seq(Seq(STRING)), NEW meta \in Nat, meta + 1 <= Len(rows),
           StartsTable(rows[meta + 1])
    PROVE  LineHead(rows, meta) = meta + 1
  <1> DEFINE heads == {j \in (meta + 1)..Len(rows) :
                         "part_number" \in Cells(rows[j]) \/ rows[j][1] \in PartHeads}
  <1>1. meta + 1 \in heads /\ heads \subseteq Nat /\ \A j \in heads : meta + 1 <= j
    BY DEF StartsTable
  <1>2. LineHead(rows, meta) =
        IF heads = {} THEN 0 ELSE CHOOSE j \in heads : \A k \in heads : j <= k
    BY DEF LineHead
  <1> HIDE DEF heads
  <1>3. PICK first \in heads : \A k \in heads : first <= k
    BY <1>1
  <1>4. LineHead(rows, meta) \in heads /\ \A k \in heads : LineHead(rows, meta) <= k
    BY <1>1, <1>2, <1>3
  <1>5. PICK x \in Nat : x = LineHead(rows, meta) /\ x <= meta + 1 /\ meta + 1 <= x
    BY <1>1, <1>4
  <1> QED BY <1>5

(* The parts of a file in sections, once the row of its head is known.     *)
HeadCellsSay(rows, h, doc) ==
    \/ h = 0 /\ doc.code = DefaultCode /\ doc.name = DefaultCode
             /\ doc.version = DefaultVersion
    \/ h # 0 /\ CellOr(rows[h], 1, DefaultCode) = doc.code
             /\ CellOr(rows[h], 2, "") = doc.name
             /\ CellOr(rows[h], 3, DefaultVersion) = doc.version

LinesBelow(rows, h, doc) ==
    /\ StartsTable(rows[h + 1])
    /\ TableSays(rows[h + 1], SubSeq(rows, h + 2, Len(rows)), doc.lines)

LEMMA SectionIsRead ==
    ASSUME NEW rows \in Seq(Seq(STRING)), NEW h \in Nat, NEW doc, Written(doc),
           rows # <<>>, ~IsFlat(rows[1]), HeadRow(rows) = h, h + 1 <= Len(rows),
           HeadCellsSay(rows, h, doc), LinesBelow(rows, h, doc)
    PROVE  ReadsAs(rows, doc)
  <1>1. LineHead(rows, h) = h + 1
    BY LineHeadIs DEF LinesBelow
  <1>2. PICK head \in Seq(STRING), body \in Seq(Seq(STRING)) :
           head = rows[h + 1] /\ body = SubSeq(rows, h + 2, Len(rows))
    <2>1. rows[h + 1] \in Seq(STRING)
      BY ElementOfSeq
    <2>2. SubSeq(rows, h + 2, Len(rows)) \in Seq(Seq(STRING))
      OBVIOUS
    <2> QED BY <2>1, <2>2
  <1>3. h + 1 + 1 = h + 2 /\ h + 1 # 0
    OBVIOUS
  <1>4. PICK code, name, version, lines :
           code = doc.code /\ name = doc.name /\ version = doc.version /\ lines = doc.lines
    OBVIOUS
  <1>5. TableSays(head, body, lines) /\ lines \in ReadLines
        /\ code # "" /\ name # "" /\ version # ""
    BY <1>2, <1>4 DEF LinesBelow, Written
  <1>6. Parse(rows) = Parsed(code, name, version, head, body)
    <2>1. Parse(rows) = Sectioned(rows, h, h + 1)
      BY <1>1 DEF Parse, ParseSections
    <2> QED BY <1>2, <1>3, <1>4, <2>1 DEF Sectioned, HeadCellsSay
  <1>7. Parsed(code, name, version, head, body) = Accepted(code, name, version, lines)
    BY <1>5, TableIsRead
  <1> QED BY <1>4, <1>5, <1>6, <1>7 DEF ReadsAs, Accepted

LEMMA CellIs ==
    ASSUME NEW row, NEW i, NEW cell, i \in DOMAIN row, row[i] = cell, cell # "", NEW default
    PROVE  CellOr(row, i, default) = cell
  BY DEF CellOr

LEMMA NoCellIs ==
    ASSUME NEW row, NEW i, i \notin DOMAIN row, NEW default
    PROVE  CellOr(row, i, default) = default
  BY DEF CellOr

LEMMA SectionsAreRead ==
    ASSUME NEW rows \in Seq(Seq(STRING)), NEW doc, Written(doc), InSections(rows, doc)
    PROVE  ReadsAs(rows, doc)
  <1>1. PICK h \in {1, 2} :
          /\ Len(rows) > h + 1 /\ ~IsFlat(rows[1])
          /\ h = 1 => doc.code \notin CodeHeads /\ rows[2][1] \in PartHeads
          /\ h = 2 => rows[1][1] \in CodeHeads
          /\ doc.code \notin PartHeads
          /\ \/ rows[h] = <<doc.code, doc.name, doc.version>>
             \/ rows[h] = <<doc.code, doc.name>> /\ doc.version = DefaultVersion
          /\ StartsTable(rows[h + 1])
          /\ TableSays(rows[h + 1], SubSeq(rows, h + 2, Len(rows)), doc.lines)
    BY DEF InSections
  <1>2. rows[h][1] = doc.code
    BY <1>1
  <1>3. HeadRow(rows) = h
    BY <1>1, <1>2 DEF HeadRow
  <1>4. HeadCellsSay(rows, h, doc)
    <2>1. PICK row, code, name, version :
             row = rows[h] /\ code = doc.code /\ name = doc.name /\ version = doc.version
      OBVIOUS
    <2>2. code # "" /\ name # "" /\ version # ""
      BY <2>1 DEF Written
    <2>3. 1 \in DOMAIN row /\ row[1] = code /\ 2 \in DOMAIN row /\ row[2] = name
      BY <1>1, <2>1
    <2>4. ASSUME row = <<doc.code, doc.name, doc.version>>
          PROVE  CellOr(row, 3, DefaultVersion) = version
      <3>1. 3 \in DOMAIN row /\ row[3] = version
        BY <2>1, <2>4
      <3> QED BY <2>2, <3>1, CellIs
    <2>5. ASSUME row = <<doc.code, doc.name>>, doc.version = DefaultVersion
          PROVE  CellOr(row, 3, DefaultVersion) = version
      <3>1. 3 \notin DOMAIN row
        BY <2>5
      <3> QED BY <2>1, <2>5, <3>1, NoCellIs
    <2>6. CellOr(row, 3, DefaultVersion) = version
      BY <1>1, <2>1, <2>4, <2>5
    <2>7. CellOr(row, 1, DefaultCode) = code /\ CellOr(row, 2, "") = name
      BY <2>2, <2>3, CellIs
    <2>8. h # 0
      OBVIOUS
    <2> QED BY <2>1, <2>6, <2>7, <2>8 DEF HeadCellsSay
  <1>5. rows # <<>> /\ h + 1 <= Len(rows) /\ h \in Nat /\ h # 0
    BY <1>1
  <1>6. LinesBelow(rows, h, doc)
    BY <1>1 DEF LinesBelow
  <1> QED BY <1>1, <1>3, <1>4, <1>5, <1>6, SectionIsRead

LEMMA LinesOnlyAreRead ==
    ASSUME NEW rows \in Seq(Seq(STRING)), NEW doc, Written(doc), LinesOnly(rows, doc)
    PROVE  ReadsAs(rows, doc)
  <1>1. 0 + 1 <= Len(rows) /\ rows # <<>>
    <2>1. Len(SubSeq(rows, 2, Len(rows))) = Len(doc.lines) /\ doc.lines # <<>>
      BY DEF LinesOnly, TableSays
    <2>2. PICK n \in Nat : n = Len(doc.lines) /\ n # 0
      BY <2>1, EmptySeq, LenProperties DEF Written, ReadLines
    <2>3. PICK m \in Nat : m = Len(rows)
      OBVIOUS
    <2>4. Len(SubSeq(rows, 2, m)) = IF 2 <= m THEN m - 2 + 1 ELSE 0
      BY <2>3
    <2> QED BY <2>1, <2>2, <2>3, <2>4
  <1>2. HeadRow(rows) = 0
    BY DEF HeadRow, LinesOnly
  <1>3. LinesBelow(rows, 0, doc)
    BY DEF LinesOnly, LinesBelow
  <1>4. HeadCellsSay(rows, 0, doc) /\ ~IsFlat(rows[1])
    BY DEF LinesOnly, HeadCellsSay
  <1> QED BY <1>1, <1>2, <1>3, <1>4, SectionIsRead

LEMMA ColumnAt ==
    ASSUME NEW head \in Seq(STRING), NEW kind
    PROVE  \/ Column(head, kind) = 0 /\ Columns(head, kind) = {}
           \/ Column(head, kind) # 0 /\ Column(head, kind) \in Columns(head, kind)
  <1>1. PICK n \in Nat : n = Len(head) /\ DOMAIN head = 1..n
    OBVIOUS
  <1>2. PICK at : at = Columns(head, kind) /\ at \subseteq 1..n
    BY <1>1 DEF Columns
  <1>3. Column(head, kind) = IF at = {} THEN 0 ELSE CHOOSE i \in at : \A j \in at : j <= i
    BY <1>2 DEF Column, Columns
  <1>4. CASE at = {}
    BY <1>2, <1>3, <1>4
  <1>5. CASE at # {}
    <2>1. PICK i \in at : \A j \in at : j <= i
      BY <1>2, <1>5, LargestExists
    <2>2. Column(head, kind) \in at
      BY <1>3, <1>5, <2>1
    <2> QED BY <1>2, <2>2
  <1> QED BY <1>4, <1>5

(* The headings of a table that repeats the head have no other names.      *)
HeadNames == {"bom_code", "code", "bom_name", "name", "version", "ver"}

LEMMA NoOtherNames ==
    ASSUME NEW kind \in HeadNames, NEW cell, Alias(cell) = kind
    PROVE  cell = kind
  BY DEF HeadNames, Alias, PartHeads

LEMMA NamesItself ==
    ASSUME NEW kind \in HeadNames
    PROVE  Alias(kind) = kind
  BY DEF HeadNames, Alias, PartHeads

Headings(head, kinds) == {i \in DOMAIN head : head[i] \in kinds}

LEMMA HeadingAt ==
    ASSUME NEW head \in Seq(STRING), NEW a \in HeadNames, NEW b \in HeadNames,
           Headings(head, {a, b}) # {}, NEW default
    PROVE  Either(Column(head, a), Column(head, b), default) \in Headings(head, {a, b})
  <1>1. ASSUME NEW kind \in {a, b}, Column(head, kind) # 0
        PROVE  Column(head, kind) \in Headings(head, {a, b})
    <2>1. PICK i \in DOMAIN head : i = Column(head, kind) /\ Alias(head[i]) = kind
      BY <1>1, ColumnAt DEF Columns
    <2>2. head[i] = kind
      BY <2>1, NoOtherNames
    <2> QED BY <2>1, <2>2 DEF Headings
  <1>2. ~(Column(head, a) = 0 /\ Column(head, b) = 0)
    <2>1. PICK i \in DOMAIN head, kind \in {a, b} : head[i] = kind
      BY DEF Headings
    <2>2. i \in Columns(head, kind)
      BY <2>1, NamesItself DEF Columns
    <2> QED BY <2>2, ColumnAt
  <1> QED BY <1>1, <1>2 DEF Either

AllSay(rows, kinds, cell) ==
    Headings(rows[1], kinds) # {} /\ \A i \in Headings(rows[1], kinds) : rows[2][i] = cell

LEMMA FlatTableIs ==
    ASSUME NEW rows, NEW doc, InFlatTable(rows, doc)
    PROVE  /\ IsFlat(rows[1]) /\ AllSay(rows, {"bom_code", "code"}, doc.code)
           /\ AllSay(rows, {"bom_name", "name"}, doc.name)
           /\ AllSay(rows, {"version", "ver"}, doc.version)
           /\ TableSays(rows[1], Tail(rows), doc.lines)
  BY DEF InFlatTable, AllSay, Headings, CodeHeads

LEMMA FlatTableIsRead ==
    ASSUME NEW rows \in Seq(Seq(STRING)), NEW doc, Written(doc), InFlatTable(rows, doc)
    PROVE  ReadsAs(rows, doc)
  <1>1. PICK code, name, version, lines :
           code = doc.code /\ name = doc.name /\ version = doc.version /\ lines = doc.lines
    OBVIOUS
  <1>2. lines \in ReadLines /\ code # "" /\ name # "" /\ version # ""
    BY <1>1 DEF Written
  <1>3. PICK n \in Nat : n = Len(lines) /\ n = Len(Tail(rows)) /\ n # 0
    BY <1>1, <1>2, FlatTableIs, EmptySeq, LenProperties DEF TableSays, ReadLines
  <1>4. rows # <<>> /\ Len(rows) = n + 1
    <2>1. rows # <<>>
      BY EmptySeq DEF InFlatTable
    <2>2. PICK m \in Nat : m = Len(rows) /\ m # 0
      BY <2>1, EmptySeq
    <2>3. Len(Tail(rows)) = m - 1
      BY <2>1, <2>2, HeadTailProperties
    <2> QED BY <1>3, <2>1, <2>2, <2>3
  <1>5. PICK head \in Seq(STRING), body \in Seq(Seq(STRING)), row \in Seq(STRING) :
           head = rows[1] /\ body = Tail(rows) /\ row = rows[2] /\ row = body[1]
    <2>1. rows[1] \in Seq(STRING) /\ rows[2] \in Seq(STRING)
      BY <1>3, <1>4, ElementOfSeq
    <2>2. Tail(rows) \in Seq(Seq(STRING)) /\ Tail(rows)[1] = rows[2]
      BY <1>3, <1>4, HeadTailProperties
    <2> QED BY <2>1, <2>2
  <1>6. IsFlat(head) /\ TableSays(head, body, lines) /\ DOMAIN row = DOMAIN head
    <2>1. IsFlat(head) /\ TableSays(head, body, lines)
      BY <1>1, <1>5, FlatTableIs
    <2>2. 1 \in DOMAIN lines
      <3>1. DOMAIN lines = 1..n
        BY <1>2, <1>3, LenProperties DEF ReadLines
      <3>2. n \in Nat /\ n # 0
        BY <1>3
      <3>3. 1 \in 1..n
        BY ONLY <3>2
      <3> QED BY <3>1, <3>3
    <2>3. RowSays(head, body[1], lines[1])
      BY <2>1, <2>2 DEF TableSays
    <2> QED BY <1>5, <2>1, <2>3 DEF RowSays
  <1>7. ASSUME NEW a \in HeadNames, NEW b \in HeadNames, NEW cell, AllSay(rows, {a, b}, cell),
               NEW default
        PROVE  /\ row[Either(Column(head, a), Column(head, b), default)] = cell
               /\ Either(Column(head, a), Column(head, b), default) \in DOMAIN row
    <2>1. PICK i : i = Either(Column(head, a), Column(head, b), default)
      OBVIOUS
    <2>2. Headings(head, {a, b}) # {} /\ \A j \in Headings(head, {a, b}) : row[j] = cell
      BY <1>5, <1>7 DEF AllSay
    <2>3. i \in Headings(head, {a, b})
      BY <2>1, <2>2, HeadingAt
    <2>4. row[i] = cell /\ i \in DOMAIN row
      BY <1>6, <2>2, <2>3 DEF Headings
    <2> QED BY <2>1, <2>4
  <1>8. row[Either(Column(head, "bom_code"), Column(head, "code"), 1)] = code
    BY <1>1, <1>7, FlatTableIs DEF HeadNames
  <1>9. row[Either(Column(head, "bom_name"), Column(head, "name"), 2)] = name
    BY <1>1, <1>7, FlatTableIs DEF HeadNames
  <1>10. CellOr(row, Either(Column(head, "version"), Column(head, "ver"), 0), DefaultVersion)
            = version
    <2>1. PICK i : i = Either(Column(head, "version"), Column(head, "ver"), 0)
      OBVIOUS
    <2>2. i \in DOMAIN row /\ row[i] = version
      BY <1>1, <1>7, <2>1, FlatTableIs DEF HeadNames
    <2>3. CellOr(row, i, DefaultVersion) = version
      BY <1>2, <2>2, CellIs
    <2> QED BY <2>1, <2>3
  <1>11. Parse(rows) = Parsed(code, name, version, head, body)
    <2>1. Parse(rows) = ParseFlat(rows) /\ Len(rows) # 1
      BY <1>3, <1>4, <1>5, <1>6 DEF Parse
    <2> QED BY <1>5, <1>8, <1>9, <1>10, <2>1 DEF ParseFlat
  <1>12. Parsed(code, name, version, head, body) = Accepted(code, name, version, lines)
    BY <1>2, <1>6, TableIsRead
  <1> QED BY <1>1, <1>2, <1>11, <1>12 DEF ReadsAs, Accepted

(* Whatever the layout, the order of the columns, the names of the         *)
(* headings and the number of the lines: what the author of a file meant   *)
(* is what parse_bom_csv makes of it.                                      *)
THEOREM FilesAreReadAsWritten ==
    \A rows \in Seq(Seq(STRING)) : \A doc : InLayout(rows, doc) =>
        Parse(rows) = [ok |-> TRUE, code |-> doc.code, name |-> doc.name,
                       version |-> doc.version, lines |-> doc.lines]
  <1> SUFFICES ASSUME NEW rows \in Seq(Seq(STRING)), NEW doc, InLayout(rows, doc)
               PROVE  ReadsAs(rows, doc)
    BY DEF ReadsAs
  <1>1. Written(doc)
    BY DEF InLayout, Written, ReadLines
  <1> QED BY <1>1, SectionsAreRead, FlatTableIsRead, LinesOnlyAreRead DEF InLayout

LEMMA LayoutIsRead ==
    ASSUME \A f \in Files : InLayout(f.rows, f.doc)
    PROVE  ReadAsWritten
  <1> SUFFICES ASSUME NEW f \in Files
               PROVE  /\ ParsedOf[f].code = f.doc.code /\ ParsedOf[f].lines = f.doc.lines
                      /\ HeadOf(f) = [name |-> f.doc.name, version |-> f.doc.version]
    BY DEF ReadAsWritten
  <1>1. ReadsAs(f.rows, f.doc)
    BY BomAssumption, FilesAreReadAsWritten DEF ReadsAs
  <1>2. ParsedOf[f] = Parse(f.rows)
    BY DEF ParsedOf
  <1> QED BY <1>1, <1>2 DEF ReadsAs, HeadOf

(* A saved BOM has the lines and the head of one file as its author wrote  *)
(* them, whichever imports overlap and whatever is added to the catalogue, *)
(* provided that every file keeps to one of the three layouts.             *)
THEOREM SavedAsWrittenHolds ==
    ASSUME \A f \in Files : InLayout(f.rows, f.doc)
    PROVE  BomSpec => []SavedAsWritten
  <1>1. ReadAsWritten
    BY LayoutIsRead
  <1>2. BomInit => SavedInv
    BY BomInitTyped DEF BomInit, SavedInv, FoundIsSaved, ImportsSay, SavedAsWritten
  <1>3. SavedInv /\ [BomNext]_bomVars => SavedInv'
    BY <1>1, SavedStep
  <1>4. SavedInv => SavedAsWritten
    BY DEF SavedInv
  <1> QED BY <1>2, <1>3, <1>4, PTL DEF BomSpec

-----------------------------------------------------------------------------
(* What the verdicts say about picking.                                    *)

InSlot == [s \in Slots |-> stock[s].qty]

SlotsOf(id) == {s \in Slots : stock[s].part = id}

UnitsOf(code, kits) ==
    [i \in DOMAIN boms[code].lines |-> boms[code].lines[i].qty * kits]

NeededLines(code, id) ==
    {i \in DOMAIN boms[code].lines :
        boms[code].lines[i].part = id /\ ~boms[code].lines[i].optional}

LEMMA SumsInWords ==
    ASSUME NEW code, NEW id, NEW kits
    PROVE  /\ Available(id) = SumFunctionOnSet(InSlot, SlotsWith(id))
           /\ Needed(code, id, kits) = SumFunctionOnSet(UnitsOf(code, kits), NeededLines(code, id))
  BY DEF Available, Needed, InSlot, UnitsOf, NeededLines

LEMMA SlotFacts ==
    ASSUME BomTypeOK, NEW id
    PROVE  /\ IsFiniteSet(SlotsOf(id)) /\ NatOn(InSlot, SlotsOf(id))
           /\ IsFiniteSet(SlotsWith(id)) /\ NatOn(InSlot, SlotsWith(id))
           /\ SlotsWith(id) \in SUBSET SlotsOf(id)
           /\ \A s \in SlotsOf(id) \ SlotsWith(id) : InSlot[s] = 0
  <1>1. SlotsOf(id) \in SUBSET Slots /\ SlotsWith(id) \in SUBSET SlotsOf(id)
    BY DEF SlotsOf, SlotsWith
  <1>2. \A s \in Slots : stock[s].qty \in Nat /\ InSlot[s] = stock[s].qty
    BY BomAssumption DEF BomTypeOK, InSlot
  <1>3. IsFiniteSet(SlotsOf(id)) /\ IsFiniteSet(SlotsWith(id))
    BY <1>1, BomAssumption, FS_Subset
  <1>4. \A s \in SlotsOf(id) \ SlotsWith(id) : InSlot[s] = 0
    BY <1>2 DEF SlotsOf, SlotsWith
  <1> QED BY <1>1, <1>2, <1>3, <1>4 DEF NatOn

(* A slot that holds nothing adds nothing: the lit slots have it all.      *)
LEMMA AvailableIsAll ==
    ASSUME BomTypeOK, NEW id
    PROVE  Available(id) = SumFunctionOnSet(InSlot, SlotsOf(id)) /\ Available(id) \in Nat
  <1>1. PICK g, T, U :
           /\ g = InSlot /\ T = SlotsOf(id) /\ U = SlotsWith(id) /\ U \in SUBSET T
           /\ IsFiniteSet(T) /\ NatOn(g, T) /\ \A s \in T \ U : g[s] = 0
    BY SlotFacts
  <1>2. SumFunctionOnSet(g, T) = SumFunctionOnSet(g, U) /\ SumFunctionOnSet(g, T) \in Nat
    BY <1>1, SumWithoutNothing, SumIsNat
  <1> QED BY <1>1, <1>2, SumsInWords

LEMMA BomLineOf ==
    ASSUME BomTypeOK, NEW c \in Codes, boms[c] # NoBom
    PROVE  /\ \A i \in DOMAIN boms[c].lines :
                 /\ boms[c].lines[i].part \in PartIds
                 /\ boms[c].lines[i].qty \in Nat
                 /\ boms[c].lines[i].optional \in BOOLEAN
           /\ IsFiniteSet(DOMAIN boms[c].lines)
  <1>1. PICK lines \in BomLines(PartIds) : lines = boms[c].lines
    BY SavedHeads DEF SavedBoms
  <1>2. PICK n \in Nat : n = Len(lines) /\ DOMAIN lines = 1..n
    BY DEF BomLines
  <1>3. IsFiniteSet(1..n)
    BY FS_Interval
  <1>4. ASSUME NEW i \in 1..n
        PROVE  lines[i] \in [part : PartIds, qty : Nat, optional : BOOLEAN]
    BY <1>2, ElementOfSeq DEF BomLines
  <1> QED BY <1>1, <1>2, <1>3, <1>4

LEMMA ProductIsNat ==
    ASSUME NEW n \in Nat, NEW k \in Nat
    PROVE  n * k \in Nat
  OBVIOUS

(* With one spelling of its number, a line is about the part it names.     *)
LEMMA PartIsFound ==
    ASSUME BomTypeOK, NEW c \in Codes, boms[c] # NoBom, OneSpelling(c),
           NEW i \in DOMAIN boms[c].lines
    PROVE  PartOf(catalogue[boms[c].lines[i].part]) = boms[c].lines[i].part
  <1>1. PICK id \in PartIds : id = boms[c].lines[i].part
    BY BomLineOf
  <1> DEFINE ids == {j \in PartIds : Key[catalogue[j]] = Key[catalogue[id]]}
  <1>2. ids = {id}
    BY <1>1 DEF OneSpelling
  <1>3. id \in Nat
    BY DEF PartIds, BomTypeOK
  <1>4. PartOf(catalogue[id]) =
        IF ids = {} THEN 0 ELSE CHOOSE j \in ids : \A k \in ids : k <= j
    BY DEF PartOf
  <1> HIDE DEF ids
  <1>5. (CHOOSE j \in ids : \A k \in ids : k <= j) \in ids
    BY <1>2, <1>3
  <1>6. PartOf(catalogue[id]) = id
    BY <1>2, <1>4, <1>5
  <1> QED BY <1>1, <1>6

(* The verdict on a line that is needed.                                   *)
LEMMA VerdictIs ==
    ASSUME BomTypeOK, NEW c \in Codes, boms[c] # NoBom, OneSpelling(c), NEW kits \in 1..MaxKits,
           NEW i \in DOMAIN boms[c].lines, ~boms[c].lines[i].optional
    PROVE  /\ DOMAIN AnalysisOf(c, kits) = DOMAIN boms[c].lines
           /\ AnalysisOf(c, kits)[i].status = "ok" <=>
                 Available(boms[c].lines[i].part) >= boms[c].lines[i].qty * kits
  <1> DEFINE named == [k \in DOMAIN boms[c].lines |->
                         [boms[c].lines[k] EXCEPT !.part = catalogue[boms[c].lines[k].part]]]
  <1>1. PICK lines \in BomLines(PartIds) : lines = boms[c].lines
    BY SavedHeads DEF SavedBoms
  <1>2. PICK line \in [part : PartIds, qty : Nat, optional : BOOLEAN] :
           line = lines[i] /\ line = boms[c].lines[i]
    BY <1>1, ElementOfSeq, LenProperties DEF BomLines
  <1>3. AnalysisOf(c, kits) = Analysis(named, kits) /\ DOMAIN named = DOMAIN boms[c].lines
    BY DEF AnalysisOf
  <1>4. /\ named[i].part = catalogue[line.part]
        /\ named[i].qty = line.qty /\ named[i].optional = line.optional
    BY <1>2
  <1>5. PartOf(catalogue[line.part]) = line.part /\ line.part # 0
    BY <1>2, PartIsFound DEF PartIds, BomTypeOK
  <1>6. Available(line.part) \in Nat /\ line.qty * kits \in Nat
    BY AvailableIsAll, ProductIsNat, BomAssumption
  <1> HIDE DEF named
  <1>7. /\ DOMAIN Analysis(named, kits) = DOMAIN named
        /\ Analysis(named, kits)[i].status =
              LineStatus(line.qty * kits, Available(line.part), TRUE, line.optional)
    BY <1>3, <1>4, <1>5 DEF Analysis
  <1>8. LineStatus(line.qty * kits, Available(line.part), TRUE, line.optional) = "ok"
           <=> Available(line.part) >= line.qty * kits
    BY <1>2, <1>6 DEF LineStatus
  <1> QED BY <1>2, <1>3, <1>7, <1>8

(* The lines of a part that are needed.                                    *)
LEMMA NeededFacts ==
    ASSUME BomTypeOK, NEW c \in Codes, boms[c] # NoBom, NEW kits \in 1..MaxKits, NEW id
    PROVE  /\ IsFiniteSet(NeededLines(c, id))
           /\ NatOn(UnitsOf(c, kits), NeededLines(c, id))
           /\ \A i \in NeededLines(c, id) :
                 UnitsOf(c, kits)[i] = boms[c].lines[i].qty * kits
  <1>1. NeededLines(c, id) \in SUBSET DOMAIN boms[c].lines
    BY DEF NeededLines
  <1>2. IsFiniteSet(NeededLines(c, id))
    BY <1>1, BomLineOf, FS_Subset
  <1>3. ASSUME NEW i \in NeededLines(c, id)
        PROVE  UnitsOf(c, kits)[i] = boms[c].lines[i].qty * kits /\ UnitsOf(c, kits)[i] \in Nat
    <2>1. PICK n \in Nat : n = boms[c].lines[i].qty
      BY <1>1, BomLineOf
    <2>2. kits \in Nat
      BY BomAssumption
    <2>3. n * kits \in Nat
      BY <2>2, ProductIsNat
    <2> QED BY <1>1, <2>1, <2>3 DEF UnitsOf
  <1> QED BY <1>2, <1>3 DEF NatOn

AllOk(code, kits) ==
    \A i \in DOMAIN AnalysisOf(code, kits) :
        boms[code].lines[i].optional \/ AnalysisOf(code, kits)[i].status = "ok"

(* What can be picked is not reported short.                               *)
LEMMA PickedIsOk ==
    ASSUME BomTypeOK, NEW c \in Codes, boms[c] # NoBom, OneSpelling(c), NEW kits \in 1..MaxKits,
           CanPick(c, kits), NEW i \in DOMAIN boms[c].lines, ~boms[c].lines[i].optional
    PROVE  AnalysisOf(c, kits)[i].status = "ok"
  <1>1. PICK plan \in [Slots -> 0..MaxQty] :
           /\ \A s \in Slots : plan[s] <= stock[s].qty
           /\ \A id \in PartIds :
                SumFunctionOnSet(plan, SlotsOf(id)) >= Needed(c, id, kits)
    BY DEF CanPick, SlotsOf
  <1>2. PICK id \in PartIds : id = boms[c].lines[i].part
    BY BomLineOf
  <1>3. PICK T : /\ T = SlotsOf(id) /\ T \in SUBSET Slots /\ IsFiniteSet(T)
                 /\ NatOn(InSlot, T) /\ NatOn(plan, T)
                 /\ \A s \in T : plan[s] <= InSlot[s]
    <2>1. SlotsOf(id) \in SUBSET Slots
      BY DEF SlotsOf
    <2>2. IsFiniteSet(SlotsOf(id)) /\ NatOn(InSlot, SlotsOf(id))
      BY SlotFacts
    <2>3. NatOn(plan, SlotsOf(id))
      BY <2>1, BomAssumption DEF NatOn
    <2> QED BY <1>1, <2>1, <2>2, <2>3 DEF InSlot
  <1>4. SumFunctionOnSet(plan, T) <= SumFunctionOnSet(InSlot, T)
    BY <1>3, SumsAreOrdered
  <1>5. PICK all \in Nat, picked \in Nat :
           all = SumFunctionOnSet(InSlot, T) /\ picked = SumFunctionOnSet(plan, T)
    BY <1>3, SumIsNat
  <1>6. Available(id) = all /\ picked <= all /\ picked >= Needed(c, id, kits)
    BY <1>1, <1>3, <1>4, <1>5, AvailableIsAll
  <1>7. PICK units, needed : units = UnitsOf(c, kits) /\ needed = NeededLines(c, id)
    OBVIOUS
  <1>8. IsFiniteSet(needed) /\ NatOn(units, needed) /\ i \in needed
        /\ units[i] = boms[c].lines[i].qty * kits
    <2>1. i \in NeededLines(c, id)
      BY <1>2 DEF NeededLines
    <2> QED BY <1>7, <2>1, NeededFacts
  <1>9. units[i] <= SumFunctionOnSet(units, needed)
    BY <1>8, SumIsAtLeast
  <1>10. PICK total \in Nat, here \in Nat :
            total = SumFunctionOnSet(units, needed) /\ here = units[i]
    BY <1>8, SumIsNat DEF NatOn
  <1>11. Needed(c, id, kits) = total
    BY <1>7, <1>10, SumsInWords
  <1>12. all >= here
    BY <1>6, <1>9, <1>10, <1>11
  <1> QED BY <1>2, <1>6, <1>8, <1>10, <1>12, VerdictIs

(* What is reported ok can be picked: all that there is in the slots.      *)
LEMMA OkIsPicked ==
    ASSUME BomTypeOK, NEW c \in Codes, boms[c] # NoBom, OneSpelling(c), NEW kits \in 1..MaxKits,
           AllOk(c, kits), NoPartTwice(c)
    PROVE  CanPick(c, kits)
  <1>1. InSlot \in [Slots -> 0..MaxQty] /\ \A s \in Slots : InSlot[s] <= stock[s].qty
    BY BomAssumption DEF InSlot, BomTypeOK
  <1>2. ASSUME NEW id \in PartIds
        PROVE  SumFunctionOnSet(InSlot, SlotsOf(id)) >= Needed(c, id, kits)
    <2>1. PICK all \in Nat : all = SumFunctionOnSet(InSlot, SlotsOf(id)) /\ all = Available(id)
      BY AvailableIsAll
    <2>2. PICK units, needed : units = UnitsOf(c, kits) /\ needed = NeededLines(c, id)
      OBVIOUS
    <2>3. Needed(c, id, kits) = SumFunctionOnSet(units, needed)
      BY <2>2, SumsInWords
    <2>4. CASE needed = {}
      BY <2>1, <2>3, <2>4, SumOfNone
    <2>5. CASE needed # {}
      <3>1. PICK i \in DOMAIN boms[c].lines :
               i \in needed /\ boms[c].lines[i].part = id /\ ~boms[c].lines[i].optional
        BY <2>2, <2>5 DEF NeededLines
      <3>2. needed = {i}
        BY <2>2, <3>1 DEF NoPartTwice, NeededLines
      <3>3. PICK here \in Nat : here = units[i] /\ here = boms[c].lines[i].qty * kits
        BY <2>2, <3>1, NeededFacts DEF NatOn
      <3>4. SumFunctionOnSet(units, needed) = here
        BY <3>2, <3>3, SumOfOne
      <3>5. AnalysisOf(c, kits)[i].status = "ok"
        BY <3>1, VerdictIs DEF AllOk
      <3>6. all >= here
        BY <2>1, <3>1, <3>3, <3>5, VerdictIs
      <3> QED BY <2>1, <2>3, <3>4, <3>6
    <2> QED BY <2>4, <2>5
  <1> QED BY <1>1, <1>2 DEF CanPick, SlotsOf

LEMMA VerdictsTell ==
    ASSUME BomTypeOK
    PROVE  VerdictsTellPicking
  <1> SUFFICES ASSUME NEW c \in Codes, NEW kits \in 1..MaxKits, boms[c] # NoBom, OneSpelling(c)
               PROVE  /\ CanPick(c, kits) => AllOk(c, kits)
                      /\ AllOk(c, kits) /\ NoPartTwice(c) => CanPick(c, kits)
    BY DEF VerdictsTellPicking, AllOk
  <1>1. ASSUME CanPick(c, kits) PROVE AllOk(c, kits)
    <2>1. DOMAIN AnalysisOf(c, kits) = DOMAIN boms[c].lines
      BY DEF AnalysisOf, Analysis
    <2> QED BY <1>1, <2>1, PickedIsOk DEF AllOk
  <1> QED BY <1>1, OkIsPicked

(* Whatever the stock and the BOM: kits that can be picked are not called  *)
(* short, and when all is ok they can be picked, if no part is on two      *)
(* lines and its number has one spelling.                                  *)
THEOREM VerdictsTellPickingHolds == BomSpec => []VerdictsTellPicking
  BY BomTypeCorrect, VerdictsTell, PTL
=============================================================================
