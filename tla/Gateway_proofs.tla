--------------------------- MODULE Gateway_proofs ---------------------------
(***************************************************************************)
(* Proofs about the gateway, for any tags, noise, cuts, faults and bounds. *)
(*                                                                         *)
(* The recursive definitions (the sum of a checksum, the blocks of a       *)
(* parameter, the walk through a buffer) are reached by induction over     *)
(* sets of numbers, which needs no operator as a parameter.                *)
(***************************************************************************)
EXTENDS Gateway, SequenceTheorems, WellFoundedInduction, TLAPS

-----------------------------------------------------------------------------
(* Induction over the numbers up to n, and what it defines.                *)

LEMMA LeastExists ==
    ASSUME NEW U, U \subseteq Nat, U # {}
    PROVE  \E x \in U : \A y \in U : x <= y
  <1> DEFINE Below == {pair \in Nat \X Nat : pair[1] < pair[2]}
  <1>1. IsWellFoundedOn(Below, Nat)
    BY NatLessThanWellFounded DEF OpToRel
  <1>2. PICK x \in U : \A y \in U : <<y, x>> \notin Below
    <2> HIDE DEF Below
    <2> QED BY <1>1, WFMin
  <1>3. ASSUME NEW y \in U PROVE x <= y
    <2>1. x \in Nat /\ y \in Nat
      OBVIOUS
    <2>2. ~(y < x)
      BY <1>2, <2>1
    <2> QED BY <2>1, <2>2
  <1> QED BY <1>3

LEMMA MinIsLeast ==
    ASSUME NEW U, U \subseteq Nat, U # {}
    PROVE  Min(U) \in U /\ \A y \in U : Min(U) <= y
  BY LeastExists DEF Min

LEMMA MaxIsGreatest ==
    ASSUME NEW n \in Nat, NEW U, U \subseteq 0..n, U # {}
    PROVE  Max(U) \in U /\ \A y \in U : Max(U) >= y
  <1> DEFINE V == {n - y : y \in U}
  <1>1. V \subseteq Nat /\ V # {}
    <2>1. \A y \in U : n - y \in Nat
      OBVIOUS
    <2> QED BY <2>1
  <1>2. PICK v \in V : \A w \in V : v <= w
    <2> HIDE DEF V
    <2> QED BY <1>1, LeastExists
  <1>3. PICK x \in U : v = n - x
    OBVIOUS
  <1>4. ASSUME NEW y \in U PROVE x >= y
    <2>1. n - y \in V /\ y \in Int /\ x \in Int
      OBVIOUS
    <2> QED BY <2>1, <1>2, <1>3
  <1> QED BY <1>4 DEF Max

LEMMA UpwardInduction ==
    ASSUME NEW n \in Nat, NEW T,
           \A k \in 0..n : (\A j \in 0..n : j < k => j \in T) => k \in T
    PROVE  \A k \in 0..n : k \in T
  <1> DEFINE U == (0..n) \ T
  <1> SUFFICES ASSUME U # {} PROVE FALSE
    OBVIOUS
  <1>1. U \subseteq Nat
    OBVIOUS
  <1>2. PICK x \in U : \A y \in U : x <= y
    <2> HIDE DEF U
    <2> QED BY <1>1, LeastExists
  <1>3. \A j \in 0..n : j < x => j \in T
    BY <1>2
  <1> QED BY <1>3

LEMMA DownwardInduction ==
    ASSUME NEW n \in Nat, NEW T,
           \A k \in 1..n : (\A j \in 1..n : j > k => j \in T) => k \in T
    PROVE  \A k \in 1..n : k \in T
  <1> DEFINE S == {k \in 0..n : n - k \in 1..n => n - k \in T}
  <1>1. ASSUME NEW k \in 0..n, \A j \in 0..n : j < k => j \in S
        PROVE  k \in S
    <2> SUFFICES ASSUME n - k \in 1..n PROVE n - k \in T
      OBVIOUS
    <2>1. ASSUME NEW j \in 1..n, j > n - k PROVE j \in T
      <3>1. n - j \in 0..n /\ n - j < k /\ n - (n - j) = j
        BY <2>1
      <3> QED BY <3>1, <1>1
    <2> QED BY <2>1
  <1>2. \A k \in 0..n : k \in S
    <2> HIDE DEF S
    <2> QED BY <1>1, UpwardInduction
  <1>3. ASSUME NEW k \in 1..n PROVE k \in T
    <2>1. n - k \in S /\ n - (n - k) = k
      BY <1>2
    <2> QED BY <2>1
  <1> QED BY <1>3

(* A step that looks only at what has a smaller rank defines a function.   *)
LooksBack(I, V, rank, step) ==
    \A i \in I : \A g, h \in [I -> V] :
        (\A j \in I : rank[j] < rank[i] => g[j] = h[j])
            => step[i][g] = step[i][h]

Follows(I, step, g) == \A i \in I : g[i] = step[i][g]

LEMMA RecursionDefines ==
    ASSUME NEW I, NEW V, NEW n \in Nat, NEW rank \in [I -> 0..n],
           NEW step \in [I -> [[I -> V] -> V]],
           LooksBack(I, V, rank, step), NEW v \in V
    PROVE  \E g \in [I -> V] : Follows(I, step, g)
  <1> DEFINE Upto(k, g) == \A i \in I : rank[i] < k => g[i] = step[i][g]
             T == {k \in 0..n+1 : \E g \in [I -> V] : Upto(k, g)}
  <1>1. ASSUME NEW k \in 0..n+1, \A j \in 0..n+1 : j < k => j \in T
        PROVE  k \in T
    <2>1. CASE k = 0
      <3>1. [i \in I |-> v] \in [I -> V] /\ Upto(0, [i \in I |-> v])
        OBVIOUS
      <3> HIDE DEF Upto
      <3> QED BY <3>1, <2>1
    <2>2. CASE k # 0
      <3>1. k - 1 \in T
        <4> HIDE DEF T
        <4> QED BY <1>1, <2>2
      <3>2. PICK g \in [I -> V] : Upto(k - 1, g)
        BY <3>1
      <3> DEFINE new == [i \in I |-> IF rank[i] = k - 1 THEN step[i][g] ELSE g[i]]
      <3>3. new \in [I -> V]
        OBVIOUS
      <3>4. ASSUME NEW i \in I, rank[i] < k PROVE new[i] = step[i][new]
        <4>1. \A j \in I : rank[j] < rank[i] => g[j] = new[j]
          BY <3>4
        <4>2. step[i][g] = step[i][new]
          <5> HIDE DEF new
          <5> QED BY <4>1, <3>3 DEF LooksBack
        <4>3. CASE rank[i] = k - 1
          BY <4>2, <4>3
        <4>4. CASE rank[i] # k - 1
          <5>0. PICK r \in 0..n : r = rank[i]
            OBVIOUS
          <5>1. r < k - 1
            <6>1. r < k /\ r # k - 1
              BY <5>0, <4>4, <3>4
            <6> QED BY ONLY <6>1, r \in 0..n, k \in 0..n+1, n \in Nat
          <5>2. new[i] = g[i] /\ g[i] = step[i][g]
            BY <4>4, <5>0, <5>1, <3>2
          <5> QED BY <5>2, <4>2
        <4> QED BY <4>3, <4>4
      <3>5. Upto(k, new)
        <4> HIDE DEF new
        <4> QED BY <3>4
      <3> HIDE DEF new, Upto
      <3> QED BY <3>3, <3>5
    <2> QED BY <2>1, <2>2
  <1>2. n + 1 \in T
    <2> HIDE DEF T
    <2>1. n + 1 \in Nat /\ n + 1 \in 0..n+1
      OBVIOUS
    <2> QED BY <1>1, <2>1, UpwardInduction
  <1>3. PICK g \in [I -> V] : Upto(n + 1, g)
    BY <1>2
  <1>4. \A i \in I : rank[i] < n + 1
    OBVIOUS
  <1> QED BY <1>3, <1>4 DEF Follows

-----------------------------------------------------------------------------
(* Bytes, and the frames the board builds of them.                         *)

LEMMA ModIsByte ==
    ASSUME NEW x \in Int
    PROVE  x % ByteRange \in Bytes
  BY FrameAssumption DEF Bytes

LEMMA WordIsBytes ==
    ASSUME NEW x \in Int
    PROVE  Word(x) \in Seq(Bytes) /\ Len(Word(x)) = 2
  <1>1. x \div ByteRange \in Int
    BY FrameAssumption
  <1> QED BY <1>1, ModIsByte DEF Word

SumStep(b, i, g) == IF i = 0 THEN 0 ELSE g[i - 1] + b[i]

IsSum(b, g) == g = [i \in 0..Len(b) |-> SumStep(b, i, g)]

LEMMA SumExists ==
    ASSUME NEW b \in Seq(Int)
    PROVE  \E g : IsSum(b, g)
  <1> DEFINE I == 0..Len(b)
             rank == [i \in I |-> i]
             step == [i \in I |-> [g \in [I -> Int] |-> SumStep(b, i, g)]]
  <1>1. rank \in [I -> 0..Len(b)]
    OBVIOUS
  <1>2. step \in [I -> [[I -> Int] -> Int]]
    <2>1. ASSUME NEW i \in I, NEW g \in [I -> Int] PROVE SumStep(b, i, g) \in Int
      <3>1. CASE i # 0
        <4>1. b[i] \in Int /\ g[i - 1] \in Int
          BY <3>1
        <4> QED BY <4>1, <3>1 DEF SumStep
      <3> QED BY <3>1 DEF SumStep
    <2> QED BY <2>1
  <1>3. LooksBack(I, Int, rank, step)
    <2> SUFFICES ASSUME NEW i \in I, NEW g \in [I -> Int], NEW h \in [I -> Int],
                        \A j \in I : rank[j] < rank[i] => g[j] = h[j]
                 PROVE  SumStep(b, i, g) = SumStep(b, i, h)
      BY DEF LooksBack
    <2> QED BY DEF SumStep
  <1>4. PICK g \in [I -> Int] : Follows(I, step, g)
    <2>1. 0 \in Int /\ Len(b) \in Nat
      OBVIOUS
    <2> HIDE DEF rank, step, I
    <2> QED BY <1>1, <1>2, <1>3, <2>1, RecursionDefines
  <1>5. IsSum(b, g)
    BY <1>4 DEF IsSum, Follows
  <1> QED BY <1>5

LEMMA ChecksumIsByte ==
    ASSUME NEW b \in Seq(Bytes)
    PROVE  Checksum(b) \in Bytes
  <1> DEFINE g == CHOOSE g : IsSum(b, g)
  <1>0. b \in Seq(Int)
    BY FrameAssumption DEF Bytes
  <1>1. IsSum(b, g)
    BY <1>0, SumExists
  <1>2. Checksum(b) = (-g[Len(b)]) % ByteRange
    BY DEF Checksum, IsSum, SumStep
  <1> DEFINE T == {k \in 0..Len(b) : g[k] \in Int}
  <1>3. ASSUME NEW k \in 0..Len(b), \A j \in 0..Len(b) : j < k => j \in T
        PROVE  k \in T
    <2>1. g[k] = SumStep(b, k, g)
      <3> HIDE DEF g
      <3> QED BY <1>1 DEF IsSum
    <2>2. CASE k = 0
      <3> HIDE DEF g
      <3> QED BY <2>1, <2>2 DEF SumStep
    <2>3. CASE k # 0
      <3>1. k - 1 \in T /\ b[k] \in Int
        <4> HIDE DEF T
        <4> QED BY <1>3, <2>3, <1>0
      <3> HIDE DEF g
      <3> QED BY <2>1, <2>3, <3>1 DEF SumStep
    <2> QED BY <2>2, <2>3
  <1>4. \A k \in 0..Len(b) : k \in T
    <2>1. Len(b) \in Nat
      OBVIOUS
    <2> HIDE DEF T
    <2> QED BY <1>3, <2>1, UpwardInduction
  <1>5. g[Len(b)] \in Int
    BY <1>4
  <1> HIDE DEF g
  <1> QED BY <1>2, <1>5, ModIsByte

LEMMA StepwiseInduction ==
    ASSUME NEW n \in Nat, NEW T, 0 \in T, \A k \in 1..n : k - 1 \in T => k \in T
    PROVE  \A k \in 0..n : k \in T
  <1>1. ASSUME NEW k \in 0..n, \A j \in 0..n : j < k => j \in T
        PROVE  k \in T
    <2>1. CASE k # 0
      <3>1. k \in 1..n /\ k - 1 \in 0..n /\ k - 1 < k
        BY <2>1
      <3> QED BY <3>1, <1>1
    <2> QED BY <2>1
  <1> QED BY <1>1, UpwardInduction

-----------------------------------------------------------------------------
(* Sequences of sequences, joined.                                         *)

(* These two are kept folded, so that the provers see names only.          *)
Nothing == <<>>
SeqsOf(T) == Seq(T)

LEMMA JoinAssociative ==
    ASSUME NEW T, NEW x \in SeqsOf(T), NEW y \in SeqsOf(T), NEW z \in SeqsOf(T)
    PROVE  (x \o y) \o z = x \o (y \o z)
  BY ConcatAssociative DEF SeqsOf

LEMMA JoinLaws ==
    ASSUME NEW T, NEW x \in SeqsOf(T), NEW y \in SeqsOf(T)
    PROVE  /\ Nothing \in SeqsOf(T)
           /\ x \o y \in SeqsOf(T)
           /\ Nothing \o x = x /\ x \o Nothing = x
  BY ConcatEmptySeq DEF Nothing, SeqsOf

LEMMA NothingIsSeq ==
    ASSUME NEW T
    PROVE  Nothing \in SeqsOf(T)
  BY DEF Nothing, SeqsOf

Rows(n, s, T) ==
    /\ n \in Nat /\ Len(s) = n
    /\ n = 0 => s = Nothing
    /\ \A i \in 1..n : s[i] \in SeqsOf(T)

LEMMA RowIs ==
    ASSUME NEW T, NEW n \in Nat, NEW s, Rows(n, s, T), NEW i \in 1..n
    PROVE  s[i] \in SeqsOf(T)
  BY DEF Rows

(* g has the first i of n sequences, joined.                               *)
Joins(n, s, g) == g[0] = Nothing /\ \A i \in 1..n : g[i] = g[i - 1] \o s[i]

LEMMA JoinIs ==
    ASSUME NEW n \in Nat, NEW s, NEW g, Joins(n, s, g), NEW i \in 1..n
    PROVE  g[i] = g[i - 1] \o s[i]
  BY DEF Joins

LEMMA JoinOfNone ==
    ASSUME NEW n \in Nat, NEW s, NEW g, Joins(n, s, g)
    PROVE  g[0] = Nothing
  BY DEF Joins

FlatStep(s, i, g) == IF i = 1 THEN s[i] ELSE g[i - 1] \o s[i]

IsFlat(n, s, g) == g = [i \in 1..n |-> FlatStep(s, i, g)]

LEMMA FlatExists ==
    ASSUME NEW T, NEW n \in Nat, NEW s, Rows(n, s, T)
    PROVE  \E g : IsFlat(n, s, g)
  <1> DEFINE I == 1..n
             V == SeqsOf(T)
             rank == [i \in I |-> i]
             step == [i \in I |-> [g \in [I -> V] |-> FlatStep(s, i, g)]]
  <1>1. rank \in [I -> 0..n]
    OBVIOUS
  <1>2. step \in [I -> [[I -> V] -> V]]
    <2>1. ASSUME NEW i \in I, NEW g \in [I -> V] PROVE FlatStep(s, i, g) \in V
      <3>1. s[i] \in V
        BY RowIs
      <3>2. CASE i # 1
        <4>1. g[i - 1] \in V
          <5>1. i - 1 \in I
            BY <3>2
          <5> HIDE DEF I, V
          <5> QED BY <5>1
        <4> QED BY <4>1, <3>1, <3>2, JoinLaws DEF FlatStep
      <3> QED BY <3>1, <3>2 DEF FlatStep
    <2> HIDE DEF I, V
    <2> QED BY <2>1
  <1>3. LooksBack(I, V, rank, step)
    <2>1. ASSUME NEW i \in I, NEW g \in [I -> V], NEW h \in [I -> V],
                 \A j \in I : rank[j] < rank[i] => g[j] = h[j]
          PROVE  FlatStep(s, i, g) = FlatStep(s, i, h)
      <3>1. CASE i # 1
        <4>1. i - 1 \in I /\ rank[i - 1] < rank[i]
          BY <3>1
        <4>2. g[i - 1] = h[i - 1]
          <5> HIDE DEF I, V, rank
          <5> QED BY <4>1, <2>1
        <4> QED BY <4>2, <3>1 DEF FlatStep
      <3> QED BY <3>1 DEF FlatStep
    <2>2. \A i \in I : \A g \in [I -> V] : step[i][g] = FlatStep(s, i, g)
      <3> HIDE DEF I, V
      <3> QED OBVIOUS
    <2> HIDE DEF rank, step, I, V
    <2> QED BY <2>1, <2>2 DEF LooksBack
  <1>4. PICK g \in [I -> V] : Follows(I, step, g)
    <2>1. Nothing \in V
      BY NothingIsSeq
    <2> HIDE DEF rank, step, I, V
    <2> QED BY <1>1, <1>2, <1>3, <2>1, RecursionDefines
  <1>5. IsFlat(n, s, g)
    <2> HIDE DEF I, V
    <2>1. g = [i \in I |-> FlatStep(s, i, g)]
      BY <1>4 DEF Follows
    <2> USE DEF I
    <2> QED BY <2>1 DEF IsFlat
  <1> QED BY <1>5

LEMMA FlattenJoins ==
    ASSUME NEW T, NEW n \in Nat, NEW s, Rows(n, s, T)
    PROVE  \E g \in [0..n -> SeqsOf(T)] : Joins(n, s, g) /\ FlattenSeq(s) = g[n]
  <1> DEFINE f == CHOOSE g : IsFlat(n, s, g)
             g == [i \in 0..n |-> IF i = 0 THEN Nothing ELSE f[i]]
  <1>1. IsFlat(n, s, f)
    BY FlatExists
  <1>2. FlattenSeq(s) = IF n = 0 THEN s ELSE f[n]
    BY DEF FlattenSeq, IsFlat, FlatStep, Rows, Nothing
  <1> HIDE DEF f
  <1>3. ASSUME NEW i \in 1..n PROVE g[i] = g[i - 1] \o s[i]
    <2>1. f[i] = FlatStep(s, i, f)
      BY <1>1 DEF IsFlat
    <2>2. s[i] \in SeqsOf(T)
      BY RowIs
    <2>3. CASE i = 1
      <3>1. Nothing \o s[i] = s[i]
        BY <2>2, JoinLaws
      <3> QED BY <2>1, <2>3, <3>1 DEF FlatStep
    <2>4. CASE i # 1
      <3>1. g[i] = f[i] /\ g[i - 1] = f[i - 1]
        BY <2>4
      <3>2. f[i] = f[i - 1] \o s[i]
        BY <2>1, <2>4 DEF FlatStep
      <3> HIDE DEF g
      <3> QED BY <3>1, <3>2
    <2> QED BY <2>3, <2>4
  <1>4. Joins(n, s, g)
    <2>1. g[0] = Nothing
      OBVIOUS
    <2> HIDE DEF g
    <2> QED BY <1>3, <2>1 DEF Joins
  <1> DEFINE K == {k \in 0..n : g[k] \in SeqsOf(T)}
  <1>5. 0 \in K
    BY NothingIsSeq
  <1>6. ASSUME NEW k \in 1..n, k - 1 \in K PROVE k \in K
    <2>1. s[k] \in SeqsOf(T)
      BY RowIs
    <2>2. g[k] = g[k - 1] \o s[k]
      BY <1>3
    <2>3. g[k - 1] \in SeqsOf(T)
      BY <1>6
    <2>4. g[k] \in SeqsOf(T)
      <3> HIDE DEF g
      <3> QED BY <2>1, <2>2, <2>3, JoinLaws
    <2> QED BY <2>4
  <1>7. \A k \in 0..n : k \in K
    <2> HIDE DEF K
    <2> QED BY <1>5, <1>6, StepwiseInduction
  <1>8. g \in [0..n -> SeqsOf(T)]
    <2>1. \A k \in 0..n : g[k] \in SeqsOf(T)
      BY <1>7
    <2> QED BY <2>1
  <1>9. FlattenSeq(s) = g[n]
    BY <1>2 DEF Rows
  <1> QED
    <2> HIDE DEF g
    <2> QED BY <1>4, <1>8, <1>9

LEMMA FlattenType ==
    ASSUME NEW T, NEW n \in Nat, NEW s, Rows(n, s, T)
    PROVE  FlattenSeq(s) \in SeqsOf(T)
  <1>1. PICK g \in [0..n -> SeqsOf(T)] : FlattenSeq(s) = g[n]
    BY FlattenJoins
  <1> QED BY <1>1

(* Sequences that agree up to m are joined alike up to m.                  *)
LEMMA JoinsAgree ==
    ASSUME NEW m \in Nat, NEW n \in Nat, NEW l \in Nat, m <= n, m <= l,
           NEW s, NEW t, NEW g, NEW h, Joins(n, s, g), Joins(l, t, h),
           \A i \in 1..m : s[i] = t[i]
    PROVE  \A k \in 0..m : g[k] = h[k]
  <1> DEFINE K == {k \in 0..m : g[k] = h[k]}
  <1>1. 0 \in K
    BY JoinOfNone
  <1>2. ASSUME NEW k \in 1..m, k - 1 \in K PROVE k \in K
    <2>1. g[k] = g[k - 1] \o s[k] /\ h[k] = h[k - 1] \o t[k]
      <3>1. k \in 1..n /\ k \in 1..l
        OBVIOUS
      <3>2. g[k] = g[k - 1] \o s[k]
        BY <3>1, JoinIs
      <3>3. h[k] = h[k - 1] \o t[k]
        BY <3>1, JoinIs
      <3> QED BY <3>2, <3>3
    <2>2. g[k - 1] = h[k - 1] /\ s[k] = t[k]
      BY <1>2
    <2>3. g[k] = h[k]
      BY <2>1, <2>2
    <2> QED BY <2>3
  <1>3. \A k \in 0..m : k \in K
    <2> HIDE DEF K
    <2> QED BY <1>1, <1>2, StepwiseInduction
  <1> QED BY <1>3

LEMMA FlattenNone ==
    ASSUME NEW T, NEW n \in Nat, NEW s, Rows(n, s, T),
           \A i \in 1..n : s[i] = Nothing
    PROVE  FlattenSeq(s) = Nothing
  <1>1. PICK g \in [0..n -> SeqsOf(T)] : Joins(n, s, g) /\ FlattenSeq(s) = g[n]
    BY FlattenJoins
  <1> DEFINE K == {k \in 0..n : g[k] = Nothing}
  <1>2. 0 \in K
    BY <1>1, JoinOfNone
  <1>3. ASSUME NEW k \in 1..n, k - 1 \in K PROVE k \in K
    <2>1. g[k] = g[k - 1] \o s[k] /\ s[k] = Nothing
      BY <1>1, JoinIs
    <2>2. g[k - 1] = Nothing
      BY <1>3
    <2>3. g[k] = Nothing
      BY <2>1, <2>2, NothingIsSeq, JoinLaws
    <2> QED BY <2>3
  <1>4. \A k \in 0..n : k \in K
    <2> HIDE DEF K
    <2> QED BY <1>2, <1>3, StepwiseInduction
  <1> QED BY <1>1, <1>4

(* Two that differ in the first that is not empty.                         *)
OneMore(n, s, t, m) ==
    /\ t[m] = Nothing
    /\ \A k \in 1..m - 1 : s[k] = Nothing /\ t[k] = Nothing
    /\ \A k \in m + 1..n : s[k] = t[k]

FirstThenRest(s, t, m) == FlattenSeq(s) = s[m] \o FlattenSeq(t)

(* The first sequence that is not empty comes first.                       *)
LEMMA FlattenFirst ==
    ASSUME NEW T, NEW n \in Nat,
           NEW s, Rows(n, s, T), NEW t, Rows(n, t, T),
           NEW m \in 1..n, OneMore(n, s, t, m)
    PROVE  FirstThenRest(s, t, m)
  <1>1. PICK g \in [0..n -> SeqsOf(T)] : Joins(n, s, g) /\ FlattenSeq(s) = g[n]
    BY FlattenJoins
  <1>2. PICK h \in [0..n -> SeqsOf(T)] : Joins(n, t, h) /\ FlattenSeq(t) = h[n]
    BY FlattenJoins
  <1>3. s[m] \in SeqsOf(T)
    BY RowIs
  <1> DEFINE Ahead(k) == k < m => g[k] = Nothing /\ h[k] = Nothing
             Behind(k) == k >= m => g[k] = s[m] \o h[k]
             K == {k \in 0..n : Ahead(k) /\ Behind(k)}
  <1>4. 0 \in K
    BY <1>1, <1>2, JoinOfNone
  <1>5. ASSUME NEW k \in 1..n, k - 1 \in K PROVE k \in K
    <2>1. g[k] = g[k - 1] \o s[k] /\ h[k] = h[k - 1] \o t[k]
      <3>1. g[k] = g[k - 1] \o s[k]
        BY <1>1, JoinIs
      <3>2. h[k] = h[k - 1] \o t[k]
        BY <1>2, JoinIs
      <3> QED BY <3>1, <3>2
    <2>2. s[k] \in SeqsOf(T) /\ t[k] \in SeqsOf(T) /\ h[k - 1] \in SeqsOf(T)
      <3>1. k - 1 \in 0..n
        OBVIOUS
      <3> QED BY <3>1, RowIs
    <2>3. ASSUME k < m PROVE Ahead(k) /\ Behind(k)
      <3>1. k - 1 < m /\ k \in 1..m - 1
        BY <2>3
      <3>2. g[k - 1] = Nothing /\ h[k - 1] = Nothing /\ s[k] = Nothing /\ t[k] = Nothing
        BY <1>5, <3>1 DEF OneMore
      <3>3. g[k] = Nothing /\ h[k] = Nothing
        BY <2>1, <3>2, NothingIsSeq, JoinLaws
      <3> QED BY <2>3, <3>3
    <2>4. ASSUME k = m PROVE Ahead(k) /\ Behind(k)
      <3>1. k - 1 < m
        BY <2>4
      <3>2. g[k - 1] = Nothing /\ h[k - 1] = Nothing /\ t[k] = Nothing
        BY <1>5, <2>4, <3>1 DEF OneMore
      <3>3. g[k] = s[k] /\ h[k] = Nothing
        BY <2>1, <2>2, <3>2, NothingIsSeq, JoinLaws
      <3>4. s[m] \o h[k] = s[m]
        BY <3>3, <1>3, JoinLaws
      <3>5. g[k] = s[m] \o h[k] /\ ~(k < m)
        BY <3>3, <3>4, <2>4
      <3> QED BY <3>5
    <2>5. ASSUME k > m PROVE Ahead(k) /\ Behind(k)
      <3>1. k - 1 >= m /\ k \in m + 1..n
        BY <2>5
      <3>2. g[k - 1] = s[m] \o h[k - 1] /\ s[k] = t[k]
        BY <1>5, <3>1 DEF OneMore
      <3>3. (s[m] \o h[k - 1]) \o t[k] = s[m] \o (h[k - 1] \o t[k])
        <4>1. PICK a \in SeqsOf(T), b \in SeqsOf(T), c \in SeqsOf(T) :
                 a = s[m] /\ b = h[k - 1] /\ c = t[k]
          BY <1>3, <2>2
        <4>2. (a \o b) \o c = a \o (b \o c)
          BY ONLY JoinAssociative, a \in SeqsOf(T), b \in SeqsOf(T), c \in SeqsOf(T)
        <4> QED BY <4>1, <4>2
      <3>4. g[k] = s[m] \o h[k] /\ ~(k < m)
        BY <2>1, <2>5, <3>2, <3>3
      <3> QED BY <3>4
    <2>6. Ahead(k) /\ Behind(k)
      BY <2>3, <2>4, <2>5
    <2> HIDE DEF Ahead, Behind
    <2> QED BY <2>6
  <1>6. \A k \in 0..n : k \in K
    <2> HIDE DEF K
    <2> QED BY <1>4, <1>5, StepwiseInduction
  <1>7. n \in 0..n /\ n >= m
    OBVIOUS
  <1>8. g[n] = s[m] \o h[n]
    BY <1>6, <1>7
  <1> QED BY <1>1, <1>2, <1>8 DEF FirstThenRest

-----------------------------------------------------------------------------
(* The tags a frame carries.                                               *)

LEMMA PartIs ==
    ASSUME NEW S, NEW b \in Seq(S), NEW i \in Nat, NEW j \in Nat,
           i >= 1, i <= j + 1, j <= Len(b)
    PROVE  /\ SubSeq(b, i, j) \in Seq(S)
           /\ Len(SubSeq(b, i, j)) = j - i + 1
           /\ \A k \in 1..j - i + 1 : SubSeq(b, i, j)[k] = b[k + i - 1]
  <1>1. ASSUME NEW k \in i..j PROVE b[k] \in S
    <2>1. k \in 1..Len(b)
      OBVIOUS
    <2> QED BY <2>1, ElementOfSeq
  <1>2. /\ SubSeq(b, i, j) \in Seq(S)
        /\ Len(SubSeq(b, i, j)) = IF i <= j THEN j - i + 1 ELSE 0
        /\ \A k \in 1..j - i + 1 : SubSeq(b, i, j)[k] = b[i + k - 1]
    BY <1>1, SubSeqProperties
  <1> QED BY <1>2

Block == [type : Bytes, value : Seq(Bytes)]

Tags == [epc : Seq(Bytes), rssi : Strengths \cup {NoRssi}]

(* The block that starts at p fits into the data.                          *)
Fits(d, p) == p + 1 <= Len(d) /\ p + 1 + d[p + 1] <= Len(d)

BlockAt(d, p) ==
    [type |-> d[p], value |-> SubSeq(d, p + 2, p + 1 + d[p + 1])]

TlvStep(d, p, g) ==
    IF p + 1 > Len(d) THEN <<>>
    ELSE IF p + 1 + d[p + 1] > Len(d) THEN <<>>
    ELSE <<BlockAt(d, p)>> \o g[p + 2 + d[p + 1]]

IsTlvs(d, g) == g = [p \in 1..Len(d) + 1 |-> TlvStep(d, p, g)]

LEMMA BlockIs ==
    ASSUME NEW d \in Seq(Bytes), NEW p \in 1..Len(d) + 1, Fits(d, p)
    PROVE  /\ BlockAt(d, p) \in Block
           /\ p + 2 + d[p + 1] \in p + 1..Len(d) + 1
  <1>1. p \in 1..Len(d) /\ p + 1 \in 1..Len(d)
    BY DEF Fits
  <1>2. d[p] \in Bytes /\ d[p + 1] \in Bytes
    BY <1>1, ElementOfSeq
  <1>3. d[p + 1] \in Nat
    BY <1>2, FrameAssumption DEF Bytes
  <1>4. SubSeq(d, p + 2, p + 1 + d[p + 1]) \in Seq(Bytes)
    <2>1. PICK k \in Nat : k = d[p + 1] /\ p + 1 + k <= Len(d)
      BY <1>3 DEF Fits
    <2>2. p + 2 \in Nat /\ p + 1 + k \in Nat /\ p + 2 <= p + 1 + k + 1
      OBVIOUS
    <2>3. SubSeq(d, p + 2, p + 1 + k) \in Seq(Bytes)
      BY <2>1, <2>2, PartIs
    <2> QED BY <2>1, <2>3
  <1>5. BlockAt(d, p) \in Block
    BY <1>2, <1>4 DEF BlockAt, Block
  <1> QED BY <1>1, <1>3, <1>5 DEF Fits

LEMMA TlvStepIs ==
    ASSUME NEW d \in Seq(Bytes), NEW p \in 1..Len(d) + 1, NEW g
    PROVE  /\ Fits(d, p) => TlvStep(d, p, g) = <<BlockAt(d, p)>> \o g[p + 2 + d[p + 1]]
           /\ ~Fits(d, p) => TlvStep(d, p, g) = <<>>
  <1>1. p + 1 <= Len(d) => d[p + 1] \in Nat
    <2>1. p + 1 <= Len(d) => d[p + 1] \in Bytes
      BY ElementOfSeq
    <2> QED BY <2>1, FrameAssumption DEF Bytes
  <1> QED BY <1>1 DEF Fits, TlvStep

LEMMA TlvsExist ==
    ASSUME NEW d \in Seq(Bytes)
    PROVE  \E g : IsTlvs(d, g)
  <1> DEFINE n == Len(d) + 1
             I == 1..n
             V == Seq(Block)
             rank == [p \in I |-> n - p]
             step == [p \in I |-> [g \in [I -> V] |-> TlvStep(d, p, g)]]
  <1>0. n \in Nat
    OBVIOUS
  <1>1. rank \in [I -> 0..n]
    OBVIOUS
  <1>2. ASSUME NEW p \in I, Fits(d, p)
        PROVE  /\ p + 2 + d[p + 1] \in I
               /\ rank[p + 2 + d[p + 1]] < rank[p]
               /\ BlockAt(d, p) \in Block
    <2>1. PICK q \in p + 1..Len(d) + 1 : q = p + 2 + d[p + 1] /\ BlockAt(d, p) \in Block
      BY <1>2, BlockIs
    <2>2. q \in I /\ rank[q] < rank[p]
      OBVIOUS
    <2> QED BY <2>1, <2>2
  <1>3. step \in [I -> [[I -> V] -> V]]
    <2>1. ASSUME NEW p \in I, NEW g \in [I -> V] PROVE TlvStep(d, p, g) \in V
      <3>1. CASE Fits(d, p)
        <4>1. PICK q \in I : q = p + 2 + d[p + 1] /\ BlockAt(d, p) \in Block
          BY <1>2, <3>1
        <4>2. g[q] \in V
          <5> HIDE DEF I, V
          <5> QED OBVIOUS
        <4>3. TlvStep(d, p, g) = <<BlockAt(d, p)>> \o g[q]
          BY <3>1, <4>1, TlvStepIs
        <4> QED BY <4>1, <4>2, <4>3
      <3>2. CASE ~Fits(d, p)
        <4>1. TlvStep(d, p, g) = <<>>
          BY <3>2, TlvStepIs
        <4> QED BY <4>1
      <3> QED BY <3>1, <3>2
    <2> HIDE DEF I, V
    <2> QED BY <2>1
  <1>4. LooksBack(I, V, rank, step)
    <2>1. ASSUME NEW p \in I, NEW g \in [I -> V], NEW h \in [I -> V],
                 \A j \in I : rank[j] < rank[p] => g[j] = h[j]
          PROVE  TlvStep(d, p, g) = TlvStep(d, p, h)
      <3>1. CASE Fits(d, p)
        <4>1. PICK q \in I : q = p + 2 + d[p + 1] /\ rank[q] < rank[p]
          BY <1>2, <3>1
        <4>2. g[q] = h[q]
          <5> HIDE DEF I, V, rank
          <5> QED BY <4>1, <2>1
        <4> QED BY <3>1, <4>1, <4>2, TlvStepIs
      <3>2. CASE ~Fits(d, p)
        BY <3>2, TlvStepIs
      <3> QED BY <3>1, <3>2
    <2>2. \A p \in I : \A g \in [I -> V] : step[p][g] = TlvStep(d, p, g)
      <3> HIDE DEF I, V
      <3> QED OBVIOUS
    <2> HIDE DEF rank, step, I, V
    <2> QED BY <2>1, <2>2 DEF LooksBack
  <1>5. PICK g \in [I -> V] : Follows(I, step, g)
    <2>1. <<>> \in V
      OBVIOUS
    <2> HIDE DEF rank, step, I, V, n
    <2> QED BY <1>0, <1>1, <1>3, <1>4, <2>1, RecursionDefines
  <1>6. IsTlvs(d, g)
    <2> HIDE DEF V
    <2>1. g = [p \in I |-> TlvStep(d, p, g)]
      <3> HIDE DEF I
      <3> QED BY <1>5 DEF Follows
    <2> USE DEF I
    <2> QED BY <2>1 DEF IsTlvs
  <1> QED BY <1>6

LEMMA TlvsType ==
    ASSUME NEW d \in Seq(Bytes)
    PROVE  Tlvs(d) \in Seq(Block)
  <1> DEFINE g == CHOOSE g : IsTlvs(d, g)
             n == Len(d) + 1
             K == {p \in 1..n : g[p] \in Seq(Block)}
  <1>0. n \in Nat /\ 1 \in 1..n
    OBVIOUS
  <1>1. IsTlvs(d, g)
    BY TlvsExist
  <1>2. Tlvs(d) = g[1]
    BY DEF Tlvs, IsTlvs, TlvStep, BlockAt
  <1>3. ASSUME NEW p \in 1..n, \A j \in 1..n : j > p => j \in K
        PROVE  p \in K
    <2>1. g[p] = TlvStep(d, p, g)
      <3> HIDE DEF g
      <3> QED BY <1>1 DEF IsTlvs
    <2>2. CASE Fits(d, p)
      <3>1. PICK q \in p + 1..Len(d) + 1 :
               q = p + 2 + d[p + 1] /\ BlockAt(d, p) \in Block
        BY <2>2, BlockIs
      <3>2. q \in K
        <4>1. q \in 1..n /\ q > p
          OBVIOUS
        <4> HIDE DEF K
        <4> QED BY <4>1, <1>3
      <3>3. g[p] = <<BlockAt(d, p)>> \o g[q]
        <4> HIDE DEF g
        <4> QED BY <2>1, <2>2, <3>1, TlvStepIs
      <3>4. g[p] \in Seq(Block)
        <4> HIDE DEF g
        <4> QED BY <3>1, <3>2, <3>3
      <3> QED BY <3>4
    <2>3. CASE ~Fits(d, p)
      <3>1. g[p] = <<>>
        <4> HIDE DEF g
        <4> QED BY <2>1, <2>3, TlvStepIs
      <3>2. g[p] \in Seq(Block)
        <4> HIDE DEF g
        <4> QED BY <3>1
      <3> QED BY <3>2
    <2> QED BY <2>2, <2>3
  <1>4. \A p \in 1..n : p \in K
    <2> HIDE DEF K, n
    <2> QED BY <1>0, <1>3, DownwardInduction
  <1>5. g[1] \in Seq(Block)
    <2> HIDE DEF g
    <2> QED BY <1>0, <1>4
  <1> QED BY <1>2, <1>5

LEMMA LastValueType ==
    ASSUME NEW tlvs \in Seq(Block), NEW type
    PROVE  LastValue(tlvs, type) \in Seq(Bytes)
  <1> DEFINE of == {i \in DOMAIN tlvs : tlvs[i].type = type}
  <1>1. CASE of = {}
    BY <1>1 DEF LastValue
  <1>2. CASE of # {}
    <2>1. of \subseteq 0..Len(tlvs) /\ of \subseteq 1..Len(tlvs)
      OBVIOUS
    <2>2. Max(of) \in of
      <3>1. Len(tlvs) \in Nat
        OBVIOUS
      <3> HIDE DEF of
      <3> QED BY <1>2, <2>1, <3>1, MaxIsGreatest
    <2>3. PICK m \in 1..Len(tlvs) : m = Max(of)
      BY <2>1, <2>2
    <2>4. tlvs[m] \in Block
      BY ElementOfSeq
    <2>5. LastValue(tlvs, type) = tlvs[m].value
      BY <1>2, <2>3 DEF LastValue
    <2> QED BY <2>4, <2>5 DEF Block
  <1> QED BY <1>1, <1>2

LEMMA SignedByteType ==
    ASSUME NEW b \in Bytes
    PROVE  SignedByte(b) \in Strengths
  BY FrameAssumption DEF SignedByte, Strengths, Bytes

LEMMA TagOfType ==
    ASSUME NEW tlvs \in Seq(Block)
    PROVE  TagOf(tlvs) \in Seq(Tags)
  <1>1. PICK epc \in Seq(Bytes), rssi \in Seq(Bytes) :
           epc = LastValue(tlvs, TlvEpc) /\ rssi = LastValue(tlvs, TlvRssi)
    BY LastValueType
  <1>2. CASE epc = <<>>
    BY <1>1, <1>2 DEF TagOf
  <1>3. CASE epc # <<>>
    <2> DEFINE strength == IF rssi = <<>> THEN NoRssi ELSE SignedByte(rssi[1])
    <2>1. strength \in Strengths \cup {NoRssi}
      <3>1. CASE rssi # <<>>
        <4>1. rssi[1] \in Bytes
          BY <3>1
        <4> QED BY <3>1, <4>1, SignedByteType
      <3> QED BY <3>1
    <2>2. TagOf(tlvs) = <<[epc |-> epc, rssi |-> strength]>>
      BY <1>1, <1>3 DEF TagOf
    <2> HIDE DEF strength
    <2>3. [epc |-> epc, rssi |-> strength] \in Tags
      BY <2>1 DEF Tags
    <2> QED BY <2>2, <2>3
  <1> QED BY <1>2, <1>3

TagsOfTlv(tlv) ==
    CASE tlv.type = TlvTag -> TagOf(Tlvs(tlv.value))
      [] tlv.type = TlvEpc -> TagOf(<<tlv>>)
      [] OTHER -> <<>>

LEMMA TagsOfTlvType ==
    ASSUME NEW tlv \in Block
    PROVE  TagsOfTlv(tlv) \in Seq(Tags)
  <1>1. TagOf(Tlvs(tlv.value)) \in Seq(Tags)
    <2>1. tlv.value \in Seq(Bytes)
      BY DEF Block
    <2> QED BY <2>1, TlvsType, TagOfType
  <1>2. TagOf(<<tlv>>) \in Seq(Tags)
    <2>1. <<tlv>> \in Seq(Block)
      OBVIOUS
    <2> QED BY <2>1, TagOfType
  <1>3. <<>> \in Seq(Tags)
    OBVIOUS
  <1> QED BY <1>1, <1>2, <1>3 DEF TagsOfTlv

LEMMA TagsInType ==
    ASSUME NEW params \in Seq(Bytes)
    PROVE  TagsIn(params) \in Seq(Tags)
  <1>1. PICK tlvs \in Seq(Block) : tlvs = Tlvs(params)
    BY TlvsType
  <1>2. PICK n \in Nat : n = Len(tlvs) /\ DOMAIN tlvs = 1..n
    OBVIOUS
  <1> DEFINE s == [i \in 1..n |-> TagsOfTlv(tlvs[i])]
  <1>3. TagsIn(params) = FlattenSeq(s)
    BY <1>1, <1>2 DEF TagsIn, TagsOfTlv
  <1>4. ASSUME NEW i \in 1..n PROVE TagsOfTlv(tlvs[i]) \in Seq(Tags)
    <2>1. tlvs[i] \in Block
      BY <1>2, ElementOfSeq
    <2> QED BY <2>1, TagsOfTlvType
  <1>5. s \in Seq(Seq(Tags)) /\ Len(s) = n
    <2> HIDE DEF TagsOfTlv
    <2> QED BY <1>4
  <1>6. Rows(n, s, Tags)
    <2>1. \A i \in 1..n : s[i] \in Seq(Tags)
      BY <1>4
    <2>2. n = 0 => s = <<>>
      BY <1>5
    <2> HIDE DEF s
    <2> QED BY <1>5, <2>1, <2>2 DEF Rows, SeqsOf, Nothing
  <1>7. FlattenSeq(s) \in SeqsOf(Tags)
    <2> HIDE DEF s
    <2> QED BY <1>6, FlattenType
  <1> QED BY <1>3, <1>7 DEF SeqsOf

(* Whatever bytes a frame has, its tags are tags.                          *)
LEMMA TagsOfFrameType ==
    ASSUME NEW raw \in Seq(Bytes), Len(raw) > FixedHeaderLen
    PROVE  TagsOfFrame(raw) \in Seq(Tags)
  <1>1. PICK n \in Nat : n = Len(raw) /\ n > 8
    BY DEF FixedHeaderLen
  <1>2. SubSeq(raw, 9, n - 1) \in Seq(Bytes)
    <2>1. n - 1 \in Nat /\ 9 <= n - 1 + 1 /\ n - 1 <= Len(raw)
      BY <1>1
    <2> QED BY <2>1, PartIs
  <1>3. TagsIn(SubSeq(raw, 9, n - 1)) \in Seq(Tags)
    BY <1>2, TagsInType
  <1>4. FixedHeaderLen + 1 = 9
    BY DEF FixedHeaderLen
  <1> QED BY <1>1, <1>3, <1>4 DEF TagsOfFrame

-----------------------------------------------------------------------------
(* The walk of the parser through a buffer.                                *)

Drained == [tags : Seq(Tags), rest : Seq(Bytes)]

FirstHeader(b, i) == Min(HeadersFrom(b, i))

NoHeader(b, i) == HeadersFrom(b, i) = {}

LEMMA HeadersAreIn ==
    ASSUME NEW b \in Seq(Bytes), NEW i \in 1..Len(b) + 1, ~NoHeader(b, i)
    PROVE  /\ FirstHeader(b, i) \in i..Len(b) - 1
           /\ FirstHeader(b, i) \in HeadersFrom(b, i)
           /\ \A j \in HeadersFrom(b, i) : FirstHeader(b, i) <= j
           /\ b[FirstHeader(b, i)] = R /\ b[FirstHeader(b, i) + 1] = F
  <1>1. HeadersFrom(b, i) \subseteq Nat /\ HeadersFrom(b, i) # {}
    BY DEF HeadersFrom, NoHeader
  <1>2. /\ FirstHeader(b, i) \in HeadersFrom(b, i)
        /\ \A j \in HeadersFrom(b, i) : FirstHeader(b, i) <= j
    BY <1>1, MinIsLeast DEF FirstHeader
  <1> QED BY <1>2 DEF HeadersFrom

LEMMA FrameLenIs ==
    ASSUME NEW b \in Seq(Bytes), NEW s \in 1..Len(b), s + 7 <= Len(b)
    PROVE  FrameLenAt(b, s) \in Nat /\ FrameLenAt(b, s) >= 9
  <1>1. s + 6 \in 1..Len(b) /\ s + 7 \in 1..Len(b)
    OBVIOUS
  <1>2. b[s + 6] \in Bytes /\ b[s + 7] \in Bytes
    BY <1>1, ElementOfSeq
  <1>3. PICK x \in Nat, y \in Nat : x = b[s + 6] /\ y = b[s + 7]
    BY <1>2, FrameAssumption DEF Bytes
  <1>4. x * ByteRange \in Nat
    BY FrameAssumption
  <1> QED BY <1>3, <1>4 DEF FrameLenAt, FixedHeaderLen

LEMMA CompleteIs ==
    ASSUME NEW b \in Seq(Bytes), NEW s \in 1..Len(b), Complete(b, s)
    PROVE  /\ s + 7 <= Len(b)
           /\ s + FrameLenAt(b, s) \in s + 9..Len(b) + 1
  <1>1. s + 7 <= Len(b)
    BY DEF Complete, FixedHeaderLen
  <1> QED BY <1>1, FrameLenIs DEF Complete, FixedHeaderLen

LEMMA LeftOverIs ==
    ASSUME NEW b \in Seq(Bytes), NEW i \in 1..Len(b) + 1
    PROVE  /\ LeftOver(b, i) \in Seq(Bytes)
           /\ i <= Len(b) /\ b[Len(b)] = R => LeftOver(b, i) = <<R>>
           /\ ~(i <= Len(b) /\ b[Len(b)] = R) => LeftOver(b, i) = <<>>
  <1>1. <<R>> \in Seq(Bytes) /\ <<>> \in Seq(Bytes)
    <2>1. R \in Bytes
      BY FrameAssumption
    <2> QED BY <2>1
  <1>2. Last(b) = b[Len(b)]
    BY DEF Last
  <1> QED BY <1>1, <1>2 DEF LeftOver

Behind(b, i) == FirstHeader(b, i) + FrameLenAt(b, FirstHeader(b, i))

Cuts(b, i) == ~NoHeader(b, i) /\ Complete(b, FirstHeader(b, i))

Waits(b, i) == ~NoHeader(b, i) /\ ~Complete(b, FirstHeader(b, i))

\* The frame that is cut off at i or behind it.
FrameCut(b, i) == SubSeq(b, FirstHeader(b, i), Behind(b, i) - 1)

Unfinished(b, i) == SubSeq(b, FirstHeader(b, i), Len(b))

WalkStep(b, i, g) ==
    IF NoHeader(b, i) THEN [tags |-> <<>>, rest |-> LeftOver(b, i)]
    ELSE IF ~Complete(b, FirstHeader(b, i))
    THEN [tags |-> <<>>, rest |-> Unfinished(b, i)]
    ELSE [tags |-> TagsOfFrame(FrameCut(b, i)) \o g[Behind(b, i)].tags,
          rest |-> g[Behind(b, i)].rest]

IsWalk(b, g) == g = [i \in 1..Len(b) + 1 |-> WalkStep(b, i, g)]

LEMMA WalkStepIs ==
    ASSUME NEW b, NEW i, NEW g
    PROVE  /\ NoHeader(b, i) =>
                 WalkStep(b, i, g) = [tags |-> <<>>, rest |-> LeftOver(b, i)]
           /\ Waits(b, i) =>
                 WalkStep(b, i, g) = [tags |-> <<>>, rest |-> Unfinished(b, i)]
           /\ Cuts(b, i) =>
                 WalkStep(b, i, g) =
                     [tags |-> TagsOfFrame(FrameCut(b, i)) \o g[Behind(b, i)].tags,
                      rest |-> g[Behind(b, i)].rest]
  BY DEF Waits, Cuts, WalkStep

LEMMA CutIs ==
    ASSUME NEW b \in Seq(Bytes), NEW i \in 1..Len(b) + 1, Cuts(b, i)
    PROVE  /\ Behind(b, i) \in i + 9..Len(b) + 1
           /\ TagsOfFrame(FrameCut(b, i)) \in Seq(Tags)
  <1>1. PICK s \in i..Len(b) - 1 : s = FirstHeader(b, i)
    BY HeadersAreIn DEF Cuts
  <1>2. s \in 1..Len(b) /\ Complete(b, s)
    BY <1>1 DEF Cuts
  <1>3. PICK n \in s + 9..Len(b) + 1 : n = s + FrameLenAt(b, s)
    BY <1>2, CompleteIs
  <1>4. Behind(b, i) = n
    BY <1>1, <1>3 DEF Behind
  <1>5. SubSeq(b, s, n - 1) \in Seq(Bytes) /\ Len(SubSeq(b, s, n - 1)) = n - s
    <2>1. /\ s \in Nat /\ n - 1 \in Nat /\ s >= 1
          /\ s <= n - 1 + 1 /\ n - 1 <= Len(b) /\ n - 1 - s + 1 = n - s
      OBVIOUS
    <2> QED BY <2>1, PartIs
  <1>6. TagsOfFrame(SubSeq(b, s, n - 1)) \in Seq(Tags)
    <2>1. Len(SubSeq(b, s, n - 1)) > FixedHeaderLen
      BY <1>5 DEF FixedHeaderLen
    <2> QED BY <1>5, <2>1, TagsOfFrameType
  <1> QED BY <1>1, <1>4, <1>6 DEF FrameCut

LEMMA UnfinishedIs ==
    ASSUME NEW b \in Seq(Bytes), NEW i \in 1..Len(b) + 1, Waits(b, i)
    PROVE  Unfinished(b, i) \in Seq(Bytes)
  <1>1. PICK s \in i..Len(b) - 1 : s = FirstHeader(b, i)
    BY HeadersAreIn DEF Waits
  <1>2. s \in Nat /\ Len(b) \in Nat /\ s >= 1 /\ s <= Len(b) + 1 /\ Len(b) <= Len(b)
    OBVIOUS
  <1> QED BY <1>1, <1>2, PartIs DEF Unfinished

LEMMA WalkStepType ==
    ASSUME NEW b \in Seq(Bytes), NEW i \in 1..Len(b) + 1, NEW g,
           Cuts(b, i) => g[Behind(b, i)] \in Drained
    PROVE  WalkStep(b, i, g) \in Drained
  <1>1. CASE NoHeader(b, i)
    BY <1>1, WalkStepIs, LeftOverIs DEF Drained
  <1>2. CASE Waits(b, i)
    <2>1. WalkStep(b, i, g) = [tags |-> <<>>, rest |-> Unfinished(b, i)]
      BY <1>2, WalkStepIs
    <2>2. Unfinished(b, i) \in Seq(Bytes)
      BY <1>2, UnfinishedIs
    <2> QED BY <2>1, <2>2 DEF Drained
  <1>3. CASE Cuts(b, i)
    <2>1. PICK t \in Seq(Tags) : t = TagsOfFrame(FrameCut(b, i))
      BY <1>3, CutIs
    <2>2. PICK d \in Drained : d = g[Behind(b, i)]
      BY <1>3
    <2>3. d.tags \in Seq(Tags) /\ d.rest \in Seq(Bytes)
      BY DEF Drained
    <2>4. WalkStep(b, i, g) = [tags |-> t \o d.tags, rest |-> d.rest]
      BY <1>3, <2>1, <2>2, WalkStepIs
    <2>5. t \o d.tags \in Seq(Tags)
      BY <2>3
    <2> QED BY <2>3, <2>4, <2>5 DEF Drained
  <1> QED BY <1>1, <1>2, <1>3 DEF Waits, Cuts

LEMMA WalkExists ==
    ASSUME NEW b \in Seq(Bytes)
    PROVE  \E g : IsWalk(b, g)
  <1> DEFINE n == Len(b) + 1
             I == 1..n
             rank == [i \in I |-> n - i]
             step == [i \in I |-> [g \in [I -> Drained] |-> WalkStep(b, i, g)]]
  <1>0. n \in Nat
    OBVIOUS
  <1>1. rank \in [I -> 0..n]
    OBVIOUS
  <1>2. ASSUME NEW i \in I, Cuts(b, i)
        PROVE  Behind(b, i) \in I /\ rank[Behind(b, i)] < rank[i]
    <2>1. PICK q \in i + 9..Len(b) + 1 : q = Behind(b, i)
      BY <1>2, CutIs
    <2>2. q \in I /\ rank[q] < rank[i]
      OBVIOUS
    <2> QED BY <2>1, <2>2
  <1>3. step \in [I -> [[I -> Drained] -> Drained]]
    <2>1. ASSUME NEW i \in I, NEW g \in [I -> Drained]
          PROVE  WalkStep(b, i, g) \in Drained
      <3>1. Cuts(b, i) => g[Behind(b, i)] \in Drained
        <4> HIDE DEF I
        <4> QED BY <1>2
      <3> QED BY <3>1, WalkStepType
    <2> HIDE DEF I
    <2> QED BY <2>1
  <1>4. LooksBack(I, Drained, rank, step)
    <2>1. ASSUME NEW i \in I, NEW g \in [I -> Drained], NEW h \in [I -> Drained],
                 \A j \in I : rank[j] < rank[i] => g[j] = h[j]
          PROVE  WalkStep(b, i, g) = WalkStep(b, i, h)
      <3>1. Cuts(b, i) => g[Behind(b, i)] = h[Behind(b, i)]
        <4> HIDE DEF I, rank
        <4> QED BY <1>2, <2>1
      <3> QED BY <3>1 DEF Cuts, WalkStep
    <2>2. \A i \in I : \A g \in [I -> Drained] : step[i][g] = WalkStep(b, i, g)
      <3> HIDE DEF I
      <3> QED OBVIOUS
    <2> HIDE DEF rank, step, I
    <2> QED BY <2>1, <2>2 DEF LooksBack
  <1>5. PICK g \in [I -> Drained] : Follows(I, step, g)
    <2>1. [tags |-> <<>>, rest |-> <<>>] \in Drained
      BY DEF Drained
    <2> HIDE DEF rank, step, I, n
    <2> QED BY <1>0, <1>1, <1>3, <1>4, <2>1, RecursionDefines
  <1>6. IsWalk(b, g)
    <2>1. g = [i \in I |-> WalkStep(b, i, g)]
      <3> HIDE DEF I
      <3> QED BY <1>5 DEF Follows
    <2> USE DEF I
    <2> QED BY <2>1 DEF IsWalk
  <1> QED BY <1>6

\* What comes of the walk from i on.
Walk(b, i) == (CHOOSE g : IsWalk(b, g))[i]

LEMMA DrainIsWalk ==
    ASSUME NEW b
    PROVE  Drain(b) = Walk(b, 1)
  BY DEF Drain, Walk, IsWalk, WalkStep, NoHeader, FrameCut, Unfinished, Behind,
         FirstHeader

LEMMA WalkIs ==
    ASSUME NEW b \in Seq(Bytes), NEW i \in 1..Len(b) + 1
    PROVE  /\ NoHeader(b, i) => Walk(b, i) = [tags |-> <<>>, rest |-> LeftOver(b, i)]
           /\ Waits(b, i) => Walk(b, i) = [tags |-> <<>>, rest |-> Unfinished(b, i)]
           /\ Cuts(b, i) =>
                 Walk(b, i) = [tags |-> TagsOfFrame(FrameCut(b, i))
                                          \o Walk(b, Behind(b, i)).tags,
                               rest |-> Walk(b, Behind(b, i)).rest]
  <1>1. PICK g : g = (CHOOSE h : IsWalk(b, h)) /\ IsWalk(b, g)
    BY WalkExists
  <1>2. g[i] = WalkStep(b, i, g)
    BY <1>1 DEF IsWalk
  <1>3. \A j : Walk(b, j) = g[j]
    BY <1>1 DEF Walk
  <1> QED BY <1>2, <1>3, WalkStepIs

LEMMA WalkType ==
    ASSUME NEW b \in Seq(Bytes), NEW i \in 1..Len(b) + 1
    PROVE  Walk(b, i) \in Drained
  <1> DEFINE n == Len(b) + 1
             K == {j \in 1..n : Walk(b, j) \in Drained}
  <1>0. n \in Nat
    OBVIOUS
  <1>1. ASSUME NEW k \in 1..n, \A j \in 1..n : j > k => j \in K
        PROVE  k \in K
    <2>1. PICK g : g = (CHOOSE h : IsWalk(b, h)) /\ IsWalk(b, g)
      BY WalkExists
    <2>2. Walk(b, k) = WalkStep(b, k, g)
      BY <2>1 DEF Walk, IsWalk
    <2>3. ASSUME Cuts(b, k) PROVE g[Behind(b, k)] \in Drained
      <3>1. PICK q \in k + 9..Len(b) + 1 : q = Behind(b, k)
        BY <2>3, CutIs
      <3>2. q \in 1..n /\ q > k
        OBVIOUS
      <3>3. q \in K
        <4> HIDE DEF K
        <4> QED BY <3>2, <1>1
      <3> QED BY <3>1, <3>3, <2>1 DEF Walk
    <2>4. WalkStep(b, k, g) \in Drained
      BY <2>3, WalkStepType
    <2> QED BY <2>2, <2>4
  <1>2. \A k \in 1..n : k \in K
    <2> HIDE DEF K, n
    <2> QED BY <1>0, <1>1, DownwardInduction
  <1> QED BY <1>2

(* For any bytes at all, what the parser returns are tags, and what it     *)
(* keeps are bytes.                                                        *)
LEMMA DrainType ==
    ASSUME NEW b \in Seq(Bytes)
    PROVE  Drain(b).tags \in Seq(Tags) /\ Drain(b).rest \in Seq(Bytes)
  <1>1. 1 \in 1..Len(b) + 1
    OBVIOUS
  <1> QED BY <1>1, DrainIsWalk, WalkType DEF Drained

-----------------------------------------------------------------------------
(* The walk does not depend on what is in front, and goes on where it was. *)

(* The bytes b are those of e behind the first o.                          *)
Within(b, e, o) ==
    /\ o + Len(b) <= Len(e)
    /\ \A j \in 1..Len(b) : e[o + j] = b[j]

LEMMA FirstHeaderIs ==
    ASSUME NEW b \in Seq(Bytes), NEW i \in 1..Len(b) + 1,
           NEW s \in HeadersFrom(b, i), \A h \in HeadersFrom(b, i) : s <= h
    PROVE  ~NoHeader(b, i) /\ FirstHeader(b, i) = s
  <1>1. ~NoHeader(b, i)
    BY DEF NoHeader
  <1>2. FirstHeader(b, i) \in HeadersFrom(b, i) /\ FirstHeader(b, i) <= s
    BY <1>1, HeadersAreIn
  <1>3. s \in Nat /\ FirstHeader(b, i) \in Nat
    BY <1>2 DEF HeadersFrom
  <1> QED BY <1>1, <1>2, <1>3

LEMMA FirstHeaderAlike ==
    ASSUME NEW b \in Seq(Bytes), NEW e \in Seq(Bytes), NEW o \in Nat,
           Within(b, e, o), NEW i \in 1..Len(b) + 1, ~NoHeader(b, i)
    PROVE  ~NoHeader(e, o + i) /\ FirstHeader(e, o + i) = o + FirstHeader(b, i)
  <1>1. PICK s \in i..Len(b) - 1 :
           /\ s = FirstHeader(b, i)
           /\ b[s] = R /\ b[s + 1] = F
           /\ \A h \in HeadersFrom(b, i) : s <= h
    BY HeadersAreIn
  <1>2. o + s \in HeadersFrom(e, o + i)
    <2>1. e[o + s] = R /\ e[o + (s + 1)] = F
      <3>1. s \in 1..Len(b) /\ s + 1 \in 1..Len(b)
        OBVIOUS
      <3>2. e[o + s] = b[s] /\ e[o + (s + 1)] = b[s + 1]
        BY <3>1 DEF Within
      <3> QED BY <1>1, <3>2
    <2>2. o + s \in o + i..Len(e) - 1 /\ o + (s + 1) = (o + s) + 1
      BY DEF Within
    <2> QED BY <2>1, <2>2 DEF HeadersFrom
  <1>3. ASSUME NEW h \in HeadersFrom(e, o + i) PROVE o + s <= h
    <2>1. h \in o + i..Len(e) - 1 /\ e[h] = R /\ e[h + 1] = F
      BY DEF HeadersFrom
    <2> SUFFICES ASSUME h < o + s PROVE FALSE
      BY <2>1
    <2>2. PICK j \in i..s - 1 : h = o + j
      <3>1. h - o \in i..s - 1 /\ h = o + (h - o)
        BY <2>1
      <3> QED BY <3>1
    <2>3. j \in 1..Len(b) /\ j + 1 \in 1..Len(b) /\ h + 1 = o + (j + 1)
      BY <2>2
    <2>4. b[j] = R /\ b[j + 1] = F
      BY <2>1, <2>2, <2>3 DEF Within
    <2>5. j \in HeadersFrom(b, i)
      BY <2>4 DEF HeadersFrom
    <2> QED BY <2>5, <1>1
  <1>4. o + i \in 1..Len(e) + 1
    BY DEF Within
  <1> QED BY <1>1, <1>2, <1>3, <1>4, FirstHeaderIs

LEMMA FrameLenAlike ==
    ASSUME NEW b \in Seq(Bytes), NEW e \in Seq(Bytes), NEW o \in Nat,
           Within(b, e, o), NEW s \in 1..Len(b), s + 7 <= Len(b)
    PROVE  FrameLenAt(e, o + s) = FrameLenAt(b, s)
  <1>1. s + 6 \in 1..Len(b) /\ s + 7 \in 1..Len(b)
    OBVIOUS
  <1>2. e[o + (s + 6)] = b[s + 6] /\ e[o + (s + 7)] = b[s + 7]
    BY <1>1 DEF Within
  <1>3. o + (s + 6) = (o + s) + 6 /\ o + (s + 7) = (o + s) + 7
    OBVIOUS
  <1> QED BY <1>2, <1>3 DEF FrameLenAt

LEMMA PartAlike ==
    ASSUME NEW b \in Seq(Bytes), NEW e \in Seq(Bytes), NEW o \in Nat,
           Within(b, e, o), NEW i \in Nat, NEW j \in Nat,
           i >= 1, i <= j + 1, j <= Len(b)
    PROVE  SubSeq(e, o + i, o + j) = SubSeq(b, i, j)
  <1>1. /\ SubSeq(b, i, j) \in Seq(Bytes) /\ Len(SubSeq(b, i, j)) = j - i + 1
        /\ \A k \in 1..j - i + 1 : SubSeq(b, i, j)[k] = b[k + i - 1]
    BY PartIs
  <1>2. /\ SubSeq(e, o + i, o + j) \in Seq(Bytes)
        /\ Len(SubSeq(e, o + i, o + j)) = j - i + 1
        /\ \A k \in 1..j - i + 1 : SubSeq(e, o + i, o + j)[k] = e[k + (o + i) - 1]
    <2>1. /\ o + i \in Nat /\ o + j \in Nat /\ o + i >= 1
          /\ o + i <= o + j + 1 /\ o + j <= Len(e)
          /\ (o + j) - (o + i) + 1 = j - i + 1
      BY DEF Within
    <2> QED BY <2>1, PartIs
  <1>3. ASSUME NEW k \in 1..j - i + 1
        PROVE  SubSeq(e, o + i, o + j)[k] = SubSeq(b, i, j)[k]
    <2>1. k + i - 1 \in 1..Len(b) /\ k + (o + i) - 1 = o + (k + i - 1)
      OBVIOUS
    <2>2. e[o + (k + i - 1)] = b[k + i - 1]
      BY <2>1 DEF Within
    <2> QED BY <1>1, <1>2, <2>1, <2>2
  <1> QED BY <1>1, <1>2, <1>3, SeqEqual

LEMMA CutAlike ==
    ASSUME NEW b \in Seq(Bytes), NEW e \in Seq(Bytes), NEW o \in Nat,
           Within(b, e, o), NEW i \in 1..Len(b) + 1, Cuts(b, i)
    PROVE  /\ Cuts(e, o + i)
           /\ Behind(e, o + i) = o + Behind(b, i)
           /\ FrameCut(e, o + i) = FrameCut(b, i)
  <1>1. PICK s \in i..Len(b) - 1 : s = FirstHeader(b, i)
    BY HeadersAreIn DEF Cuts
  <1>2. s \in 1..Len(b) /\ Complete(b, s)
    BY <1>1 DEF Cuts
  <1>3. s + 7 <= Len(b)
    BY <1>2, CompleteIs
  <1>4. PICK n \in s + 9..Len(b) + 1 : n = s + FrameLenAt(b, s)
    BY <1>2, CompleteIs
  <1>5. FrameLenAt(e, o + s) = FrameLenAt(b, s) /\ FrameLenAt(b, s) \in Nat
    BY <1>2, <1>3, FrameLenAlike, FrameLenIs
  <1>6. ~NoHeader(e, o + i) /\ FirstHeader(e, o + i) = o + s
    BY <1>1, FirstHeaderAlike DEF Cuts
  <1>7. Complete(e, o + s)
    <2>1. o + Len(b) <= Len(e)
      BY DEF Within
    <2>2. Len(e) - (o + s) + 1 >= Len(b) - s + 1
      BY <2>1
    <2> QED BY <1>2, <1>5, <2>2 DEF Complete, FixedHeaderLen
  <1>8. Behind(b, i) = n /\ Behind(e, o + i) = o + n
    BY <1>1, <1>4, <1>5, <1>6 DEF Behind
  <1>9. SubSeq(e, o + s, o + (n - 1)) = SubSeq(b, s, n - 1)
    <2>1. s \in Nat /\ n - 1 \in Nat /\ s >= 1 /\ s <= n - 1 + 1 /\ n - 1 <= Len(b)
      OBVIOUS
    <2> QED BY <2>1, PartAlike
  <1>10. o + (n - 1) = (o + n) - 1
    OBVIOUS
  <1> QED BY <1>1, <1>6, <1>7, <1>8, <1>9, <1>10 DEF Cuts, FrameCut

(* What comes of the walk depends only on the bytes from there on.         *)
LEMMA WalkOfRest ==
    ASSUME NEW b \in Seq(Bytes), NEW e \in Seq(Bytes), NEW o \in Nat,
           Within(b, e, o), o + Len(b) = Len(e)
    PROVE  \A i \in 1..Len(b) + 1 : Walk(e, o + i) = Walk(b, i)
  <1> DEFINE n == Len(b) + 1
             K == {i \in 1..n : Walk(e, o + i) = Walk(b, i)}
  <1>0. n \in Nat
    OBVIOUS
  <1>1. ASSUME NEW i \in 1..n, \A j \in 1..n : j > i => j \in K
        PROVE  i \in K
    <2>0. o + i \in 1..Len(e) + 1
      OBVIOUS
    <2>1. CASE NoHeader(b, i)
      <3>1. NoHeader(e, o + i)
        <4> SUFFICES ASSUME NEW h \in HeadersFrom(e, o + i) PROVE FALSE
          BY DEF NoHeader
        <4>1. h \in o + i..Len(e) - 1 /\ e[h] = R /\ e[h + 1] = F
          BY DEF HeadersFrom
        <4>2. PICK j \in i..Len(b) - 1 : h = o + j
          <5>1. h - o \in i..Len(b) - 1 /\ h = o + (h - o)
            BY <4>1
          <5> QED BY <5>1
        <4>3. j \in 1..Len(b) /\ j + 1 \in 1..Len(b) /\ h + 1 = o + (j + 1)
          BY <4>2
        <4>4. b[j] = R /\ b[j + 1] = F
          BY <4>1, <4>2, <4>3 DEF Within
        <4>5. j \in HeadersFrom(b, i)
          BY <4>4 DEF HeadersFrom
        <4> QED BY <4>5, <2>1 DEF NoHeader
      <3>2. LeftOver(e, o + i) = LeftOver(b, i)
        <4>1. o + i <= Len(e) <=> i <= Len(b)
          OBVIOUS
        <4>2. i <= Len(b) => e[Len(e)] = b[Len(b)]
          <5>1. i <= Len(b) => Len(b) \in 1..Len(b)
            OBVIOUS
          <5> QED BY <5>1 DEF Within
        <4>3. CASE i <= Len(b) /\ b[Len(b)] = R
          <5>1. LeftOver(b, i) = <<R>>
            BY <4>3, LeftOverIs
          <5>2. LeftOver(e, o + i) = <<R>>
            BY <4>1, <4>2, <4>3, <2>0, LeftOverIs
          <5> QED BY <5>1, <5>2
        <4>4. CASE ~(i <= Len(b) /\ b[Len(b)] = R)
          <5>1. LeftOver(b, i) = <<>>
            BY <4>4, LeftOverIs
          <5>2. LeftOver(e, o + i) = <<>>
            BY <4>1, <4>2, <4>4, <2>0, LeftOverIs
          <5> QED BY <5>1, <5>2
        <4> QED BY <4>3, <4>4
      <3>3. Walk(b, i) = [tags |-> <<>>, rest |-> LeftOver(b, i)]
        BY <2>1, WalkIs
      <3>4. Walk(e, o + i) = [tags |-> <<>>, rest |-> LeftOver(e, o + i)]
        BY <3>1, <2>0, WalkIs
      <3> QED BY <3>2, <3>3, <3>4
    <2>2. CASE Waits(b, i)
      <3>1. PICK s \in i..Len(b) - 1 : s = FirstHeader(b, i) /\ ~Complete(b, s)
        BY <2>2, HeadersAreIn DEF Waits
      <3>2. ~NoHeader(e, o + i) /\ FirstHeader(e, o + i) = o + s
        BY <2>2, <3>1, FirstHeaderAlike DEF Waits
      <3>3. ~Complete(e, o + s)
        <4>1. Len(e) - (o + s) + 1 = Len(b) - s + 1
          OBVIOUS
        <4>2. CASE s + 7 <= Len(b)
          <5>1. FrameLenAt(e, o + s) = FrameLenAt(b, s)
            BY <4>2, FrameLenAlike
          <5> QED BY <3>1, <4>1, <5>1 DEF Complete
        <4>3. CASE ~(s + 7 <= Len(b))
          BY <4>3, <4>1 DEF Complete, FixedHeaderLen
        <4> QED BY <4>2, <4>3
      <3>4. SubSeq(e, o + s, o + Len(b)) = SubSeq(b, s, Len(b))
        <4>1. s \in Nat /\ Len(b) \in Nat /\ s >= 1 /\ s <= Len(b) + 1 /\ Len(b) <= Len(b)
          OBVIOUS
        <4> QED BY <4>1, PartAlike
      <3>5. Unfinished(e, o + i) = Unfinished(b, i)
        BY <3>1, <3>2, <3>4 DEF Unfinished
      <3>6. Walk(b, i) = [tags |-> <<>>, rest |-> Unfinished(b, i)]
        BY <2>2, WalkIs
      <3>7. Walk(e, o + i) = [tags |-> <<>>, rest |-> Unfinished(e, o + i)]
        BY <3>2, <3>3, <2>0, WalkIs DEF Waits
      <3> QED BY <3>5, <3>6, <3>7
    <2>3. CASE Cuts(b, i)
      <3>1. /\ Cuts(e, o + i) /\ Behind(e, o + i) = o + Behind(b, i)
            /\ FrameCut(e, o + i) = FrameCut(b, i)
        BY <2>3, CutAlike
      <3>2. PICK q \in i + 9..Len(b) + 1 : q = Behind(b, i)
        BY <2>3, CutIs
      <3>3. q \in K
        <4>1. q \in 1..n /\ q > i
          OBVIOUS
        <4> HIDE DEF K
        <4> QED BY <4>1, <1>1
      <3>4. Walk(e, o + q) = Walk(b, q)
        BY <3>3
      <3>5. Walk(b, i) = [tags |-> TagsOfFrame(FrameCut(b, i)) \o Walk(b, q).tags,
                          rest |-> Walk(b, q).rest]
        BY <2>3, <3>2, WalkIs
      <3>6. Walk(e, o + i) =
                [tags |-> TagsOfFrame(FrameCut(b, i)) \o Walk(e, o + q).tags,
                 rest |-> Walk(e, o + q).rest]
        BY <3>1, <3>2, <2>0, WalkIs
      <3> QED BY <3>4, <3>5, <3>6
    <2> QED BY <2>1, <2>2, <2>3 DEF Waits, Cuts
  <1>2. \A i \in 1..n : i \in K
    <2> HIDE DEF K, n
    <2> QED BY <1>0, <1>1, DownwardInduction
  <1> QED BY <1>2

LEMMA WalkIsDrain ==
    ASSUME NEW e \in Seq(Bytes), NEW i \in 1..Len(e) + 1
    PROVE  Walk(e, i) = Drain(SubSeq(e, i, Len(e)))
  <1>1. /\ SubSeq(e, i, Len(e)) \in Seq(Bytes)
        /\ Len(SubSeq(e, i, Len(e))) = Len(e) - i + 1
        /\ \A k \in 1..Len(e) - i + 1 : SubSeq(e, i, Len(e))[k] = e[k + i - 1]
    <2>1. i \in Nat /\ Len(e) \in Nat /\ i >= 1 /\ i <= Len(e) + 1 /\ Len(e) <= Len(e)
      OBVIOUS
    <2> QED BY <2>1, PartIs
  <1>2. PICK b \in Seq(Bytes) :
           /\ b = SubSeq(e, i, Len(e)) /\ Len(b) = Len(e) - i + 1
           /\ \A k \in 1..Len(b) : b[k] = e[k + i - 1]
    BY <1>1
  <1>3. PICK o \in Nat : o = i - 1
    OBVIOUS
  <1>4. Within(b, e, o)
    <2>1. \A k \in 1..Len(b) : o + k = k + i - 1
      BY <1>3
    <2>2. o + Len(b) <= Len(e)
      BY <1>2, <1>3
    <2> QED BY <1>2, <2>1, <2>2 DEF Within
  <1>5. o + Len(b) = Len(e) /\ 1 \in 1..Len(b) + 1 /\ o + 1 = i
    BY <1>2, <1>3
  <1>6. Walk(e, o + 1) = Walk(b, 1)
    BY <1>4, <1>5, WalkOfRest
  <1> QED BY <1>2, <1>5, <1>6, DrainIsWalk

(* Bytes without a header are walked over.                                 *)
LEMMA WalkSkips ==
    ASSUME NEW e \in Seq(Bytes), NEW i \in 1..Len(e), NEW m \in i..Len(e),
           \A h \in HeadersFrom(e, i) : h >= m
    PROVE  Walk(e, i) = Walk(e, m)
  <1>1. HeadersFrom(e, i) = HeadersFrom(e, m)
    BY DEF HeadersFrom
  <1>2. FirstHeader(e, i) = FirstHeader(e, m) /\ (NoHeader(e, i) <=> NoHeader(e, m))
    BY <1>1 DEF FirstHeader, NoHeader
  <1>3. LeftOver(e, i) = LeftOver(e, m)
    BY DEF LeftOver
  <1>4. i \in 1..Len(e) + 1 /\ m \in 1..Len(e) + 1
    OBVIOUS
  <1>5. CASE NoHeader(e, i)
    BY <1>2, <1>3, <1>4, <1>5, WalkIs
  <1>6. CASE Waits(e, i)
    <2>1. Waits(e, m) /\ Unfinished(e, i) = Unfinished(e, m)
      BY <1>2, <1>6 DEF Waits, Unfinished
    <2> QED BY <1>4, <1>6, <2>1, WalkIs
  <1>7. CASE Cuts(e, i)
    <2>1. /\ Cuts(e, m) /\ Behind(e, i) = Behind(e, m)
          /\ FrameCut(e, i) = FrameCut(e, m)
      BY <1>2, <1>7 DEF Cuts, Behind, FrameCut
    <2> QED BY <1>4, <1>7, <2>1, WalkIs
  <1> QED BY <1>5, <1>6, <1>7 DEF Waits, Cuts

\* The result of a walk, when the bytes c have been added to what it left.
GoneOn(d, c) ==
    [tags |-> d.tags \o Drain(d.rest \o c).tags, rest |-> Drain(d.rest \o c).rest]

LEMMA ConcatIs ==
    ASSUME NEW b \in Seq(Bytes), NEW c \in Seq(Bytes)
    PROVE  \E e \in Seq(Bytes) :
              /\ e = b \o c /\ Len(e) = Len(b) + Len(c)
              /\ \A k \in 1..Len(b) : e[k] = b[k]
              /\ \A k \in 1..Len(c) : e[Len(b) + k] = c[k]
  <1>0. b \o c \in Seq(Bytes)
    BY ConcatProperties
  <1>1. PICK e \in Seq(Bytes) : e = b \o c
    BY <1>0
  <1>2. /\ Len(e) = Len(b) + Len(c)
        /\ \A k \in 1..Len(b) + Len(c) :
              e[k] = IF k <= Len(b) THEN b[k] ELSE c[k - Len(b)]
    BY <1>1, ConcatProperties
  <1>3. ASSUME NEW k \in 1..Len(c) PROVE e[Len(b) + k] = c[k]
    <2>1. /\ Len(b) + k \in 1..Len(b) + Len(c) /\ ~(Len(b) + k <= Len(b))
          /\ (Len(b) + k) - Len(b) = k
      OBVIOUS
    <2> QED BY <1>2, <2>1
  <1>4. ASSUME NEW k \in 1..Len(b) PROVE e[k] = b[k]
    BY <1>2
  <1> QED BY <1>1, <1>2, <1>3, <1>4

LEMMA RestIs ==
    ASSUME NEW b \in Seq(Bytes), NEW s \in 1..Len(b) + 1
    PROVE  \E u \in Seq(Bytes) :
              /\ u = SubSeq(b, s, Len(b)) /\ Len(u) = Len(b) - s + 1
              /\ \A k \in 1..Len(b) - s + 1 : u[k] = b[k + s - 1]
  <1>1. s \in Nat /\ Len(b) \in Nat /\ s >= 1 /\ s <= Len(b) + 1 /\ Len(b) <= Len(b)
    OBVIOUS
  <1>2. /\ SubSeq(b, s, Len(b)) \in Seq(Bytes)
        /\ Len(SubSeq(b, s, Len(b))) = Len(b) - s + 1
        /\ \A k \in 1..Len(b) - s + 1 : SubSeq(b, s, Len(b))[k] = b[k + s - 1]
    BY <1>1, PartIs
  <1> QED BY <1>2

(* A suffix of a concatenation that begins in its first part.              *)
LEMMA RestOfConcat ==
    ASSUME NEW b \in Seq(Bytes), NEW c \in Seq(Bytes), NEW s \in 1..Len(b) + 1
    PROVE  SubSeq(b \o c, s, Len(b \o c)) = SubSeq(b, s, Len(b)) \o c
  <1>1. PICK e \in Seq(Bytes) :
           /\ e = b \o c /\ Len(e) = Len(b) + Len(c)
           /\ \A k \in 1..Len(b) : e[k] = b[k]
           /\ \A k \in 1..Len(c) : e[Len(b) + k] = c[k]
    BY ConcatIs
  <1>2. PICK l \in Nat : l = Len(b) - s + 1
    OBVIOUS
  <1>3. PICK u \in Seq(Bytes) :
           /\ u = SubSeq(b, s, Len(b)) /\ Len(u) = l
           /\ \A k \in 1..l : u[k] = b[k + s - 1]
    BY <1>2, RestIs
  <1>4. PICK v \in Seq(Bytes) :
           /\ v = u \o c /\ Len(v) = l + Len(c)
           /\ \A k \in 1..l : v[k] = u[k]
           /\ \A k \in 1..Len(c) : v[l + k] = c[k]
    <2>1. PICK v \in Seq(Bytes) :
             /\ v = u \o c /\ Len(v) = Len(u) + Len(c)
             /\ \A k \in 1..Len(u) : v[k] = u[k]
             /\ \A k \in 1..Len(c) : v[Len(u) + k] = c[k]
      BY ConcatIs
    <2>2. Len(u) = l
      BY <1>3
    <2> QED BY <2>1, <2>2
  <1>5. PICK w \in Seq(Bytes) :
           /\ w = SubSeq(e, s, Len(e)) /\ Len(w) = l + Len(c)
           /\ \A k \in 1..l + Len(c) : w[k] = e[k + s - 1]
    <2>1. s \in 1..Len(e) + 1 /\ Len(e) - s + 1 = l + Len(c)
      BY <1>1, <1>2
    <2>2. PICK w \in Seq(Bytes) :
             /\ w = SubSeq(e, s, Len(e)) /\ Len(w) = Len(e) - s + 1
             /\ \A k \in 1..Len(e) - s + 1 : w[k] = e[k + s - 1]
      BY <2>1, RestIs
    <2> QED BY <2>1, <2>2
  <1>6. ASSUME NEW k \in 1..l + Len(c) PROVE w[k] = v[k]
    <2>1. CASE k <= l
      <3>1. k \in 1..l /\ k + s - 1 \in 1..Len(b)
        BY <2>1, <1>2
      <3> QED BY <3>1, <1>1, <1>3, <1>4, <1>5
    <2>2. CASE k > l
      <3>1. PICK j \in 1..Len(c) : k = l + j /\ k + s - 1 = Len(b) + j
        <4>1. /\ k - l \in 1..Len(c) /\ k = l + (k - l)
              /\ k + s - 1 = Len(b) + (k - l)
          BY <2>2, <1>2
        <4> QED BY <4>1
      <3> QED BY <3>1, <1>1, <1>4, <1>5
    <2> QED BY <2>1, <2>2
  <1>7. w = v
    BY <1>4, <1>5, <1>6, SeqEqual
  <1> QED BY <1>1, <1>3, <1>4, <1>5, <1>7

LEMMA DrainNothing == Drain(<<>>) = [tags |-> <<>>, rest |-> <<>>]
  <1>0. <<>> \in Seq(Bytes) /\ Len(<<>>) = 0
    BY EmptySeq
  <1>1. PICK b \in Seq(Bytes) : b = <<>> /\ Len(b) = 0
    BY <1>0
  <1>2. NoHeader(b, 1) /\ 1 \in 1..Len(b) + 1
    BY <1>1 DEF NoHeader, HeadersFrom
  <1>3. LeftOver(b, 1) = <<>>
    <2>1. ~(1 <= Len(b))
      BY <1>1
    <2> QED BY <2>1, <1>2, LeftOverIs
  <1>4. Walk(b, 1) = [tags |-> <<>>, rest |-> LeftOver(b, 1)]
    BY <1>2, WalkIs
  <1> QED BY <1>1, <1>3, <1>4, DrainIsWalk

LEMMA GoneOnFromNothing ==
    ASSUME NEW u \in Seq(Bytes), NEW c \in Seq(Bytes)
    PROVE  GoneOn([tags |-> <<>>, rest |-> u], c) = Drain(u \o c)
  <1>1. PICK d \in Drained : d = Drain(u \o c)
    <2>1. u \o c \in Seq(Bytes)
      OBVIOUS
    <2>2. 1 \in 1..Len(u \o c) + 1
      BY <2>1
    <2> QED BY <2>1, <2>2, WalkType, DrainIsWalk
  <1>2. d.tags \in Seq(Tags)
    BY DEF Drained
  <1>3. <<>> \o d.tags = d.tags
    BY <1>2
  <1>4. d = [tags |-> d.tags, rest |-> d.rest]
    BY DEF Drained
  <1> QED BY <1>1, <1>3, <1>4 DEF GoneOn

LEMMA WalkGoesOn ==
    ASSUME NEW b \in Seq(Bytes), NEW c \in Seq(Bytes)
    PROVE  \A i \in 1..Len(b) + 1 : Walk(b \o c, i) = GoneOn(Walk(b, i), c)
  <1> DEFINE n == Len(b) + 1
             K == {i \in 1..n : Walk(b \o c, i) = GoneOn(Walk(b, i), c)}
  <1>0. n \in Nat
    OBVIOUS
  <1>1. PICK e \in Seq(Bytes) :
           /\ e = b \o c /\ Len(e) = Len(b) + Len(c)
           /\ \A k \in 1..Len(b) : e[k] = b[k]
           /\ \A k \in 1..Len(c) : e[Len(b) + k] = c[k]
    BY ConcatIs
  <1>2. Within(b, e, 0)
    BY <1>1 DEF Within
  <1>3. ASSUME NEW i \in 1..n, \A j \in 1..n : j > i => j \in K
        PROVE  i \in K
    <2>0. i \in 1..Len(e) + 1 /\ 0 + i = i
      BY <1>1
    <2>1. CASE NoHeader(b, i)
      <3>1. ASSUME NEW h \in HeadersFrom(e, i) PROVE h >= Len(b)
        <4> SUFFICES ASSUME h < Len(b) PROVE FALSE
          BY DEF HeadersFrom
        <4>1. h \in i..Len(b) - 1 /\ e[h] = R /\ e[h + 1] = F
          BY DEF HeadersFrom
        <4>2. b[h] = R /\ b[h + 1] = F
          <5>1. h \in 1..Len(b) /\ h + 1 \in 1..Len(b)
            BY <4>1
          <5> QED BY <5>1, <4>1, <1>1
        <4> QED BY <4>1, <4>2, <2>1 DEF NoHeader, HeadersFrom
      <3>2. Walk(b, i) = [tags |-> <<>>, rest |-> LeftOver(b, i)]
        BY <2>1, WalkIs
      <3>3. CASE i <= Len(b) /\ b[Len(b)] = R
        <4>1. LeftOver(b, i) = <<R>>
          BY <3>3, LeftOverIs
        <4>2. PICK m \in i..Len(e) : m = Len(b)
          BY <3>3, <1>1
        <4>3. i \in 1..Len(e) /\ m \in 1..Len(b) + 1 /\ m \in 1..Len(e) + 1
          BY <4>2, <1>1
        <4>4. Walk(e, i) = Walk(e, m)
          BY <3>1, <4>2, <4>3, WalkSkips
        <4>5. Walk(e, m) = Drain(SubSeq(e, m, Len(e)))
          BY <4>3, WalkIsDrain
        <4>6. SubSeq(e, m, Len(e)) = SubSeq(b, m, Len(b)) \o c
          BY <4>3, <1>1, RestOfConcat
        <4>7. SubSeq(b, m, Len(b)) = <<R>>
          <5>1. PICK u \in Seq(Bytes) :
                   /\ u = SubSeq(b, m, Len(b)) /\ Len(u) = Len(b) - m + 1
                   /\ \A k \in 1..Len(b) - m + 1 : u[k] = b[k + m - 1]
            BY <4>3, RestIs
          <5>2. Len(u) = 1 /\ u[1] = R
            <6>1. Len(b) - m + 1 = 1 /\ 1 + m - 1 = Len(b)
              BY <4>2
            <6> QED BY <5>1, <6>1, <3>3
          <5>3. PICK w \in Seq(Bytes) : w = <<R>> /\ Len(w) = 1 /\ w[1] = R
            <6>1. R \in Bytes
              BY FrameAssumption
            <6>2. <<R>> \in Seq(Bytes) /\ Len(<<R>>) = 1 /\ <<R>>[1] = R
              BY <6>1
            <6> QED BY <6>2
          <5>4. u = w
            BY <5>2, <5>3, SeqEqual
          <5> QED BY <5>1, <5>3, <5>4
        <4>8. <<R>> \in Seq(Bytes)
          BY FrameAssumption
        <4>9. GoneOn(Walk(b, i), c) = Drain(<<R>> \o c)
          BY <3>2, <4>1, <4>8, GoneOnFromNothing
        <4> QED BY <1>1, <4>4, <4>5, <4>6, <4>7, <4>9
      <3>4. CASE ~(i <= Len(b) /\ b[Len(b)] = R)
        <4>1. LeftOver(b, i) = <<>>
          BY <3>4, LeftOverIs
        <4>2. <<>> \o c = c /\ <<>> \in Seq(Bytes)
          OBVIOUS
        <4>3. GoneOn(Walk(b, i), c) = Drain(c)
          BY <3>2, <4>1, <4>2, GoneOnFromNothing
        <4>4. CASE c = <<>>
          <5>1. e = b
            BY <1>1, <4>4
          <5> QED BY <1>1, <3>2, <4>1, <4>3, <4>4, <5>1, DrainNothing
        <4>5. CASE c # <<>>
          <5>1. Len(c) >= 1
            BY <4>5
          <5>2. PICK m \in i..Len(e) : m = Len(b) + 1
            BY <5>1, <1>1
          <5>3. i \in 1..Len(e) /\ m \in 1..Len(b) + 1 /\ m \in 1..Len(e) + 1
            BY <5>2, <1>1
          <5>4. ASSUME NEW h \in HeadersFrom(e, i) PROVE h >= m
            <6>1. h \in i..Len(e) - 1 /\ e[h] = R /\ h >= Len(b)
              BY <3>1 DEF HeadersFrom
            <6>2. h # Len(b)
              <7> SUFFICES ASSUME h = Len(b) PROVE FALSE
                OBVIOUS
              <7>1. i <= Len(b) /\ h \in 1..Len(b)
                BY <6>1
              <7> QED BY <7>1, <6>1, <1>1, <3>4
            <6> QED BY <6>1, <6>2, <5>2
          <5>5. Walk(e, i) = Walk(e, m)
            BY <5>3, <5>4, WalkSkips
          <5>6. Walk(e, m) = Drain(SubSeq(e, m, Len(e)))
            BY <5>3, WalkIsDrain
          <5>7. SubSeq(e, m, Len(e)) = SubSeq(b, m, Len(b)) \o c
            BY <5>3, <1>1, RestOfConcat
          <5>8. SubSeq(b, m, Len(b)) = <<>>
            BY <5>2, SubSeqEmpty
          <5> QED BY <1>1, <4>2, <4>3, <5>5, <5>6, <5>7, <5>8
        <4> QED BY <4>4, <4>5
      <3> QED BY <3>3, <3>4
    <2>2. CASE Waits(b, i)
      <3>1. PICK s \in i..Len(b) - 1 : s = FirstHeader(b, i)
        BY <2>2, HeadersAreIn DEF Waits
      <3>2. ~NoHeader(e, i) /\ FirstHeader(e, i) = s
        <4>1. ~NoHeader(e, 0 + i) /\ FirstHeader(e, 0 + i) = 0 + s
          BY <1>2, <2>2, <3>1, FirstHeaderAlike DEF Waits
        <4> QED BY <4>1, <2>0
      <3>3. i \in 1..Len(e) /\ s \in i..Len(e) /\ s \in 1..Len(e) + 1 /\ s \in 1..Len(b) + 1
        BY <1>1
      <3>4. \A h \in HeadersFrom(e, i) : h >= s
        <4>1. \A h \in HeadersFrom(e, i) : FirstHeader(e, i) <= h
          BY <2>0, <3>2, HeadersAreIn
        <4>2. \A h \in HeadersFrom(e, i) : h \in Int
          BY DEF HeadersFrom
        <4> QED BY <4>1, <4>2, <3>2
      <3>5. Walk(e, i) = Walk(e, s)
        BY <3>3, <3>4, WalkSkips
      <3>6. Walk(e, s) = Drain(SubSeq(e, s, Len(e)))
        BY <3>3, WalkIsDrain
      <3>7. SubSeq(e, s, Len(e)) = SubSeq(b, s, Len(b)) \o c
        BY <3>3, <1>1, RestOfConcat
      <3>8. Walk(b, i) = [tags |-> <<>>, rest |-> SubSeq(b, s, Len(b))]
        BY <2>2, <3>1, WalkIs DEF Unfinished
      <3>9. SubSeq(b, s, Len(b)) \in Seq(Bytes)
        BY <2>2, <3>1, UnfinishedIs DEF Unfinished
      <3>10. GoneOn(Walk(b, i), c) = Drain(SubSeq(b, s, Len(b)) \o c)
        BY <3>8, <3>9, GoneOnFromNothing
      <3> QED BY <1>1, <3>5, <3>6, <3>7, <3>10
    <2>3. CASE Cuts(b, i)
      <3>1. PICK q \in i + 9..Len(b) + 1, t \in Seq(Tags) :
               q = Behind(b, i) /\ t = TagsOfFrame(FrameCut(b, i))
        BY <2>3, CutIs
      <3>2. Cuts(e, i) /\ Behind(e, i) = q /\ FrameCut(e, i) = FrameCut(b, i)
        <4>1. /\ Cuts(e, 0 + i) /\ Behind(e, 0 + i) = 0 + q
              /\ FrameCut(e, 0 + i) = FrameCut(b, i)
          BY <1>2, <2>3, <3>1, CutAlike
        <4> QED BY <4>1, <2>0
      <3>3. Walk(b, i) = [tags |-> t \o Walk(b, q).tags, rest |-> Walk(b, q).rest]
        BY <2>3, <3>1, WalkIs
      <3>4. Walk(e, i) = [tags |-> t \o Walk(e, q).tags, rest |-> Walk(e, q).rest]
        BY <3>1, <3>2, <2>0, WalkIs
      <3>5. Walk(e, q) = GoneOn(Walk(b, q), c)
        <4>1. q \in 1..n /\ q > i
          OBVIOUS
        <4>2. q \in K
          <5> HIDE DEF K
          <5> QED BY <4>1, <1>3
        <4> QED BY <4>2, <1>1
      <3>6. PICK d \in Drained : d = Walk(b, q)
        BY WalkType
      <3>7. d.tags \in Seq(Tags) /\ d.rest \in Seq(Bytes)
        BY DEF Drained
      <3>8. PICK f : f = Drain(d.rest \o c) /\ f.tags \in Seq(Tags)
        <4>1. d.rest \o c \in Seq(Bytes)
          BY <3>7
        <4> QED BY <4>1, DrainType
      <3>9. Walk(e, i) = [tags |-> t \o (d.tags \o f.tags), rest |-> f.rest]
        BY <3>4, <3>5, <3>6, <3>8 DEF GoneOn
      <3>10. GoneOn(Walk(b, i), c) = [tags |-> (t \o d.tags) \o f.tags, rest |-> f.rest]
        BY <3>3, <3>6, <3>8 DEF GoneOn
      <3>11. t \o (d.tags \o f.tags) = (t \o d.tags) \o f.tags
        <4>1. PICK x \in SeqsOf(Tags), y \in SeqsOf(Tags), z \in SeqsOf(Tags) :
                 x = t /\ y = d.tags /\ z = f.tags
          BY <3>7, <3>8 DEF SeqsOf
        <4>2. (x \o y) \o z = x \o (y \o z)
          BY ONLY JoinAssociative, x \in SeqsOf(Tags), y \in SeqsOf(Tags),
                  z \in SeqsOf(Tags)
        <4> QED BY <4>1, <4>2
      <3> QED BY <1>1, <3>9, <3>10, <3>11
    <2> QED BY <2>1, <2>2, <2>3 DEF Waits, Cuts
  <1>4. \A i \in 1..n : i \in K
    <2> HIDE DEF K, n
    <2> QED BY <1>0, <1>3, DownwardInduction
  <1> QED BY <1>4

\* FrameBuffer.feed, wherever a read ends: bytes that come in two pieces are
\* parsed as if they had come in one, and what is kept of them is the same.
THEOREM FramesInPieces ==
    ASSUME NEW b \in Seq(Bytes), NEW c \in Seq(Bytes)
    PROVE  /\ Drain(b \o c).tags = Drain(b).tags \o Drain(Drain(b).rest \o c).tags
           /\ Drain(b \o c).rest = Drain(Drain(b).rest \o c).rest
  <1>1. 1 \in 1..Len(b) + 1
    OBVIOUS
  <1>2. Walk(b \o c, 1) = GoneOn(Walk(b, 1), c)
    BY <1>1, WalkGoesOn
  <1>3. Drain(b \o c) = Walk(b \o c, 1) /\ Drain(b) = Walk(b, 1)
    BY DrainIsWalk
  <1>4. Drain(b \o c) = GoneOn(Drain(b), c)
    BY <1>2, <1>3
  <1>5. PICK d, f : d = Drain(b) /\ f = Drain(d.rest \o c)
    OBVIOUS
  <1>6. Drain(b \o c) = [tags |-> d.tags \o f.tags, rest |-> f.rest]
    BY <1>4, <1>5 DEF GoneOn
  <1>7. Drain(b \o c).tags = d.tags \o f.tags /\ Drain(b \o c).rest = f.rest
    <2>1. PICK t, r : t = d.tags \o f.tags /\ r = f.rest
      OBVIOUS
    <2>2. Drain(b \o c) = [tags |-> t, rest |-> r]
      BY <1>6, <2>1
    <2>3. Drain(b \o c).tags = t /\ Drain(b \o c).rest = r
      BY <2>2
    <2> QED BY <2>1, <2>3
  <1> QED BY <1>5, <1>7

LEMMA DrainIs ==
    ASSUME NEW b \in Seq(Bytes)
    PROVE  \E d \in Drained : d = Drain(b)
  <1>1. 1 \in 1..Len(b) + 1
    OBVIOUS
  <1>2. Walk(b, 1) \in Drained
    BY <1>1, WalkType
  <1> QED BY <1>2, DrainIsWalk

\* There is nothing in the buffer that could be reported.
Parsed(b) == Drain(b) = [tags |-> <<>>, rest |-> b]

(* What does not add to a sequence is empty.                               *)
LEMMA NothingAdded ==
    ASSUME NEW T, NEW x \in Seq(T), NEW y \in Seq(T), x = x \o y
    PROVE  y = <<>>
  <1>1. Len(x) = Len(x) + Len(y)
    BY ConcatProperties
  <1>2. Len(y) = 0
    BY <1>1
  <1> QED BY <1>2, EmptySeq

(* What the parser leaves in the buffer holds nothing more for it.         *)
LEMMA DrainTwice ==
    ASSUME NEW b \in Seq(Bytes)
    PROVE  Parsed(Drain(b).rest)
  <1>1. PICK d \in Drained : d = Drain(b)
    BY DrainIs
  <1>2. d.tags \in Seq(Tags) /\ d.rest \in Seq(Bytes)
    BY DEF Drained
  <1>3. PICK f \in Drained : f = Drain(d.rest)
    BY <1>2, DrainIs
  <1>4. f.tags \in Seq(Tags) /\ f = [tags |-> f.tags, rest |-> f.rest]
    BY DEF Drained
  <1>5. <<>> \in Seq(Bytes) /\ b \o <<>> = b /\ d.rest \o <<>> = d.rest
    BY <1>2, ConcatEmptySeq
  <1>6. d.tags = d.tags \o f.tags /\ d.rest = f.rest
    BY <1>1, <1>3, <1>5, FramesInPieces
  <1>7. f.tags = <<>>
    BY <1>2, <1>4, <1>6, NothingAdded
  <1> QED BY <1>1, <1>3, <1>4, <1>6, <1>7 DEF Parsed

\* A frame in the buffer is one that has not arrived in full.
Short(r) == Len(r) > FixedHeaderLen => Len(r) < FrameLenAt(r, 1)

LEMMA WalkLeavesShort ==
    ASSUME NEW b \in Seq(Bytes)
    PROVE  \A i \in 1..Len(b) + 1 : Short(Walk(b, i).rest)
  <1> DEFINE n == Len(b) + 1
             K == {i \in 1..n : Short(Walk(b, i).rest)}
  <1>0. n \in Nat
    OBVIOUS
  <1>1. ASSUME NEW i \in 1..n, \A j \in 1..n : j > i => j \in K
        PROVE  i \in K
    <2>1. CASE NoHeader(b, i)
      <3>1. Walk(b, i).rest = LeftOver(b, i)
        BY <2>1, WalkIs
      <3>2. Len(<<R>>) = 1 /\ Len(<<>>) = 0
        OBVIOUS
      <3>3. Len(LeftOver(b, i)) \in 0..1
        BY <3>2, LeftOverIs
      <3>4. ~(Len(Walk(b, i).rest) > FixedHeaderLen)
        <4>1. PICK l \in 0..1 : l = Len(LeftOver(b, i))
          BY <3>3
        <4>2. ~(l > FixedHeaderLen)
          BY DEF FixedHeaderLen
        <4> QED BY <3>1, <4>1, <4>2
      <3>5. Short(Walk(b, i).rest)
        BY <3>4 DEF Short
      <3> QED BY <3>5
    <2>2. CASE Waits(b, i)
      <3>1. PICK s \in i..Len(b) - 1 : s = FirstHeader(b, i) /\ ~Complete(b, s)
        BY <2>2, HeadersAreIn DEF Waits
      <3>2. s \in 1..Len(b) + 1 /\ s \in 1..Len(b)
        OBVIOUS
      <3>3. PICK r \in Seq(Bytes) :
               /\ r = SubSeq(b, s, Len(b)) /\ Len(r) = Len(b) - s + 1
               /\ \A k \in 1..Len(b) - s + 1 : r[k] = b[k + s - 1]
        BY <3>2, RestIs
      <3>4. Walk(b, i).rest = r
        BY <2>2, <3>1, <3>3, WalkIs DEF Unfinished
      <3>5. ASSUME Len(r) > 8 PROVE Len(r) < FrameLenAt(r, 1)
        <4>1. PICK o \in Nat : o = s - 1
          BY <3>2
        <4>2. Within(r, b, o)
          <5>1. \A k \in 1..Len(r) : o + k = k + s - 1
            BY <4>1
          <5> QED BY <3>3, <4>1, <5>1 DEF Within
        <4>3. 1 \in 1..Len(r) /\ 1 + 7 <= Len(r) /\ o + 1 = s /\ s + 7 <= Len(b)
          BY <3>5, <3>3, <4>1
        <4>4. FrameLenAt(r, 1) = FrameLenAt(b, s)
          BY <4>2, <4>3, FrameLenAlike
        <4>5. FrameLenAt(b, s) \in Nat
          BY <3>2, <4>3, FrameLenIs
        <4> QED BY <3>1, <3>3, <3>5, <4>4, <4>5 DEF Complete, FixedHeaderLen
      <3> QED BY <3>4, <3>5 DEF Short, FixedHeaderLen
    <2>3. CASE Cuts(b, i)
      <3>1. PICK q \in i + 9..Len(b) + 1 : q = Behind(b, i)
        BY <2>3, CutIs
      <3>2. q \in K
        <4>1. q \in 1..n /\ q > i
          OBVIOUS
        <4> HIDE DEF K
        <4> QED BY <4>1, <1>1
      <3>3. Walk(b, i).rest = Walk(b, q).rest
        BY <2>3, <3>1, WalkIs
      <3> QED BY <3>2, <3>3
    <2> QED BY <2>1, <2>2, <2>3 DEF Waits, Cuts
  <1>2. \A i \in 1..n : i \in K
    <2> HIDE DEF K, n
    <2> QED BY <1>0, <1>1, DownwardInduction
  <1> QED BY <1>2

LEMMA DrainLeavesShort ==
    ASSUME NEW b \in Seq(Bytes)
    PROVE  Short(Drain(b).rest)
  <1>1. 1 \in 1..Len(b) + 1
    OBVIOUS
  <1> QED BY <1>1, WalkLeavesShort, DrainIsWalk

-----------------------------------------------------------------------------
(* The frames the board builds.                                            *)

\* A frame as the protocol wants it: its length field tells its length.
Framed(f) ==
    /\ f \in Seq(Bytes) /\ Len(f) >= 9
    /\ f[1] = R /\ f[2] = F
    /\ FrameLenAt(f, 1) = Len(f)

LEMMA DivOfSmall ==
    ASSUME NEW m \in Nat, m > 1, NEW n \in Nat, n < 2 * m
    PROVE  ((n \div m) % m) * m + (n % m) = n
  <1>1. CASE n < m
    <2>1. n \div m = 0 /\ n % m = n
      BY <1>1
    <2>2. 0 % m = 0 /\ 0 * m = 0
      OBVIOUS
    <2> QED BY <2>1, <2>2
  <1>2. CASE n >= m
    <2>1. n \div m = 1 /\ n % m = n - m
      BY <1>2
    <2>2. 1 % m = 1 /\ 1 * m = m
      OBVIOUS
    <2> QED BY <2>1, <2>2
  <1> QED BY <1>1, <1>2

LEMMA PairIs ==
    ASSUME NEW a \in Bytes, NEW c \in Bytes
    PROVE  \E e \in Seq(Bytes) :
              e = <<a, c>> /\ Len(e) = 2 /\ e[1] = a /\ e[2] = c
  <1>1. /\ <<a, c>> \in Seq(Bytes) /\ Len(<<a, c>>) = 2
        /\ <<a, c>>[1] = a /\ <<a, c>>[2] = c
    OBVIOUS
  <1> QED BY <1>1

(* The fixed part of a frame, with the length field at its end.            *)
LEMMA FixedPartIs ==
    ASSUME NEW type \in Bytes, NEW code \in Bytes,
           NEW a \in Seq(Bytes), Len(a) = 2,
           NEW l \in Seq(Bytes), Len(l) = 2
    PROVE  \E h \in Seq(Bytes) :
              /\ h = <<R, F, type>> \o a \o <<code>> \o l /\ Len(h) = 8
              /\ h[1] = R /\ h[2] = F /\ h[7] = l[1] /\ h[8] = l[2]
  <1>1. R \in Bytes /\ F \in Bytes
    BY FrameAssumption
  <1>2. PICK u \in Seq(Bytes) :
           u = <<R, F, type>> /\ Len(u) = 3 /\ u[1] = R /\ u[2] = F
    <2>1. /\ <<R, F, type>> \in Seq(Bytes) /\ Len(<<R, F, type>>) = 3
          /\ <<R, F, type>>[1] = R /\ <<R, F, type>>[2] = F
      BY <1>1
    <2> QED BY <2>1
  <1>3. PICK v \in Seq(Bytes) : v = <<code>> /\ Len(v) = 1
    <2>1. <<code>> \in Seq(Bytes) /\ Len(<<code>>) = 1
      OBVIOUS
    <2> QED BY <2>1
  <1>4. PICK x \in Seq(Bytes) : x = u \o a /\ Len(x) = 5 /\ x[1] = R /\ x[2] = F
    <2>1. PICK x \in Seq(Bytes) :
             /\ x = u \o a /\ Len(x) = Len(u) + Len(a)
             /\ \A k \in 1..Len(u) : x[k] = u[k]
      BY ConcatIs
    <2>2. 1 \in 1..Len(u) /\ 2 \in 1..Len(u) /\ Len(u) + Len(a) = 5
      BY <1>2
    <2> QED BY <2>1, <2>2, <1>2
  <1>5. PICK y \in Seq(Bytes) : y = x \o v /\ Len(y) = 6 /\ y[1] = R /\ y[2] = F
    <2>1. PICK y \in Seq(Bytes) :
             /\ y = x \o v /\ Len(y) = Len(x) + Len(v)
             /\ \A k \in 1..Len(x) : y[k] = x[k]
      BY ConcatIs
    <2>2. 1 \in 1..Len(x) /\ 2 \in 1..Len(x) /\ Len(x) + Len(v) = 6
      BY <1>3, <1>4
    <2> QED BY <2>1, <2>2, <1>4
  <1>6. PICK h \in Seq(Bytes) :
           /\ h = y \o l /\ Len(h) = 8
           /\ h[1] = R /\ h[2] = F /\ h[7] = l[1] /\ h[8] = l[2]
    <2>1. PICK h \in Seq(Bytes) :
             /\ h = y \o l /\ Len(h) = Len(y) + Len(l)
             /\ \A k \in 1..Len(y) : h[k] = y[k]
             /\ \A k \in 1..Len(l) : h[Len(y) + k] = l[k]
      BY ConcatIs
    <2>2. /\ 1 \in 1..Len(y) /\ 2 \in 1..Len(y) /\ Len(y) + Len(l) = 8
          /\ 1 \in 1..Len(l) /\ 2 \in 1..Len(l)
          /\ Len(y) + 1 = 7 /\ Len(y) + 2 = 8
      BY <1>5
    <2>3. h[7] = l[1] /\ h[8] = l[2]
      BY <2>1, <2>2
    <2> QED BY <2>1, <2>2, <2>3, <1>5
  <1> QED BY <1>2, <1>3, <1>4, <1>5, <1>6

LEMMA BuildFrameIsFramed ==
    ASSUME NEW type \in Bytes, NEW address \in Int, NEW code \in Bytes,
           NEW params \in Seq(Bytes), Len(params) < 2 * ByteRange
    PROVE  Framed(BuildFrame(type, address, code, params))
  <1>1. R \in Bytes /\ F \in Bytes /\ ByteRange \in Nat /\ ByteRange > 1
    BY FrameAssumption
  <1>2. PICK a \in Seq(Bytes) : a = Word(address) /\ Len(a) = 2
    BY WordIsBytes
  <1>3. PICK n \in Nat : n = Len(params)
    OBVIOUS
  <1>4. PICK l1 \in Bytes, l2 \in Bytes :
           Word(n) = <<l1, l2>> /\ l1 * ByteRange + l2 = n
    <2>1. n \div ByteRange \in Int
      BY <1>1
    <2>2. PICK l1 \in Bytes, l2 \in Bytes :
             l1 = (n \div ByteRange) % ByteRange /\ l2 = n % ByteRange
      BY <2>1, ModIsByte
    <2>3. ((n \div ByteRange) % ByteRange) * ByteRange + (n % ByteRange) = n
      BY <1>1, <1>3, DivOfSmall
    <2>4. Word(n) = <<l1, l2>>
      BY <2>2 DEF Word
    <2> QED BY <2>2, <2>3, <2>4
  <1>5. PICK l \in Seq(Bytes) : l = Word(n) /\ Len(l) = 2 /\ l[1] = l1 /\ l[2] = l2
    BY <1>4, PairIs
  <1>6. PICK head \in Seq(Bytes) :
           /\ head = <<R, F, type>> \o Word(address) \o <<code>> \o Word(n)
           /\ Len(head) = 8
           /\ head[1] = R /\ head[2] = F /\ head[7] = l1 /\ head[8] = l2
    <2>1. PICK h \in Seq(Bytes) :
             /\ h = <<R, F, type>> \o a \o <<code>> \o l /\ Len(h) = 8
             /\ h[1] = R /\ h[2] = F /\ h[7] = l[1] /\ h[8] = l[2]
      <3>1. Len(a) = 2 /\ Len(l) = 2
        BY <1>2, <1>5
      <3> QED BY <3>1, FixedPartIs, Zenon
    <2>2. h = <<R, F, type>> \o Word(address) \o <<code>> \o Word(n)
      BY <2>1, <1>2, <1>5
    <2>3. h[7] = l1 /\ h[8] = l2
      BY <2>1, <1>5
    <2> QED BY <2>1, <2>2, <2>3
  <1>8. BuildFrame(type, address, code, params)
           = Append(head \o params, Checksum(head \o params))
    BY <1>6, <1>3 DEF BuildFrame
  <1>9. PICK b \in Seq(Bytes) :
           /\ b = head \o params /\ Len(b) = 8 + n
           /\ b[1] = R /\ b[2] = F /\ b[7] = l1 /\ b[8] = l2
    <2>1. PICK e \in Seq(Bytes) :
             /\ e = head \o params /\ Len(e) = Len(head) + Len(params)
             /\ \A k \in 1..Len(head) : e[k] = head[k]
      BY ConcatIs
    <2>2. 1 \in 1..Len(head) /\ 2 \in 1..Len(head) /\ 7 \in 1..Len(head) /\ 8 \in 1..Len(head)
      BY <1>6
    <2>3. e[1] = R /\ e[2] = F /\ e[7] = l1 /\ e[8] = l2
      BY <2>1, <2>2, <1>6
    <2>4. Len(e) = 8 + n
      BY <2>1, <1>6, <1>3
    <2> QED BY <2>1, <2>3, <2>4
  <1>10. PICK c \in Bytes : c = Checksum(b)
    BY ChecksumIsByte
  <1>11. PICK f \in Seq(Bytes) :
            /\ f = Append(b, c) /\ Len(f) = 9 + n
            /\ f[1] = R /\ f[2] = F /\ f[7] = l1 /\ f[8] = l2
    <2>0. /\ Append(b, c) \in Seq(Bytes) /\ Len(Append(b, c)) = Len(b) + 1
          /\ \A k \in 1..Len(b) : Append(b, c)[k] = b[k]
      BY AppendProperties
    <2>1. PICK f \in Seq(Bytes) :
             /\ f = Append(b, c) /\ Len(f) = Len(b) + 1
             /\ \A k \in 1..Len(b) : f[k] = b[k]
      BY <2>0
    <2>2. 1 \in 1..Len(b) /\ 2 \in 1..Len(b) /\ 7 \in 1..Len(b) /\ 8 \in 1..Len(b)
      BY <1>9
    <2>3. f[1] = R /\ f[2] = F /\ f[7] = l1 /\ f[8] = l2
      BY <2>1, <2>2, <1>9
    <2>4. Len(f) = 9 + n
      BY <2>1, <1>9
    <2> QED BY <2>1, <2>3, <2>4
  <1>12. FrameLenAt(f, 1) = Len(f)
    <2>1. 1 + 6 = 7 /\ 1 + 7 = 8
      OBVIOUS
    <2>2. PICK x \in Nat : x = l1 * ByteRange /\ x + l2 = n
      <3>1. l1 * ByteRange \in Nat
        BY <1>1 DEF Bytes
      <3> QED BY <3>1, <1>4
    <2>3. l2 \in Nat
      BY <1>1 DEF Bytes
    <2>4. FrameLenAt(f, 1) = 8 + f[7] * ByteRange + f[8] + 1
      BY <2>1 DEF FrameLenAt, FixedHeaderLen
    <2>5. FrameLenAt(f, 1) = 8 + x + l2 + 1
      BY <1>11, <2>2, <2>4
    <2>6. 8 + x + l2 + 1 = 9 + n
      <3>1. PICK y \in Nat : y = l2
        BY <2>3
      <3>2. x + y = n
        BY <3>1, <2>2
      <3>3. 8 + x + y + 1 = 9 + n
        BY <3>2
      <3> QED BY <3>1, <3>3
    <2> QED BY <1>11, <2>5, <2>6
  <1>13. Framed(f)
    BY <1>11, <1>12 DEF Framed
  <1> QED BY <1>8, <1>9, <1>10, <1>11, <1>13

LEMMA TlvIs ==
    ASSUME NEW type \in Bytes, NEW value \in Seq(Bytes), Len(value) < ByteRange
    PROVE  \E e \in Seq(Bytes) : e = Tlv(type, value) /\ Len(e) = 2 + Len(value)
  <1>1. Len(value) \in Bytes
    BY FrameAssumption DEF Bytes
  <1>2. <<type, Len(value)>> \in Seq(Bytes) /\ Len(<<type, Len(value)>>) = 2
    BY <1>1
  <1>3. PICK h \in Seq(Bytes) : h = <<type, Len(value)>> /\ Len(h) = 2
    BY <1>2
  <1>4. PICK e \in Seq(Bytes) : e = h \o value /\ Len(e) = Len(h) + Len(value)
    BY ConcatIs
  <1> QED BY <1>3, <1>4 DEF Tlv

LEMMA SuccessResponseIsFramed ==
    ASSUME NEW code \in Bytes
    PROVE  Framed(SuccessResponse(Address, code))
  <1>1. ByteRange \in Nat /\ ByteRange > 1 /\ TlvStatus \in Bytes /\ Response \in Bytes
    BY FrameAssumption
  <1>2. 0 \in Bytes /\ 1 \in Bytes
    BY <1>1 DEF Bytes
  <1>3. <<TlvStatus, 1, 0>> \in Seq(Bytes) /\ Len(<<TlvStatus, 1, 0>>) = 3
    BY <1>1, <1>2
  <1>4. PICK q \in Seq(Bytes) : q = <<TlvStatus, 1, 0>> /\ Len(q) = 3
    BY <1>3
  <1>5. Len(q) < 2 * ByteRange
    BY <1>1, <1>4
  <1>6. Address \in Int
    BY GatewayAssumption
  <1> QED BY <1>1, <1>4, <1>5, <1>6, BuildFrameIsFramed DEF SuccessResponse

LEMMA HeldIs ==
    ASSUME NEW i \in DOMAIN Held
    PROVE  /\ Held[i].epc \in Seq(Bytes) /\ Len(Held[i].epc) + 5 < ByteRange
           /\ Held[i].rssi \in Int
  <1> DEFINE S == [epc : Seq(Bytes), rssi : Strengths]
  <1>1. Held \in Seq(S)
    BY GatewayAssumption
  <1>2. Held[i] \in S
    <2> HIDE DEF S
    <2> QED BY <1>1, ElementOfSeq
  <1>3. Held[i].epc \in Seq(Bytes) /\ Held[i].rssi \in Strengths
    BY <1>2
  <1> QED BY <1>3, FrameAssumption, GatewayAssumption DEF Strengths

LEMMA TagNotificationIsFramed ==
    ASSUME NEW i \in DOMAIN Held
    PROVE  Framed(TagNotification(Address, Held[i], TagUpload))
  <1>1. /\ ByteRange \in Nat /\ ByteRange > 1 /\ Notification \in Bytes
        /\ TagUpload \in Bytes /\ TlvEpc \in Bytes /\ TlvRssi \in Bytes /\ TlvTag \in Bytes
    BY FrameAssumption
  <1>2. PICK epc \in Seq(Bytes) : epc = Held[i].epc /\ Len(epc) + 5 < ByteRange
    BY HeldIs
  <1>3. PICK r \in Seq(Bytes) : r = <<Held[i].rssi % ByteRange>> /\ Len(r) = 1
    <2>1. Held[i].rssi \in Int
      BY HeldIs
    <2>2. PICK x \in Bytes : x = Held[i].rssi % ByteRange
      BY <2>1, ModIsByte
    <2>3. <<x>> \in Seq(Bytes) /\ Len(<<x>>) = 1
      OBVIOUS
    <2> QED BY <2>2, <2>3
  <1>4. PICK u \in Seq(Bytes) : u = Tlv(TlvEpc, epc) /\ Len(u) = 2 + Len(epc)
    <2>1. Len(epc) < ByteRange
      BY <1>1, <1>2
    <2> QED BY <1>1, <2>1, TlvIs
  <1>5. PICK v \in Seq(Bytes) : v = Tlv(TlvRssi, r) /\ Len(v) = 3
    <2>1. Len(r) < ByteRange
      BY <1>1, <1>3
    <2>2. PICK v \in Seq(Bytes) : v = Tlv(TlvRssi, r) /\ Len(v) = 2 + Len(r)
      BY <1>1, <2>1, TlvIs
    <2> QED BY <2>2, <1>3
  <1>6. PICK w \in Seq(Bytes) : w = u \o v /\ Len(w) = Len(epc) + 5
    <2>1. PICK w \in Seq(Bytes) : w = u \o v /\ Len(w) = Len(u) + Len(v)
      BY ConcatIs
    <2>2. Len(u) + Len(v) = Len(epc) + 5
      BY <1>4, <1>5
    <2> QED BY <2>1, <2>2
  <1>7. PICK q \in Seq(Bytes) : q = Tlv(TlvTag, w) /\ Len(q) = 2 + Len(w)
    <2>1. Len(w) < ByteRange
      BY <1>1, <1>2, <1>6
    <2> QED BY <1>1, <2>1, TlvIs
  <1>8. Len(q) < 2 * ByteRange
    BY <1>1, <1>2, <1>6, <1>7
  <1>9. Address \in Int
    BY GatewayAssumption
  <1>10. Framed(BuildFrame(Notification, Address, TagUpload, q))
    BY <1>1, <1>8, <1>9, BuildFrameIsFramed
  <1>11. TagNotification(Address, Held[i], TagUpload)
            = BuildFrame(Notification, Address, TagUpload, q)
    BY <1>2, <1>3, <1>4, <1>5, <1>6, <1>7 DEF TagNotification
  <1> QED BY <1>10, <1>11

-----------------------------------------------------------------------------
(* Where the frames lie in the stream.                                     *)

\* l has the lengths of the first frames, joined.
Lengths(n, frames, l) ==
    l[0] = 0 /\ \A i \in 1..n : l[i] = l[i - 1] + Len(frames[i])

LEMMA PartJoinsAlike ==
    ASSUME NEW m \in Nat, NEW n \in Nat, m <= n,
           NEW s, NEW t, NEW g, NEW h, Joins(n, s, g), Joins(m, t, h),
           \A i \in 1..m : s[i] = t[i]
    PROVE  \A k \in 0..m : g[k] = h[k]
  <1>1. ASSUME NEW l \in Nat, m <= l, Joins(l, t, h)
        PROVE  \A k \in 0..m : g[k] = h[k]
    BY <1>1, JoinsAgree
  <1>2. m <= m
    OBVIOUS
  <1> QED BY <1>1, <1>2

LEMMA LengthsExist ==
    ASSUME NEW n \in Nat, NEW frames \in Seq(SeqsOf(Bytes)), Len(frames) = n
    PROVE  \E l \in [0..n -> Nat] :
              /\ Lengths(n, frames, l)
              /\ l[n] = Len(FlattenSeq(frames))
              /\ \A i \in 1..n : Len(FlattenSeq(SubSeq(frames, 1, i - 1))) = l[i - 1]
  <1>1. Rows(n, frames, Bytes)
    <2>1. \A i \in 1..n : frames[i] \in SeqsOf(Bytes)
      BY ElementOfSeq
    <2>2. n = 0 => frames = <<>>
      BY EmptySeq
    <2> QED BY <2>1, <2>2 DEF Rows, Nothing
  <1>2. PICK g \in [0..n -> SeqsOf(Bytes)] :
           Joins(n, frames, g) /\ FlattenSeq(frames) = g[n]
    BY <1>1, FlattenJoins
  <1> DEFINE l == [k \in 0..n |-> Len(g[k])]
  <1>3. ASSUME NEW k \in 0..n PROVE Len(g[k]) \in Nat
    <2>1. g[k] \in Seq(Bytes)
      BY DEF SeqsOf
    <2> QED BY <2>1
  <1>4. l \in [0..n -> Nat]
    BY <1>3
  <1>5. l[0] = 0
    <2>1. g[0] = Nothing
      BY <1>2, JoinOfNone
    <2>2. Len(Nothing) = 0
      BY DEF Nothing
    <2> QED BY <2>1, <2>2
  <1>6. ASSUME NEW i \in 1..n PROVE l[i] = l[i - 1] + Len(frames[i])
    <2>1. g[i] = g[i - 1] \o frames[i]
      BY <1>2, JoinIs
    <2>2. PICK x \in Seq(Bytes), y \in Seq(Bytes) : x = g[i - 1] /\ y = frames[i]
      <3>1. i - 1 \in 0..n
        OBVIOUS
      <3>2. g[i - 1] \in SeqsOf(Bytes) /\ frames[i] \in SeqsOf(Bytes)
        BY <1>1, <3>1, RowIs
      <3> QED BY <3>2 DEF SeqsOf
    <2>3. Len(x \o y) = Len(x) + Len(y)
      BY ConcatProperties
    <2>4. l[i] = Len(g[i]) /\ l[i - 1] = Len(g[i - 1])
      OBVIOUS
    <2> HIDE DEF l
    <2> QED BY <2>1, <2>2, <2>3, <2>4
  <1>7. ASSUME NEW i \in 1..n
        PROVE  Len(FlattenSeq(SubSeq(frames, 1, i - 1))) = l[i - 1]
    <2>1. PICK m \in 0..n : m = i - 1
      OBVIOUS
    <2>2. PICK t \in Seq(SeqsOf(Bytes)) :
             /\ t = SubSeq(frames, 1, m) /\ Len(t) = m
             /\ \A k \in 1..m : t[k] = frames[k]
      <3>1. 1 \in Nat /\ m \in Nat /\ 1 <= m + 1 /\ m <= Len(frames) /\ m - 1 + 1 = m
        OBVIOUS
      <3>2. /\ SubSeq(frames, 1, m) \in Seq(SeqsOf(Bytes))
            /\ Len(SubSeq(frames, 1, m)) = m
            /\ \A k \in 1..m : SubSeq(frames, 1, m)[k] = frames[k + 1 - 1]
        BY <3>1, PartIs
      <3>3. \A k \in 1..m : k + 1 - 1 = k
        OBVIOUS
      <3> QED BY <3>2, <3>3
    <2>3. Rows(m, t, Bytes)
      <3>1. \A k \in 1..m : t[k] \in SeqsOf(Bytes)
        BY <2>2, ElementOfSeq
      <3>2. m = 0 => t = <<>>
        BY <2>2, EmptySeq
      <3>3. m \in Nat
        OBVIOUS
      <3> QED BY <2>2, <3>1, <3>2, <3>3 DEF Rows, Nothing
    <2>4. m \in Nat
      OBVIOUS
    <2>5. PICK h \in [0..m -> SeqsOf(Bytes)] : Joins(m, t, h) /\ FlattenSeq(t) = h[m]
      BY <2>3, <2>4, FlattenJoins
    <2>6. m <= n /\ m <= m /\ m \in 0..m
      OBVIOUS
    <2>7. \A k \in 0..m : g[k] = h[k]
      <3>1. \A k \in 1..m : frames[k] = t[k]
        BY <2>2
      <3>2. Joins(n, frames, g) /\ Joins(m, t, h)
        BY <1>2, <2>5
      <3> QED BY <2>4, <2>6, <3>1, <3>2, PartJoinsAlike
    <2>8. FlattenSeq(SubSeq(frames, 1, i - 1)) = g[m]
      BY <2>1, <2>2, <2>5, <2>6, <2>7
    <2> QED BY <2>1, <2>8
  <1>8. l[n] = Len(FlattenSeq(frames))
    BY <1>2
  <1> HIDE DEF l
  <1> QED BY <1>4, <1>5, <1>6, <1>7, <1>8 DEF Lengths

LEMMA LengthsRise ==
    ASSUME NEW n \in Nat, NEW frames, NEW l \in [0..n -> Nat], Lengths(n, frames, l),
           \A i \in 1..n : Len(frames[i]) \in Nat
    PROVE  \A k \in 0..n : \A i \in 0..k : l[i] <= l[k]
  <1> DEFINE K == {k \in 0..n : \A i \in 0..k : l[i] <= l[k]}
  <1>1. 0 \in K
    <2>1. \A i \in 0..0 : i = 0
      OBVIOUS
    <2>2. l[0] \in Nat
      OBVIOUS
    <2> QED BY <2>1, <2>2
  <1>2. ASSUME NEW k \in 1..n, k - 1 \in K PROVE k \in K
    <2>1. l[k] = l[k - 1] + Len(frames[k])
      BY DEF Lengths
    <2>2. l[k - 1] \in Nat /\ l[k] \in Nat /\ Len(frames[k]) \in Nat
      <3>1. k - 1 \in 0..n /\ k \in 0..n
        OBVIOUS
      <3> QED BY <3>1
    <2>3. l[k - 1] <= l[k]
      BY <2>1, <2>2
    <2>4. ASSUME NEW i \in 0..k PROVE l[i] <= l[k]
      <3>1. l[i] \in Nat
        OBVIOUS
      <3>2. CASE i = k
        BY <3>2, <3>1
      <3>3. CASE i # k
        <4>1. i \in 0..k - 1
          BY <3>3
        <4>2. l[i] <= l[k - 1]
          BY <4>1, <1>2
        <4> QED BY <2>2, <2>3, <3>1, <4>2
      <3> QED BY <3>2, <3>3
    <2> QED BY <2>4
  <1>3. \A k \in 0..n : k \in K
    <2> HIDE DEF K
    <2> QED BY <1>1, <1>2, StepwiseInduction
  <1> QED BY <1>3

Places == [at : Nat, frame : SeqsOf(Bytes)]

\* The frames that were sent lie in the first n bytes of the stream, one behind
\* the other.
Laid(n, frames) ==
    /\ frames \in Seq(Places)
    /\ \A i \in 1..Len(frames) :
          /\ Framed(frames[i].frame)
          /\ frames[i].at >= 1
          /\ frames[i].at + Len(frames[i].frame) <= n + 1
    /\ \A i, j \in 1..Len(frames) :
          i < j => frames[i].at + Len(frames[i].frame) <= frames[j].at

LEMMA PlaceIs ==
    ASSUME NEW n \in Nat, NEW frames, Laid(n, frames), NEW i \in 1..Len(frames)
    PROVE  /\ frames[i] \in Places /\ Framed(frames[i].frame)
           /\ frames[i].at \in 1..n /\ Len(frames[i].frame) \in Nat
           /\ Len(frames[i].frame) >= 9
           /\ frames[i].at + Len(frames[i].frame) <= n + 1
  <1>1. frames[i] \in Places
    BY ElementOfSeq DEF Laid
  <1>2. /\ Framed(frames[i].frame) /\ frames[i].at >= 1
        /\ frames[i].at + Len(frames[i].frame) <= n + 1
    BY DEF Laid
  <1>3. frames[i].at \in Nat
    BY <1>1 DEF Places
  <1>4. Len(frames[i].frame) \in Nat /\ Len(frames[i].frame) >= 9
    BY <1>2 DEF Framed
  <1> QED BY <1>1, <1>2, <1>3, <1>4

LEMMA LaidLonger ==
    ASSUME NEW n \in Nat, NEW m \in Nat, n <= m, NEW frames, Laid(n, frames)
    PROVE  Laid(m, frames)
  <1>1. ASSUME NEW i \in 1..Len(frames)
        PROVE  frames[i].at + Len(frames[i].frame) <= m + 1
    <2>1. PICK a \in Nat, l \in Nat :
             a = frames[i].at /\ l = Len(frames[i].frame) /\ a + l <= n + 1
      BY PlaceIs
    <2> QED BY <2>1
  <1> QED BY <1>1 DEF Laid

LEMMA ConcatOfPlaces ==
    ASSUME NEW b \in Seq(Places), NEW c \in Seq(Places)
    PROVE  \E e \in Seq(Places) :
              /\ e = b \o c /\ Len(e) = Len(b) + Len(c)
              /\ \A k \in 1..Len(b) : e[k] = b[k]
              /\ \A k \in 1..Len(c) : e[Len(b) + k] = c[k]
  <1>0. b \o c \in Seq(Places)
    BY ConcatProperties
  <1>1. PICK e \in Seq(Places) : e = b \o c
    BY <1>0
  <1>2. /\ Len(e) = Len(b) + Len(c)
        /\ \A k \in 1..Len(b) + Len(c) :
              e[k] = IF k <= Len(b) THEN b[k] ELSE c[k - Len(b)]
    BY <1>1, ConcatProperties
  <1>3. ASSUME NEW k \in 1..Len(c) PROVE e[Len(b) + k] = c[k]
    <2>1. /\ Len(b) + k \in 1..Len(b) + Len(c) /\ ~(Len(b) + k <= Len(b))
          /\ (Len(b) + k) - Len(b) = k
      OBVIOUS
    <2> QED BY <1>2, <2>1
  <1>4. ASSUME NEW k \in 1..Len(b) PROVE e[k] = b[k]
    BY <1>2
  <1> QED BY <1>1, <1>2, <1>3, <1>4

\* The places of frames that are written behind the first n bytes.
PlacesOf(n, frames) ==
    [i \in DOMAIN frames |->
        [at |-> n + 1 + Len(FlattenSeq(SubSeq(frames, 1, i - 1))),
         frame |-> frames[i]]]

LEMMA LaidMore ==
    ASSUME NEW n \in Nat, NEW old, Laid(n, old),
           NEW frames \in Seq(SeqsOf(Bytes)),
           \A i \in 1..Len(frames) : Framed(frames[i])
    PROVE  /\ Len(FlattenSeq(frames)) \in Nat
           /\ Laid(n + Len(FlattenSeq(frames)), old \o PlacesOf(n, frames))
  <1>1. PICK c \in Nat : c = Len(frames)
    OBVIOUS
  <1>2. PICK l \in [0..c -> Nat] :
           /\ Lengths(c, frames, l)
           /\ l[c] = Len(FlattenSeq(frames))
           /\ \A i \in 1..c : Len(FlattenSeq(SubSeq(frames, 1, i - 1))) = l[i - 1]
    BY <1>1, LengthsExist
  <1>3. ASSUME NEW i \in 1..c
        PROVE  /\ Len(frames[i]) \in Nat /\ frames[i] \in SeqsOf(Bytes)
               /\ l[i] \in Nat /\ l[i - 1] \in Nat
               /\ l[i] = l[i - 1] + Len(frames[i])
    <2>1. frames[i] \in SeqsOf(Bytes)
      BY <1>1, ElementOfSeq
    <2>2. Len(frames[i]) \in Nat
      BY <2>1 DEF SeqsOf
    <2>3. i \in 0..c /\ i - 1 \in 0..c
      OBVIOUS
    <2> QED BY <2>1, <2>2, <2>3, <1>2 DEF Lengths
  <1>4. \A k \in 0..c : \A i \in 0..k : l[i] <= l[k]
    BY <1>2, <1>3, LengthsRise
  <1>5. PICK new \in Seq(Places) :
           /\ new = PlacesOf(n, frames) /\ Len(new) = c
           /\ \A i \in 1..c : new[i].at = n + 1 + l[i - 1] /\ new[i].frame = frames[i]
    <2> DEFINE new == [i \in 1..c |-> [at |-> n + 1 + l[i - 1], frame |-> frames[i]]]
    <2>1. ASSUME NEW i \in 1..c
          PROVE  [at |-> n + 1 + l[i - 1], frame |-> frames[i]] \in Places
      BY <1>3 DEF Places
    <2>2. new \in Seq(Places) /\ Len(new) = c
      BY <2>1
    <2>3. new = PlacesOf(n, frames)
      <3>1. DOMAIN frames = 1..c
        BY <1>1
      <3> QED BY <3>1, <1>2 DEF PlacesOf
    <2>4. \A i \in 1..c : new[i].at = n + 1 + l[i - 1] /\ new[i].frame = frames[i]
      OBVIOUS
    <2> HIDE DEF new
    <2> QED BY <2>2, <2>3, <2>4
  <1>6. old \in Seq(Places)
    BY DEF Laid
  <1>7. PICK o \in Nat : o = Len(old)
    BY <1>6
  <1>8. PICK e \in Seq(Places) :
           /\ e = old \o new /\ Len(e) = o + c
           /\ \A k \in 1..o : e[k] = old[k]
           /\ \A k \in 1..c : e[o + k] = new[k]
    BY <1>5, <1>6, <1>7, ConcatOfPlaces
  <1>9. PICK m \in Nat : m = n + Len(FlattenSeq(frames)) /\ m = n + l[c]
    <2>1. c \in 0..c
      OBVIOUS
    <2>2. l[c] \in Nat
      BY <2>1
    <2> QED BY <2>2, <1>2
  <1>10. ASSUME NEW k \in 1..o
         PROVE  /\ Framed(e[k].frame) /\ e[k].at >= 1 /\ e[k].at \in Nat
                /\ Len(e[k].frame) \in Nat
                /\ e[k].at + Len(e[k].frame) <= n + 1
    <2>1. k \in 1..Len(old) /\ e[k] = old[k]
      BY <1>7, <1>8
    <2>2. /\ Framed(old[k].frame) /\ old[k].at \in 1..n /\ Len(old[k].frame) \in Nat
          /\ old[k].at + Len(old[k].frame) <= n + 1
      BY <2>1, PlaceIs
    <2> QED BY <2>1, <2>2
  <1>11. ASSUME NEW i \in 1..c
         PROVE  /\ Framed(e[o + i].frame)
                /\ e[o + i].at = n + 1 + l[i - 1]
                /\ e[o + i].at + Len(e[o + i].frame) = n + 1 + l[i]
    <2>1. e[o + i].at = n + 1 + l[i - 1] /\ e[o + i].frame = frames[i]
      BY <1>5, <1>8
    <2>2. i \in 1..Len(frames)
      BY <1>1
    <2>3. Framed(frames[i])
      BY <2>2
    <2> QED BY <2>1, <2>3, <1>3
  <1>12. ASSUME NEW k \in 1..o + c, ~(k <= o)
         PROVE  \E i \in 1..c : k = o + i
    <2>1. k - o \in 1..c /\ k = o + (k - o)
      BY <1>12
    <2> QED BY <2>1
  <1>13. ASSUME NEW k \in 1..o + c
         PROVE  /\ Framed(e[k].frame) /\ e[k].at >= 1
                /\ e[k].at + Len(e[k].frame) <= m + 1
    <2>1. CASE k <= o
      <3>1. k \in 1..o
        BY <2>1
      <3>2. PICK a \in Nat, f \in Nat :
               a = e[k].at /\ f = Len(e[k].frame) /\ a >= 1 /\ a + f <= n + 1
        BY <3>1, <1>10
      <3>3. n <= m
        <4>1. c \in 0..c
          OBVIOUS
        <4>2. PICK x \in Nat : x = l[c]
          BY <4>1
        <4> QED BY <4>2, <1>9
      <3>4. Framed(e[k].frame)
        BY <3>1, <1>10
      <3>5. a + f <= m + 1
        BY <3>2, <3>3
      <3>6. e[k].at + Len(e[k].frame) <= m + 1 /\ e[k].at >= 1
        BY <3>2, <3>5
      <3> QED BY <3>4, <3>6
    <2>2. CASE ~(k <= o)
      <3>1. PICK i \in 1..c : k = o + i
        BY <2>2, <1>12
      <3>2. l[i] <= l[c]
        <4>1. c \in 0..c /\ i \in 0..c
          OBVIOUS
        <4> QED BY <4>1, <1>4
      <3>3. PICK x \in Nat, y \in Nat, z \in Nat :
               x = l[i - 1] /\ y = l[i] /\ z = l[c] /\ m = n + z
        <4>1. c \in 0..c
          OBVIOUS
        <4>2. l[c] \in Nat
          BY <4>1
        <4> QED BY <4>2, <1>3, <1>9
      <3>4. /\ Framed(e[k].frame) /\ e[k].at = n + 1 + x
            /\ e[k].at + Len(e[k].frame) = n + 1 + y
        BY <3>1, <3>3, <1>11
      <3>5. n + 1 + y <= m + 1 /\ n + 1 + x >= 1
        BY <3>2, <3>3
      <3>6. e[k].at + Len(e[k].frame) <= m + 1 /\ e[k].at >= 1
        BY <3>4, <3>5
      <3> QED BY <3>4, <3>6
    <2> QED BY <2>1, <2>2
  <1>14. ASSUME NEW j \in 1..o + c, NEW k \in 1..o + c, j < k
         PROVE  e[j].at + Len(e[j].frame) <= e[k].at
    <2>1. CASE k <= o
      <3>1. j \in 1..Len(old) /\ k \in 1..Len(old) /\ j \in 1..o /\ k \in 1..o
        BY <2>1, <1>14, <1>7
      <3>2. old[j].at + Len(old[j].frame) <= old[k].at
        BY <3>1, <1>14 DEF Laid
      <3> QED BY <3>1, <3>2, <1>8
    <2>2. CASE ~(k <= o)
      <3>1. PICK i \in 1..c : k = o + i
        BY <2>2, <1>12
      <3>2. PICK x \in Nat : x = l[i - 1] /\ e[k].at = n + 1 + x
        BY <3>1, <1>3, <1>11
      <3>3. CASE j <= o
        <4>1. PICK a \in Nat, f \in Nat :
                 a = e[j].at /\ f = Len(e[j].frame) /\ a + f <= n + 1
          <5>1. j \in 1..o
            BY <3>3
          <5> QED BY <5>1, <1>10
        <4>2. a + f <= n + 1 + x
          <5>1. a + f <= n + 1
            BY <4>1
          <5> QED BY <5>1
        <4> QED BY <4>1, <4>2, <3>2
      <3>4. CASE ~(j <= o)
        <4>1. PICK h \in 1..c : j = o + h
          BY <3>4, <1>12
        <4>2. e[j].at + Len(e[j].frame) = n + 1 + l[h]
          BY <4>1, <1>11
        <4>3. h \in 0..i - 1 /\ i - 1 \in 0..c
          BY <4>1, <3>1, <1>14
        <4>4. l[h] <= l[i - 1]
          BY <4>3, <1>4
        <4>5. PICK y \in Nat : y = l[h]
          BY <1>3
        <4> QED BY <4>2, <4>4, <4>5, <3>2
      <3> QED BY <3>3, <3>4
    <2> QED BY <2>1, <2>2
  <1>15. Laid(m, e)
    BY <1>8, <1>13, <1>14 DEF Laid
  <1>16. Len(FlattenSeq(frames)) \in Nat
    <2>1. c \in 0..c
      OBVIOUS
    <2> QED BY <2>1, <1>2
  <1> QED BY <1>5, <1>8, <1>9, <1>15, <1>16

\* The places behind the first bytes, counted from there.
PlacesBehind(read, frames) ==
    LET gone == Max({0} \cup {i \in DOMAIN frames : frames[i].at <= read})
    IN  [i \in 1..Len(frames) - gone |->
            [frames[i + gone] EXCEPT !.at = @ - read]]

LEMMA LaidFrom ==
    ASSUME NEW n \in Nat, NEW read \in 0..n, NEW old, Laid(n, old)
    PROVE  Laid(n - read, PlacesBehind(read, old))
  <1> DEFINE U == {0} \cup {i \in DOMAIN old : old[i].at <= read}
  <1>1. old \in Seq(Places) /\ Len(old) \in Nat /\ DOMAIN old = 1..Len(old)
    BY DEF Laid
  <1>2. PICK gone \in 0..Len(old) :
           gone = Max(U) /\ \A i \in 1..Len(old) : old[i].at <= read => i <= gone
    <2>1. U \subseteq 0..Len(old) /\ U # {}
      BY <1>1
    <2>2. Max(U) \in U /\ \A y \in U : Max(U) >= y
      <3> HIDE DEF U
      <3> QED BY <1>1, <2>1, MaxIsGreatest
    <2>3. PICK g \in 0..Len(old) : g = Max(U)
      BY <2>1, <2>2
    <2>4. ASSUME NEW i \in 1..Len(old), old[i].at <= read PROVE i <= g
      <3>1. i \in U
        BY <2>4, <1>1
      <3> QED BY <3>1, <2>2, <2>3
    <2> HIDE DEF U
    <2> QED BY <2>3, <2>4
  <1>3. PICK c \in Nat : c = Len(old) - gone
    <2>1. PICK o \in Nat : o = Len(old)
      BY <1>1
    <2>2. gone \in 0..o
      BY <2>1
    <2>3. o - gone \in Nat
      BY <2>2
    <2> QED BY <2>1, <2>3
  <1>4. ASSUME NEW i \in 1..c
        PROVE  /\ i + gone \in 1..Len(old)
               /\ old[i + gone] \in Places /\ Framed(old[i + gone].frame)
               /\ old[i + gone].at \in Nat /\ old[i + gone].at > read
               /\ Len(old[i + gone].frame) \in Nat
               /\ old[i + gone].at + Len(old[i + gone].frame) <= n + 1
    <2>1. i + gone \in 1..Len(old) /\ ~(i + gone <= gone)
      BY <1>3
    <2>2. /\ old[i + gone] \in Places /\ Framed(old[i + gone].frame)
          /\ old[i + gone].at \in 1..n /\ Len(old[i + gone].frame) \in Nat
          /\ old[i + gone].at + Len(old[i + gone].frame) <= n + 1
      BY <2>1, PlaceIs
    <2>3. ~(old[i + gone].at <= read)
      BY <2>1, <1>2
    <2> QED BY <2>1, <2>2, <2>3
  <1>5. PICK e \in Seq(Places) :
           /\ e = PlacesBehind(read, old) /\ Len(e) = c
           /\ \A i \in 1..c : /\ e[i].at = old[i + gone].at - read
                              /\ e[i].frame = old[i + gone].frame
    <2> DEFINE e == [i \in 1..c |-> [old[i + gone] EXCEPT !.at = @ - read]]
    <2>1. ASSUME NEW i \in 1..c
          PROVE  /\ [old[i + gone] EXCEPT !.at = @ - read] \in Places
                 /\ [old[i + gone] EXCEPT !.at = @ - read].at = old[i + gone].at - read
                 /\ [old[i + gone] EXCEPT !.at = @ - read].frame = old[i + gone].frame
      <3>1. PICK p \in Places : p = old[i + gone] /\ p.at \in Nat /\ p.at > read
        BY <1>4
      <3>2. p.at - read \in Nat
        BY <3>1
      <3>3. /\ [p EXCEPT !.at = @ - read] \in Places
            /\ [p EXCEPT !.at = @ - read].at = p.at - read
            /\ [p EXCEPT !.at = @ - read].frame = p.frame
        BY <3>2 DEF Places
      <3> QED BY <3>1, <3>3
    <2>2. e \in Seq(Places) /\ Len(e) = c
      BY <2>1
    <2>3. e = PlacesBehind(read, old)
      BY <1>2, <1>3 DEF PlacesBehind
    <2>4. \A i \in 1..c : /\ e[i].at = old[i + gone].at - read
                          /\ e[i].frame = old[i + gone].frame
      BY <2>1
    <2> HIDE DEF e
    <2> QED BY <2>2, <2>3, <2>4
  <1>6. ASSUME NEW i \in 1..c
        PROVE  /\ Framed(e[i].frame) /\ e[i].at >= 1
               /\ e[i].at + Len(e[i].frame) <= (n - read) + 1
    <2>1. PICK a \in Nat, f \in Nat :
             /\ a = old[i + gone].at /\ f = Len(old[i + gone].frame)
             /\ a > read /\ a + f <= n + 1
      BY <1>4
    <2>2. e[i].at = a - read /\ Len(e[i].frame) = f
      BY <2>1, <1>5
    <2>3. Framed(e[i].frame)
      BY <1>4, <1>5
    <2>4. (a - read) + f <= (n - read) + 1 /\ a - read >= 1
      <3>1. a > read /\ a + f <= n + 1
        BY <2>1
      <3> QED BY <3>1
    <2>5. e[i].at + Len(e[i].frame) <= (n - read) + 1 /\ e[i].at >= 1
      BY <2>2, <2>4
    <2> QED BY <2>3, <2>5
  <1>7. ASSUME NEW i \in 1..c, NEW j \in 1..c, i < j
        PROVE  e[i].at + Len(e[i].frame) <= e[j].at
    <2>1. i + gone < j + gone
      BY <1>7
    <2>2. old[i + gone].at + Len(old[i + gone].frame) <= old[j + gone].at
      BY <2>1, <1>4 DEF Laid
    <2>3. PICK a \in Nat, f \in Nat, b \in Nat :
             /\ a = old[i + gone].at /\ f = Len(old[i + gone].frame)
             /\ b = old[j + gone].at /\ a + f <= b
      BY <1>4, <2>2
    <2>4. e[i].at = a - read /\ Len(e[i].frame) = f /\ e[j].at = b - read
      BY <2>3, <1>5
    <2>5. (a - read) + f <= b - read
      <3>1. a + f <= b
        BY <2>3
      <3> QED BY <3>1
    <2> QED BY <2>4, <2>5
  <1>8. Laid(n - read, e)
    BY <1>5, <1>6, <1>7 DEF Laid
  <1> QED BY <1>5, <1>8

-----------------------------------------------------------------------------
(* What the walk finds in a stream, frame by frame.                        *)

Headers == HeadersFrom(stream, 1)

BeginsStep(p, g) == \A q \in Headers : q < p /\ g[q] => ClaimedTo(q) < p

IsBegins(g) == g = [p \in Headers |-> BeginsStep(p, g)]

LEMMA BeginsExists ==
    ASSUME stream \in Seq(Bytes)
    PROVE  \E g \in [Headers -> BOOLEAN] : IsBegins(g)
  <1> DEFINE I == Headers
             n == Len(stream)
             rank == [p \in I |-> p]
             step == [p \in I |-> [g \in [I -> BOOLEAN] |-> BeginsStep(p, g)]]
  <1>0. n \in Nat
    OBVIOUS
  <1>1. rank \in [I -> 0..n] /\ I \subseteq 1..n
    BY DEF Headers, HeadersFrom
  <1>2. step \in [I -> [[I -> BOOLEAN] -> BOOLEAN]]
    <2>1. \A p : \A g : BeginsStep(p, g) \in BOOLEAN
      BY DEF BeginsStep
    <2> HIDE DEF I
    <2> QED BY <2>1
  <1>3. LooksBack(I, BOOLEAN, rank, step)
    <2>1. ASSUME NEW p \in I, NEW g \in [I -> BOOLEAN], NEW h \in [I -> BOOLEAN],
                 \A j \in I : rank[j] < rank[p] => g[j] = h[j]
          PROVE  BeginsStep(p, g) = BeginsStep(p, h)
      <3>1. \A q \in I : q < p => g[q] = h[q]
        BY <2>1
      <3> QED BY <3>1 DEF BeginsStep
    <2>2. \A p \in I : \A g \in [I -> BOOLEAN] : step[p][g] = BeginsStep(p, g)
      <3> HIDE DEF I
      <3> QED OBVIOUS
    <2> HIDE DEF rank, step, I
    <2> QED BY <2>1, <2>2 DEF LooksBack
  <1>4. PICK g \in [I -> BOOLEAN] : Follows(I, step, g)
    <2>1. TRUE \in BOOLEAN
      OBVIOUS
    <2> HIDE DEF rank, step, I, n
    <2> QED BY <1>0, <1>1, <1>2, <1>3, <2>1, RecursionDefines
  <1>5. IsBegins(g)
    <2>1. g = [p \in I |-> BeginsStep(p, g)]
      <3> HIDE DEF I
      <3> QED BY <1>4 DEF Follows
    <2> USE DEF I
    <2> QED BY <2>1 DEF IsBegins
  <1> QED BY <1>5

LEMMA BeginningsAre ==
    ASSUME stream \in Seq(Bytes)
    PROVE  /\ Beginnings \subseteq Headers
           /\ \A p \in Headers :
                 p \in Beginnings
                     <=> \A q \in Beginnings : q < p => ClaimedTo(q) < p
  <1> DEFINE g == CHOOSE g : IsBegins(g)
  <1>1. IsBegins(g)
    BY BeginsExists
  <1>2. Beginnings = {p \in Headers : g[p]}
    BY DEF Beginnings, Headers, IsBegins, BeginsStep
  <1>3. ASSUME NEW p \in Headers PROVE g[p] = BeginsStep(p, g)
    <2> HIDE DEF g
    <2> QED BY <1>1 DEF IsBegins
  <1> HIDE DEF g
  <1>4. ASSUME NEW p \in Headers
        PROVE  BeginsStep(p, g) <=> \A q \in Beginnings : q < p => ClaimedTo(q) < p
    BY <1>2 DEF BeginsStep
  <1>5. ASSUME NEW p \in Headers
        PROVE  p \in Beginnings <=> \A q \in Beginnings : q < p => ClaimedTo(q) < p
    BY <1>2, <1>3, <1>4
  <1> QED BY <1>2, <1>5

LEMMA HeadersAreInStream ==
    ASSUME stream \in Seq(Bytes), NEW p \in Headers
    PROVE  p \in 1..Len(stream) - 1 /\ p \in 1..Len(stream)
  BY DEF Headers, HeadersFrom

StreamLaid == stream \in Seq(Bytes) /\ Laid(Len(stream), sent)

LEMMA SentIs ==
    ASSUME StreamLaid, NEW k \in 1..Len(sent)
    PROVE  /\ Framed(sent[k].frame)
           /\ sent[k].at \in 1..Len(stream) /\ Len(sent[k].frame) \in Nat
           /\ Len(sent[k].frame) >= 9
           /\ sent[k].at + Len(sent[k].frame) <= Len(stream) + 1
  <1>1. Len(stream) \in Nat
    BY DEF StreamLaid
  <1> QED BY <1>1, PlaceIs DEF StreamLaid

LEMMA ArrivedIs ==
    ASSUME StreamLaid, NEW k \in 1..Len(sent)
    PROVE  \E a \in Seq(Bytes) :
              /\ a = Arrived(k) /\ Len(a) = Len(sent[k].frame)
              /\ \A j \in 1..Len(sent[k].frame) : a[j] = stream[j + sent[k].at - 1]
  <1>1. PICK p \in Nat, l \in Nat :
           /\ p = sent[k].at /\ l = Len(sent[k].frame)
           /\ p >= 1 /\ l >= 9 /\ p + l <= Len(stream) + 1
    BY SentIs
  <1>2. PICK n \in Nat : n = Len(stream) /\ stream \in Seq(Bytes)
    BY DEF StreamLaid
  <1>3. /\ p + l - 1 \in Nat /\ p <= (p + l - 1) + 1 /\ p + l - 1 <= n
        /\ (p + l - 1) - p + 1 = l /\ p >= 1
    <2>1. p >= 1 /\ l >= 9 /\ p + l <= n + 1
      BY <1>1, <1>2
    <2> QED BY <2>1
  <1>4. /\ SubSeq(stream, p, p + l - 1) \in Seq(Bytes)
        /\ Len(SubSeq(stream, p, p + l - 1)) = l
        /\ \A j \in 1..l : SubSeq(stream, p, p + l - 1)[j] = stream[j + p - 1]
    BY <1>2, <1>3, PartIs
  <1>5. Arrived(k) = SubSeq(stream, p, p + l - 1)
    BY <1>1 DEF Arrived
  <1> QED BY <1>1, <1>4, <1>5

LengthFieldKept(k) == SubSeq(Arrived(k), 7, 8) = SubSeq(sent[k].frame, 7, 8)

LEMMA LengthFieldIs ==
    ASSUME NEW f \in Seq(Bytes), Len(f) >= 9
    PROVE  SubSeq(f, 7, 8)[1] = f[7] /\ SubSeq(f, 7, 8)[2] = f[8]
  <1>1. /\ 7 \in Nat /\ 8 \in Nat /\ 7 >= 1 /\ 7 <= 8 + 1 /\ 8 <= Len(f)
        /\ 1 \in 1..8 - 7 + 1 /\ 2 \in 1..8 - 7 + 1
        /\ 1 + 7 - 1 = 7 /\ 2 + 7 - 1 = 8
    OBVIOUS
  <1>2. \A k \in 1..8 - 7 + 1 : SubSeq(f, 7, 8)[k] = f[k + 7 - 1]
    BY <1>1, PartIs
  <1> QED BY <1>1, <1>2

LEMMA KeptLength ==
    ASSUME StreamLaid, NEW k \in 1..Len(sent), LengthFieldKept(k)
    PROVE  FrameLenAt(stream, sent[k].at) = Len(sent[k].frame)
  <1>1. PICK a \in Seq(Bytes) :
           /\ a = Arrived(k) /\ Len(a) = Len(sent[k].frame)
           /\ \A j \in 1..Len(sent[k].frame) : a[j] = stream[j + sent[k].at - 1]
    BY ArrivedIs
  <1>2. PICK f \in Seq(Bytes) :
           /\ f = sent[k].frame /\ Len(f) \in Nat /\ Len(f) >= 9
           /\ FrameLenAt(f, 1) = Len(f)
    BY SentIs DEF Framed
  <1>3. PICK p \in Nat : p = sent[k].at
    BY SentIs
  <1>4. a[7] = stream[p + 6] /\ a[8] = stream[p + 7]
    <2>1. /\ 7 \in 1..Len(sent[k].frame) /\ 8 \in 1..Len(sent[k].frame)
          /\ 7 + p - 1 = p + 6 /\ 8 + p - 1 = p + 7
      BY <1>2
    <2> QED BY <2>1, <1>1, <1>3
  <1>5. a[7] = f[7] /\ a[8] = f[8]
    <2>1. SubSeq(a, 7, 8) = SubSeq(f, 7, 8)
      BY <1>1, <1>2 DEF LengthFieldKept
    <2>2. Len(a) >= 9
      BY <1>1, <1>2
    <2> QED BY <2>1, <2>2, <1>2, LengthFieldIs
  <1>6. FrameLenAt(stream, p) = FrameLenAt(f, 1)
    <2>1. 1 + 6 = 7 /\ 1 + 7 = 8
      OBVIOUS
    <2>2. stream[p + 6] = f[1 + 6] /\ stream[p + 7] = f[1 + 7]
      BY <2>1, <1>4, <1>5
    <2> QED BY <2>2 DEF FrameLenAt
  <1> QED BY <1>2, <1>3, <1>6

LEMMA IntactIs ==
    ASSUME StreamLaid, NEW k \in 1..Len(sent), Intact(k)
    PROVE  /\ stream[sent[k].at] = R /\ stream[sent[k].at + 1] = F
           /\ LengthFieldKept(k)
  <1>1. PICK a \in Seq(Bytes) :
           /\ a = Arrived(k) /\ Len(a) = Len(sent[k].frame)
           /\ \A j \in 1..Len(sent[k].frame) : a[j] = stream[j + sent[k].at - 1]
    BY ArrivedIs
  <1>2. PICK f \in Seq(Bytes) :
           /\ f = sent[k].frame /\ Len(f) \in Nat /\ Len(f) >= 9
           /\ f[1] = R /\ f[2] = F
    BY SentIs DEF Framed
  <1>3. PICK p \in Nat : p = sent[k].at
    BY SentIs
  <1>4. a[1] = stream[p] /\ a[2] = stream[p + 1]
    <2>1. /\ 1 \in 1..Len(sent[k].frame) /\ 2 \in 1..Len(sent[k].frame)
          /\ 1 + p - 1 = p /\ 2 + p - 1 = p + 1
      BY <1>2
    <2> QED BY <2>1, <1>1, <1>3
  <1>5. a = f
    BY <1>1, <1>2 DEF Intact
  <1> QED BY <1>1, <1>2, <1>3, <1>4, <1>5 DEF LengthFieldKept, Intact

(* The header of a frame that arrived with its length field ends no later  *)
(* than the frame.                                                         *)
LEMMA ClaimedToIs ==
    ASSUME StreamLaid, NEW p \in 1..Len(stream)
    PROVE  /\ p + 7 <= Len(stream) => ClaimedTo(p) = p + FrameLenAt(stream, p) - 1
           /\ ~(p + 7 <= Len(stream)) => ClaimedTo(p) = p + 8
           /\ ClaimedTo(p) \in Nat /\ ClaimedTo(p) >= p + 8
  <1>1. p + FixedHeaderLen - 1 = p + 7 /\ FixedHeaderLen = 8
    BY DEF FixedHeaderLen
  <1>2. CASE p + 7 <= Len(stream)
    <2>1. PICK l \in Nat : l = FrameLenAt(stream, p) /\ l >= 9
      BY <1>2, FrameLenIs DEF StreamLaid
    <2>2. ClaimedTo(p) = p + (l - 1)
      BY <1>1, <1>2, <2>1 DEF ClaimedTo
    <2>3. p + (l - 1) = p + l - 1 /\ p + (l - 1) \in Nat /\ p + (l - 1) >= p + 8
      BY <2>1
    <2> QED BY <1>2, <2>1, <2>2, <2>3
  <1>3. CASE ~(p + 7 <= Len(stream))
    BY <1>1, <1>3 DEF ClaimedTo
  <1> QED BY <1>2, <1>3

LEMMA TellsTheTruth ==
    ASSUME StreamLaid, NEW p \in 1..Len(stream), ~Misleads(p)
    PROVE  \E k \in 1..Len(sent) : sent[k].at = p /\ LengthFieldKept(k)
  <1>1. DOMAIN sent = 1..Len(sent)
    BY DEF StreamLaid, Laid
  <1> QED BY <1>1 DEF Misleads, LengthFieldKept

\* No header in front of i claims a byte from there on.
Reached(i) == \A q \in Beginnings : q < i => ClaimedTo(q) < i

\* The frame is reported, and not before the walk has come to i.
Due(i, k) == sent[k].at >= i /\ Intact(k) /\ ~Swallowed(k)

DueRow(i, k) == IF Due(i, k) THEN TagsOfFrame(sent[k].frame) ELSE Nothing

DueRows(i) == [k \in 1..Len(sent) |-> DueRow(i, k)]

LEMMA DueRowsAreRows ==
    ASSUME StreamLaid, NEW i
    PROVE  Rows(Len(sent), DueRows(i), Tags)
  <1>1. PICK n \in Nat : n = Len(sent)
    BY DEF StreamLaid, Laid
  <1>2. ASSUME NEW k \in 1..n PROVE DueRow(i, k) \in Seq(Tags)
    <2>1. PICK f \in Seq(Bytes) : f = sent[k].frame /\ Len(f) > FixedHeaderLen
      BY <1>1, SentIs DEF Framed, FixedHeaderLen
    <2>2. TagsOfFrame(f) \in Seq(Tags)
      BY <2>1, TagsOfFrameType
    <2>3. Nothing \in Seq(Tags)
      BY DEF Nothing
    <2> QED BY <2>1, <2>2, <2>3 DEF DueRow
  <1>3. DueRows(i) \in Seq(Seq(Tags)) /\ Len(DueRows(i)) = n
    BY <1>1, <1>2 DEF DueRows
  <1>4. \A k \in 1..n : DueRows(i)[k] \in SeqsOf(Tags)
    BY <1>1, <1>2 DEF DueRows, SeqsOf
  <1>5. n = 0 => DueRows(i) = Nothing
    BY <1>3, EmptySeq DEF Nothing
  <1> QED BY <1>1, <1>3, <1>4, <1>5 DEF Rows

LEMMA FirstBegins ==
    ASSUME StreamLaid, NEW i \in 1..Len(stream) + 1, Reached(i),
           ~NoHeader(stream, i)
    PROVE  FirstHeader(stream, i) \in Beginnings
  <1>1. stream \in Seq(Bytes)
    BY DEF StreamLaid
  <1>2. PICK s \in i..Len(stream) - 1 :
           /\ s = FirstHeader(stream, i)
           /\ \A j \in HeadersFrom(stream, i) : s <= j
           /\ stream[s] = R /\ stream[s + 1] = F
    BY <1>1, HeadersAreIn
  <1>3. s \in Headers
    BY <1>2 DEF Headers, HeadersFrom
  <1>4. ASSUME NEW q \in Beginnings, q < s PROVE ClaimedTo(q) < s
    <2>1. q \in Headers
      BY <1>1, BeginningsAre
    <2>2. q \in 1..Len(stream) - 1 /\ stream[q] = R /\ stream[q + 1] = F
      BY <2>1 DEF Headers, HeadersFrom
    <2>3. q < i
      <3> SUFFICES ASSUME q >= i PROVE FALSE
        BY <2>2
      <3>1. q \in HeadersFrom(stream, i)
        BY <2>2 DEF HeadersFrom
      <3> QED BY <3>1, <1>2, <1>4, <2>2
    <2>4. ClaimedTo(q) < i
      BY <2>3 DEF Reached
    <2>5. PICK c \in Nat : c = ClaimedTo(q)
      <3>1. q \in 1..Len(stream)
        BY <2>2
      <3> QED BY <3>1, ClaimedToIs
    <2>6. c < s
      BY <2>4, <2>5
    <2> QED BY <2>5, <2>6
  <1> QED BY <1>1, <1>2, <1>3, <1>4, BeginningsAre

LEMMA DueHasHeader ==
    ASSUME StreamLaid, NEW i \in 1..Len(stream) + 1, NEW k \in 1..Len(sent),
           sent[k].at >= i, Intact(k)
    PROVE  ~NoHeader(stream, i) /\ FirstHeader(stream, i) <= sent[k].at
  <1>1. PICK n \in Nat : n = Len(stream) /\ stream \in Seq(Bytes)
    BY DEF StreamLaid
  <1>2. PICK p \in Nat, l \in Nat :
           p = sent[k].at /\ l = Len(sent[k].frame) /\ l >= 9 /\ p + l <= n + 1
    BY <1>1, SentIs
  <1>3. p \in i..n - 1
    <2>1. l >= 9 /\ p + l <= n + 1 /\ p >= i
      BY <1>2
    <2> QED BY <2>1, <1>1
  <1>4. stream[p] = R /\ stream[p + 1] = F
    BY <1>2, IntactIs
  <1>5. p \in HeadersFrom(stream, i)
    BY <1>1, <1>3, <1>4 DEF HeadersFrom
  <1>6. ~NoHeader(stream, i)
    BY <1>5 DEF NoHeader
  <1> QED BY <1>1, <1>2, <1>5, <1>6, HeadersAreIn

(* A frame whose length field arrived has arrived in full.                 *)
LEMMA KeptIsComplete ==
    ASSUME StreamLaid, NEW k \in 1..Len(sent), LengthFieldKept(k)
    PROVE  /\ Complete(stream, sent[k].at)
           /\ ClaimedTo(sent[k].at) = sent[k].at + Len(sent[k].frame) - 1
  <1>1. PICK n \in Nat : n = Len(stream)
    BY DEF StreamLaid
  <1>2. PICK p \in 1..n, l \in Nat :
           p = sent[k].at /\ l = Len(sent[k].frame) /\ l >= 9 /\ p + l <= n + 1
    BY <1>1, SentIs
  <1>3. FrameLenAt(stream, p) = l
    BY <1>2, KeptLength
  <1>4. l >= 9 /\ p + l <= n + 1
    BY <1>2
  <1>5. n - p + 1 >= 8 /\ n - p + 1 >= l /\ p + 7 <= n
    BY <1>4
  <1>6. Complete(stream, p)
    BY <1>1, <1>3, <1>5 DEF Complete, FixedHeaderLen
  <1>7. ClaimedTo(p) = p + l - 1
    BY <1>1, <1>3, <1>5, ClaimedToIs
  <1> QED BY <1>2, <1>6, <1>7

(* What a header claims that did not send it so is swallowed.              *)
LEMMA SwallowedBy ==
    ASSUME StreamLaid, NEW s \in Beginnings, Misleads(s),
           NEW k \in 1..Len(sent), s < sent[k].at, sent[k].at <= ClaimedTo(s)
    PROVE  Swallowed(k)
  BY DEF Swallowed

LEMMA NoneDue ==
    ASSUME StreamLaid, NEW i \in 1..Len(stream) + 1, Reached(i),
           ~Cuts(stream, i), NEW k \in 1..Len(sent)
    PROVE  ~Due(i, k)
  <1> SUFFICES ASSUME Due(i, k) PROVE FALSE
    OBVIOUS
  <1>1. sent[k].at >= i /\ Intact(k) /\ ~Swallowed(k)
    BY DEF Due
  <1>2. PICK n \in Nat : n = Len(stream) /\ stream \in Seq(Bytes)
    BY DEF StreamLaid
  <1>3. ~NoHeader(stream, i) /\ FirstHeader(stream, i) <= sent[k].at
    BY <1>1, DueHasHeader
  <1>4. PICK s \in i..n - 1 :
           s = FirstHeader(stream, i) /\ s \in Beginnings /\ ~Complete(stream, s)
    BY <1>2, <1>3, HeadersAreIn, FirstBegins DEF Cuts
  <1>5. PICK p \in 1..n : p = sent[k].at
    BY <1>2, SentIs
  <1>6. s # p
    <2>1. Complete(stream, p)
      BY <1>1, <1>5, IntactIs, KeptIsComplete
    <2> QED BY <2>1, <1>4
  <1>7. s < p
    <2>1. s <= p
      BY <1>3, <1>4, <1>5
    <2> QED BY <2>1, <1>6
  <1>8. s \in 1..Len(stream)
    BY <1>2
  <1>9. p <= ClaimedTo(s)
    <2>1. CASE s + 7 <= n
      <3>1. PICK l \in Nat : l = FrameLenAt(stream, s)
        BY <1>2, <1>8, <2>1, FrameLenIs
      <3>2. ~(n - s + 1 >= l)
        BY <1>2, <1>4, <2>1, <3>1 DEF Complete, FixedHeaderLen
      <3>3. ClaimedTo(s) = s + l - 1
        BY <1>2, <1>8, <2>1, <3>1, ClaimedToIs
      <3>4. p <= s + l - 1
        BY <3>2
      <3> QED BY <3>3, <3>4
    <2>2. CASE ~(s + 7 <= n)
      <3>1. ClaimedTo(s) = s + 8
        BY <1>2, <1>8, <2>2, ClaimedToIs
      <3>2. p <= s + 8
        BY <2>2
      <3> QED BY <3>1, <3>2
    <2> QED BY <2>1, <2>2
  <1>10. Misleads(s)
    <2> SUFFICES ASSUME ~Misleads(s) PROVE FALSE
      OBVIOUS
    <2>1. PICK j \in 1..Len(sent) : sent[j].at = s /\ LengthFieldKept(j)
      BY <1>8, TellsTheTruth
    <2>2. Complete(stream, s)
      BY <2>1, KeptIsComplete
    <2> QED BY <2>2, <1>4
  <1> QED BY <1>1, <1>4, <1>5, <1>7, <1>9, <1>10, SwallowedBy

LEMMA CutGoesOn ==
    ASSUME StreamLaid, NEW i \in 1..Len(stream) + 1, Reached(i), Cuts(stream, i)
    PROVE  \E s \in i..Len(stream) - 1, q \in i + 9..Len(stream) + 1 :
              /\ s = FirstHeader(stream, i) /\ q = Behind(stream, i)
              /\ s \in Beginnings /\ s < q /\ ClaimedTo(s) = q - 1
              /\ Reached(q)
  <1>1. PICK n \in Nat : n = Len(stream) /\ stream \in Seq(Bytes)
    BY DEF StreamLaid
  <1>2. PICK s \in i..n - 1 :
           /\ s = FirstHeader(stream, i) /\ s \in Beginnings /\ Complete(stream, s)
           /\ \A j \in HeadersFrom(stream, i) : s <= j
    BY <1>1, HeadersAreIn, FirstBegins DEF Cuts
  <1>3. s \in 1..Len(stream)
    BY <1>1
  <1>4. PICK q \in s + 9..n + 1 : q = s + FrameLenAt(stream, s) /\ s + 7 <= n
    BY <1>1, <1>2, <1>3, CompleteIs
  <1>5. q = Behind(stream, i)
    BY <1>2, <1>4 DEF Behind
  <1>6. ClaimedTo(s) = q - 1
    <2>1. PICK l \in Nat : l = FrameLenAt(stream, s) /\ q = s + l
      BY <1>1, <1>3, <1>4, FrameLenIs
    <2>2. ClaimedTo(s) = s + l - 1
      BY <1>1, <1>3, <1>4, <2>1, ClaimedToIs
    <2> QED BY <2>1, <2>2
  <1>7. ASSUME NEW p \in Beginnings, p < q PROVE ClaimedTo(p) < q
    <2>1. p \in Headers
      BY <1>1, BeginningsAre
    <2>2. p \in 1..n - 1 /\ stream[p] = R /\ stream[p + 1] = F
      BY <1>1, <2>1 DEF Headers, HeadersFrom
    <2>3. PICK c \in Nat : c = ClaimedTo(p)
      <3>1. p \in 1..Len(stream)
        BY <1>1, <2>2
      <3> QED BY <3>1, ClaimedToIs
    <2>4. CASE p < i
      <3>1. c < i
        BY <2>3, <2>4 DEF Reached
      <3>2. c < q
        BY <3>1, <1>2, <1>4
      <3> QED BY <2>3, <3>2
    <2>5. CASE p = s
      BY <1>6, <2>5
    <2>6. CASE p >= i /\ p # s
      <3>1. p \in HeadersFrom(stream, i)
        BY <1>1, <2>2, <2>6 DEF HeadersFrom
      <3>2. s < p
        BY <3>1, <1>2, <2>2, <2>6
      <3>3. ClaimedTo(s) < p
        BY <1>1, <1>2, <2>1, <3>2, BeginningsAre
      <3>4. q - 1 < p
        BY <3>3, <1>6
      <3> QED BY <3>4, <1>7, <2>2
    <2>7. p < i \/ p = s \/ (p >= i /\ p # s)
      BY <2>2
    <2> QED BY <2>4, <2>5, <2>6, <2>7
  <1>8. Reached(q)
    BY <1>7 DEF Reached
  <1>9. q \in i + 9..n + 1 /\ s < q
    OBVIOUS
  <1> QED BY <1>1, <1>2, <1>5, <1>6, <1>8, <1>9

\* The frame that is cut off is one that was sent, and arrived as it was sent.
CutIsIntact(i) ==
    \E m \in 1..Len(sent) : sent[m].at = FirstHeader(stream, i) /\ Intact(m)

(* A frame that is cut off as it was sent is the next one that is due.     *)
LEMMA IntactIsReported ==
    ASSUME StreamLaid, NEW i \in 1..Len(stream) + 1, Reached(i), Cuts(stream, i),
           CutIsIntact(i)
    PROVE  \E m \in 1..Len(sent) :
              /\ TagsOfFrame(FrameCut(stream, i)) = DueRows(i)[m]
              /\ OneMore(Len(sent), DueRows(i), DueRows(Behind(stream, i)), m)
  <1>1. PICK n \in Nat, c \in Nat :
           n = Len(stream) /\ stream \in Seq(Bytes) /\ c = Len(sent)
    BY DEF StreamLaid, Laid
  <1>2. PICK s \in i..n - 1, q \in i + 9..n + 1 :
           /\ s = FirstHeader(stream, i) /\ q = Behind(stream, i)
           /\ s \in Beginnings /\ s < q /\ ClaimedTo(s) = q - 1
    BY <1>1, CutGoesOn
  <1>3. PICK m \in 1..c : sent[m].at = s /\ Intact(m)
    BY <1>1, <1>2 DEF CutIsIntact
  <1>4. PICK l \in Nat : l = Len(sent[m].frame) /\ q - 1 = s + l - 1 /\ q = s + l
    <2>1. PICK l \in Nat : l = Len(sent[m].frame)
      BY <1>1, SentIs
    <2>2. q - 1 = s + l - 1
      BY <1>1, <1>2, <1>3, <2>1, IntactIs, KeptIsComplete
    <2>3. q = s + l
      BY <2>2
    <2> QED BY <2>1, <2>2, <2>3
  <1>5. FrameCut(stream, i) = sent[m].frame
    BY <1>2, <1>3, <1>4 DEF FrameCut, Intact, Arrived
  <1>6. ~Swallowed(m)
    <2> SUFFICES ASSUME NEW p \in Beginnings, p < s, s <= ClaimedTo(p) PROVE FALSE
      BY <1>3 DEF Swallowed
    <2>1. ClaimedTo(p) < s
      <3>1. s \in Headers
        BY <1>1, <1>2, BeginningsAre
      <3> QED BY <1>1, <1>2, <3>1, BeginningsAre
    <2>2. ClaimedTo(p) \in Nat
      <3>1. p \in 1..Len(stream)
        BY <1>1, BeginningsAre, HeadersAreInStream
      <3> QED BY <3>1, ClaimedToIs
    <2> QED BY <2>1, <2>2
  <1>7. Due(i, m) /\ ~Due(q, m)
    <2>1. s >= i /\ ~(s >= q)
      BY <1>2
    <2> QED BY <2>1, <1>3, <1>6 DEF Due
  <1>8. ASSUME NEW k \in 1..m - 1 PROVE ~Due(i, k) /\ ~Due(q, k)
    <2>1. k \in 1..c /\ k < m
      OBVIOUS
    <2>2. PICK a \in Nat, f \in Nat :
             a = sent[k].at /\ f = Len(sent[k].frame) /\ f >= 9
      BY <1>1, <2>1, SentIs
    <2>3. a + f <= s
      BY <1>1, <1>3, <2>1, <2>2 DEF StreamLaid, Laid
    <2>4. a < s /\ ~(a >= q)
      <3>1. f >= 9
        BY <2>2
      <3> QED BY <3>1, <2>3, <1>2
    <2>5. ~(a >= i /\ Intact(k))
      <3> SUFFICES ASSUME a >= i, Intact(k) PROVE FALSE
        OBVIOUS
      <3>1. s <= a
        BY <1>1, <1>2, <2>1, <2>2, DueHasHeader
      <3> QED BY <3>1, <2>4
    <2> QED BY <2>2, <2>4, <2>5 DEF Due
  <1>9. ASSUME NEW k \in m + 1..c PROVE Due(i, k) <=> Due(q, k)
    <2>1. k \in 1..c /\ m < k
      OBVIOUS
    <2>2. PICK a \in Nat : a = sent[k].at
      BY <1>1, <2>1, SentIs
    <2>3. s + l <= a
      BY <1>1, <1>3, <1>4, <2>1, <2>2 DEF StreamLaid, Laid
    <2>4. a >= i /\ a >= q
      BY <2>3, <1>4, <1>2
    <2> QED BY <2>2, <2>4 DEF Due
  <1>10. DueRows(i)[m] = TagsOfFrame(sent[m].frame)
    BY <1>1, <1>7 DEF DueRows, DueRow
  <1>11. OneMore(c, DueRows(i), DueRows(q), m)
    <2>1. DueRows(q)[m] = Nothing
      BY <1>1, <1>7 DEF DueRows, DueRow
    <2>2. ASSUME NEW k \in 1..m - 1
          PROVE  DueRows(i)[k] = Nothing /\ DueRows(q)[k] = Nothing
      <3>1. k \in 1..c
        OBVIOUS
      <3> QED BY <1>1, <1>8, <3>1 DEF DueRows, DueRow
    <2>3. ASSUME NEW k \in m + 1..c PROVE DueRows(i)[k] = DueRows(q)[k]
      <3>1. k \in 1..c
        OBVIOUS
      <3> QED BY <1>1, <1>9, <3>1 DEF DueRows, DueRow
    <2> QED BY <2>1, <2>2, <2>3 DEF OneMore
  <1> QED BY <1>1, <1>2, <1>5, <1>10, <1>11

(* Any other frame that is cut off brings no tags, and none are due in it. *)
LEMMA OthersAreNot ==
    ASSUME StreamLaid, ~Coincidence, NEW i \in 1..Len(stream) + 1, Reached(i),
           Cuts(stream, i), ~CutIsIntact(i)
    PROVE  /\ TagsOfFrame(FrameCut(stream, i)) = <<>>
           /\ DueRows(i) = DueRows(Behind(stream, i))
  <1>1. PICK n \in Nat, c \in Nat :
           /\ n = Len(stream) /\ stream \in Seq(Bytes) /\ c = Len(sent)
           /\ DOMAIN sent = 1..c
    BY DEF StreamLaid, Laid
  <1>2. PICK s \in i..n - 1, q \in i + 9..n + 1 :
           /\ s = FirstHeader(stream, i) /\ q = Behind(stream, i)
           /\ s \in Beginnings /\ s < q /\ ClaimedTo(s) = q - 1
    BY <1>1, CutGoesOn
  <1>3. \A k \in 1..c : sent[k].at = s => ~Intact(k)
    BY <1>1, <1>2 DEF CutIsIntact
  <1>4. TagsOfFrame(FrameCut(stream, i)) = <<>>
    <2>1. ~FrameOK(SubSeq(stream, s, q - 1))
      <3>1. ClaimedTo(s) <= Len(stream)
        BY <1>1, <1>2
      <3> QED BY <3>1, <1>1, <1>2, <1>3 DEF Coincidence
    <2>2. FrameCut(stream, i) = SubSeq(stream, s, q - 1)
      BY <1>2 DEF FrameCut
    <2> QED BY <2>1, <2>2 DEF TagsOfFrame
  <1>5. ASSUME NEW k \in 1..c PROVE Due(i, k) <=> Due(q, k)
    <2>1. PICK a \in Nat : a = sent[k].at
      <3>1. sent[k].at \in 1..Len(stream)
        BY <1>1, SentIs
      <3> QED BY <3>1
    <2>2. CASE a >= q
      <3>1. a >= i
        BY <2>2, <1>2
      <3> QED BY <2>1, <2>2, <3>1 DEF Due
    <2>3. CASE ~(a >= q)
      <3> SUFFICES ASSUME Due(i, k) PROVE FALSE
        BY <2>1, <2>3 DEF Due
      <3>1. a >= i /\ Intact(k) /\ ~Swallowed(k)
        BY <2>1 DEF Due
      <3>2. s <= a /\ s # a
        BY <1>1, <1>2, <1>3, <2>1, <3>1, DueHasHeader
      <3>3. s < a /\ a <= q - 1
        BY <3>2, <2>3
      <3>4. s \in 1..Len(stream)
        BY <1>1
      <3>5. ~Misleads(s)
        BY <1>1, <1>2, <2>1, <3>1, <3>3, SwallowedBy
      <3>6. PICK j \in 1..c : sent[j].at = s /\ LengthFieldKept(j)
        BY <1>1, <3>4, <3>5, TellsTheTruth
      <3>7. PICK l \in Nat : l = Len(sent[j].frame)
        BY <1>1, SentIs
      <3>8. q - 1 = s + l - 1
        BY <1>1, <1>2, <3>6, <3>7, KeptIsComplete
      <3>9. CASE j < k
        <4>1. s + l <= a
          BY <1>1, <2>1, <3>6, <3>7, <3>9 DEF StreamLaid, Laid
        <4> QED BY <4>1, <3>3, <3>8
      <3>10. CASE k < j
        <4>1. PICK f \in Nat : f = Len(sent[k].frame)
          BY <1>1, SentIs
        <4>2. a + f <= s
          BY <1>1, <2>1, <3>6, <4>1, <3>10 DEF StreamLaid, Laid
        <4> QED BY <4>2, <3>3
      <3>11. CASE j = k
        BY <3>11, <3>6, <2>1, <3>2
      <3> QED BY <3>9, <3>10, <3>11
    <2> QED BY <2>2, <2>3
  <1>6. DueRows(i) = DueRows(q)
    BY <1>1, <1>5 DEF DueRows, DueRow
  <1> QED BY <1>2, <1>4, <1>6

(* The walk over a stream returns the tags of the frames that arrived as   *)
(* they were sent, in their order.                                         *)
LEMMA WalkReportsDue ==
    ASSUME StreamLaid, ~Coincidence
    PROVE  \A i \in 1..Len(stream) + 1 :
              Reached(i) => Walk(stream, i).tags = FlattenSeq(DueRows(i))
  <1>0. PICK n \in Nat : n = Len(stream) + 1 /\ stream \in Seq(Bytes)
    BY DEF StreamLaid
  <1> DEFINE K == {i \in 1..n : Reached(i)
                                   => Walk(stream, i).tags = FlattenSeq(DueRows(i))}
  <1>1. ASSUME NEW i \in 1..n, \A j \in 1..n : j > i => j \in K
        PROVE  i \in K
    <2> SUFFICES ASSUME Reached(i)
                 PROVE  Walk(stream, i).tags = FlattenSeq(DueRows(i))
      OBVIOUS
    <2>0. i \in 1..Len(stream) + 1
      BY <1>0
    <2>1. PICK c \in Nat : c = Len(sent)
      BY DEF StreamLaid, Laid
    <2>2. CASE ~Cuts(stream, i)
      <3>1. Walk(stream, i).tags = <<>>
        BY <1>0, <2>0, <2>2, WalkIs DEF Waits, Cuts
      <3>2. \A k \in 1..c : DueRows(i)[k] = Nothing
        BY <2>0, <2>1, <2>2, NoneDue DEF DueRows, DueRow
      <3>3. FlattenSeq(DueRows(i)) = Nothing
        BY <2>1, <3>2, DueRowsAreRows, FlattenNone
      <3> QED BY <3>1, <3>3 DEF Nothing
    <2>3. CASE Cuts(stream, i)
      <3>1. PICK q \in i + 9..n : q = Behind(stream, i) /\ Reached(q)
        BY <1>0, <2>0, <2>3, CutGoesOn
      <3>2. q \in K
        <4>1. q \in 1..n /\ q > i
          OBVIOUS
        <4> HIDE DEF K
        <4> QED BY <4>1, <1>1
      <3>3. Walk(stream, q).tags = FlattenSeq(DueRows(q))
        BY <3>1, <3>2
      <3>4. Walk(stream, i).tags
               = TagsOfFrame(FrameCut(stream, i)) \o FlattenSeq(DueRows(q))
        <4>1. Walk(stream, i) = [tags |-> TagsOfFrame(FrameCut(stream, i))
                                             \o Walk(stream, q).tags,
                                 rest |-> Walk(stream, q).rest]
          BY <1>0, <2>0, <2>3, <3>1, WalkIs
        <4>2. PICK t, r : /\ t = TagsOfFrame(FrameCut(stream, i)) \o Walk(stream, q).tags
                          /\ r = Walk(stream, q).rest
          OBVIOUS
        <4>3. Walk(stream, i) = [tags |-> t, rest |-> r]
          BY <4>1, <4>2
        <4>4. Walk(stream, i).tags = t
          BY <4>3
        <4> QED BY <3>3, <4>2, <4>4
      <3>5. CASE CutIsIntact(i)
        <4>1. PICK m \in 1..c :
                 /\ TagsOfFrame(FrameCut(stream, i)) = DueRows(i)[m]
                 /\ OneMore(c, DueRows(i), DueRows(q), m)
          BY <2>0, <2>1, <2>3, <3>1, <3>5, IntactIsReported
        <4>2. Rows(c, DueRows(i), Tags) /\ Rows(c, DueRows(q), Tags)
          BY <2>1, DueRowsAreRows
        <4>3. FlattenSeq(DueRows(i)) = DueRows(i)[m] \o FlattenSeq(DueRows(q))
          <5>1. PICK x, y : x = DueRows(i) /\ y = DueRows(q)
            OBVIOUS
          <5>2. Rows(c, x, Tags) /\ Rows(c, y, Tags) /\ OneMore(c, x, y, m)
            BY <4>1, <4>2, <5>1
          <5>3. FirstThenRest(x, y, m)
            BY <5>2, FlattenFirst
          <5> QED BY <5>1, <5>3 DEF FirstThenRest
        <4> QED BY <3>4, <4>1, <4>3
      <3>6. CASE ~CutIsIntact(i)
        <4>1. TagsOfFrame(FrameCut(stream, i)) = Nothing /\ DueRows(i) = DueRows(q)
          BY <2>0, <2>3, <3>1, <3>6, OthersAreNot DEF Nothing
        <4>2. Rows(c, DueRows(q), Tags)
          BY <2>1, DueRowsAreRows
        <4>3. FlattenSeq(DueRows(q)) \in SeqsOf(Tags)
          BY <4>2, FlattenType
        <4>4. Nothing \o FlattenSeq(DueRows(q)) = FlattenSeq(DueRows(q))
          BY <4>3, JoinLaws
        <4> QED BY <3>4, <4>1, <4>4
      <3> QED BY <3>5, <3>6
    <2> QED BY <2>2, <2>3
  <1>2. \A i \in 1..n : i \in K
    <2> HIDE DEF K
    <2> QED BY <1>1, DownwardInduction
  <1> QED BY <1>0, <1>2

\* FrameBuffer._drain on a stream into which frames were written and which was
\* then disturbed: the tags returned are those of the frames that arrived as
\* they were sent and begin in no bytes that a changed length field claims.
THEOREM StreamIsReportedAsSent ==
    ASSUME StreamLaid, ~Coincidence
    PROVE  Drain(stream).tags = Expected
  <1>1. 1 \in 1..Len(stream) + 1 /\ stream \in Seq(Bytes)
    BY DEF StreamLaid
  <1>2. Reached(1)
    <2>1. ASSUME NEW q \in Beginnings PROVE ~(q < 1)
      <3>1. q \in 1..Len(stream)
        BY <1>1, BeginningsAre, HeadersAreInStream
      <3> QED BY <3>1
    <2> QED BY <2>1 DEF Reached
  <1>3. DueRows(1) = [i \in DOMAIN sent |->
                         IF Intact(i) /\ ~Swallowed(i)
                         THEN TagsOfFrame(sent[i].frame) ELSE <<>>]
    <2>1. DOMAIN sent = 1..Len(sent)
      BY DEF StreamLaid, Laid
    <2>2. ASSUME NEW k \in 1..Len(sent) PROVE sent[k].at >= 1
      <3>1. sent[k].at \in 1..Len(stream)
        BY SentIs
      <3> QED BY <3>1
    <2> QED BY <2>1, <2>2 DEF DueRows, DueRow, Due, Nothing
  <1> QED BY <1>1, <1>2, <1>3, WalkReportsDue, DrainIsWalk DEF Expected

-----------------------------------------------------------------------------
(* The inductive invariant.                                                *)

GatewayTypes ==
    /\ running \in BOOLEAN /\ connected \in BOOLEAN /\ portOpen \in BOOLEAN
    /\ loop \in LoopStates
    /\ inHand \in Seq(Tags) /\ reported \in Seq(Tags)
    /\ buffer \in Seq(Bytes) /\ wire \in Seq(Bytes) /\ stream \in Seq(Bytes)
    /\ active \in BOOLEAN
    /\ commands \in Seq({StartInventory, StopInventory})
    /\ starts \in 0..MaxStarts /\ faults \in 0..MaxFaults

\* There is something to hand over.
HandNotEmpty == loop = "handing" => inHand # <<>>

BufferParsed == Parsed(buffer) /\ Short(buffer)

\* The bytes pre of the connection have been read, and are accounted for.
HasRead(pre) ==
    /\ pre \in Seq(Bytes)
    /\ stream = pre \o wire
    /\ buffer = Drain(pre).rest
    /\ Reading => reported \o inHand = Drain(pre).tags

StreamRead == portOpen => \E pre : HasRead(pre)

FramesLaid == Laid(Len(stream), sent)

GatewayInv ==
    GatewayTypes /\ HandNotEmpty /\ BufferParsed /\ StreamRead /\ FramesLaid

LEMMA HeldFramesAre ==
    /\ HeldFrames \in Seq(SeqsOf(Bytes))
    /\ \A i \in 1..Len(HeldFrames) : Framed(HeldFrames[i])
    /\ DOMAIN HeldFrames = DOMAIN Held
  <1>1. PICK n \in Nat : n = Len(Held) /\ DOMAIN Held = 1..n
    BY GatewayAssumption
  <1> DEFINE Note(i) == TagNotification(Address, Held[i], TagUpload)
             h == [i \in 1..n |-> Note(i)]
  <1>2. ASSUME NEW i \in 1..n PROVE Framed(Note(i)) /\ Note(i) \in SeqsOf(Bytes)
    BY <1>1, TagNotificationIsFramed DEF Framed, SeqsOf
  <1>3. HeldFrames = h
    BY <1>1 DEF HeldFrames
  <1>4. h \in Seq(SeqsOf(Bytes)) /\ Len(h) = n /\ DOMAIN h = 1..n
    <2> HIDE DEF Note
    <2> QED BY <1>2
  <1>5. \A i \in 1..n : Framed(h[i])
    <2> HIDE DEF Note
    <2> QED BY <1>2
  <1> QED BY <1>1, <1>3, <1>4, <1>5

LEMMA ConcatBytes ==
    ASSUME NEW x \in Seq(Bytes), NEW y \in Seq(Bytes), NEW z \in Seq(Bytes)
    PROVE  x \o (y \o z) = (x \o y) \o z
  <1>1. PICK a \in SeqsOf(Bytes), b \in SeqsOf(Bytes), c \in SeqsOf(Bytes) :
           a = x /\ b = y /\ c = z
    BY DEF SeqsOf
  <1>2. (a \o b) \o c = a \o (b \o c)
    BY ONLY JoinAssociative, a \in SeqsOf(Bytes), b \in SeqsOf(Bytes),
            c \in SeqsOf(Bytes)
  <1> QED BY <1>1, <1>2

LEMMA ConcatTags ==
    ASSUME NEW x \in Seq(Tags), NEW y \in Seq(Tags), NEW z \in Seq(Tags)
    PROVE  x \o (y \o z) = (x \o y) \o z
  <1>1. PICK a \in SeqsOf(Tags), b \in SeqsOf(Tags), c \in SeqsOf(Tags) :
           a = x /\ b = y /\ c = z
    BY DEF SeqsOf
  <1>2. (a \o b) \o c = a \o (b \o c)
    BY ONLY JoinAssociative, a \in SeqsOf(Tags), b \in SeqsOf(Tags),
            c \in SeqsOf(Tags)
  <1> QED BY <1>1, <1>2

LEMMA HandedOver ==
    ASSUME NEW a \in Seq(Tags), NEW h \in Seq(Tags), h # <<>>
    PROVE  /\ Head(h) \in Tags /\ Tail(h) \in Seq(Tags)
           /\ Append(a, Head(h)) \o Tail(h) = a \o h
  <1>1. Head(h) \in Tags /\ Tail(h) \in Seq(Tags) /\ h = <<Head(h)>> \o Tail(h)
    BY HeadTailProperties
  <1>2. PICK e \in Seq(Tags), t \in Seq(Tags) : e = <<Head(h)>> /\ t = Tail(h)
    <2>1. PICK x \in Tags : x = Head(h)
      BY <1>1
    <2>2. <<x>> \in Seq(Tags)
      OBVIOUS
    <2> QED BY <1>1, <2>1, <2>2
  <1>3. Append(a, Head(h)) = a \o e
    BY <1>1, <1>2, AppendIsConcat
  <1>4. a \o (e \o t) = (a \o e) \o t
    BY ConcatTags
  <1> QED BY <1>1, <1>2, <1>3, <1>4

(* The line grows behind what waits in it.                                 *)
LEMMA LineGrows ==
    ASSUME GatewayInv, NEW x \in Seq(Bytes),
           wire' = wire \o x, stream' = stream \o x,
           UNCHANGED <<running, loop, inHand, portOpen, buffer, reported>>
    PROVE  /\ wire' \in Seq(Bytes) /\ stream' \in Seq(Bytes)
           /\ Len(stream') = Len(stream) + Len(x)
           /\ StreamRead'
  <1>1. wire \in Seq(Bytes) /\ stream \in Seq(Bytes)
    BY DEF GatewayInv, GatewayTypes
  <1>2. wire' \in Seq(Bytes) /\ stream' \in Seq(Bytes)
    BY <1>1, ConcatProperties
  <1>3. Len(stream') = Len(stream) + Len(x)
    BY <1>1, ConcatProperties
  <1>4. ASSUME portOpen' PROVE \E pre : HasRead(pre)'
    <2>1. PICK pre : HasRead(pre)
      BY <1>4 DEF GatewayInv, StreamRead
    <2>2. pre \in Seq(Bytes) /\ stream = pre \o wire
      BY <2>1 DEF HasRead
    <2>3. stream' = pre \o wire'
      BY <1>1, <2>2, ConcatBytes
    <2>4. HasRead(pre)'
      BY <2>1, <2>3 DEF HasRead, Reading
    <2> QED BY <2>4
  <1> QED BY <1>2, <1>3, <1>4 DEF StreamRead

LEMMA PutKeeps ==
    ASSUME GatewayInv, NEW frames \in Seq(SeqsOf(Bytes)),
           \A i \in 1..Len(frames) : Framed(frames[i]),
           Put(frames),
           UNCHANGED <<running, loop, inHand, portOpen, buffer, reported>>
    PROVE  /\ wire' \in Seq(Bytes) /\ stream' \in Seq(Bytes)
           /\ StreamRead' /\ FramesLaid'
  <1>1. CASE ~portOpen
    <2>1. UNCHANGED <<wire, stream, sent>>
      BY <1>1 DEF Put, historyVars
    <2>2. wire' \in Seq(Bytes) /\ stream' \in Seq(Bytes) /\ FramesLaid'
      BY <2>1 DEF GatewayInv, GatewayTypes, FramesLaid
    <2> QED BY <1>1, <2>2 DEF StreamRead
  <1>2. CASE portOpen
    <2>1. PICK x : x = FlattenSeq(frames)
      OBVIOUS
    <2>2. /\ wire' = wire \o x /\ stream' = stream \o x
          /\ sent' = sent \o PlacesOf(Len(stream), frames)
      BY <1>2, <2>1 DEF Put, PlacesOf
    <2>3. x \in Seq(Bytes)
      <3>1. PICK n \in Nat : n = Len(frames)
        OBVIOUS
      <3>2. Rows(n, frames, Bytes)
        <4>1. \A i \in 1..n : frames[i] \in SeqsOf(Bytes)
          BY <3>1, ElementOfSeq
        <4>2. n = 0 => frames = <<>>
          BY <3>1, EmptySeq
        <4> QED BY <3>1, <4>1, <4>2 DEF Rows, Nothing
      <3> QED BY <2>1, <3>2, FlattenType DEF SeqsOf
    <2>4. /\ wire' \in Seq(Bytes) /\ stream' \in Seq(Bytes)
          /\ Len(stream') = Len(stream) + Len(x) /\ StreamRead'
      BY <2>2, <2>3, LineGrows
    <2>5. Laid(Len(stream) + Len(x), sent')
      <3>1. Laid(Len(stream), sent) /\ Len(stream) \in Nat
        BY DEF GatewayInv, FramesLaid, GatewayTypes
      <3> QED BY <2>1, <2>2, <3>1, LaidMore
    <2>6. FramesLaid'
      BY <2>4, <2>5 DEF FramesLaid
    <2> QED BY <2>4, <2>6
  <1> QED BY <1>1, <1>2

(* Nothing happens to the line, and what is reported stays accounted for.  *)
LEMMA StreamKept ==
    ASSUME StreamRead, UNCHANGED <<stream, wire, buffer, portOpen>>,
           Reading' => Reading /\ reported' \o inHand' = reported \o inHand
    PROVE  StreamRead'
  <1> SUFFICES ASSUME portOpen' PROVE \E pre : HasRead(pre)'
    BY DEF StreamRead
  <1>1. PICK pre : HasRead(pre)
    BY DEF StreamRead
  <1>2. HasRead(pre)'
    BY <1>1 DEF HasRead
  <1> QED BY <1>2

-----------------------------------------------------------------------------
(* Every action keeps the invariant.                                       *)

LEMMA GatewayInitInv == GatewayInit => GatewayInv
  <1> SUFFICES ASSUME GatewayInit PROVE GatewayInv
    OBVIOUS
  <1>1. GatewayTypes
    <2>1. /\ <<>> \in Seq(Tags) /\ <<>> \in Seq(Bytes)
          /\ <<>> \in Seq({StartInventory, StopInventory})
      OBVIOUS
    <2>2. 0 \in 0..MaxStarts /\ 0 \in 0..MaxFaults
      BY GatewayAssumption
    <2>3. "none" \in LoopStates
      BY DEF LoopStates
    <2> QED BY <2>1, <2>2, <2>3 DEF GatewayInit, GatewayTypes
  <1>2. HandNotEmpty /\ StreamRead
    BY DEF GatewayInit, HandNotEmpty, StreamRead
  <1>3. BufferParsed
    <2>1. Parsed(<<>>)
      BY DrainNothing DEF Parsed
    <2>2. Short(<<>>)
      BY DEF Short, FixedHeaderLen
    <2> QED BY <2>1, <2>2 DEF GatewayInit, BufferParsed
  <1>4. FramesLaid
    <2>1. Laid(Len(stream), <<>>)
      <3>1. <<>> \in Seq(Places) /\ 1..Len(<<>>) = {}
        OBVIOUS
      <3> QED BY <3>1 DEF Laid
    <2> QED BY <2>1 DEF GatewayInit, FramesLaid
  <1> QED BY <1>1, <1>2, <1>3, <1>4 DEF GatewayInv

LEMMA HandleCommandInv ==
    ASSUME GatewayInv, HandleCommand
    PROVE  GatewayInv'
  <1>1. /\ commands # <<>> /\ commands' = Tail(commands)
        /\ active' = (Head(commands) = StartInventory)
        /\ UNCHANGED <<running, connected, loop, inHand, portOpen, buffer,
                       reported, starts, faults>>
    BY DEF HandleCommand, serviceVars
  <1>2. PICK code \in Bytes :
           /\ code = Head(commands) /\ Tail(commands) \in Seq({StartInventory, StopInventory})
    <2>1. commands \in Seq({StartInventory, StopInventory})
      BY DEF GatewayInv, GatewayTypes
    <2>2. Head(commands) \in {StartInventory, StopInventory}
          /\ Tail(commands) \in Seq({StartInventory, StopInventory})
      BY <1>1, <2>1, HeadTailProperties
    <2> QED BY <2>2, GatewayAssumption
  <1>3. PICK more \in Seq(SeqsOf(Bytes)) :
           /\ more = IF code = StartInventory THEN HeldFrames ELSE <<>>
           /\ \A i \in 1..Len(more) : Framed(more[i])
    <2>1. <<>> \in Seq(SeqsOf(Bytes)) /\ 1..Len(<<>>) = {}
      OBVIOUS
    <2> QED BY <2>1, HeldFramesAre
  <1>4. PICK one \in Seq(SeqsOf(Bytes)) :
           /\ one = <<SuccessResponse(Address, code)>> /\ Len(one) = 1
           /\ one[1] = SuccessResponse(Address, code)
    <2>1. PICK f \in SeqsOf(Bytes) : f = SuccessResponse(Address, code)
      BY SuccessResponseIsFramed DEF Framed, SeqsOf
    <2>2. <<f>> \in Seq(SeqsOf(Bytes)) /\ Len(<<f>>) = 1 /\ <<f>>[1] = f
      OBVIOUS
    <2> QED BY <2>1, <2>2
  <1>5. PICK frames \in Seq(SeqsOf(Bytes)) :
           frames = one \o more /\ \A i \in 1..Len(frames) : Framed(frames[i])
    <2>1. one \o more \in Seq(SeqsOf(Bytes))
      BY ConcatProperties
    <2>2. PICK frames \in Seq(SeqsOf(Bytes)) : frames = one \o more
      BY <2>1
    <2>3. /\ Len(frames) = Len(one) + Len(more)
          /\ \A i \in 1..Len(one) + Len(more) :
                frames[i] = IF i <= Len(one) THEN one[i] ELSE more[i - Len(one)]
      BY <2>2, ConcatProperties
    <2>4. ASSUME NEW i \in 1..Len(frames) PROVE Framed(frames[i])
      <3>1. CASE i = 1
        <4>1. frames[i] = one[1]
          BY <3>1, <2>3, <1>4
        <4> QED BY <4>1, <1>4, SuccessResponseIsFramed
      <3>2. CASE i # 1
        <4>1. i - 1 \in 1..Len(more) /\ frames[i] = more[i - 1]
          BY <3>2, <2>3, <1>4
        <4> QED BY <4>1, <1>3
      <3> QED BY <3>1, <3>2
    <2> QED BY <2>2, <2>4
  <1>6. Put(frames)
    BY <1>2, <1>3, <1>4, <1>5 DEF HandleCommand
  <1>7. /\ wire' \in Seq(Bytes) /\ stream' \in Seq(Bytes)
        /\ StreamRead' /\ FramesLaid'
    BY <1>1, <1>5, <1>6, PutKeeps
  <1>8. GatewayTypes'
    BY <1>1, <1>2, <1>7 DEF GatewayInv, GatewayTypes
  <1>9. HandNotEmpty' /\ BufferParsed'
    BY <1>1 DEF GatewayInv, HandNotEmpty, BufferParsed
  <1> QED BY <1>7, <1>8, <1>9 DEF GatewayInv

LEMMA BoardTickInv ==
    ASSUME GatewayInv, BoardTick
    PROVE  GatewayInv'
  <1>1. UNCHANGED <<running, connected, loop, inHand, portOpen, buffer, active,
                    commands, reported, starts, faults>>
    BY DEF BoardTick, serviceVars
  <1>2. PICK frames \in Seq(SeqsOf(Bytes)) :
           Put(frames) /\ \A i \in 1..Len(frames) : Framed(frames[i])
    BY HeldFramesAre DEF BoardTick
  <1>3. /\ wire' \in Seq(Bytes) /\ stream' \in Seq(Bytes)
        /\ StreamRead' /\ FramesLaid'
    BY <1>1, <1>2, PutKeeps
  <1>4. GatewayTypes'
    BY <1>1, <1>3 DEF GatewayInv, GatewayTypes
  <1>5. HandNotEmpty' /\ BufferParsed'
    BY <1>1 DEF GatewayInv, HandNotEmpty, BufferParsed
  <1> QED BY <1>3, <1>4, <1>5 DEF GatewayInv

LEMMA FaultCounts ==
    ASSUME GatewayInv, NEW kind, Fault(kind)
    PROVE  faults' \in 0..MaxFaults
  BY GatewayAssumption DEF Fault, GatewayInv, GatewayTypes

LEMMA DisturbInv ==
    ASSUME GatewayInv, Disturb
    PROVE  GatewayInv'
  <1>1. UNCHANGED <<running, connected, loop, inHand, portOpen, buffer, active,
                    commands, reported, starts, sent>>
    BY DEF Disturb, serviceVars
  <1>2. PICK b \in Noise : wire' = Append(wire, b) /\ stream' = Append(stream, b)
    BY DEF Disturb
  <1>3. b \in Bytes
    BY GatewayAssumption
  <1>4. PICK x \in Seq(Bytes) : x = <<b>> /\ Len(x) = 1
    <2>1. <<b>> \in Seq(Bytes) /\ Len(<<b>>) = 1
      BY <1>3
    <2> QED BY <2>1
  <1>5. wire \in Seq(Bytes) /\ stream \in Seq(Bytes)
    BY DEF GatewayInv, GatewayTypes
  <1>6. wire' = wire \o x /\ stream' = stream \o x
    BY <1>2, <1>3, <1>4, <1>5, AppendIsConcat
  <1>7. /\ wire' \in Seq(Bytes) /\ stream' \in Seq(Bytes)
        /\ Len(stream') = Len(stream) + Len(x) /\ StreamRead'
    BY <1>1, <1>6, LineGrows
  <1>8. FramesLaid'
    <2>1. PICK n \in Nat : n = Len(stream)
      BY <1>5
    <2>2. Laid(n, sent) /\ n <= n + 1 /\ n + 1 \in Nat
      BY <2>1 DEF GatewayInv, FramesLaid
    <2>3. Laid(n + 1, sent)
      BY <2>2, LaidLonger
    <2> QED BY <1>1, <1>4, <1>7, <2>1, <2>3 DEF FramesLaid
  <1>9. GatewayTypes'
    <2>1. faults' \in 0..MaxFaults
      BY FaultCounts DEF Disturb
    <2> QED BY <1>1, <1>7, <2>1 DEF GatewayInv, GatewayTypes
  <1>10. HandNotEmpty' /\ BufferParsed'
    BY <1>1 DEF GatewayInv, HandNotEmpty, BufferParsed
  <1> QED BY <1>7, <1>8, <1>9, <1>10 DEF GatewayInv

\* e is s with its j-th element, if there is one, replaced by b.
Replaced(e, s, j, b) ==
    /\ e \in Seq(Bytes) /\ Len(e) = Len(s)
    /\ \A k \in 1..Len(s) : e[k] = IF k = j THEN b ELSE s[k]

LEMMA ReplacedIs ==
    ASSUME NEW s \in Seq(Bytes), NEW j \in Int, NEW b \in Bytes
    PROVE  Replaced([s EXCEPT ![j] = b], s, j, b)
  <1>1. PICK n \in Nat : n = Len(s) /\ DOMAIN s = 1..n
    OBVIOUS
  <1> DEFINE e == [k \in 1..n |-> IF k = j THEN b ELSE s[k]]
  <1>2. e = [s EXCEPT ![j] = b]
    BY <1>1
  <1>3. ASSUME NEW k \in 1..n PROVE (IF k = j THEN b ELSE s[k]) \in Bytes
    BY <1>1, ElementOfSeq
  <1>4. e \in Seq(Bytes) /\ Len(e) = n
    BY <1>3
  <1>5. \A k \in 1..n : e[k] = IF k = j THEN b ELSE s[k]
    OBVIOUS
  <1>6. Replaced(e, s, j, b)
    <2> HIDE DEF e
    <2> QED BY <1>1, <1>4, <1>5 DEF Replaced
  <1> QED BY <1>2, <1>6

LEMMA GarbleInv ==
    ASSUME GatewayInv, Garble
    PROVE  GatewayInv'
  <1>1. UNCHANGED <<running, connected, loop, inHand, portOpen, buffer, active,
                    commands, reported, starts, sent>>
    BY DEF Garble, serviceVars
  <1>2. PICK i \in DOMAIN wire, b \in Noise :
           /\ wire' = [wire EXCEPT ![i] = b]
           /\ stream' = [stream EXCEPT ![Len(stream) - Len(wire) + i] = b]
    BY DEF Garble
  <1>3. b \in Bytes
    BY GatewayAssumption
  <1>4. wire \in Seq(Bytes) /\ stream \in Seq(Bytes)
    BY DEF GatewayInv, GatewayTypes
  <1>5. PICK w \in Seq(Bytes) :
           /\ w = wire' /\ Len(w) = Len(wire)
           /\ \A k \in 1..Len(wire) : w[k] = IF k = i THEN b ELSE wire[k]
    <2>1. i \in Int
      BY <1>4
    <2>2. Replaced([wire EXCEPT ![i] = b], wire, i, b)
      BY <1>3, <1>4, <2>1, ReplacedIs
    <2>3. Replaced(wire', wire, i, b)
      BY <1>2, <2>2
    <2> QED BY <2>3 DEF Replaced
  <1>6. PICK s \in Seq(Bytes) :
           /\ s = stream' /\ Len(s) = Len(stream)
           /\ \A k \in 1..Len(stream) :
                 s[k] = IF k = Len(stream) - Len(wire) + i THEN b ELSE stream[k]
    <2>1. PICK j \in Int : j = Len(stream) - Len(wire) + i
      BY <1>4
    <2>2. Replaced([stream EXCEPT ![j] = b], stream, j, b)
      BY <1>3, <1>4, ReplacedIs
    <2>3. Replaced(stream', stream, j, b)
      BY <1>2, <2>1, <2>2
    <2> QED BY <2>1, <2>3 DEF Replaced
  <1>7. StreamRead'
    <2> SUFFICES ASSUME portOpen' PROVE \E pre : HasRead(pre)'
      BY DEF StreamRead
    <2>1. PICK pre : HasRead(pre)
      BY <1>1 DEF GatewayInv, StreamRead
    <2>2. pre \in Seq(Bytes) /\ stream = pre \o wire
      BY <2>1 DEF HasRead
    <2>3. PICK o \in Nat, l \in Nat : o = Len(pre) /\ l = Len(wire)
      BY <1>4, <2>2
    <2>4. /\ Len(stream) = o + l
          /\ \A k \in 1..o : stream[k] = pre[k]
          /\ \A k \in 1..l : stream[o + k] = wire[k]
      <3>1. PICK e \in Seq(Bytes) :
               /\ e = pre \o wire /\ Len(e) = Len(pre) + Len(wire)
               /\ \A k \in 1..Len(pre) : e[k] = pre[k]
               /\ \A k \in 1..Len(wire) : e[Len(pre) + k] = wire[k]
        BY <1>4, <2>2, ConcatIs
      <3> QED BY <2>2, <2>3, <3>1
    <2>5. PICK t \in Seq(Bytes) :
             /\ t = pre \o w /\ Len(t) = o + l
             /\ \A k \in 1..o : t[k] = pre[k]
             /\ \A k \in 1..l : t[o + k] = w[k]
      <3>1. PICK t \in Seq(Bytes) :
               /\ t = pre \o w /\ Len(t) = Len(pre) + Len(w)
               /\ \A k \in 1..Len(pre) : t[k] = pre[k]
               /\ \A k \in 1..Len(w) : t[Len(pre) + k] = w[k]
        BY <2>2, ConcatIs
      <3>2. Len(w) = l
        BY <1>5, <2>3
      <3> QED BY <2>3, <3>1, <3>2
    <2>6. ASSUME NEW k \in 1..o + l PROVE s[k] = t[k]
      <3>1. Len(stream) - Len(wire) + i = o + i /\ i \in 1..l
        BY <1>4, <2>3, <2>4
      <3>2. s[k] = IF k = o + i THEN b ELSE stream[k]
        BY <1>6, <2>4, <3>1
      <3>3. CASE k <= o
        <4>1. k \in 1..o /\ k # o + i
          BY <3>1, <3>3
        <4> QED BY <4>1, <3>2, <2>4, <2>5
      <3>4. CASE ~(k <= o)
        <4>1. PICK j \in 1..l : k = o + j
          <5>1. k - o \in 1..l /\ k = o + (k - o)
            BY <3>4
          <5> QED BY <5>1
        <4>2. w[j] = IF j = i THEN b ELSE wire[j]
          BY <1>5, <2>3
        <4>3. j = i <=> k = o + i
          BY <4>1, <3>1
        <4> QED BY <4>1, <4>2, <4>3, <3>2, <2>4, <2>5
      <3> QED BY <3>3, <3>4
    <2>7. s = t
      BY <1>6, <2>4, <2>5, <2>6, SeqEqual
    <2>8. stream' = pre \o wire'
      BY <1>5, <1>6, <2>5, <2>7
    <2>9. HasRead(pre)'
      BY <1>1, <2>1, <2>8 DEF HasRead, Reading
    <2> QED BY <2>9
  <1>8. FramesLaid'
    BY <1>1, <1>6 DEF GatewayInv, FramesLaid
  <1>9. GatewayTypes'
    <2>1. faults' \in 0..MaxFaults
      BY FaultCounts DEF Garble
    <2>2. wire' \in Seq(Bytes) /\ stream' \in Seq(Bytes)
      BY <1>5, <1>6
    <2> QED BY <1>1, <2>1, <2>2 DEF GatewayInv, GatewayTypes
  <1>10. HandNotEmpty' /\ BufferParsed'
    BY <1>1 DEF GatewayInv, HandNotEmpty, BufferParsed
  <1> QED BY <1>7, <1>8, <1>9, <1>10 DEF GatewayInv

LEMMA FreshLineStarts ==
    ASSUME GatewayInv, FreshLine
    PROVE  /\ wire' \in Seq(Bytes) /\ stream' = wire'
           /\ FramesLaid'
  <1>1. PICK end \in {<<>>} \cup
                   {Tail(HeldFrames[i]) : i \in IF active THEN DOMAIN Held ELSE {}} :
           wire' = end /\ stream' = end
    BY DEF FreshLine
  <1>2. end \in Seq(Bytes)
    <2>1. CASE end = <<>>
      BY <2>1
    <2>2. CASE end # <<>>
      <3>1. PICK i \in DOMAIN Held : end = Tail(HeldFrames[i])
        BY <2>2
      <3>2. PICK f \in Seq(Bytes) : f = HeldFrames[i] /\ Len(f) >= 9
        <4>1. i \in 1..Len(HeldFrames)
          BY HeldFramesAre
        <4> QED BY <4>1, HeldFramesAre DEF Framed
      <3>3. f # <<>>
        BY <3>2
      <3> QED BY <3>1, <3>2, <3>3, HeadTailProperties
    <2> QED BY <2>1, <2>2
  <1>3. FramesLaid'
    <2>1. Laid(Len(stream'), <<>>)
      <3>1. <<>> \in Seq(Places) /\ 1..Len(<<>>) = {}
        OBVIOUS
      <3> QED BY <3>1 DEF Laid
    <2> QED BY <2>1 DEF FreshLine, FramesLaid
  <1> QED BY <1>1, <1>2, <1>3

LEMMA SameLineStarts ==
    ASSUME GatewayInv, SameLine
    PROVE  /\ wire' \in Seq(Bytes) /\ stream' = wire'
           /\ FramesLaid'
  <1>1. wire \in Seq(Bytes) /\ stream \in Seq(Bytes) /\ wire' = wire /\ stream' = wire
    BY DEF GatewayInv, GatewayTypes, SameLine
  <1>2. PICK pre : HasRead(pre)
    BY DEF GatewayInv, StreamRead, SameLine
  <1>3. PICK o \in Nat, l \in Nat, n \in Nat :
           o = Len(pre) /\ l = Len(wire) /\ n = Len(stream) /\ n = o + l
    <2>1. pre \in Seq(Bytes) /\ stream = pre \o wire
      BY <1>2 DEF HasRead
    <2>2. Len(stream) = Len(pre) + Len(wire)
      BY <1>1, <2>1, ConcatProperties
    <2>3. Len(pre) \in Nat /\ Len(wire) \in Nat /\ Len(stream) \in Nat
      BY <1>1, <2>1
    <2> QED BY <2>2, <2>3
  <1>4. n - l = o /\ o \in 0..n /\ n - o = l
    BY <1>3
  <1>5. sent' = PlacesBehind(o, sent)
    BY <1>3, <1>4 DEF SameLine, PlacesBehind
  <1>6. Laid(n, sent)
    BY <1>3 DEF GatewayInv, FramesLaid
  <1>7. Laid(l, sent')
    BY <1>4, <1>5, <1>6, LaidFrom
  <1> QED BY <1>1, <1>3, <1>7 DEF FramesLaid

LEMMA StartInv ==
    ASSUME GatewayInv, Start
    PROVE  GatewayInv'
  <1>1. /\ starts < MaxStarts /\ starts' = starts + 1 /\ running' = TRUE
        /\ loop' = "idle" /\ inHand' = <<>> /\ active' = active
    BY DEF Start
  <1>2. starts' \in 0..MaxStarts
    BY <1>1, GatewayAssumption DEF GatewayInv, GatewayTypes
  <1>3. HandNotEmpty' /\ "idle" \in LoopStates
    BY <1>1 DEF HandNotEmpty, LoopStates
  <1>4. <<>> \in Seq(Tags)
    OBVIOUS
  <1>5. CASE OpenFails
    <2>1. /\ ~portOpen' /\ connected' = FALSE
          /\ UNCHANGED <<portOpen, buffer, wire, commands, reported, stream, sent>>
      BY <1>5 DEF OpenFails, historyVars
    <2>2. faults' \in 0..MaxFaults
      BY <1>5, FaultCounts DEF OpenFails
    <2>3. GatewayTypes'
      BY <1>1, <1>2, <1>3, <1>4, <2>1, <2>2 DEF GatewayInv, GatewayTypes
    <2>4. BufferParsed' /\ FramesLaid'
      BY <2>1 DEF GatewayInv, BufferParsed, FramesLaid
    <2>5. StreamRead'
      BY <2>1 DEF StreamRead
    <2> QED BY <1>3, <2>3, <2>4, <2>5 DEF GatewayInv
  <1>6. CASE Connects
    <2>1. portOpen' = TRUE /\ buffer' = <<>> /\ reported' = <<>>
      BY <1>6 DEF Connects
    <2>2. wire' \in Seq(Bytes) /\ stream' = wire' /\ FramesLaid'
      BY <1>6, FreshLineStarts, SameLineStarts DEF Connects
    <2>3. commands' \in Seq({StartInventory, StopInventory}) /\ connected' \in BOOLEAN
      <3>1. commands \in Seq({StartInventory, StopInventory})
        BY DEF GatewayInv, GatewayTypes
      <3>2. Append(commands, StartInventory) \in Seq({StartInventory, StopInventory})
        BY <3>1
      <3> QED BY <1>6, <3>1, <3>2 DEF Connects
    <2>4. faults' \in 0..MaxFaults
      <3>1. faults' = faults \/ Fault("write")
        BY <1>6 DEF Connects
      <3> QED BY <3>1, FaultCounts DEF GatewayInv, GatewayTypes
    <2>5. GatewayTypes'
      <3>1. <<>> \in Seq(Bytes)
        OBVIOUS
      <3> QED BY <1>1, <1>2, <1>3, <1>4, <2>1, <2>2, <2>3, <2>4, <3>1
              DEF GatewayInv, GatewayTypes
    <2>6. BufferParsed'
      <3>1. Parsed(<<>>)
        BY DrainNothing DEF Parsed
      <3>2. Short(<<>>)
        BY DEF Short, FixedHeaderLen
      <3> QED BY <2>1, <3>1, <3>2 DEF BufferParsed
    <2>7. StreamRead'
      <3>1. <<>> \in Seq(Bytes) /\ <<>> \o wire' = wire'
        BY <2>2, ConcatEmptySeq
      <3>2. Drain(<<>>).rest = <<>> /\ Drain(<<>>).tags = <<>>
        BY DrainNothing
      <3>3. <<>> \o <<>> = <<>>
        BY <1>4, ConcatEmptySeq
      <3>4. HasRead(<<>>)'
        BY <1>1, <2>1, <2>2, <3>1, <3>2, <3>3 DEF HasRead
      <3> QED BY <3>4 DEF StreamRead
    <2> QED BY <1>3, <2>2, <2>5, <2>6, <2>7 DEF GatewayInv
  <1> QED BY <1>5, <1>6 DEF Start

LEMMA PollBeginsInv ==
    ASSUME GatewayInv, PollBegins
    PROVE  GatewayInv'
  <1>1. /\ loop = "idle" /\ loop' = "polling"
        /\ UNCHANGED <<running, connected, inHand, portOpen, buffer, wire, active,
                       commands, reported, starts, faults, stream, sent>>
    BY DEF PollBegins, historyVars
  <1>2. GatewayTypes'
    BY <1>1 DEF GatewayInv, GatewayTypes, LoopStates
  <1>3. HandNotEmpty' /\ BufferParsed' /\ FramesLaid'
    BY <1>1 DEF GatewayInv, HandNotEmpty, BufferParsed, FramesLaid
  <1>4. StreamRead'
    BY <1>1, StreamKept DEF GatewayInv, Reading
  <1> QED BY <1>2, <1>3, <1>4 DEF GatewayInv

(* What has been read, read on.                                            *)
LEMMA ReadOn ==
    ASSUME NEW pre \in Seq(Bytes), NEW c \in Seq(Bytes),
           NEW told \in Seq(Tags), NEW hand \in Seq(Tags),
           told \o hand = Drain(pre).tags
    PROVE  told \o (hand \o Drain(Drain(pre).rest \o c).tags) = Drain(pre \o c).tags
  <1>1. PICK new \in Seq(Tags) : new = Drain(Drain(pre).rest \o c).tags
    <2>1. Drain(pre).rest \in Seq(Bytes)
      BY DrainType
    <2>2. Drain(pre).rest \o c \in Seq(Bytes)
      BY <2>1, ConcatProperties
    <2> QED BY <2>2, DrainType
  <1>2. Drain(pre \o c).tags = (told \o hand) \o new
    BY <1>1, FramesInPieces
  <1>3. told \o (hand \o new) = (told \o hand) \o new
    BY ConcatTags
  <1> QED BY <1>1, <1>2, <1>3

LEMMA ReadChunkInv ==
    ASSUME GatewayInv, ReadChunk
    PROVE  GatewayInv'
  <1>1. /\ loop = "polling" /\ wire # <<>>
        /\ UNCHANGED <<running, connected, loop, portOpen, active, commands,
                       reported, starts, faults, stream, sent>>
    BY DEF ReadChunk, historyVars
  <1>2. /\ buffer \in Seq(Bytes) /\ wire \in Seq(Bytes)
        /\ inHand \in Seq(Tags) /\ reported \in Seq(Tags)
    BY DEF GatewayInv, GatewayTypes
  <1>3. PICK l \in Nat : l = Len(wire)
    BY <1>2
  <1>4. PICK n \in 1..l :
           /\ Feed(SubSeq(wire, 1, n))
           /\ wire' = SubSeq(wire, n + 1, l)
    <2>1. PICK m \in Nat : m = Min({ChunkSize, l})
      <3>1. {ChunkSize, l} \subseteq Nat /\ {ChunkSize, l} # {}
        BY GatewayAssumption
      <3> QED BY <3>1, MinIsLeast
    <2>2. m <= l
      <3>1. {ChunkSize, l} \subseteq Nat /\ {ChunkSize, l} # {} /\ l \in {ChunkSize, l}
        BY GatewayAssumption
      <3> QED BY <3>1, <2>1, MinIsLeast
    <2>3. 1..m \subseteq 1..l
      BY <2>2
    <2>4. \E n \in 1..m : /\ Feed(SubSeq(wire, 1, n))
                          /\ wire' = SubSeq(wire, n + 1, l)
      BY <1>3, <2>1 DEF ReadChunk
    <2> QED BY <2>3, <2>4
  <1>5. PICK c \in Seq(Bytes), w \in Seq(Bytes) :
           /\ c = SubSeq(wire, 1, n) /\ w = wire' /\ wire = c \o w
    <2>1. SubSeq(wire, 1, n) \in Seq(Bytes) /\ SubSeq(wire, n + 1, l) \in Seq(Bytes)
      BY <1>2, <1>3, SubSeqProperties
    <2>2. SubSeq(wire, 1, n) \o SubSeq(wire, n + 1, l) = SubSeq(wire, 1, l)
      <3>1. 1 \in 1..Len(wire) + 1 /\ n \in 1 - 1..l /\ l \in 1..Len(wire)
        BY <1>3
      <3> QED BY <1>2, <1>3, <3>1, ConcatAdjacentSubSeq
    <2>3. SubSeq(wire, 1, l) = wire
      BY <1>2, <1>3, SubSeqFull
    <2> QED BY <1>4, <2>1, <2>2, <2>3
  <1>6. PICK b \in Seq(Bytes) : b = buffer \o c
    BY <1>2, ConcatProperties
  <1>7. buffer' = Drain(b).rest /\ inHand' = inHand \o Drain(b).tags
    BY <1>4, <1>5, <1>6 DEF Feed
  <1>8. Drain(b).rest \in Seq(Bytes) /\ Drain(b).tags \in Seq(Tags)
    BY DrainType
  <1>9. inHand' \in Seq(Tags)
    BY <1>2, <1>7, <1>8, ConcatProperties
  <1>10. GatewayTypes'
    BY <1>1, <1>5, <1>7, <1>8, <1>9 DEF GatewayInv, GatewayTypes
  <1>11. HandNotEmpty' /\ FramesLaid'
    BY <1>1 DEF GatewayInv, HandNotEmpty, FramesLaid
  <1>12. BufferParsed'
    BY <1>7, DrainTwice, DrainLeavesShort DEF BufferParsed
  <1>13. StreamRead'
    <2> SUFFICES ASSUME portOpen' PROVE \E pre : HasRead(pre)'
      BY DEF StreamRead
    <2>1. PICK pre : HasRead(pre)
      BY <1>1 DEF GatewayInv, StreamRead
    <2>2. pre \in Seq(Bytes) /\ stream = pre \o wire /\ buffer = Drain(pre).rest
      BY <2>1 DEF HasRead
    <2>3. PICK e \in Seq(Bytes) : e = pre \o c
      BY <2>2, ConcatProperties
    <2>4. stream' = e \o wire'
      BY <1>1, <1>5, <2>2, <2>3, ConcatBytes
    <2>5. buffer' = Drain(e).rest
      BY <1>6, <1>7, <2>2, <2>3, FramesInPieces
    <2>6. ASSUME Reading' PROVE reported' \o inHand' = Drain(e).tags
      <3>1. Reading
        BY <1>1, <2>6 DEF Reading
      <3>2. reported \o inHand = Drain(pre).tags
        BY <2>1, <3>1 DEF HasRead
      <3>3. reported \o (inHand \o Drain(Drain(pre).rest \o c).tags) = Drain(e).tags
        BY <1>2, <2>2, <2>3, <3>2, ReadOn
      <3> QED BY <1>1, <1>6, <1>7, <2>2, <3>3
    <2>7. HasRead(e)'
      BY <2>4, <2>5, <2>6 DEF HasRead
    <2> QED BY <2>7
  <1> QED BY <1>10, <1>11, <1>12, <1>13 DEF GatewayInv

LEMMA PollEndsInv ==
    ASSUME GatewayInv, PollEnds
    PROVE  GatewayInv'
  <1>1. /\ loop = "polling"
        /\ loop' = IF inHand = <<>> THEN "idle" ELSE "handing"
        /\ UNCHANGED <<running, connected, inHand, portOpen, buffer, wire, active,
                       commands, reported, starts, stream, sent>>
    BY DEF PollEnds, AfterPoll, historyVars
  <1>2. faults' \in 0..MaxFaults
    <2>1. faults' = faults \/ Fault("read")
      BY DEF PollEnds
    <2> QED BY <2>1, FaultCounts DEF GatewayInv, GatewayTypes
  <1>3. GatewayTypes'
    BY <1>1, <1>2 DEF GatewayInv, GatewayTypes, LoopStates
  <1>4. HandNotEmpty' /\ BufferParsed' /\ FramesLaid'
    BY <1>1 DEF GatewayInv, HandNotEmpty, BufferParsed, FramesLaid
  <1>5. StreamRead'
    BY <1>1, StreamKept DEF GatewayInv, Reading
  <1> QED BY <1>3, <1>4, <1>5 DEF GatewayInv

LEMMA HandOverInv ==
    ASSUME GatewayInv, HandOver
    PROVE  GatewayInv'
  <1>1. /\ loop = "handing"
        /\ reported' = Append(reported, Head(inHand))
        /\ inHand' = Tail(inHand)
        /\ loop' = IF Tail(inHand) = <<>> THEN "idle" ELSE "handing"
        /\ UNCHANGED <<running, connected, portOpen, buffer, wire, active,
                       commands, starts, faults, stream, sent>>
    BY DEF HandOver, historyVars
  <1>2. inHand \in Seq(Tags) /\ reported \in Seq(Tags) /\ inHand # <<>>
    BY <1>1 DEF GatewayInv, GatewayTypes, HandNotEmpty
  <1>3. /\ Head(inHand) \in Tags /\ Tail(inHand) \in Seq(Tags)
        /\ reported' \o inHand' = reported \o inHand
    BY <1>1, <1>2, HandedOver
  <1>4. reported' \in Seq(Tags)
    BY <1>1, <1>2, <1>3, AppendProperties
  <1>5. GatewayTypes'
    BY <1>1, <1>3, <1>4 DEF GatewayInv, GatewayTypes, LoopStates
  <1>6. HandNotEmpty' /\ BufferParsed' /\ FramesLaid'
    BY <1>1 DEF GatewayInv, HandNotEmpty, BufferParsed, FramesLaid
  <1>7. StreamRead'
    BY <1>1, <1>3, StreamKept DEF GatewayInv, Reading
  <1> QED BY <1>5, <1>6, <1>7 DEF GatewayInv

LEMMA EventFailsInv ==
    ASSUME GatewayInv, EventFails
    PROVE  GatewayInv'
  <1>1. /\ loop' = "dead" /\ inHand' = <<>>
        /\ UNCHANGED <<running, connected, portOpen, buffer, wire, active,
                       commands, reported, starts, stream, sent>>
    BY DEF EventFails, historyVars
  <1>2. faults' \in 0..MaxFaults
    BY FaultCounts DEF EventFails
  <1>3. GatewayTypes'
    <2>1. <<>> \in Seq(Tags)
      OBVIOUS
    <2> QED BY <1>1, <1>2, <2>1 DEF GatewayInv, GatewayTypes, LoopStates
  <1>4. HandNotEmpty' /\ BufferParsed' /\ FramesLaid'
    BY <1>1 DEF GatewayInv, HandNotEmpty, BufferParsed, FramesLaid
  <1>5. StreamRead'
    BY <1>1, StreamKept DEF GatewayInv, Reading
  <1> QED BY <1>3, <1>4, <1>5 DEF GatewayInv

LEMMA StopInv ==
    ASSUME GatewayInv, Stop
    PROVE  GatewayInv'
  <1>1. /\ running' = FALSE
        /\ UNCHANGED <<buffer, active, reported, starts, stream, sent>>
    BY DEF Stop, historyVars
  <1>2. BufferParsed' /\ FramesLaid'
    BY <1>1 DEF GatewayInv, BufferParsed, FramesLaid
  <1>3. CASE loop = "dead"
    <2>1. UNCHANGED <<connected, loop, inHand, portOpen, wire, commands, faults>>
      BY <1>3 DEF Stop
    <2>2. GatewayTypes' /\ HandNotEmpty'
      BY <1>1, <2>1 DEF GatewayInv, GatewayTypes, HandNotEmpty
    <2>3. StreamRead'
      BY <1>1, <2>1, StreamKept DEF GatewayInv, Reading
    <2> QED BY <1>2, <2>2, <2>3 DEF GatewayInv
  <1>4. CASE loop # "dead"
    <2>1. /\ loop' = "none" /\ connected' = FALSE /\ inHand' = <<>>
          /\ portOpen' = FALSE /\ wire' = <<>>
          /\ \/ /\ commands' = IF portOpen /\ AutoStart
                               THEN Append(commands, StopInventory) ELSE commands
                /\ faults' = faults
             \/ Fault("write") /\ commands' = commands
      BY <1>4 DEF Stop, Disconnect
    <2>2. faults' \in 0..MaxFaults
      BY <2>1, FaultCounts DEF GatewayInv, GatewayTypes
    <2>3. commands' \in Seq({StartInventory, StopInventory})
      <3>1. commands \in Seq({StartInventory, StopInventory})
        BY DEF GatewayInv, GatewayTypes
      <3>2. Append(commands, StopInventory) \in Seq({StartInventory, StopInventory})
        BY <3>1
      <3> QED BY <2>1, <3>1, <3>2
    <2>4. GatewayTypes'
      <3>1. <<>> \in Seq(Tags) /\ <<>> \in Seq(Bytes)
        OBVIOUS
      <3> QED BY <1>1, <2>1, <2>2, <2>3, <3>1
              DEF GatewayInv, GatewayTypes, LoopStates
    <2>5. HandNotEmpty' /\ StreamRead'
      BY <2>1 DEF HandNotEmpty, StreamRead
    <2> QED BY <1>2, <2>4, <2>5 DEF GatewayInv
  <1> QED BY <1>3, <1>4

LEMMA ExitInv ==
    ASSUME GatewayInv, Exit
    PROVE  GatewayInv'
  <1>1. /\ running' = FALSE /\ connected' = FALSE /\ loop' = "none"
        /\ inHand' = <<>> /\ portOpen' = FALSE /\ wire' = <<>>
        /\ UNCHANGED <<buffer, active, commands, reported, starts, stream, sent>>
    BY DEF Exit, historyVars
  <1>2. faults' \in 0..MaxFaults
    <2>1. faults' = faults \/ Fault("kill")
      BY DEF Exit
    <2> QED BY <2>1, FaultCounts DEF GatewayInv, GatewayTypes
  <1>3. GatewayTypes'
    <2>1. <<>> \in Seq(Tags) /\ <<>> \in Seq(Bytes)
      OBVIOUS
    <2> QED BY <1>1, <1>2, <2>1 DEF GatewayInv, GatewayTypes, LoopStates
  <1>4. HandNotEmpty' /\ BufferParsed' /\ FramesLaid' /\ StreamRead'
    BY <1>1 DEF GatewayInv, HandNotEmpty, BufferParsed, FramesLaid, StreamRead
  <1> QED BY <1>3, <1>4 DEF GatewayInv

LEMMA GatewayStep == GatewayInv /\ [GatewayNext]_gatewayVars => GatewayInv'
  <1> SUFFICES ASSUME GatewayInv, [GatewayNext]_gatewayVars PROVE GatewayInv'
    OBVIOUS
  <1>1. CASE UNCHANGED gatewayVars
    <2>1. UNCHANGED <<running, connected, loop, inHand, portOpen, buffer, wire,
                      active, commands, reported, starts, faults, stream, sent>>
      BY <1>1 DEF gatewayVars, serviceVars, historyVars
    <2>2. GatewayTypes' /\ HandNotEmpty' /\ BufferParsed' /\ FramesLaid'
      BY <2>1 DEF GatewayInv, GatewayTypes, HandNotEmpty, BufferParsed, FramesLaid
    <2>3. StreamRead'
      BY <2>1, StreamKept DEF GatewayInv, Reading
    <2> QED BY <2>2, <2>3 DEF GatewayInv
  <1> QED BY <1>1, HandleCommandInv, BoardTickInv, DisturbInv, GarbleInv,
             StartInv, StopInv, ExitInv, PollBeginsInv, ReadChunkInv,
             PollEndsInv, HandOverInv, EventFailsInv
          DEF GatewayNext

-----------------------------------------------------------------------------
(* The theorems.                                                           *)

\* Whatever bytes arrive, every tag handed over has an EPC of bytes and a
\* strength that a signed byte can have, and the variables keep their types.
THEOREM GatewayTypeCorrect == GatewaySpec => []GatewayTypeOK
  <1>1. GatewayInv => GatewayTypeOK
    <2> SUFFICES ASSUME GatewayInv PROVE GatewayTypeOK
      OBVIOUS
    <2>1. GatewayTypes
      BY DEF GatewayInv
    <2>2. ASSUME NEW s \in Seq(Tags), NEW i \in DOMAIN s
          PROVE  s[i].epc \in Seq(Bytes) /\ s[i].rssi \in Strengths \cup {NoRssi}
      <3>1. s[i] \in Tags
        BY <2>2
      <3> QED BY <3>1 DEF Tags
    <2>3. /\ \A i \in DOMAIN inHand :
                /\ inHand[i].epc \in Seq(Bytes)
                /\ inHand[i].rssi \in Strengths \cup {NoRssi}
          /\ \A i \in DOMAIN reported :
                /\ reported[i].epc \in Seq(Bytes)
                /\ reported[i].rssi \in Strengths \cup {NoRssi}
      BY <2>1, <2>2 DEF GatewayTypes
    <2> QED BY <2>1, <2>3 DEF GatewayTypes, GatewayTypeOK
  <1> QED BY <1>1, GatewayInitInv, GatewayStep, PTL DEF GatewaySpec

\* FrameBuffer.feed: between two reads the buffer holds no frame that could be
\* reported, and never as much as the frame it is waiting for.
THEOREM BufferHoldsOneFrameHolds == GatewaySpec => []BufferHoldsOneFrame
  <1>1. GatewayInv => BufferHoldsOneFrame
    BY DEF GatewayInv, BufferParsed, Parsed, Short, BufferHoldsOneFrame
  <1> QED BY <1>1, GatewayInitInv, GatewayStep, PTL DEF GatewaySpec

\* poll_tags and FrameBuffer.feed, whatever the tags in the field, the lengths
\* of their EPCs, the size of a chunk and the faults of the line: the tags
\* reported, those in hand and those in the bytes still to be parsed are those
\* of the frames that arrived as they were sent, in that order, each once.
THEOREM TagsAsSentHolds == GatewaySpec => []TagsAsSent
  <1>1. GatewayInv => TagsAsSent
    <2> SUFFICES ASSUME GatewayInv, Reading, ~Coincidence
                 PROVE  reported \o inHand \o Drain(buffer \o wire).tags = Expected
      BY DEF TagsAsSent
    <2>1. PICK pre : HasRead(pre)
      BY DEF GatewayInv, StreamRead, Reading
    <2>2. /\ pre \in Seq(Bytes) /\ stream = pre \o wire /\ buffer = Drain(pre).rest
          /\ reported \o inHand = Drain(pre).tags
      BY <2>1 DEF HasRead
    <2>3. wire \in Seq(Bytes) /\ stream \in Seq(Bytes)
      BY DEF GatewayInv, GatewayTypes
    <2>4. Drain(stream).tags = Drain(pre).tags \o Drain(buffer \o wire).tags
      BY <2>2, <2>3, FramesInPieces
    <2>5. Drain(stream).tags = Expected
      BY <2>3, StreamIsReportedAsSent DEF StreamLaid, GatewayInv, FramesLaid
    <2> QED BY <2>2, <2>4, <2>5
  <1> QED BY <1>1, GatewayInitInv, GatewayStep, PTL DEF GatewaySpec
=============================================================================
