------------------------- MODULE Collections_proofs -------------------------
(***************************************************************************)
(* What the proofs about queues and pages need of finite sets of numbers,  *)
(* of Kept, and of "ORDER BY version LIMIT n"; and what the proofs about   *)
(* counters need of the sum of a function over a finite set                *)
(* (SumFunctionOnSet of the community modules), as SELECT sum(...)         *)
(* computes it: it does not depend on the order of the rows, and what it   *)
(* does when rows come, go or are split between two sets.                  *)
(*                                                                         *)
(* Induction over the numbers is a minimal counterexample here: a set of   *)
(* numbers has a least element.  Over sets it is SubsetInduction, with a   *)
(* set of sets for the property.                                           *)
(***************************************************************************)
EXTENDS Functions, Sublists, FiniteSetTheorems, TLAPS

\* A set of natural numbers has a least element: of the sets 0..n one is not above another.
LEMMA LeastNat ==
  ASSUME NEW T, T \subseteq Nat, T # {}
  PROVE  \E n \in T : \A m \in T : n <= m
<1>. DEFINE W == {0..n : n \in T}
<1>1. W \subseteq FiniteSubsetsOf(Nat)
  <2>1. \A n \in T : IsFiniteSet(0..n) /\ 0..n \subseteq Nat
    BY FS_Interval, 0 \in Int
  <2>. QED
    BY <2>1 DEF FiniteSubsetsOf
<1>2. W # {}
  OBVIOUS
<1>3. PICK x \in W : \A y \in W : <<y, x>> \notin StrictSubsetOrdering(Nat)
  <2>. HIDE DEF W
  <2>. QED
    BY <1>1, <1>2, FS_StrictSubsetOrderingWellFounded, WFMin
<1>4. PICK n \in T : x = 0..n
  BY <1>3
<1>5. ASSUME NEW m \in T PROVE n <= m
  <2>1. SUFFICES ASSUME m < n PROVE FALSE
    BY <1>5
  <2>2. 0..m \in W
    OBVIOUS
  <2>3. <<0..m, 0..n>> \in StrictSubsetOrdering(Nat)
    <3>1. n \in 0..n /\ n \notin 0..m
      BY <2>1
    <3>2. 0..m \subseteq 0..n
      BY <2>1
    <3>. QED
      BY <3>1, <3>2 DEF StrictSubsetOrdering
  <2>. QED
    BY <2>2, <2>3, <1>3, <1>4
<1>. QED
  BY <1>5

\* and a greatest one when it is bounded.
LEMMA GreatestNat ==
  ASSUME NEW n \in Nat, NEW T, T \subseteq 0..n, T # {}
  PROVE  \E m \in T : \A k \in T : k <= m
<1>. DEFINE U == {n - k : k \in T}
<1>1. U \subseteq Nat /\ U # {}
  <2>1. ASSUME NEW k \in T PROVE n - k \in Nat
    <3>1. k \in 0..n
      OBVIOUS
    <3>. QED
      BY <3>1
  <2>. QED
    BY <2>1
<1>2. PICK u \in U : \A k \in U : u <= k
  <2>. HIDE DEF U
  <2>. QED
    BY <1>1, LeastNat
<1>3. PICK m \in T : u = n - m
  BY <1>2
<1>4. ASSUME NEW k \in T PROVE k <= m
  <2>1. n - k \in U
    OBVIOUS
  <2>2. n - m <= n - k
    BY <1>2, <1>3, <2>1
  <2>. QED
    BY <2>2
<1>. QED
  BY <1>4

\* The places up to i are finitely many.
LEMMA RankTyped ==
  ASSUME NEW n \in Nat, NEW I, I \subseteq 1..n, NEW i \in Nat
  PROVE  /\ IsFiniteSet(I) /\ IsFiniteSet(I \cap 1..i)
         /\ Cardinality(I) \in Nat /\ Rank(I, i) \in Nat
         /\ Rank(I, i) <= Cardinality(I)
<1>1. IsFiniteSet(1..n)
  BY FS_Interval, 1 \in Int
<1>2. IsFiniteSet(I)
  BY <1>1, FS_Subset
<1>3. IsFiniteSet(I \cap 1..i) /\ Cardinality(I \cap 1..i) <= Cardinality(I)
  BY <1>2, FS_Subset
<1>. QED
  BY <1>2, <1>3, FS_CardinalityType DEF Rank

\* A place further on has a greater rank.
LEMMA RankGrows ==
  ASSUME NEW n \in Nat, NEW I, I \subseteq 1..n, NEW i \in I, NEW j \in I, i < j
  PROVE  Rank(I, i) < Rank(I, j)
<1>1. i \in Nat /\ j \in Nat
  OBVIOUS
<1>2. I \cap 1..i \subseteq I \cap 1..j /\ j \in I \cap 1..j /\ j \notin I \cap 1..i
  OBVIOUS
<1>3. IsFiniteSet(I \cap 1..j)
  BY <1>1, RankTyped
<1>4. Cardinality(I \cap 1..i) < Cardinality(I \cap 1..j)
  <2>1. /\ IsFiniteSet(I \cap 1..i)
        /\ Cardinality(I \cap 1..i) <= Cardinality(I \cap 1..j)
        /\ Cardinality(I \cap 1..i) # Cardinality(I \cap 1..j)
    BY <1>2, <1>3, FS_Subset
  <2>. QED
    BY <1>3, <2>1, FS_CardinalityType
<1>. QED
  BY <1>4 DEF Rank

\* Every rank up to the number of places is taken.
LEMMA RankTaken ==
  ASSUME NEW n \in Nat, NEW I, I \subseteq 1..n, NEW k \in 1..Cardinality(I)
  PROVE  \E i \in I : Rank(I, i) = k
<1>1. \A i \in Nat : IsFiniteSet(I \cap 1..i) /\ Rank(I, i) \in Nat /\ IsFiniteSet(I)
  BY RankTyped
<1>2. I \cap 1..n = I
  OBVIOUS
<1>3. Rank(I, n) = Cardinality(I) /\ Cardinality(I) \in Nat
  BY <1>1, <1>2 DEF Rank
<1>. DEFINE T == {i \in 1..n : Rank(I, i) >= k}
<1>4. n \in T /\ T \subseteq Nat
  <2>1. n # 0
    <3>1. SUFFICES ASSUME n = 0 PROVE FALSE
      OBVIOUS
    <3>2. I = {}
      BY <3>1
    <3>. QED
      BY <3>2, FS_EmptySet
  <2>. QED
    BY <2>1, <1>3
<1>5. PICK i \in T : \A j \in T : i <= j
  <2>. HIDE DEF T
  <2>. QED
    BY <1>4, LeastNat
<1>6. i \in 1..n /\ Rank(I, i) >= k /\ Rank(I, i) \in Nat /\ i - 1 \in Nat
  <2>1. i \in 1..n /\ Rank(I, i) >= k
    BY <1>5
  <2>2. i \in Nat /\ i - 1 \in Nat
    BY <2>1
  <2>. QED
    BY <1>1, <2>1, <2>2
<1>7. Rank(I, i - 1) < k /\ Rank(I, i - 1) \in Nat
  <2>1. CASE i = 1
    <3>1. I \cap 1..(i - 1) = {}
      BY <2>1
    <3>. QED
      BY <3>1, FS_EmptySet DEF Rank
  <2>2. CASE i # 1
    <3>1. i - 1 \in 1..n /\ i - 1 \notin T
      BY <2>2, <1>5, <1>6
    <3>2. Rank(I, i - 1) \in Nat
      BY <1>1, <1>6
    <3>. QED
      BY <3>1, <3>2
  <2>. QED
    BY <2>1, <2>2
<1>8. i \in I /\ Rank(I, i) = Rank(I, i - 1) + 1
  <2>1. i \in I
    <3>1. SUFFICES ASSUME i \notin I PROVE FALSE
      OBVIOUS
    <3>2. I \cap 1..i = I \cap 1..(i - 1)
      BY <3>1, <1>6
    <3>. QED
      BY <3>2, <1>6, <1>7 DEF Rank
  <2>2. I \cap 1..i = (I \cap 1..(i - 1)) \cup {i} /\ i \notin I \cap 1..(i - 1)
    BY <2>1, <1>6
  <2>3. IsFiniteSet(I \cap 1..(i - 1))
    BY <1>1, <1>6
  <2>. QED
    BY <2>1, <2>2, <2>3, FS_AddElement DEF Rank
<1>. QED
  BY <1>6, <1>7, <1>8

\* Kept(s, I) visits the places I, each once and in their order.
LEMMA KeptOf ==
  ASSUME NEW T, NEW s \in Seq(T), NEW I, I \subseteq DOMAIN s
  PROVE  /\ Cardinality(I) \in Nat
         /\ \E at \in [1..Cardinality(I) -> I] :
            /\ \A i \in I : \E k \in 1..Cardinality(I) : at[k] = i
            /\ \A k, l \in 1..Cardinality(I) : k < l => at[k] < at[l]
            /\ Kept(s, I) = [k \in 1..Cardinality(I) |-> s[at[k]]]
            /\ Kept(s, I) \in Seq(T)
            /\ Len(Kept(s, I)) = Cardinality(I)
<1>. DEFINE n == Cardinality(I)
            at == [k \in 1..n |-> CHOOSE i \in I : Rank(I, i) = k]
<1>1. Len(s) \in Nat /\ I \subseteq 1..Len(s)
  OBVIOUS
<1>2. n \in Nat /\ \A i \in I : i \in Nat /\ Rank(I, i) \in Nat /\ Rank(I, i) <= n
  <2>1. n \in Nat
    BY <1>1, RankTyped, 0 \in Nat
  <2>2. ASSUME NEW i \in I PROVE i \in Nat /\ Rank(I, i) \in Nat /\ Rank(I, i) <= n
    <3>1. i \in Nat
      BY <1>1
    <3>. QED
      BY <1>1, <3>1, RankTyped
  <2>. QED
    BY <2>1, <2>2
<1>. HIDE DEF n
<1>3. \A k \in 1..n : at[k] \in I /\ Rank(I, at[k]) = k
  <2>1. ASSUME NEW k \in 1..n PROVE \E i \in I : Rank(I, i) = k
    BY <1>1, RankTaken DEF n
  <2>. QED
    BY <2>1
<1>4. ASSUME NEW i \in I PROVE Rank(I, i) \in 1..n /\ at[Rank(I, i)] = i
  <2>1. Rank(I, i) > 0
    <3>1. i \in I \cap 1..i /\ IsFiniteSet(I \cap 1..i)
      BY <1>1, <1>2, RankTyped
    <3>2. Cardinality(I \cap 1..i) # 0
      BY <3>1, FS_EmptySet
    <3>. QED
      BY <3>2, <1>2 DEF Rank
  <2>2. Rank(I, i) \in 1..n
    BY <2>1, <1>2
  <2>3. at[Rank(I, i)] \in I /\ Rank(I, at[Rank(I, i)]) = Rank(I, i)
    BY <2>2, <1>3
  <2>4. at[Rank(I, i)] \in Nat /\ i \in Nat
    BY <2>3, <1>2
  <2>5. ~(at[Rank(I, i)] < i) /\ ~(i < at[Rank(I, i)])
    <3>. HIDE DEF at
    <3>. QED
      BY <2>3, <1>1, <1>2, RankGrows
  <2>. QED
    BY <2>2, <2>4, <2>5
<1>5. ASSUME NEW k \in 1..n, NEW l \in 1..n, k < l PROVE at[k] < at[l]
  <2>1. at[k] \in I /\ at[l] \in I /\ Rank(I, at[k]) = k /\ Rank(I, at[l]) = l
    BY <1>3
  <2>2. at[k] # at[l] /\ ~(at[l] < at[k])
    <3>. HIDE DEF at
    <3>. QED
      BY <2>1, <1>1, <1>5, RankGrows
  <2>. QED
    BY <2>1, <2>2, <1>2
<1>6. Kept(s, I) = [k \in 1..n |-> s[at[k]]]
  BY DEF Kept, n
<1>7. Kept(s, I) \in Seq(T) /\ Len(Kept(s, I)) = n
  <2>1. \A k \in 1..n : s[at[k]] \in T
    BY <1>3
  <2>. QED
    BY <1>2, <1>6, <2>1
<1>8. at \in [1..n -> I]
  BY <1>3
<1>. HIDE DEF at
<1>9. \A i \in I : \E k \in 1..n : at[k] = i
  BY <1>4
<1>. QED
  BY <1>2, <1>5, <1>6, <1>7, <1>8, <1>9 DEF n

(* A sequence without its n-th element. *)
LEMMA WithoutOne ==
  ASSUME NEW T, NEW s \in Seq(T), NEW n \in 1..Len(s)
  PROVE  LET rest == SubSeq(s, 1, n - 1) \o SubSeq(s, n + 1, Len(s))
         IN /\ rest \in Seq(T)
            /\ Len(rest) = Len(s) - 1
            /\ \A k \in 1..(Len(s) - 1) : rest[k] = IF k < n THEN s[k] ELSE s[k + 1]
<1>. DEFINE a == SubSeq(s, 1, n - 1)
            b == SubSeq(s, n + 1, Len(s))
            rest == a \o b
<1>1. Len(s) \in Nat /\ n \in Nat /\ 1 <= n /\ n <= Len(s)
  OBVIOUS
<1>2. a \in Seq(T) /\ Len(a) = n - 1 /\ \A k \in 1..(n - 1) : a[k] = s[k]
  BY <1>1
<1>3. b \in Seq(T) /\ Len(b) = Len(s) - n /\ \A k \in 1..(Len(s) - n) : b[k] = s[k + n]
  BY <1>1
<1>. HIDE DEF a, b
<1>5. Len(a) \in Nat /\ Len(b) \in Nat /\ Len(a) = n - 1 /\ Len(b) = Len(s) - n
  BY <1>2, <1>3
<1>6. rest \in Seq(T) /\ Len(rest) = Len(a) + Len(b)
  <2>1. a \in Seq(T) /\ b \in Seq(T)
    BY <1>2, <1>3
  <2>. QED
    BY <2>1
<1>7. ASSUME NEW k \in 1..(Len(a) + Len(b))
      PROVE  rest[k] = IF k <= Len(a) THEN a[k] ELSE b[k - Len(a)]
  BY <1>2, <1>3, <1>5
<1>. HIDE DEF rest
<1>8. Len(s) - 1 = Len(a) + Len(b)
  BY <1>1, <1>5
<1>9. ASSUME NEW k \in 1..(Len(s) - 1)
      PROVE  rest[k] = IF k < n THEN s[k] ELSE s[k + 1]
  <2>1. k \in Nat /\ k >= 1 /\ k <= Len(s) - 1 /\ k \in 1..(Len(a) + Len(b))
    BY <1>1, <1>8
  <2>2. CASE k < n
    <3>1. k \in 1..(n - 1) /\ k <= Len(a)
      BY <1>1, <1>5, <2>1, <2>2
    <3>. QED
      BY <1>2, <1>7, <2>1, <2>2, <3>1
  <2>3. CASE ~(k < n)
    <3>1. k - Len(a) \in 1..(Len(s) - n) /\ ~(k <= Len(a)) /\ (k - Len(a)) + n = k + 1
      BY <1>1, <1>5, <2>1, <2>3
    <3>2. rest[k] = b[k - Len(a)]
      BY <1>7, <2>1, <3>1
    <3>. QED
      BY <1>3, <2>3, <3>1, <3>2
  <2>. QED
    BY <2>2, <2>3
<1>. QED
  BY <1>6, <1>8, <1>9 DEF rest, a, b

(* What a queue holds after it is extended, cut or weeded out. *)
LEMMA RangeOf ==
  ASSUME NEW T, NEW s \in Seq(T)
  PROVE  /\ Range(s) \subseteq T
         /\ \A t \in Seq(T) : Range(s \o t) = Range(s) \cup Range(t)
         /\ \A x \in T : Range(Append(s, x)) = Range(s) \cup {x}
         /\ \A n \in 0..Len(s) : /\ IsFiniteSet(Range(SubSeq(s, 1, n)))
                                 /\ Cardinality(Range(SubSeq(s, 1, n))) <= n
                                 /\ Range(SubSeq(s, 1, n)) \subseteq Range(s)
<1>1. Range(s) \subseteq T
  BY DEF Range
<1>2. ASSUME NEW t \in Seq(T) PROVE Range(s \o t) = Range(s) \cup Range(t)
  <2>1. /\ Len(s) \in Nat /\ Len(t) \in Nat
        /\ DOMAIN (s \o t) = 1..(Len(s) + Len(t))
        /\ DOMAIN s = 1..Len(s) /\ DOMAIN t = 1..Len(t)
    OBVIOUS
  <2>2. \A i \in 1..Len(s) : i \in 1..(Len(s) + Len(t)) /\ (s \o t)[i] = s[i]
    BY <2>1
  <2>3. \A i \in 1..Len(t) : i + Len(s) \in 1..(Len(s) + Len(t)) /\ (s \o t)[i + Len(s)] = t[i]
    BY <2>1
  <2>4. ASSUME NEW i \in 1..(Len(s) + Len(t))
        PROVE  (s \o t)[i] \in Range(s) \cup Range(t)
    <3>1. CASE i <= Len(s)
      <4>1. i \in 1..Len(s)
        BY <2>1, <3>1
      <4>. QED
        BY <2>1, <2>2, <4>1 DEF Range
    <3>2. CASE ~(i <= Len(s))
      <4>1. i - Len(s) \in 1..Len(t) /\ (i - Len(s)) + Len(s) = i
        BY <2>1, <3>2
      <4>2. (s \o t)[i] = t[i - Len(s)]
        BY <2>3, <4>1
      <4>. QED
        BY <2>1, <4>1, <4>2 DEF Range
    <3>. QED
      BY <3>1, <3>2
  <2>5. Range(s \o t) \subseteq Range(s) \cup Range(t)
    BY <2>1, <2>4 DEF Range
  <2>6. Range(s) \subseteq Range(s \o t)
    BY <2>1, <2>2 DEF Range
  <2>7. Range(t) \subseteq Range(s \o t)
    BY <2>1, <2>3 DEF Range
  <2>. QED
    BY <2>5, <2>6, <2>7
<1>3. ASSUME NEW x \in T PROVE Range(Append(s, x)) = Range(s) \cup {x}
  <2>1. /\ Len(s) \in Nat /\ DOMAIN s = 1..Len(s)
        /\ DOMAIN Append(s, x) = 1..(Len(s) + 1)
        /\ \A i \in 1..Len(s) : Append(s, x)[i] = s[i]
        /\ Append(s, x)[Len(s) + 1] = x
    OBVIOUS
  <2>2. \A i \in 1..(Len(s) + 1) : i \in 1..Len(s) \/ i = Len(s) + 1
    BY <2>1
  <2>3. Len(s) + 1 \in 1..(Len(s) + 1) /\ \A i \in 1..Len(s) : i \in 1..(Len(s) + 1)
    BY <2>1
  <2>. QED
    BY <2>1, <2>2, <2>3 DEF Range
<1>4. ASSUME NEW n \in 0..Len(s)
      PROVE  /\ IsFiniteSet(Range(SubSeq(s, 1, n)))
             /\ Cardinality(Range(SubSeq(s, 1, n))) <= n
             /\ Range(SubSeq(s, 1, n)) \subseteq Range(s)
  <2>. DEFINE f == SubSeq(s, 1, n)
  <2>1. n \in Nat /\ Len(s) \in Nat /\ n <= Len(s)
    OBVIOUS
  <2>2. f \in Seq(T) /\ DOMAIN f = 1..n /\ \A i \in 1..n : f[i] = s[i] /\ i \in DOMAIN s
    BY <2>1
  <2>. HIDE DEF f
  <2>3. f \in [1..n -> Range(f)]
    BY <2>2 DEF Range
  <2>4. f \in Surjection(1..n, Range(f))
    BY <2>2, <2>3 DEF Surjection, Range
  <2>5. IsFiniteSet(1..n) /\ Cardinality(1..n) = n
    BY <2>1, FS_Interval, 1 \in Int
  <2>6. IsFiniteSet(Range(f)) /\ Cardinality(Range(f)) <= Cardinality(1..n)
    BY <2>4, <2>5, FS_Surjection
  <2>7. Range(f) \subseteq Range(s)
    BY <2>2 DEF Range
  <2>. QED
    BY <2>5, <2>6, <2>7 DEF f
<1>. QED
  BY <1>1, <1>2, <1>3, <1>4

(* and after the elements of a set are taken out. *)
LEMMA RangeWithout ==
  ASSUME NEW T, NEW s \in Seq(T), NEW A
  PROVE  Without(s, A) \in Seq(T) /\ Range(Without(s, A)) = Range(s) \ A
<1>. DEFINE I == {i \in DOMAIN s : s[i] \notin A}
<1>1. I \subseteq DOMAIN s
  OBVIOUS
<1>2. PICK at \in [1..Cardinality(I) -> I] :
            /\ \A i \in I : \E k \in 1..Cardinality(I) : at[k] = i
            /\ Kept(s, I) = [k \in 1..Cardinality(I) |-> s[at[k]]]
            /\ Kept(s, I) \in Seq(T)
  <2>. HIDE DEF I
  <2>. QED
    BY <1>1, KeptOf
<1>3. Range(Kept(s, I)) = {s[i] : i \in I}
  <2>. HIDE DEF I
  <2>. QED
    BY <1>2 DEF Range
<1>4. {s[i] : i \in I} = Range(s) \ A
  BY DEF Range
<1>. QED
  BY <1>2, <1>3, <1>4 DEF Without
----------------------------------------------------------------------------
(***************************************************************************)
(* Sums.                                                                   *)
(***************************************************************************)
\* The element the recursion of the sum takes out of s.
First(s) == CHOOSE x \in s : TRUE

\* g is the sum of w over each set of U.
Summing(w, U, g) ==
  g = [s \in U |-> IF s = {} THEN 0 ELSE w[First(s)] + g[s \ {First(s)}]]

\* The subsets of S with at most n elements.
UpTo(S, n) == {s \in SUBSET S : Cardinality(s) <= n}

\* w is a natural number on all of S.
NatOn(w, S) == \A x \in S : w[x] \in Nat
----------------------------------------------------------------------------
(* Induction over the subsets of a finite set, with a set of sets for the property. *)
LEMMA SubsetInduction ==
  ASSUME NEW S, IsFiniteSet(S), NEW P, {} \in P,
         \A T \in SUBSET S : \A x \in S \ T : T \in P => T \cup {x} \in P
  PROVE  S \in P
<1>. DEFINE Out == {T \in SUBSET S : T \notin P}
            Sizes == {Cardinality(T) : T \in Out}
<1>1. \A T \in SUBSET S : IsFiniteSet(T) /\ Cardinality(T) \in Nat
  BY FS_Subset, FS_CardinalityType
<1>2. SUFFICES ASSUME S \notin P PROVE FALSE
  OBVIOUS
<1>3. Sizes \subseteq Nat /\ Sizes # {}
  BY <1>1, <1>2
<1>4. PICK n \in Sizes : \A m \in Sizes : n <= m
  <2>. HIDE DEF Sizes
  <2>. QED
    BY <1>3, LeastNat
<1>5. PICK T \in Out : Cardinality(T) = n
  BY <1>4
<1>6. PICK x : x \in T
  BY <1>5
<1>7. Cardinality(T \ {x}) = Cardinality(T) - 1 /\ T \ {x} \in SUBSET S
  BY <1>1, <1>5, <1>6, FS_RemoveElement
<1>8. T \ {x} \in P
  <2>1. T \ {x} \in Out => Cardinality(T) <= Cardinality(T \ {x})
    BY <1>4, <1>5
  <2>. QED
    BY <1>1, <1>7, <2>1
<1>9. (T \ {x}) \cup {x} = T /\ x \in S \ (T \ {x})
  BY <1>5, <1>6
<1>. QED
  BY <1>5, <1>7, <1>8, <1>9

(* The same with all smaller sets for a hypothesis. *)
LEMMA SizeInduction ==
  ASSUME NEW S, IsFiniteSet(S), NEW P,
         \A T \in SUBSET S :
           (\A U \in SUBSET S : Cardinality(U) < Cardinality(T) => U \in P) => T \in P
  PROVE  \A T \in SUBSET S : T \in P
<1>. DEFINE Out == {T \in SUBSET S : T \notin P}
            Sizes == {Cardinality(T) : T \in Out}
<1>1. \A T \in SUBSET S : IsFiniteSet(T) /\ Cardinality(T) \in Nat
  BY FS_Subset, FS_CardinalityType
<1>2. SUFFICES ASSUME NEW T0 \in SUBSET S, T0 \notin P PROVE FALSE
  OBVIOUS
<1>3. Sizes \subseteq Nat /\ Sizes # {}
  BY <1>1, <1>2
<1>4. PICK n \in Sizes : \A m \in Sizes : n <= m
  <2>. HIDE DEF Sizes
  <2>. QED
    BY <1>3, LeastNat
<1>5. PICK T \in Out : Cardinality(T) = n
  BY <1>4
<1>6. ASSUME NEW U \in SUBSET S, Cardinality(U) < Cardinality(T)
      PROVE  U \in P
  <2>1. U \in Out => Cardinality(T) <= Cardinality(U)
    BY <1>4, <1>5
  <2>. QED
    BY <1>1, <1>5, <1>6, <2>1
<1>. QED
  BY <1>5, <1>6
----------------------------------------------------------------------------
(* The recursion of the sum has a solution on the sets with at most n elements. *)
LEMMA SummingUpTo ==
  ASSUME NEW S, IsFiniteSet(S), NEW w
  PROVE  \A n \in Nat : \E g : Summing(w, UpTo(S, n), g)
<1>. DEFINE Out == {n \in Nat : ~\E g : Summing(w, UpTo(S, n), g)}
<1>1. SUFFICES ASSUME Out # {} PROVE FALSE
  OBVIOUS
<1>2. PICK n \in Out : \A m \in Out : n <= m
  <2>1. Out \subseteq Nat
    OBVIOUS
  <2>. HIDE DEF Out
  <2>. QED
    BY <1>1, <2>1, LeastNat
<1>3. \A s \in SUBSET S : IsFiniteSet(s) /\ Cardinality(s) \in Nat
  BY FS_Subset, FS_CardinalityType
<1>4. ASSUME n = 0 PROVE FALSE
  <2>1. \A s \in UpTo(S, 0) : s = {}
    <3>1. ASSUME NEW s \in UpTo(S, 0) PROVE s = {}
      <4>1. IsFiniteSet(s) /\ Cardinality(s) = 0
        BY <1>3 DEF UpTo
      <4>. QED
        BY <4>1, FS_EmptySet
    <3>. QED
      BY <3>1
  <2>. DEFINE g == [s \in UpTo(S, 0) |-> 0]
  <2>2. Summing(w, UpTo(S, 0), g)
    <3>1. g = [s \in UpTo(S, 0) |-> IF s = {} THEN 0 ELSE w[First(s)] + g[s \ {First(s)}]]
      BY <2>1
    <3>. QED
      BY <3>1 DEF Summing
  <2>. QED
    BY <1>2, <1>4, <2>2
<1>5. ASSUME n # 0 PROVE FALSE
  <2>1. n \in Nat /\ n - 1 \in Nat /\ n - 1 \notin Out
    BY <1>2, <1>5
  <2>2. PICK g : Summing(w, UpTo(S, n - 1), g)
    BY <2>1
  <2>. DEFINE h == [s \in UpTo(S, n) |-> IF s = {} THEN 0 ELSE w[First(s)] + g[s \ {First(s)}]]
  <2>3. ASSUME NEW s \in UpTo(S, n), s # {}
        PROVE  s \ {First(s)} \in UpTo(S, n - 1) /\ s \ {First(s)} \in UpTo(S, n)
    <3>1. First(s) \in s
      BY <2>3 DEF First
    <3>2. Cardinality(s \ {First(s)}) = Cardinality(s) - 1 /\ s \ {First(s)} \in SUBSET S
      BY <1>3, <3>1, FS_RemoveElement DEF UpTo
    <3>. QED
      BY <1>3, <2>1, <3>2 DEF UpTo
  <2>4. ASSUME NEW s \in UpTo(S, n - 1) PROVE s \in UpTo(S, n) /\ h[s] = g[s]
    <3>1. s \in UpTo(S, n)
      BY <1>3, <2>1 DEF UpTo
    <3>2. g[s] = IF s = {} THEN 0 ELSE w[First(s)] + g[s \ {First(s)}]
      BY <2>2, Zenon DEF Summing
    <3>. QED
      BY <3>1, <3>2
  <2>5. Summing(w, UpTo(S, n), h)
    <3>1. \A s \in UpTo(S, n) : s # {} => g[s \ {First(s)}] = h[s \ {First(s)}]
      BY <2>3, <2>4
    <3>2. h = [s \in UpTo(S, n) |-> IF s = {} THEN 0 ELSE w[First(s)] + h[s \ {First(s)}]]
      <4>1. \A s \in UpTo(S, n) : h[s] = IF s = {} THEN 0 ELSE w[First(s)] + h[s \ {First(s)}]
        BY <3>1
      <4>. QED
        BY <4>1, Zenon
    <3>. QED
      BY <3>2 DEF Summing
  <2>. QED
    BY <1>2, <2>5
<1>. QED
  BY <1>4, <1>5

(* so the sum over S is a solution on the subsets of S, taken at S. *)
LEMMA SumSolved ==
  ASSUME NEW S, IsFiniteSet(S), NEW w
  PROVE  \E g : Summing(w, SUBSET S, g) /\ SumFunctionOnSet(w, S) = g[S]
<1>1. Cardinality(S) \in Nat
  BY FS_CardinalityType
<1>2. UpTo(S, Cardinality(S)) = SUBSET S
  BY FS_Subset DEF UpTo
<1>3. \E g : Summing(w, SUBSET S, g)
  <2>1. \E g : Summing(w, UpTo(S, Cardinality(S)), g)
    BY <1>1, SummingUpTo
  <2>. QED
    BY <1>2, <2>1
<1>4. SumFunctionOnSet(w, S) = (CHOOSE g : Summing(w, SUBSET S, g))[S]
  BY DEF SumFunctionOnSet, FoldFunctionOnSet, MapThenFoldSet, Summing, First
<1>. QED
  BY <1>3, <1>4

(* Two solutions agree where both are defined. *)
LEMMA SummingOnce ==
  ASSUME NEW S, IsFiniteSet(S), NEW T \in SUBSET S, NEW w, NEW g, NEW h,
         Summing(w, SUBSET S, g), Summing(w, SUBSET T, h)
  PROVE  h[T] = g[T]
<1>. DEFINE P == {s \in SUBSET T : h[s] = g[s]}
<1>1. IsFiniteSet(T)
  BY FS_Subset
<1>2. ASSUME NEW s \in SUBSET T,
             \A u \in SUBSET T : Cardinality(u) < Cardinality(s) => u \in P
      PROVE  s \in P
  <2>1. CASE s = {}
    BY <2>1 DEF Summing
  <2>2. CASE s # {}
    <3>1. First(s) \in s
      BY <2>2 DEF First
    <3>2. IsFiniteSet(s) /\ Cardinality(s) \in Nat
      BY <1>1, FS_Subset, FS_CardinalityType
    <3>3. Cardinality(s \ {First(s)}) < Cardinality(s)
      <4>1. Cardinality(s \ {First(s)}) = Cardinality(s) - 1
        BY <3>1, <3>2, FS_RemoveElement
      <4>. QED
        BY <3>2, <4>1
    <3>4. h[s \ {First(s)}] = g[s \ {First(s)}]
      BY <1>2, <3>3
    <3>5. h[s] = w[First(s)] + h[s \ {First(s)}] /\ g[s] = w[First(s)] + g[s \ {First(s)}]
      BY <2>2 DEF Summing
    <3>. QED
      BY <3>4, <3>5
  <2>. QED
    BY <2>1, <2>2
<1>3. T \in P
  <2>. HIDE DEF P
  <2>. QED
    BY <1>1, <1>2, SizeInduction
<1>. QED
  BY <1>3

(* The sum, by the element its recursion takes out. *)
LEMMA SumRec ==
  ASSUME NEW S, IsFiniteSet(S), NEW w
  PROVE  SumFunctionOnSet(w, S)
           = IF S = {} THEN 0 ELSE w[First(S)] + SumFunctionOnSet(w, S \ {First(S)})
<1>1. PICK g : Summing(w, SUBSET S, g) /\ SumFunctionOnSet(w, S) = g[S]
  BY SumSolved
<1>2. CASE S = {}
  BY <1>1, <1>2 DEF Summing
<1>3. CASE S # {}
  <2>. DEFINE T == S \ {First(S)}
  <2>1. T \in SUBSET S /\ IsFiniteSet(T)
    BY FS_Subset
  <2>2. PICK h : Summing(w, SUBSET T, h) /\ SumFunctionOnSet(w, T) = h[T]
    BY <2>1, SumSolved
  <2>3. h[T] = g[T]
    <3>. HIDE DEF T
    <3>. QED
      BY <1>1, <2>1, <2>2, SummingOnce
  <2>4. g[S] = w[First(S)] + g[T]
    BY <1>1, <1>3 DEF Summing
  <2>. QED
    BY <1>1, <1>3, <2>2, <2>3, <2>4
<1>. QED
  BY <1>2, <1>3

(* It is a natural number. *)
LEMMA SumNat ==
  ASSUME NEW S, IsFiniteSet(S), NEW w, NatOn(w, S)
  PROVE  SumFunctionOnSet(w, S) \in Nat
<1>. DEFINE P == {T \in SUBSET S : SumFunctionOnSet(w, T) \in Nat}
<1>1. ASSUME NEW T \in SUBSET S,
             \A U \in SUBSET S : Cardinality(U) < Cardinality(T) => U \in P
      PROVE  T \in P
  <2>1. IsFiniteSet(T) /\ Cardinality(T) \in Nat
    BY FS_Subset, FS_CardinalityType
  <2>2. SumFunctionOnSet(w, T)
          = IF T = {} THEN 0 ELSE w[First(T)] + SumFunctionOnSet(w, T \ {First(T)})
    BY <2>1, SumRec
  <2>3. ASSUME T # {}
        PROVE  w[First(T)] \in Nat /\ SumFunctionOnSet(w, T \ {First(T)}) \in Nat
    <3>1. First(T) \in T
      BY <2>3 DEF First
    <3>2. Cardinality(T \ {First(T)}) = Cardinality(T) - 1
      BY <2>1, <3>1, FS_RemoveElement
    <3>3. T \ {First(T)} \in P
      BY <1>1, <2>1, <3>2
    <3>. QED
      BY <3>1, <3>3 DEF NatOn
  <2>. QED
    BY <2>2, <2>3
<1>. HIDE DEF P
<1>2. S \in P
  BY <1>1, SizeInduction
<1>. QED
  BY <1>2 DEF P

(* Any element can be taken out first. *)
LEMMA SumRemove ==
  ASSUME NEW S, IsFiniteSet(S), NEW w, NatOn(w, S), NEW y \in S
  PROVE  SumFunctionOnSet(w, S) = w[y] + SumFunctionOnSet(w, S \ {y})
<1>. DEFINE Sum(T) == SumFunctionOnSet(w, T)
            P == {T \in SUBSET S : \A x \in T : Sum(T) = w[x] + Sum(T \ {x})}
<1>1. ASSUME NEW T \in SUBSET S,
             \A U \in SUBSET S : Cardinality(U) < Cardinality(T) => U \in P,
             NEW x \in T
      PROVE  Sum(T) = w[x] + Sum(T \ {x})
  <2>1. IsFiniteSet(T) /\ Cardinality(T) \in Nat
    BY FS_Subset, FS_CardinalityType
  <2>. DEFINE z == First(T)
  <2>2. z \in T /\ Sum(T) = w[z] + Sum(T \ {z})
    BY <2>1, SumRec DEF First
  <2>. HIDE DEF z
  <2>3. CASE x = z
    BY <2>2, <2>3
  <2>4. CASE x # z
    <3>1. /\ Cardinality(T \ {z}) = Cardinality(T) - 1
          /\ Cardinality(T \ {x}) = Cardinality(T) - 1
      BY <2>1, <2>2, FS_RemoveElement
    <3>2. T \ {z} \in P /\ T \ {x} \in P
      BY <1>1, <2>1, <3>1
    <3>3. /\ Sum(T \ {z}) = w[x] + Sum((T \ {z}) \ {x})
          /\ Sum(T \ {x}) = w[z] + Sum((T \ {x}) \ {z})
      BY <2>2, <2>4, <3>2
    <3>4. (T \ {z}) \ {x} = (T \ {x}) \ {z}
      OBVIOUS
    <3>5. w[x] \in Nat /\ w[z] \in Nat
      BY <2>2 DEF NatOn
    <3>6. Sum((T \ {x}) \ {z}) \in Nat
      <4>1. IsFiniteSet((T \ {x}) \ {z}) /\ NatOn(w, (T \ {x}) \ {z})
        BY <2>1, FS_Subset DEF NatOn
      <4>. QED
        BY <4>1, SumNat
    <3>7. Sum((T \ {z}) \ {x}) = Sum((T \ {x}) \ {z})
      BY <3>4, Zenon
    <3>. HIDE DEF Sum
    <3>. QED
      BY <2>2, <3>3, <3>5, <3>6, <3>7
  <2>. QED
    BY <2>3, <2>4
<1>2. ASSUME NEW T \in SUBSET S,
             \A U \in SUBSET S : Cardinality(U) < Cardinality(T) => U \in P
      PROVE  T \in P
  BY <1>1, <1>2
<1>. HIDE DEF P
<1>3. S \in P
  BY <1>2, SizeInduction
<1>. QED
  BY <1>3 DEF P

(* The empty set, one element, and one element more. *)
LEMMA SumInsert ==
  ASSUME NEW S, IsFiniteSet(S), NEW w, NatOn(w, S), NEW y, w[y] \in Nat
  PROVE  /\ SumFunctionOnSet(w, {}) = 0
         /\ SumFunctionOnSet(w, {y}) = w[y]
         /\ y \notin S => SumFunctionOnSet(w, S \cup {y}) = w[y] + SumFunctionOnSet(w, S)
<1>1. SumFunctionOnSet(w, {}) = 0
  BY FS_EmptySet, SumRec
<1>2. SumFunctionOnSet(w, {y}) = w[y]
  <2>1. IsFiniteSet({y}) /\ NatOn(w, {y}) /\ y \in {y} /\ {y} \ {y} = {}
    BY FS_Singleton DEF NatOn
  <2>2. SumFunctionOnSet(w, {y}) = w[y] + SumFunctionOnSet(w, {y} \ {y})
    BY <2>1, SumRemove
  <2>. QED
    BY <1>1, <2>1, <2>2
<1>3. ASSUME y \notin S
      PROVE  SumFunctionOnSet(w, S \cup {y}) = w[y] + SumFunctionOnSet(w, S)
  <2>. DEFINE T == S \cup {y}
  <2>1. IsFiniteSet(T) /\ NatOn(w, T) /\ y \in T /\ T \ {y} = S
    BY <1>3, FS_AddElement DEF NatOn
  <2>. HIDE DEF T
  <2>2. SumFunctionOnSet(w, T) = w[y] + SumFunctionOnSet(w, T \ {y})
    BY <2>1, SumRemove
  <2>. QED
    BY <2>1, <2>2 DEF T
<1>. QED
  BY <1>1, <1>2, <1>3

(* Two disjoint sets add up. *)
LEMMA SumDisjoint ==
  ASSUME NEW S, NEW T, IsFiniteSet(S), IsFiniteSet(T), S \cap T = {},
         NEW w, NatOn(w, S), NatOn(w, T)
  PROVE  SumFunctionOnSet(w, S \cup T) = SumFunctionOnSet(w, S) + SumFunctionOnSet(w, T)
<1>. DEFINE Sum(U) == SumFunctionOnSet(w, U)
            P == {U \in SUBSET T : Sum(S \cup U) = Sum(S) + Sum(U)}
<1>1. Sum(S) \in Nat /\ Sum({}) = 0
  BY SumNat, FS_EmptySet, SumRec
<1>2. {} \in P
  <2>1. S \cup {} = S
    OBVIOUS
  <2>. QED
    BY <1>1, <2>1
<1>3. ASSUME NEW U \in SUBSET T, NEW x \in T \ U, U \in P
      PROVE  U \cup {x} \in P
  <2>1. /\ IsFiniteSet(U) /\ NatOn(w, U) /\ w[x] \in Nat /\ x \notin U
        /\ IsFiniteSet(S \cup U) /\ NatOn(w, S \cup U) /\ x \notin S \cup U
    <3>1. IsFiniteSet(U)
      BY FS_Subset
    <3>. QED
      BY <3>1, FS_Union DEF NatOn
  <2>2. Sum(U \cup {x}) = w[x] + Sum(U)
    BY <2>1, SumInsert
  <2>3. Sum((S \cup U) \cup {x}) = w[x] + Sum(S \cup U)
    BY <2>1, SumInsert
  <2>4. (S \cup U) \cup {x} = S \cup (U \cup {x}) /\ U \cup {x} \in SUBSET T
    OBVIOUS
  <2>5. Sum(S \cup U) = Sum(S) + Sum(U) /\ Sum(U) \in Nat
    BY <1>3, <2>1, SumNat
  <2>6. Sum((S \cup U) \cup {x}) = Sum(S \cup (U \cup {x}))
    BY <2>4, Zenon
  <2>. HIDE DEF Sum
  <2>7. Sum(S \cup (U \cup {x})) = Sum(S) + Sum(U \cup {x})
    BY <1>1, <2>1, <2>2, <2>3, <2>5, <2>6
  <2>. QED
    BY <2>4, <2>7
<1>. HIDE DEF P
<1>4. T \in P
  BY <1>2, <1>3, SubsetInduction
<1>. QED
  BY <1>4 DEF P

(* A larger set has no smaller sum, *)
LEMMA SumMono ==
  ASSUME NEW T, IsFiniteSet(T), NEW S \in SUBSET T, NEW w, NatOn(w, T)
  PROVE  /\ IsFiniteSet(S) /\ NatOn(w, S)
         /\ SumFunctionOnSet(w, S) \in Nat /\ SumFunctionOnSet(w, T) \in Nat
         /\ SumFunctionOnSet(w, S) <= SumFunctionOnSet(w, T)
         /\ SumFunctionOnSet(w, T \ S) = SumFunctionOnSet(w, T) - SumFunctionOnSet(w, S)
<1>1. IsFiniteSet(S) /\ IsFiniteSet(T \ S) /\ NatOn(w, S) /\ NatOn(w, T \ S)
  BY FS_Subset DEF NatOn
<1>2. S \cup (T \ S) = T /\ S \cap (T \ S) = {}
  OBVIOUS
<1>3. SumFunctionOnSet(w, S \cup (T \ S))
        = SumFunctionOnSet(w, S) + SumFunctionOnSet(w, T \ S)
  BY <1>1, <1>2, SumDisjoint
<1>4. SumFunctionOnSet(w, T) = SumFunctionOnSet(w, S) + SumFunctionOnSet(w, T \ S)
  BY <1>2, <1>3, Zenon
<1>5. /\ SumFunctionOnSet(w, S) \in Nat
      /\ SumFunctionOnSet(w, T \ S) \in Nat
  BY <1>1, SumNat
<1>. QED
  BY <1>1, <1>4, <1>5

(* and a union no greater one than its parts together. *)
LEMMA SumUnion ==
  ASSUME NEW S, NEW T, IsFiniteSet(S), IsFiniteSet(T), NEW w, NatOn(w, S), NatOn(w, T)
  PROVE  SumFunctionOnSet(w, S \cup T) <= SumFunctionOnSet(w, S) + SumFunctionOnSet(w, T)
<1>1. S \cup (T \ S) = S \cup T /\ S \cap (T \ S) = {} /\ T \ S \in SUBSET T
  OBVIOUS
<1>2. /\ IsFiniteSet(T \ S) /\ NatOn(w, T \ S)
      /\ SumFunctionOnSet(w, T \ S) \in Nat /\ SumFunctionOnSet(w, T) \in Nat
      /\ SumFunctionOnSet(w, T \ S) <= SumFunctionOnSet(w, T)
  BY <1>1, SumMono
<1>3. SumFunctionOnSet(w, S \cup (T \ S))
        = SumFunctionOnSet(w, S) + SumFunctionOnSet(w, T \ S)
  BY <1>1, <1>2, SumDisjoint
<1>4. SumFunctionOnSet(w, S \cup T)
        = SumFunctionOnSet(w, S) + SumFunctionOnSet(w, T \ S)
  BY <1>1, <1>3, Zenon
<1>5. SumFunctionOnSet(w, S) \in Nat
  BY SumNat
<1>. QED
  BY <1>2, <1>4, <1>5

(* Functions that agree on the set have the same sum over it. *)
LEMMA SumSame ==
  ASSUME NEW S, IsFiniteSet(S), NEW v, NEW w, NatOn(w, S), \A x \in S : v[x] = w[x]
  PROVE  SumFunctionOnSet(v, S) = SumFunctionOnSet(w, S)
<1>. DEFINE P == {T \in SUBSET S : SumFunctionOnSet(v, T) = SumFunctionOnSet(w, T)}
<1>1. NatOn(v, S)
  BY DEF NatOn
<1>2. {} \in P
  BY FS_EmptySet, SumRec
<1>3. ASSUME NEW T \in SUBSET S, NEW x \in S \ T, T \in P
      PROVE  T \cup {x} \in P
  <2>1. /\ IsFiniteSet(T) /\ NatOn(w, T) /\ NatOn(v, T) /\ x \notin T
        /\ w[x] \in Nat /\ v[x] = w[x]
    BY <1>1, FS_Subset DEF NatOn
  <2>2. SumFunctionOnSet(w, T \cup {x}) = w[x] + SumFunctionOnSet(w, T)
    BY <2>1, SumInsert
  <2>3. SumFunctionOnSet(v, T \cup {x}) = v[x] + SumFunctionOnSet(v, T)
    BY <2>1, SumInsert
  <2>. QED
    BY <1>3, <2>1, <2>2, <2>3
<1>. HIDE DEF P
<1>4. S \in P
  BY <1>2, <1>3, SubsetInduction
<1>. QED
  BY <1>4 DEF P

(* What the sets c[i] hold together is no more than the numbers v[i] add up to, if each   *)
(* v[i] counts at least c[i].                                                             *)
LEMMA SumCover ==
  ASSUME NEW I, IsFiniteSet(I), NEW K, IsFiniteSet(K), NEW w, NatOn(w, K),
         NEW c \in [I -> SUBSET K], NEW v, NatOn(v, I),
         \A i \in I : SumFunctionOnSet(w, c[i]) <= v[i]
  PROVE  SumFunctionOnSet(w, UNION {c[i] : i \in I}) <= SumFunctionOnSet(v, I)
<1>. DEFINE All(J) == UNION {c[i] : i \in J}
            P == {J \in SUBSET I : SumFunctionOnSet(w, All(J)) <= SumFunctionOnSet(v, J)}
<1>1. {} \in P
  <2>1. All({}) = {}
    OBVIOUS
  <2>2. SumFunctionOnSet(w, {}) = 0 /\ SumFunctionOnSet(v, {}) = 0
    BY FS_EmptySet, SumRec
  <2>. QED
    BY <2>1, <2>2
<1>2. ASSUME NEW J \in SUBSET I, NEW x \in I \ J, J \in P
      PROVE  J \cup {x} \in P
  <2>1. All(J \cup {x}) = All(J) \cup c[x]
    OBVIOUS
  <2>2. All(J) \in SUBSET K /\ c[x] \in SUBSET K
    OBVIOUS
  <2>. HIDE DEF All
  <2>3. /\ IsFiniteSet(All(J)) /\ NatOn(w, All(J))
        /\ IsFiniteSet(c[x]) /\ NatOn(w, c[x])
    BY <2>2, SumMono
  <2>4. /\ SumFunctionOnSet(w, All(J)) \in Nat
        /\ SumFunctionOnSet(w, c[x]) \in Nat
        /\ SumFunctionOnSet(w, All(J) \cup c[x]) \in Nat
    <3>1. IsFiniteSet(All(J) \cup c[x]) /\ NatOn(w, All(J) \cup c[x])
      BY <2>3, FS_Union DEF NatOn
    <3>. QED
      BY <2>3, <3>1, SumNat
  <2>5. SumFunctionOnSet(w, All(J) \cup c[x])
          <= SumFunctionOnSet(w, All(J)) + SumFunctionOnSet(w, c[x])
    BY <2>3, SumUnion
  <2>6. /\ IsFiniteSet(J) /\ NatOn(v, J) /\ v[x] \in Nat /\ x \notin J
    BY FS_Subset DEF NatOn
  <2>7. SumFunctionOnSet(v, J \cup {x}) = v[x] + SumFunctionOnSet(v, J)
    BY <2>6, SumInsert
  <2>8. SumFunctionOnSet(v, J) \in Nat
    BY <2>6, SumNat
  <2>9. SumFunctionOnSet(w, c[x]) <= v[x]
    OBVIOUS
  <2>10. SumFunctionOnSet(w, All(J)) <= SumFunctionOnSet(v, J)
    BY <1>2
  <2>11. SumFunctionOnSet(w, All(J \cup {x})) = SumFunctionOnSet(w, All(J) \cup c[x])
    BY <2>1, Zenon
  <2>12. SumFunctionOnSet(w, All(J \cup {x})) <= SumFunctionOnSet(v, J \cup {x})
    BY <2>4, <2>5, <2>6, <2>7, <2>8, <2>9, <2>10, <2>11
  <2>. QED
    BY <2>12 DEF All
<1>3. I \in P
  <2>. HIDE DEF P
  <2>. QED
    BY <1>1, <1>2, SubsetInduction
<1>. QED
  BY <1>3
=============================================================================
