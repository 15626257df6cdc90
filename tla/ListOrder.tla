------------------------------- MODULE ListOrder -------------------------------
(***************************************************************************)
(* Lists that keep their order when elements go: the OrderedDict that both *)
(* caches keep their entries in, as the sequence of its values from the    *)
(* least to the most recently used, with what removal, move_to_end and     *)
(* eviction of completed entries do to it; and the edges of a pipeline,    *)
(* which arrive at a port in the order the definition lists them.          *)
(***************************************************************************)
EXTENDS Naturals, Sequences, FiniteSetTheorems, SequenceTheorems, TLAPS

\* The position of i among the numbers in I, counted from one, and back.
Rank(I, i) == Cardinality({j \in I : j <= i})
Nth(I, n)  == CHOOSE i \in I : Rank(I, i) = n

Members(s) == {s[i] : i \in DOMAIN s}
Distinct(s) == \A i, j \in DOMAIN s : s[i] = s[j] => i = j

\* pop and clear: what is left keeps its order.
Without(s, S) ==
    LET kept == {i \in DOMAIN s : s[i] \notin S}
    IN  [n \in 1 .. Cardinality(kept) |-> s[Nth(kept, n)]]

MoveToEnd(s, e) == Append(Without(s, {e}), e)

\* While the cache does not fit, its first completed entry goes.
Excess(s, completed, size) ==
    LET C == {i \in DOMAIN s : s[i] \in completed}
    IN  {s[i] : i \in {j \in C : Rank(C, j) + size <= Len(s)}}
--------------------------------------------------------------------------------
\* Ranks are positions, and a greater number has a greater rank.
LEMMA RankRises ==
    ASSUME NEW I \in SUBSET Nat, IsFiniteSet(I)
    PROVE  /\ Cardinality(I) \in Nat
           /\ \A i \in I : Rank(I, i) \in 1 .. Cardinality(I)
           /\ \A i, j \in I : i < j => Rank(I, i) < Rank(I, j)
<1>1. Cardinality(I) \in Nat
  BY FS_CardinalityType
<1> DEFINE Upto(i) == {j \in I : j <= i}
<1>2. \A i \in I : /\ IsFiniteSet(Upto(i)) /\ Cardinality(Upto(i)) \in Nat
                   /\ Cardinality(Upto(i)) <= Cardinality(I)
  <2> SUFFICES ASSUME NEW i \in I
               PROVE  /\ IsFiniteSet(Upto(i)) /\ Cardinality(Upto(i)) \in Nat
                      /\ Cardinality(Upto(i)) <= Cardinality(I)
    OBVIOUS
  <2>1. Upto(i) \in SUBSET I
    OBVIOUS
  <2> HIDE DEF Upto
  <2>2. QED
    BY <2>1, FS_Subset, FS_CardinalityType
<1>3. \A i \in I : Cardinality(Upto(i)) # 0
  <2> SUFFICES ASSUME NEW i \in I PROVE Cardinality(Upto(i)) # 0
    OBVIOUS
  <2>1. i \in Upto(i)
    OBVIOUS
  <2> HIDE DEF Upto
  <2>2. QED
    BY <1>2, <2>1, FS_EmptySet
<1>4. \A i, j \in I : i < j => Cardinality(Upto(i)) < Cardinality(Upto(j))
  <2> SUFFICES ASSUME NEW i \in I, NEW j \in I, i < j
               PROVE  Cardinality(Upto(i)) < Cardinality(Upto(j))
    OBVIOUS
  <2>3. \A k \in I : k \in Nat
    OBVIOUS
  <2>4. \A k \in I : k <= i => k <= j
    BY <2>3
  <2>5. j <= j /\ ~(j <= i)
    BY <2>3
  <2>1. Upto(i) \in SUBSET Upto(j) /\ j \in Upto(j) /\ j \notin Upto(i)
    BY <2>4, <2>5
  <2> HIDE DEF Upto
  <2>2. QED
    BY <1>2, <2>1, FS_Subset
<1>5. \A i \in I : Rank(I, i) = Cardinality(Upto(i))
  BY DEF Rank
<1> HIDE DEF Upto
<1>6. QED
  BY <1>1, <1>2, <1>3, <1>4, <1>5

\* Every position is the rank of a number of the set.
LEMMA RankIsOnto ==
    ASSUME NEW I \in SUBSET Nat, IsFiniteSet(I)
    PROVE  \A n \in 1 .. Cardinality(I) : \E i \in I : Rank(I, i) = n
<1> DEFINE f == [i \in I |-> Rank(I, i)]  T == 1 .. Cardinality(I)
<1>1. Cardinality(I) \in Nat
  BY RankRises
<1>2. IsFiniteSet(T) /\ Cardinality(T) = Cardinality(I)
  BY <1>1, FS_Interval
<1>3. f \in Injection(I, T)
  <2>1. f \in [I -> T]
    BY RankRises
  <2>2. \A i, j \in I : f[i] = f[j] => i = j
    <3> SUFFICES ASSUME NEW i \in I, NEW j \in I, Rank(I, i) = Rank(I, j), i # j PROVE FALSE
      OBVIOUS
    <3>1. i \in Nat /\ j \in Nat
      OBVIOUS
    <3>2. i < j \/ j < i
      BY <3>1
    <3>3. Rank(I, i) \in Nat /\ Rank(I, j) \in Nat
      BY RankRises
    <3>4. QED
      BY <3>2, <3>3, RankRises
  <2> HIDE DEF f
  <2>3. QED
    BY <2>1, <2>2 DEF Injection, IsInjective
<1> HIDE DEF f
<1>4. f \in Surjection(I, T)
  BY <1>2, <1>3, FS_Injection
<1>5. \A n \in T : \E i \in I : f[i] = n
  BY <1>4 DEF Surjection
<1>6. QED
  BY <1>5 DEF f

\* Nth and Rank are inverse to each other.
LEMMA NthHasRank ==
    ASSUME NEW I \in SUBSET Nat, IsFiniteSet(I)
    PROVE  /\ \A n \in 1 .. Cardinality(I) : Nth(I, n) \in I /\ Rank(I, Nth(I, n)) = n
           /\ \A i \in I : Nth(I, Rank(I, i)) = i
<1>1. \A n \in 1 .. Cardinality(I) : Nth(I, n) \in I /\ Rank(I, Nth(I, n)) = n
  BY RankIsOnto DEF Nth
<1>2. ASSUME NEW i \in I PROVE Nth(I, Rank(I, i)) = i
  <2> DEFINE m == Nth(I, Rank(I, i))
  <2>1. m \in I /\ Rank(I, m) = Rank(I, i) /\ Rank(I, i) \in Nat
    BY <1>1, RankRises
  <2> HIDE DEF m
  <2>2. m \in Nat /\ i \in Nat
    BY <2>1
  <2>3. ~(m < i) /\ ~(i < m)
    BY <2>1, RankRises
  <2>4. m = i
    BY <2>2, <2>3
  <2>5. QED
    BY <2>4 DEF m
<1>3. QED
  BY <1>1, <1>2

\* The positions of a sequence, and any set of them.
LEMMA Positions ==
    ASSUME NEW T, NEW s \in Seq(T)
    PROVE  /\ Len(s) \in Nat /\ DOMAIN s = 1 .. Len(s)
           /\ IsFiniteSet(DOMAIN s) /\ Cardinality(DOMAIN s) = Len(s)
           /\ DOMAIN s \in SUBSET Nat
           /\ \A I \in SUBSET DOMAIN s : IsFiniteSet(I) /\ I \in SUBSET Nat /\ Cardinality(I) \in Nat
<1>1. Len(s) \in Nat /\ DOMAIN s = 1 .. Len(s)
  BY LenProperties
<1>2. IsFiniteSet(DOMAIN s) /\ Cardinality(DOMAIN s) = Len(s)
  BY <1>1, FS_Interval
<1>3. QED
  BY <1>1, <1>2, FS_Subset, FS_CardinalityType

\* A function on 1..n is a sequence of length n.
LEMMA FunctionIsSeq ==
    ASSUME NEW T, NEW n \in Nat, NEW f \in [1 .. n -> T]
    PROVE  f \in Seq(T) /\ Len(f) = n
<1>1. f \in Seq(T)
  BY SeqDef
<1>2. Len(f) \in Nat /\ 1 .. Len(f) = 1 .. n
  BY <1>1, LenProperties
<1>3. ~(Len(f) < n) /\ ~(n < Len(f))
  BY <1>2
<1>4. QED
  BY <1>1, <1>2, <1>3

\* What is removed is gone, and nothing else.
LEMMA WithoutKeeps ==
    ASSUME NEW T, NEW s \in Seq(T), NEW S
    PROVE  /\ Without(s, S) \in Seq(T)
           /\ Members(Without(s, S)) = Members(s) \ S
           /\ Distinct(s) => Distinct(Without(s, S))
<1> DEFINE kept == {i \in DOMAIN s : s[i] \notin S}
           w == [n \in 1 .. Cardinality(kept) |-> s[Nth(kept, n)]]
<1>1. kept \in SUBSET DOMAIN s
  OBVIOUS
<1>2. IsFiniteSet(kept) /\ kept \in SUBSET Nat /\ Cardinality(kept) \in Nat
  BY <1>1, Positions
<1>3. \A i \in kept : i \in DOMAIN s /\ s[i] \in T /\ s[i] \notin S
  BY Positions, ElementOfSeq
<1>4. \A i \in DOMAIN s : i \in kept \/ s[i] \in S
  OBVIOUS
<1>5. Without(s, S) = w
  BY DEF Without
<1> HIDE DEF kept
<1>6. w \in [1 .. Cardinality(kept) -> T]
  BY <1>2, <1>3, NthHasRank
<1>7. w \in Seq(T) /\ DOMAIN w = 1 .. Cardinality(kept)
  BY <1>2, <1>6, FunctionIsSeq
<1>8. Members(w) = Members(s) \ S
  <2>1. ASSUME NEW n \in DOMAIN w PROVE w[n] \in Members(s) \ S
    BY <1>2, <1>3, <1>7, NthHasRank DEF Members
  <2>2. ASSUME NEW i \in DOMAIN s, s[i] \notin S PROVE \E n \in DOMAIN w : w[n] = s[i]
    <3>1. i \in kept /\ Rank(kept, i) \in 1 .. Cardinality(kept) /\ Nth(kept, Rank(kept, i)) = i
      BY <1>2, <1>4, <2>2, NthHasRank, RankRises
    <3>2. QED
      BY <1>7, <3>1
  <2> HIDE DEF w
  <2>3. QED
    BY <2>1, <2>2 DEF Members
<1>9. ASSUME Distinct(s) PROVE Distinct(w)
  <2> SUFFICES ASSUME NEW m \in DOMAIN w, NEW n \in DOMAIN w, w[m] = w[n] PROVE m = n
    BY DEF Distinct
  <2>1. /\ Nth(kept, m) \in kept /\ Rank(kept, Nth(kept, m)) = m
        /\ Nth(kept, n) \in kept /\ Rank(kept, Nth(kept, n)) = n
    BY <1>2, <1>7, NthHasRank
  <2>2. Nth(kept, m) = Nth(kept, n)
    BY <1>3, <1>7, <1>9, <2>1 DEF Distinct
  <2>3. QED
    BY <2>1, <2>2
<1> HIDE DEF w
<1>10. QED
  BY <1>5, <1>7, <1>8, <1>9

\* The elements at the positions I.
Picked(s, I) == {s[i] : i \in I}

\* As many elements are picked as positions, when none occurs twice.
LEMMA PickedSize ==
    ASSUME NEW T, NEW s \in Seq(T), Distinct(s), NEW I \in SUBSET DOMAIN s
    PROVE  IsFiniteSet(Picked(s, I)) /\ Cardinality(Picked(s, I)) = Cardinality(I)
<1> DEFINE J == Picked(s, I)  f == [i \in I |-> s[i]]
<1>1. f \in [I -> J] /\ \A x \in J : \E i \in I : f[i] = x
  BY DEF Picked
<1>2. \A i, j \in I : f[i] = f[j] => i = j
  BY DEF Distinct
<1> HIDE DEF J, f
<1>3. f \in Surjection(I, J) /\ f \in Injection(I, J)
  BY <1>1, <1>2 DEF Surjection, Injection, IsInjective
<1>4. IsFiniteSet(J) /\ Cardinality(J) = Cardinality(I)
  BY <1>3, Positions, FS_Surjection
<1>5. QED
  BY <1>4 DEF J

\* A sequence without repetition is as long as the set of its members.
LEMMA DistinctLen ==
    ASSUME NEW T, NEW s \in Seq(T), Distinct(s)
    PROVE  /\ IsFiniteSet(Members(s)) /\ Cardinality(Members(s)) = Len(s)
           /\ Members(s) \subseteq T
<1>1. Members(s) = Picked(s, DOMAIN s)
  BY DEF Members, Picked
<1>2. Members(s) \subseteq T
  BY Positions, ElementOfSeq DEF Members
<1>3. DOMAIN s \in SUBSET DOMAIN s /\ Cardinality(DOMAIN s) = Len(s)
  BY Positions
<1>4. IsFiniteSet(Members(s)) /\ Cardinality(Members(s)) = Len(s)
  BY <1>1, <1>3, PickedSize
<1>5. QED
  BY <1>2, <1>4

\* Appending adds one member.
LEMMA AppendKeeps ==
    ASSUME NEW T, NEW s \in Seq(T), NEW e \in T
    PROVE  /\ Append(s, e) \in Seq(T) /\ Len(Append(s, e)) = Len(s) + 1
           /\ Members(Append(s, e)) = Members(s) \union {e}
           /\ Distinct(s) /\ e \notin Members(s) => Distinct(Append(s, e))
<1> DEFINE a == Append(s, e)
<1>1. /\ a \in Seq(T) /\ Len(a) = Len(s) + 1 /\ Len(s) \in Nat
      /\ \A i \in 1 .. Len(s) : a[i] = s[i]
      /\ a[Len(s) + 1] = e
  BY AppendProperties, Positions
<1> HIDE DEF a
<1>2. DOMAIN a = 1 .. Len(s) + 1 /\ DOMAIN s = 1 .. Len(s)
  BY <1>1, Positions
<1>3. \A i \in DOMAIN a : i \in DOMAIN s \/ i = Len(s) + 1
  BY <1>1, <1>2
<1>4. Members(a) = Members(s) \union {e}
  <2>1. \A i \in DOMAIN a : a[i] \in Members(s) \union {e}
    BY <1>1, <1>2, <1>3 DEF Members
  <2>2. \A i \in DOMAIN s : i \in DOMAIN a /\ a[i] = s[i]
    BY <1>1, <1>2
  <2>3. Len(s) + 1 \in DOMAIN a /\ a[Len(s) + 1] = e
    BY <1>1, <1>2
  <2>4. QED
    BY <2>1, <2>2, <2>3 DEF Members
<1>5. ASSUME Distinct(s), e \notin Members(s) PROVE Distinct(a)
  BY <1>1, <1>2, <1>3, <1>5 DEF Distinct, Members
<1>6. QED
  BY <1>1, <1>4, <1>5 DEF a

\* Moving to the end (OrderedDict.move_to_end) adds no other member and repeats none.
LEMMA MoveToEndKeeps ==
    ASSUME NEW T, NEW s \in Seq(T), NEW e \in T
    PROVE  /\ MoveToEnd(s, e) \in Seq(T)
           /\ Members(MoveToEnd(s, e)) = Members(s) \union {e}
           /\ Distinct(s) => Distinct(MoveToEnd(s, e))
<1> DEFINE w == Without(s, {e})
<1>1. w \in Seq(T) /\ Members(w) = Members(s) \ {e} /\ (Distinct(s) => Distinct(w))
  BY WithoutKeeps
<1> HIDE DEF w
<1>2. /\ Append(w, e) \in Seq(T) /\ Members(Append(w, e)) = Members(w) \union {e}
      /\ Distinct(w) /\ e \notin Members(w) => Distinct(Append(w, e))
  BY <1>1, AppendKeeps
<1>3. MoveToEnd(s, e) = Append(w, e)
  BY DEF MoveToEnd, w
<1>4. QED
  BY <1>1, <1>2, <1>3

\* Eviction takes completed entries only, and then the cache fits or has none left.
LEMMA ExcessFits ==
    ASSUME NEW T, NEW s \in Seq(T), Distinct(s), NEW completed, NEW size \in Nat
    PROVE  /\ Excess(s, completed, size) \subseteq Members(s) \intersect completed
           /\ \/ Len(Without(s, Excess(s, completed, size))) <= size
              \/ Members(s) \intersect completed = Excess(s, completed, size)
<1> DEFINE C == {i \in DOMAIN s : s[i] \in completed}
           O == {j \in C : Rank(C, j) + size <= Len(s)}
           out == {s[i] : i \in O}
           rest == Without(s, out)
<1>1. C \in SUBSET DOMAIN s /\ O \in SUBSET C /\ O \in SUBSET DOMAIN s
  OBVIOUS
<1>2. Excess(s, completed, size) = out
  BY DEF Excess
<1>3. out \subseteq Members(s) \intersect completed
  BY DEF Members
<1>4. Members(s) \intersect completed = {s[i] : i \in C}
  BY DEF Members
<1>5. /\ IsFiniteSet(C) /\ C \in SUBSET Nat /\ Cardinality(C) \in Nat
      /\ IsFiniteSet(O) /\ O \in SUBSET Nat /\ Cardinality(O) \in Nat
      /\ Len(s) \in Nat
  BY <1>1, Positions
<1>6. Cardinality(out) = Cardinality(O) /\ IsFiniteSet(out)
  <2> HIDE DEF O, C
  <2>1. out = Picked(s, O)
    BY DEF Picked
  <2>2. QED
    BY <1>1, <2>1, PickedSize
<1>7. \A j \in O : j \in C /\ Rank(C, j) + size <= Len(s)
  OBVIOUS
<1>8. \A j \in C : Rank(C, j) + size <= Len(s) => j \in O
  OBVIOUS
<1>9. \A j \in C : Rank(C, j) \in 1 .. Cardinality(C)
  BY <1>5, RankRises
<1> HIDE DEF C, O, out
<1>10. /\ rest \in Seq(T) /\ Members(rest) = Members(s) \ out /\ Distinct(rest)
  BY WithoutKeeps
<1>11. Len(rest) = Cardinality(Members(s) \ out) /\ Cardinality(Members(s)) = Len(s)
       /\ IsFiniteSet(Members(s))
  BY <1>10, DistinctLen
<1>12. CASE Len(s) <= size
  <2>1. Members(s) \ out \in SUBSET Members(s)
    OBVIOUS
  <2>2. Cardinality(Members(s) \ out) <= Cardinality(Members(s))
    BY <1>11, <2>1, FS_Subset
  <2>3. Cardinality(Members(s) \ out) \in Nat
    BY <1>11, <2>1, FS_Subset, FS_CardinalityType
  <2>4. QED
    BY <1>2, <1>3, <1>5, <1>11, <1>12, <2>2, <2>3
<1>13. CASE size < Len(s) /\ Cardinality(C) <= Len(s) - size
  <2>1. \A j \in C : j \in O
    BY <1>5, <1>8, <1>9, <1>13
  <2>2. C = O
    BY <1>1, <2>1
  <2>3. QED
    BY <1>2, <1>3, <1>4, <2>2 DEF out
<1>14. CASE size < Len(s) /\ Len(s) - size < Cardinality(C)
  <2> DEFINE d == Len(s) - size  f == [j \in O |-> Rank(C, j)]
  <2>1. d \in Nat /\ d < Cardinality(C)
    BY <1>5, <1>14
  <2>2. f \in [O -> 1 .. d]
    BY <1>5, <1>7, <1>9, <2>1
  <2>3. \A n \in 1 .. d : \E j \in O : f[j] = n
    <3> SUFFICES ASSUME NEW n \in 1 .. d PROVE \E j \in O : f[j] = n
      OBVIOUS
    <3>3. n \in 1 .. Cardinality(C)
      BY <1>5, <2>1
    <3>1. PICK j \in C : Rank(C, j) = n
      BY <1>5, <3>3, RankIsOnto
    <3>2. j \in O
      BY <1>5, <1>8, <3>1
    <3>4. QED
      BY <3>1, <3>2
  <2>4. f \in Surjection(O, 1 .. d)
    <3> HIDE DEF f
    <3> QED
      BY <2>2, <2>3 DEF Surjection
  <2> HIDE DEF f
  <2>5. Cardinality(1 .. d) = d /\ d <= Cardinality(O)
    <3> HIDE DEF d
    <3>1. Cardinality(1 .. d) = d
      BY <2>1, FS_Interval
    <3>2. QED
      BY <2>4, <3>1, <1>5, FS_Surjection
  <2>6. out \in SUBSET Members(s) /\ Cardinality(out) \in Nat
    BY <1>3, <1>5, <1>6
  <2>9. Members(s) \intersect out = out
    BY <2>6
  <2>7. Cardinality(Members(s) \ out) = Cardinality(Members(s)) - Cardinality(out)
    <3>1. Cardinality(Members(s) \ out)
              = Cardinality(Members(s)) - Cardinality(Members(s) \intersect out)
      BY <1>11, FS_Difference
    <3>2. QED
      BY <2>9, <3>1
  <2>8. QED
    BY <1>2, <1>3, <1>5, <1>6, <1>11, <2>1, <2>5, <2>7
<1>15. QED
  BY <1>5, <1>12, <1>13, <1>14

\* Each element of S that s has, once, in the order of its first occurrences.
Firsts(s, S) == {i \in DOMAIN s : s[i] \in S /\ \A j \in 1 .. i - 1 : s[j] # s[i]}
Once(s, S) == [n \in 1 .. Cardinality(Firsts(s, S)) |-> s[Nth(Firsts(s, S), n)]]

\* What is kept once is what there is of S, and occurs once.
LEMMA OnceKeeps ==
    ASSUME NEW T, NEW s \in Seq(T), NEW S
    PROVE  /\ Once(s, S) \in Seq(T)
           /\ Members(Once(s, S)) = Members(s) \intersect S
           /\ Distinct(Once(s, S))
<1> DEFINE kept == Firsts(s, S)  w == Once(s, S)
<1>1. kept \in SUBSET DOMAIN s
  BY DEF Firsts
<1>2. IsFiniteSet(kept) /\ kept \in SUBSET Nat /\ Cardinality(kept) \in Nat
  BY <1>1, Positions
<1>3. \A i \in kept : i \in DOMAIN s /\ s[i] \in T /\ s[i] \in S
                      /\ \A j \in 1 .. i - 1 : s[j] # s[i]
  BY Positions, ElementOfSeq DEF Firsts
<1>4. w = [n \in 1 .. Cardinality(kept) |-> s[Nth(kept, n)]]
  BY DEF Once
<1>5. w \in [1 .. Cardinality(kept) -> T]
  <2> HIDE DEF kept, w
  <2>1. QED
    BY <1>2, <1>3, <1>4, NthHasRank
<1>6. w \in Seq(T) /\ DOMAIN w = 1 .. Cardinality(kept)
  <2> HIDE DEF kept, w
  <2>1. QED
    BY <1>2, <1>5, FunctionIsSeq
<1>7. ASSUME NEW i \in DOMAIN s, s[i] \in S PROVE \E n \in DOMAIN w : w[n] = s[i]
  <2> DEFINE I == {j \in DOMAIN s : s[j] = s[i]}  f == Nth(I, 1)
  <2>1. IsFiniteSet(I) /\ I \in SUBSET Nat /\ Cardinality(I) \in Nat /\ I # {}
    <3>1. I \in SUBSET DOMAIN s /\ i \in I
      OBVIOUS
    <3> HIDE DEF I
    <3>2. QED
      BY <3>1, Positions
  <2>2. \A j \in I : j \in DOMAIN s /\ s[j] = s[i]
    OBVIOUS
  <2>3. \A j \in DOMAIN s : s[j] = s[i] => j \in I
    OBVIOUS
  <2> HIDE DEF I
  <2>4. 1 \in 1 .. Cardinality(I)
    BY <2>1, FS_EmptySet
  <2>5. f \in I /\ Rank(I, f) = 1
    BY <2>1, <2>4, NthHasRank
  <2> HIDE DEF f
  <2>6. \A j \in I : ~(j < f)
    BY <2>1, <2>5, RankRises
  <2>7. \A j \in 1 .. f - 1 : s[j] # s[f]
    <3>1. f \in DOMAIN s /\ f \in Nat /\ s[f] = s[i] /\ DOMAIN s = 1 .. Len(s) /\ Len(s) \in Nat
      BY <2>1, <2>2, <2>5, Positions
    <3>2. QED
      BY <2>3, <2>6, <3>1
  <2>8. f \in kept
    BY <1>7, <2>2, <2>5, <2>7 DEF Firsts
  <2> HIDE DEF kept
  <2>9. Rank(kept, f) \in 1 .. Cardinality(kept) /\ Nth(kept, Rank(kept, f)) = f
    BY <1>2, <2>8, NthHasRank, RankRises
  <2>10. QED
    BY <1>4, <1>6, <2>2, <2>5, <2>9
<1>8. Members(w) = Members(s) \intersect S
  <2> HIDE DEF kept, w
  <2>1. ASSUME NEW n \in DOMAIN w PROVE w[n] \in Members(s) \intersect S
    BY <1>2, <1>3, <1>4, <1>6, NthHasRank DEF Members
  <2>2. QED
    BY <1>7, <2>1 DEF Members
<1>9. Distinct(w)
  <2> HIDE DEF kept, w
  <2> SUFFICES ASSUME NEW m \in DOMAIN w, NEW n \in DOMAIN w, w[m] = w[n] PROVE m = n
    BY DEF Distinct
  <2> DEFINE a == Nth(kept, m)  b == Nth(kept, n)
  <2>1. a \in kept /\ Rank(kept, a) = m /\ b \in kept /\ Rank(kept, b) = n
    BY <1>2, <1>6, NthHasRank
  <2>2. s[a] = s[b]
    BY <1>4, <1>6
  <2> HIDE DEF a, b
  <2>3. a \in Nat /\ b \in Nat /\ a >= 1 /\ b >= 1
    BY <1>2, <1>3, <2>1, Positions
  <2>4. ~(a < b) /\ ~(b < a)
    <3>1. a < b => a \in 1 .. b - 1
      BY <2>3
    <3>2. b < a => b \in 1 .. a - 1
      BY <2>3
    <3>3. QED
      BY <1>3, <2>1, <2>2, <3>1, <3>2
  <2>5. a = b
    BY <2>3, <2>4
  <2>6. QED
    BY <2>1, <2>5
<1>10. QED
  BY <1>6, <1>8, <1>9

\* Two lists one after the other.
LEMMA ConcatKeeps ==
    ASSUME NEW T, NEW s \in Seq(T), NEW t \in Seq(T)
    PROVE  /\ s \o t \in Seq(T) /\ Len(s \o t) = Len(s) + Len(t)
           /\ Members(s \o t) = Members(s) \union Members(t)
           /\ Distinct(s) /\ Distinct(t) /\ Members(s) \intersect Members(t) = {}
                => Distinct(s \o t)
<1> DEFINE a == s \o t
<1>1. /\ a \in Seq(T) /\ Len(a) = Len(s) + Len(t) /\ Len(s) \in Nat /\ Len(t) \in Nat
      /\ \A i \in 1 .. Len(s) + Len(t) : a[i] = IF i <= Len(s) THEN s[i] ELSE t[i - Len(s)]
  BY ConcatProperties, Positions
<1>2. DOMAIN a = 1 .. Len(s) + Len(t) /\ DOMAIN s = 1 .. Len(s) /\ DOMAIN t = 1 .. Len(t)
  BY <1>1, Positions
<1> HIDE DEF a
<1>3. \A i \in DOMAIN a : \/ i \in DOMAIN s /\ a[i] = s[i]
                          \/ i - Len(s) \in DOMAIN t /\ a[i] = t[i - Len(s)]
  BY <1>1, <1>2
<1>4. \A i \in DOMAIN s : i \in DOMAIN a /\ a[i] = s[i]
  BY <1>1, <1>2
<1>5. \A i \in DOMAIN t : i + Len(s) \in DOMAIN a /\ a[i + Len(s)] = t[i]
  BY <1>1, <1>2
<1>6. Members(a) = Members(s) \union Members(t)
  BY <1>3, <1>4, <1>5 DEF Members
<1>7. ASSUME Distinct(s), Distinct(t), Members(s) \intersect Members(t) = {},
             NEW i \in DOMAIN a, NEW j \in DOMAIN a, a[i] = a[j]
      PROVE  i = j
  <2>1. i \in Int /\ j \in Int
    BY <1>1, <1>2
  <2>2. \A k \in DOMAIN s, l \in DOMAIN t : s[k] # t[l]
    BY <1>7 DEF Members
  <2>3. CASE i \in DOMAIN s /\ a[i] = s[i] /\ j \in DOMAIN s /\ a[j] = s[j]
    BY <1>7, <2>3 DEF Distinct
  <2>4. CASE /\ i - Len(s) \in DOMAIN t /\ a[i] = t[i - Len(s)]
             /\ j - Len(s) \in DOMAIN t /\ a[j] = t[j - Len(s)]
    <3>1. i - Len(s) = j - Len(s)
      BY <1>7, <2>4 DEF Distinct
    <3>2. QED
      BY <1>1, <2>1, <3>1
  <2>5. QED
    BY <1>3, <1>7, <2>2, <2>3, <2>4
<1>8. QED
  BY <1>1, <1>6, <1>7 DEF a, Distinct

\* A finite set of numbers has a least and a greatest one.
LEMMA Extremes ==
    ASSUME NEW I \in SUBSET Nat, IsFiniteSet(I), I # {}
    PROVE  /\ \E m \in I : \A i \in I : m <= i
           /\ \E m \in I : \A i \in I : i <= m
<1> DEFINE c == Cardinality(I)
<1>1. c \in Nat /\ c # 0
  BY FS_EmptySet, FS_CardinalityType
<1>2. 1 \in 1 .. c /\ c \in 1 .. c
  BY <1>1
<1>3. /\ Nth(I, 1) \in I /\ Rank(I, Nth(I, 1)) = 1
      /\ Nth(I, c) \in I /\ Rank(I, Nth(I, c)) = c
  BY <1>2, NthHasRank
<1>4. \A i \in I : Rank(I, i) \in 1 .. c
  BY RankRises
<1>5. \A i, j \in I : i < j => Rank(I, i) < Rank(I, j)
  BY RankRises
<1> HIDE DEF c
<1>6. \A i, j \in I : Rank(I, i) <= Rank(I, j) => i <= j
  <2>1. \A i \in I : i \in Nat /\ Rank(I, i) \in Nat
    BY <1>1, <1>4
  <2>2. QED
    BY <1>5, <2>1
<1>7. \A i \in I : Nth(I, 1) <= i /\ i <= Nth(I, c)
  <2>1. \A i \in I : 1 <= Rank(I, i) /\ Rank(I, i) <= c
    BY <1>1, <1>4
  <2>2. QED
    BY <1>3, <1>6, <2>1
<1>8. QED
  BY <1>3, <1>7

\* The beginning of a list is a list of some of its elements.
LEMMA PrefixKeeps ==
    ASSUME NEW T, NEW s \in Seq(T), NEW n \in 0 .. Len(s)
    PROVE  /\ SubSeq(s, 1, n) \in Seq(T) /\ Len(SubSeq(s, 1, n)) = n
           /\ Members(SubSeq(s, 1, n)) \subseteq Members(s)
<1> DEFINE b == SubSeq(s, 1, n)
<1>1. Len(s) \in Nat /\ DOMAIN s = 1 .. Len(s) /\ n \in Nat /\ n <= Len(s)
  BY Positions
<1>2. \A i \in 1 .. n : i \in DOMAIN s /\ s[i] \in T
  BY <1>1, ElementOfSeq
<1>3. b = [i \in 1 .. n |-> s[i]]
  BY <1>1
<1>4. b \in Seq(T) /\ Len(b) = n /\ DOMAIN b = 1 .. n
  BY <1>1, <1>2, <1>3, FunctionIsSeq
<1>5. Members(b) \subseteq Members(s)
  BY <1>2, <1>3, <1>4 DEF Members
<1>6. QED
  BY <1>4, <1>5
================================================================================
