----------------------------- MODULE Sums_proofs -----------------------------
(* What SumOf does when its set or its function changes at one place. *)
EXTENDS Sums, FiniteSetTheorems, TLAPS

\* The blocks of a finite set are finite, so a sum is a natural number.
LEMMA SumType ==
    ASSUME NEW S, IsFiniteSet(S), NEW f, \A x \in S : f[x] \in Nat
    PROVE  IsFiniteSet(Blocks(S, f)) /\ SumOf(S, f) \in Nat
<1> DEFINE block == [x \in S |-> {x} \X (1..f[x])]
           all == {{x} \X (1..f[x]) : x \in S}
<1>1. block \in Surjection(S, all)
  BY ZenonT(40) DEF Surjection
<1>2. IsFiniteSet(all)
  BY <1>1, FS_Surjection
<1>3. ASSUME NEW T \in all PROVE IsFiniteSet(T)
  <2>1. PICK x \in S : T = {x} \X (1..f[x])
    OBVIOUS
  <2>2. IsFiniteSet({x})
    BY FS_Singleton, ZenonT(40)
  <2>3. IsFiniteSet(1..f[x])
    BY FS_Interval, f[x] \in Int, 1 \in Int
  <2> QED BY <2>1, <2>2, <2>3, FS_Product
<1>4. IsFiniteSet(UNION all)
  BY <1>2, <1>3, FS_UNION, ZenonT(40)
<1> QED BY <1>4, FS_CardinalityType DEF SumOf, Blocks

\* An empty sum is zero.
LEMMA SumEmpty == \A f : SumOf({}, f) = 0
<1>1. \A f : Blocks({}, f) = {}
  BY DEF Blocks
<1> QED BY <1>1, FS_EmptySet DEF SumOf

\* A sum of zeros is zero.
LEMMA SumZero ==
    ASSUME NEW S, NEW f, \A x \in S : f[x] = 0
    PROVE  SumOf(S, f) = 0
<1>1. \A x \in S : {x} \X (1..f[x]) = {}
  OBVIOUS
<1>2. Blocks(S, f) = {}
  BY <1>1 DEF Blocks
<1> QED BY <1>2, FS_EmptySet DEF SumOf

\* A sum depends only on the values of its function on the set.
LEMMA SumSame ==
    ASSUME NEW S, NEW f, NEW g, \A x \in S : f[x] = g[x]
    PROVE  SumOf(S, f) = SumOf(S, g)
BY DEF SumOf, Blocks

\* A new element adds its value.
LEMMA SumAdd ==
    ASSUME NEW S, IsFiniteSet(S), NEW x, x \notin S, NEW f,
           \A y \in S \cup {x} : f[y] \in Nat
    PROVE  SumOf(S \cup {x}, f) = SumOf(S, f) + f[x]
<1> DEFINE B == {x} \X (1..f[x])
<1>1. IsFiniteSet({x}) /\ Cardinality({x}) = 1
  BY FS_Singleton, ZenonT(40)
<1>2. IsFiniteSet(1..f[x]) /\ Cardinality(1..f[x]) = f[x]
  BY FS_Interval
<1>3. IsFiniteSet(B) /\ Cardinality(B) = f[x]
  <2>1. IsFiniteSet(B) /\ Cardinality(B) = 1 * Cardinality(1..f[x])
    BY <1>1, <1>2, FS_Product, ZenonT(40)
  <2> QED BY <2>1, <1>2
<1>4. IsFiniteSet(Blocks(S, f)) /\ SumOf(S, f) \in Nat
  BY SumType
<1>5. Blocks(S \cup {x}, f) = Blocks(S, f) \cup B
  BY DEF Blocks
<1>6. Blocks(S, f) \cap B = {}
  BY DEF Blocks
<1> HIDE DEF B
<1>7. Cardinality(Blocks(S, f) \cup B) = Cardinality(Blocks(S, f)) + Cardinality(B) - 0
  BY <1>3, <1>4, <1>6, FS_Union, FS_EmptySet
<1>8. SumOf(S \cup {x}, f) = Cardinality(Blocks(S, f) \cup B)
  BY <1>5 DEF SumOf
<1>9. SumOf(S \cup {x}, f) = SumOf(S, f) + Cardinality(B) - 0
  BY <1>7, <1>8 DEF SumOf
<1>10. f[x] \in Nat /\ Cardinality(B) = f[x]
  BY <1>3
<1> QED BY <1>4, <1>9, <1>10

\* An element that leaves takes its value with it; no value exceeds the sum.
LEMMA SumRemove ==
    ASSUME NEW S, IsFiniteSet(S), NEW x \in S, NEW f, \A y \in S : f[y] \in Nat
    PROVE  SumOf(S \ {x}, f) = SumOf(S, f) - f[x] /\ f[x] <= SumOf(S, f)
<1> DEFINE R == S \ {x}
<1>1. IsFiniteSet(R) /\ x \notin R /\ S = R \cup {x}
  BY FS_RemoveElement
<1>2. SumOf(R, f) \in Nat
  BY <1>1, SumType
<1> HIDE DEF R
<1>3. SumOf(R \cup {x}, f) = SumOf(R, f) + f[x]
  BY <1>1, SumAdd, ZenonT(40)
<1>4. f[x] \in Nat /\ SumOf(S, f) = SumOf(R, f) + f[x]
  BY <1>1, <1>3
<1>5. SumOf(R, f) = SumOf(S, f) - f[x] /\ f[x] <= SumOf(S, f)
  BY <1>2, <1>4
<1> QED BY <1>5 DEF R

\* Changing one value changes the sum by the difference.
LEMMA SumUpdate ==
    ASSUME NEW S, IsFiniteSet(S), NEW x \in S, NEW f, NEW g,
           \A y \in S : f[y] \in Nat, \A y \in S : g[y] \in Nat,
           \A y \in S \ {x} : g[y] = f[y]
    PROVE  SumOf(S, g) = SumOf(S, f) - f[x] + g[x] /\ f[x] <= SumOf(S, f)
<1>1. SumOf(S \ {x}, f) = SumOf(S, f) - f[x] /\ f[x] <= SumOf(S, f)
  BY SumRemove, ZenonT(40)
<1>2. SumOf(S \ {x}, g) = SumOf(S, g) - g[x]
  BY SumRemove
<1>3. SumOf(S \ {x}, f) = SumOf(S \ {x}, g)
  BY SumSame
<1>4. SumOf(S, f) \in Nat /\ SumOf(S, g) \in Nat
  BY SumType
<1> QED BY <1>1, <1>2, <1>3, <1>4

\* Summing a sequence from its second element on leaves its first value out.
LEMMA SumShift ==
    ASSUME NEW n \in Nat \ {0}, NEW f, NEW g,
           \A i \in 1..n : f[i] \in Nat,
           \A i \in 1..(n - 1) : g[i] = f[i + 1]
    PROVE  SumOf(1..(n - 1), g) = SumOf(1..n, f) - f[1] /\ f[1] <= SumOf(1..n, f)
<1> DEFINE A == Blocks(1..(n - 1), g)
           B == Blocks((1..n) \ {1}, f)
           shift == [p \in A |-> <<p[1] + 1, p[2]>>]
<1>1. \A p : p \in A <=> \E i \in 1..(n - 1) : \E b \in 1..g[i] : p = <<i, b>>
  BY DEF Blocks
<1>2. \A p : p \in B <=> \E i \in (1..n) \ {1} : \E b \in 1..f[i] : p = <<i, b>>
  BY DEF Blocks
<1>3. IsFiniteSet(1..(n - 1)) /\ IsFiniteSet(A) /\ SumOf(1..(n - 1), g) \in Nat
  <2>1. IsFiniteSet(1..(n - 1))
    BY FS_Interval, n - 1 \in Int, 1 \in Int
  <2>2. ASSUME NEW i \in 1..(n - 1) PROVE g[i] \in Nat
    <3>1. i + 1 \in 1..n
      OBVIOUS
    <3> QED BY <3>1
  <2> QED BY <2>1, <2>2, SumType
<1> HIDE DEF A, B
<1>4. shift \in [A -> B]
  <2> SUFFICES ASSUME NEW p \in A PROVE <<p[1] + 1, p[2]>> \in B
    OBVIOUS
  <2>1. PICK i, b : i \in 1..(n - 1) /\ b \in 1..g[i] /\ p = <<i, b>>
    BY <1>1
  <2>2. i + 1 \in (1..n) \ {1} /\ b \in 1..f[i + 1]
    BY <2>1
  <2> QED BY <2>1, <2>2, <1>2
<1>5. \A p, q \in A : shift[p] = shift[q] => p = q
  <2> SUFFICES ASSUME NEW p \in A, NEW q \in A, shift[p] = shift[q] PROVE p = q
    OBVIOUS
  <2>1. PICK i, b : i \in 1..(n - 1) /\ b \in 1..g[i] /\ p = <<i, b>>
    BY <1>1
  <2>2. PICK j, c : j \in 1..(n - 1) /\ c \in 1..g[j] /\ q = <<j, c>>
    BY <1>1
  <2> QED BY <2>1, <2>2
<1>6. \A t \in B : \E s \in A : shift[s] = t
  <2> SUFFICES ASSUME NEW t \in B PROVE \E s \in A : shift[s] = t
    OBVIOUS
  <2>1. PICK i, b : i \in (1..n) \ {1} /\ b \in 1..f[i] /\ t = <<i, b>>
    BY <1>2
  <2>2. i - 1 \in 1..(n - 1) /\ b \in 1..g[i - 1]
    <3>1. i - 1 \in 1..(n - 1) /\ (i - 1) + 1 = i
      BY <2>1
    <3>2. g[i - 1] = f[(i - 1) + 1]
      BY <3>1
    <3> QED BY <2>1, <3>1, <3>2
  <2>3. <<i - 1, b>> \in A
    BY <2>2, <1>1
  <2>4. shift[<<i - 1, b>>] = t
    BY <2>1, <2>3
  <2> QED BY <2>3, <2>4
<1>7. ExistsBijection(A, B)
  BY <1>4, <1>5, <1>6, ZenonT(40) DEF ExistsBijection, Bijection, Injection, Surjection, IsInjective
<1>8. SumOf(1..(n - 1), g) = SumOf((1..n) \ {1}, f)
  BY <1>3, <1>7, FS_Bijection DEF SumOf, A, B
<1>9. SumOf((1..n) \ {1}, f) = SumOf(1..n, f) - f[1] /\ f[1] <= SumOf(1..n, f)
  <2>1. IsFiniteSet(1..n) /\ 1 \in 1..n
    BY FS_Interval, n \in Int, 1 \in Int
  <2> QED BY <2>1, SumRemove, ZenonT(40)
<1> QED BY <1>8, <1>9

====
