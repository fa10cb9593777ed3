-------------------------- MODULE HistoryWriterProofs --------------------------
(*****************************************************************************)
(* Proofs about the history writer, for every capacity, batch size, number   *)
(* of callers and bound on the writes, wherever a transaction or the writer  *)
(* fails: no caller of flush() is forgotten; a flush that answers "true" has *)
(* its writes stored or their loss reported; the cached critical line agrees *)
(* with the database; and the writer implements LossyQueue.                  *)
(*****************************************************************************)
EXTENDS HistoryWriter, SequenceTheorems, FiniteSetTheorems, FunctionTheorems, TLAPS

-------------------------------------------------------------------------------
(* Places and what is picked from them *)

\* A set of places in their order: Place enumerates it without gaps.
Enumerates(g, n, S) ==
  /\ g \in [1..n -> S]
  /\ \A i, j \in 1..n : i < j => g[i] < g[j]
  /\ \A x \in S : \E i \in 1..n : g[i] = x

\* Fewer places of a finite set lie below a smaller one.
LEMMA BelowGrows ==
  ASSUME NEW S \in SUBSET Nat, IsFiniteSet(S), NEW j \in S
  PROVE  /\ IsFiniteSet(Below(S, j)) /\ Cardinality(Below(S, j)) \in Nat
         /\ Cardinality(Below(S, j)) < Cardinality(S)
         /\ \A k \in S : j < k => Cardinality(Below(S, j)) < Cardinality(Below(S, k))
<1>1. ASSUME NEW T \in SUBSET S, j \in T, Below(S, j) \subseteq T
      PROVE  /\ IsFiniteSet(Below(S, j)) /\ Cardinality(Below(S, j)) \in Nat
             /\ Cardinality(Below(S, j)) < Cardinality(T)
  <2>1. IsFiniteSet(T) /\ Cardinality(T) \in Nat
    BY FS_Subset, FS_CardinalityType
  <2>2. IsFiniteSet(Below(S, j)) /\ Cardinality(Below(S, j)) \in Nat
    BY <1>1, <2>1, FS_Subset, FS_CardinalityType
  <2>3. j \notin Below(S, j)
    BY DEF Below
  <2>4. Cardinality(Below(S, j) \cup {j}) = Cardinality(Below(S, j)) + 1
    BY <2>2, <2>3, FS_AddElement
  <2>5. Cardinality(Below(S, j) \cup {j}) <= Cardinality(T)
    <3>1. Below(S, j) \cup {j} \in SUBSET T
      BY <1>1
    <3> QED BY <2>1, <3>1, FS_Subset
  <2> QED BY <2>1, <2>2, <2>4, <2>5
<1>2. Below(S, j) \subseteq S
  BY DEF Below
<1>3. ASSUME NEW k \in S, j < k
      PROVE  Below(S, k) \in SUBSET S /\ j \in Below(S, k) /\ Below(S, j) \subseteq Below(S, k)
  <2>1. \A x \in S : x < j => x < k
    BY <1>3
  <2> QED BY <1>3, <2>1 DEF Below
<1> QED BY <1>1, <1>2, <1>3

\* Place enumerates a finite set of places.
LEMMA PlaceEnumerates ==
  ASSUME NEW S \in SUBSET Nat, IsFiniteSet(S)
  PROVE  Cardinality(S) \in Nat
         /\ Enumerates([i \in 1..Cardinality(S) |-> Place(S, i)], Cardinality(S), S)
<1> DEFINE n == Cardinality(S)
           rank == [j \in S |-> Cardinality(Below(S, j))]
<1>1. n \in Nat
  BY FS_CardinalityType
<1>2. \A j \in S : Cardinality(Below(S, j)) \in 0..(n - 1)
  BY <1>1, BelowGrows
<1>3. \A j, k \in S : j < k => rank[j] < rank[k]
  BY BelowGrows
<1>4. rank \in Injection(S, 0..(n - 1))
  <2>1. rank \in [S -> 0..(n - 1)]
    BY <1>2
  <2>2. ASSUME NEW j \in S, NEW k \in S, rank[j] = rank[k] PROVE j = k
    <3>1. ~(j < k) /\ ~(k < j)
      BY <1>1, <1>2, <1>3, <2>2
    <3> QED BY <3>1
  <2> HIDE DEF rank
  <2> QED BY <2>1, <2>2 DEF Injection, IsInjective
<1>5. rank \in Surjection(S, 0..(n - 1))
  <2>1. IsFiniteSet(0..(n - 1)) /\ Cardinality(0..(n - 1)) = n
    <3> HIDE DEF n
    <3>1. 0 \in Int /\ n - 1 \in Int
      BY <1>1
    <3> QED BY <1>1, <3>1, FS_Interval
  <2> HIDE DEF rank
  <2> QED BY <1>4, <2>1, FS_Injection
<1>6. ASSUME NEW i \in 1..n
      PROVE  Place(S, i) \in S /\ rank[Place(S, i)] = i - 1
  <2>1. i - 1 \in 0..(n - 1)
    BY <1>1
  <2>2. \E j \in S : rank[j] = i - 1
    <3> HIDE DEF rank
    <3> QED BY <1>5, <2>1 DEF Surjection
  <2> QED BY <2>2 DEF Place
<1> DEFINE g == [i \in 1..n |-> Place(S, i)]
<1>7. g \in [1..n -> S]
  BY <1>6
<1>8. \A i \in 1..n : g[i] \in S /\ rank[g[i]] = i - 1
  BY <1>6
<1>9. \A j \in S : rank[j] \in 0..(n - 1)
  BY <1>2
<1> HIDE DEF g, rank
<1>10. ASSUME NEW i \in 1..n, NEW j \in 1..n, i < j PROVE g[i] < g[j]
  <2>1. rank[g[i]] < rank[g[j]]
    BY <1>1, <1>8, <1>10
  <2>2. g[i] \in Nat /\ g[j] \in Nat
    BY <1>8
  <2>3. ~(rank[g[j]] < rank[g[i]]) /\ rank[g[i]] # rank[g[j]]
    BY <2>1, <1>8, <1>9
  <2> QED BY <1>3, <1>8, <2>2, <2>3
<1>11. ASSUME NEW x \in S PROVE \E i \in 1..n : g[i] = x
  <2>1. rank[x] + 1 \in 1..n
    BY <1>1, <1>9
  <2>2. rank[g[rank[x] + 1]] = rank[x]
    BY <1>8, <1>9, <2>1
  <2>3. g[rank[x] + 1] = x
    BY <1>4, <1>8, <2>1, <2>2 DEF Injection, IsInjective
  <2> QED BY <2>1, <2>3
<1> QED BY <1>1, <1>7, <1>10, <1>11 DEF g, Enumerates

\* There is no other enumeration.
LEMMA EnumerationUnique ==
  ASSUME NEW S \in SUBSET Nat, NEW n \in Nat, NEW g, Enumerates(g, n, S)
  PROVE  /\ IsFiniteSet(S) /\ Cardinality(S) = n
         /\ \A i \in 1..n : Place(S, i) = g[i]
<1>1. ASSUME NEW m \in 0..n, NEW T, T = {x \in S : \E i \in 1..m : g[i] = x}
      PROVE  IsFiniteSet(T) /\ Cardinality(T) = m
  <2> DEFINE h == [i \in 1..m |-> g[i]]
  <2>1. h \in [1..m -> T]
    BY <1>1 DEF Enumerates
  <2>2. \A i, j \in 1..m : h[i] = h[j] => i = j
    <3> SUFFICES ASSUME NEW i \in 1..m, NEW j \in 1..m, i < j PROVE g[i] # g[j]
      OBVIOUS
    <3>1. i \in 1..n /\ j \in 1..n
      OBVIOUS
    <3>2. g[i] < g[j] /\ g[i] \in Nat /\ g[j] \in Nat
      BY <3>1 DEF Enumerates
    <3> QED BY <3>2
  <2>3. \A x \in T : \E i \in 1..m : h[i] = x
    BY <1>1
  <2>4. h \in Surjection(1..m, T) /\ h \in Injection(1..m, T)
    <3> HIDE DEF h
    <3> QED BY <2>1, <2>2, <2>3 DEF Surjection, Injection, IsInjective
  <2>5. IsFiniteSet(1..m) /\ Cardinality(1..m) = m
    BY FS_Interval
  <2> HIDE DEF h
  <2> QED BY <2>4, <2>5, FS_Surjection
<1>2. IsFiniteSet(S) /\ Cardinality(S) = n
  <2>1. S = {x \in S : \E i \in 1..n : g[i] = x}
    BY DEF Enumerates
  <2> QED BY <1>1, <2>1
<1>3. ASSUME NEW i \in 1..n PROVE Cardinality(Below(S, g[i])) = i - 1
  <2>1. Below(S, g[i]) = {x \in S : \E j \in 1..(i - 1) : g[j] = x}
    <3>1. ASSUME NEW x \in S, x < g[i] PROVE \E j \in 1..(i - 1) : g[j] = x
      <4>1. PICK j \in 1..n : g[j] = x
        BY DEF Enumerates
      <4>2. ~(i < j) /\ i # j
        <5>1. g[i] \in Nat /\ x \in Nat
          BY DEF Enumerates
        <5> QED BY <3>1, <4>1, <5>1 DEF Enumerates
      <4> QED BY <4>1, <4>2
    <3>2. \A j \in 1..(i - 1) : g[j] < g[i]
      BY DEF Enumerates
    <3> QED BY <3>1, <3>2 DEF Below
  <2>2. i - 1 \in 0..n
    OBVIOUS
  <2> QED BY <1>1, <2>1, <2>2
<1>4. ASSUME NEW i \in 1..n PROVE Place(S, i) = g[i]
  <2>1. g[i] \in S
    BY DEF Enumerates
  <2>2. Place(S, i) \in S /\ Cardinality(Below(S, Place(S, i))) = i - 1
    BY <1>3, <2>1 DEF Place
  <2>3. ASSUME NEW j \in S, NEW k \in S, j < k
        PROVE  Cardinality(Below(S, j)) # Cardinality(Below(S, k))
    <3>1. /\ Cardinality(Below(S, j)) \in Nat /\ Cardinality(Below(S, k)) \in Nat
          /\ Cardinality(Below(S, j)) < Cardinality(Below(S, k))
      BY <1>2, <2>3, BelowGrows
    <3> QED BY <3>1
  <2>4. ~(Place(S, i) < g[i]) /\ ~(g[i] < Place(S, i))
    BY <1>3, <2>1, <2>2, <2>3
  <2>5. g[i] \in Nat /\ Place(S, i) \in Nat
    BY <2>1, <2>2
  <2> QED BY <2>4, <2>5
<1> QED BY <1>2, <1>4

\* What is picked is a sequence, with one element for every place.
LEMMA PickedType ==
  ASSUME NEW X, NEW s \in Seq(X), NEW S \in SUBSET DOMAIN s
  PROVE  /\ IsFiniteSet(S) /\ Cardinality(S) \in Nat
         /\ Picked(s, S) \in Seq(X) /\ Len(Picked(s, S)) = Cardinality(S)
         /\ Elements(Picked(s, S)) = {s[i] : i \in S}
<1>1. DOMAIN s = 1..Len(s) /\ Len(s) \in Nat
  OBVIOUS
<1>2. IsFiniteSet(S) /\ S \in SUBSET Nat
  <2>1. IsFiniteSet(1..Len(s)) /\ S \in SUBSET (1..Len(s))
    BY <1>1, FS_Interval
  <2> QED BY <2>1, FS_Subset
<1> DEFINE n == Cardinality(S)
           g == [i \in 1..n |-> Place(S, i)]
<1>3. n \in Nat /\ Enumerates(g, n, S)
  BY <1>2, PlaceEnumerates
<1>4. Picked(s, S) = [i \in 1..n |-> s[g[i]]]
  BY DEF Picked
<1> HIDE DEF n, g
<1>5. \A i \in 1..n : g[i] \in S /\ s[g[i]] \in X
  BY <1>3 DEF Enumerates
<1>6. Picked(s, S) \in [1..n -> X]
  BY <1>4, <1>5
<1>7. Picked(s, S) \in Seq(X) /\ Len(Picked(s, S)) = n
  BY <1>3, <1>6
<1>8. ASSUME NEW x PROVE x \in Elements(Picked(s, S)) <=> x \in {s[i] : i \in S}
  <2>1. x \in Elements(Picked(s, S)) <=> \E i \in 1..n : s[g[i]] = x
    BY <1>4 DEF Elements
  <2>2. (\E i \in 1..n : s[g[i]] = x) <=> \E j \in S : s[j] = x
    BY <1>5, <1>3 DEF Enumerates
  <2> QED BY <2>1, <2>2
<1> QED BY <1>2, <1>3, <1>7, <1>8 DEF n

\* what is picked from a concatenation is picked from its parts
Splits(s, t, S, R, U) == Picked(s \o t, U) = Picked(s, S) \o Picked(t, R)

\* The places of a concatenation are those of the one and, moved, of the other.
LEMMA PickedConcat ==
  ASSUME NEW X, NEW s \in Seq(X), NEW t \in Seq(X),
         NEW S \in SUBSET DOMAIN s, NEW R \in SUBSET DOMAIN t,
         NEW U, \A i : i \in U <=> i \in S \/ \E k \in R : i = Len(s) + k
  PROVE  Splits(s, t, S, R, U)
<1> DEFINE m == Cardinality(S)
           n == Cardinality(R)
           g == [i \in 1..m |-> Place(S, i)]
           h == [i \in 1..n |-> Place(R, i)]
           f == [i \in 1..(m + n) |-> IF i <= m THEN g[i] ELSE Len(s) + h[i - m]]
<1>1. /\ DOMAIN s = 1..Len(s) /\ Len(s) \in Nat
      /\ DOMAIN t = 1..Len(t) /\ Len(t) \in Nat
  OBVIOUS
<1>2. /\ IsFiniteSet(S) /\ S \in SUBSET Nat /\ m \in Nat
      /\ IsFiniteSet(R) /\ R \in SUBSET Nat /\ n \in Nat
  BY <1>1, PickedType
<1>3. Enumerates(g, m, S) /\ Enumerates(h, n, R)
  BY <1>2, PlaceEnumerates
<1>4. /\ Picked(s, S) = [i \in 1..m |-> s[g[i]]]
      /\ Picked(t, R) = [i \in 1..n |-> t[h[i]]]
  BY DEF Picked
<1> HIDE DEF m, n, g, h
<1>5. /\ \A i \in 1..m : g[i] \in S
      /\ \A i \in 1..n : h[i] \in R
      /\ \A i \in S : i \in 1..Len(s)
      /\ \A i \in R : i \in 1..Len(t)
  BY <1>1, <1>3 DEF Enumerates
<1>6. U \in SUBSET Nat
  BY <1>1, <1>2
<1>7. Enumerates(f, m + n, U)
  <2>1. ASSUME NEW i \in 1..(m + n)
        PROVE  /\ i <= m => i \in 1..m /\ f[i] = g[i]
               /\ i > m => i - m \in 1..n /\ f[i] = Len(s) + h[i - m]
    BY <1>2
  <2>2. f \in [1..(m + n) -> U]
    <3>1. ASSUME NEW i \in 1..(m + n) PROVE f[i] \in U
      <4>1. (i <= m /\ f[i] = g[i]) \/ (i - m \in 1..n /\ f[i] = Len(s) + h[i - m])
        BY <1>2, <2>1
      <4> HIDE DEF f
      <4> QED BY <1>5, <2>1, <4>1
    <3> QED BY <3>1
  <2> HIDE DEF f
  <2>3. ASSUME NEW i \in 1..(m + n), NEW j \in 1..(m + n), i < j PROVE f[i] < f[j]
    <3>1. CASE j <= m
      BY <1>2, <1>3, <2>1, <2>3, <3>1 DEF Enumerates
    <3>2. CASE i <= m /\ j > m
      <4>1. f[i] \in 1..Len(s) /\ f[j] = Len(s) + h[j - m] /\ h[j - m] \in 1..Len(t)
        BY <1>5, <2>1, <3>2
      <4> QED BY <1>1, <4>1
    <3>3. CASE i > m
      <4>1. /\ i - m \in 1..n /\ j - m \in 1..n /\ i - m < j - m
            /\ f[i] = Len(s) + h[i - m] /\ f[j] = Len(s) + h[j - m]
        BY <1>2, <2>1, <2>3, <3>3
      <4>2. h[i - m] < h[j - m] /\ h[i - m] \in Nat /\ h[j - m] \in Nat
        BY <1>2, <1>3, <4>1 DEF Enumerates
      <4> QED BY <1>1, <4>1, <4>2
    <3> QED BY <1>2, <3>1, <3>2, <3>3
  <2>4. ASSUME NEW x \in U PROVE \E i \in 1..(m + n) : f[i] = x
    <3>1. CASE x \in S
      <4>1. PICK i \in 1..m : g[i] = x
        BY <1>3, <3>1 DEF Enumerates
      <4>2. i \in 1..(m + n) /\ i <= m
        BY <1>2
      <4> QED BY <2>1, <4>1, <4>2
    <3>2. CASE \E r \in R : x = Len(s) + r
      <4>1. PICK r \in R : x = Len(s) + r
        BY <3>2
      <4>2. PICK i \in 1..n : h[i] = r
        BY <1>3 DEF Enumerates
      <4>3. m + i \in 1..(m + n) /\ m + i > m /\ (m + i) - m = i
        BY <1>2
      <4> QED BY <2>1, <4>1, <4>2, <4>3
    <3> QED BY <3>1, <3>2
  <2> QED BY <2>2, <2>3, <2>4 DEF Enumerates
<1>8. Picked(s \o t, U) = [i \in 1..(m + n) |-> (s \o t)[f[i]]]
  <2> HIDE DEF f
  <2>1. m + n \in Nat
    BY <1>2
  <2>2. Cardinality(U) = m + n /\ \A i \in 1..(m + n) : Place(U, i) = f[i]
    BY <1>6, <1>7, <2>1, EnumerationUnique
  <2> QED BY <2>2 DEF Picked
<1>9. /\ Picked(s, S) \in Seq(X) /\ Len(Picked(s, S)) = m
      /\ Picked(t, R) \in Seq(X) /\ Len(Picked(t, R)) = n
  BY PickedType DEF m, n
<1> DEFINE p == Picked(s, S)
           q == Picked(t, R)
<1>10. p \o q = [i \in 1..(m + n) |-> IF i <= m THEN p[i] ELSE q[i - m]]
  <2>1. p \in Seq(X) /\ q \in Seq(X) /\ Len(p) = m /\ Len(q) = n
    BY <1>9
  <2> HIDE DEF p, q
  <2>2. /\ p \o q \in Seq(X) /\ Len(p \o q) = m + n
        /\ \A i \in 1..(m + n) : (p \o q)[i] = IF i <= m THEN p[i] ELSE q[i - m]
    <3>1. /\ p \o q \in Seq(X) /\ Len(p \o q) = Len(p) + Len(q)
          /\ \A i \in 1..(Len(p) + Len(q)) :
               (p \o q)[i] = IF i <= Len(p) THEN p[i] ELSE q[i - Len(p)]
      BY <2>1, ConcatProperties, Zenon
    <3> QED BY <2>1, <3>1
  <2>3. \A r \in Seq(X) : Len(r) = m + n => r = [i \in 1..(m + n) |-> r[i]]
    BY <1>2
  <2> QED BY <2>2, <2>3
<1>11. ASSUME NEW i \in 1..(m + n)
       PROVE  (s \o t)[f[i]] = IF i <= m THEN p[i] ELSE q[i - m]
  <2>1. CASE i <= m
    <3>1. i \in 1..m /\ g[i] \in 1..Len(s) /\ f[i] = g[i] /\ p[i] = s[g[i]]
      BY <1>2, <1>4, <1>5, <2>1
    <3> QED BY <1>1, <2>1, <3>1
  <2>2. CASE i > m
    <3>1. /\ i - m \in 1..n /\ h[i - m] \in 1..Len(t) /\ f[i] = Len(s) + h[i - m]
          /\ q[i - m] = t[h[i - m]]
      BY <1>2, <1>4, <1>5, <2>2
    <3>2. \A k \in 1..Len(t) : (s \o t)[Len(s) + k] = t[k]
      BY <1>1
    <3> QED BY <1>2, <2>2, <3>1, <3>2
  <2> HIDE DEF f, p, q
  <2>3. i <= m \/ i > m
    BY <1>2
  <2> QED BY <2>1, <2>2, <2>3
<1> HIDE DEF f
<1>12. Picked(s \o t, U) = p \o q
  BY <1>8, <1>10, <1>11
<1> QED BY <1>12 DEF Splits

\* As many elements are picked from a sequence without duplicates as places.
LEMMA PickedDistinct ==
  ASSUME NEW s \in Seq(Nat), \A i, j \in DOMAIN s : i < j => s[i] < s[j],
         NEW S \in SUBSET DOMAIN s
  PROVE  Cardinality({s[i] : i \in S}) = Cardinality(S)
<1> DEFINE T == {s[i] : i \in S}
           f == [i \in S |-> s[i]]
<1>1. IsFiniteSet(S)
  BY PickedType
<1>2. f \in [S -> T] /\ \A x \in T : \E i \in S : f[i] = x
  OBVIOUS
<1>3. ASSUME NEW i \in S, NEW j \in S, f[i] = f[j] PROVE i = j
  <2>1. ~(s[i] < s[j]) /\ ~(s[j] < s[i])
    BY <1>3
  <2>2. i \in Nat /\ j \in Nat
    OBVIOUS
  <2> QED BY <2>1, <2>2
<1>4. f \in Surjection(S, T) /\ f \in Injection(S, T)
  <2> HIDE DEF f, T
  <2> QED BY <1>2, <1>3 DEF Surjection, Injection, IsInjective
<1> HIDE DEF f, T
<1>5. Cardinality(T) = Cardinality(S)
  BY <1>1, <1>4, FS_Surjection
<1> QED BY <1>5 DEF T

\* What a sequence is parted into by places has every element of it.
LEMMA Parted ==
  ASSUME NEW X, NEW s \in Seq(X), NEW G \in SUBSET DOMAIN s
  PROVE  /\ Picked(s, DOMAIN s \ G) \in Seq(X) /\ Picked(s, G) \in Seq(X)
         /\ Len(Picked(s, G)) = Cardinality(G) /\ Cardinality(G) \in Nat
         /\ Elements(Picked(s, DOMAIN s \ G)) \cup Elements(Picked(s, G)) = Elements(s)
<1> DEFINE R == DOMAIN s \ G
<1>1. R \in SUBSET DOMAIN s
  OBVIOUS
<1>2. {s[i] : i \in R} \cup {s[i] : i \in G} = Elements(s)
  BY DEF Elements
<1> HIDE DEF R
<1>3. /\ Picked(s, R) \in Seq(X) /\ Elements(Picked(s, R)) = {s[i] : i \in R}
  BY <1>1, PickedType, Zenon
<1>4. /\ Picked(s, G) \in Seq(X) /\ Elements(Picked(s, G)) = {s[i] : i \in G}
      /\ Len(Picked(s, G)) = Cardinality(G) /\ Cardinality(G) \in Nat
  BY PickedType, Zenon
<1> QED BY <1>2, <1>3, <1>4 DEF R

\* From no places nothing is picked.
LEMMA PickedNone == ASSUME NEW s PROVE Picked(s, {}) = <<>>
<1>1. Cardinality({}) = 0
  BY FS_EmptySet
<1> QED BY <1>1 DEF Picked

-------------------------------------------------------------------------------
(* Sequences and numbers *)

\* What is in either part of a concatenation is in it, at the place it had.
LEMMA ElementsConcat ==
  ASSUME NEW X, NEW s \in Seq(X), NEW t \in Seq(X)
  PROVE  /\ s \o t \in Seq(X) /\ Len(s) <= Len(s \o t)
         /\ Len(s \o t) = Len(s) + Len(t)
         /\ \A i \in 1..Len(s) : (s \o t)[i] = s[i]
         /\ Elements(s \o t) = Elements(s) \cup Elements(t)
<1>1. /\ DOMAIN s = 1..Len(s) /\ DOMAIN t = 1..Len(t) /\ Len(s) \in Nat /\ Len(t) \in Nat
      /\ s \o t \in Seq(X) /\ Len(s \o t) = Len(s) + Len(t)
      /\ DOMAIN (s \o t) = 1..(Len(s) + Len(t))
      /\ \A i \in 1..Len(s) : (s \o t)[i] = s[i]
      /\ \A i \in 1..Len(t) : (s \o t)[Len(s) + i] = t[i]
  OBVIOUS
<1>2. ASSUME NEW x \in Elements(s \o t) PROVE x \in Elements(s) \cup Elements(t)
  <2>1. PICK i \in 1..(Len(s) + Len(t)) : (s \o t)[i] = x
    BY <1>1 DEF Elements
  <2>2. CASE i <= Len(s)
    BY <1>1, <2>1, <2>2 DEF Elements
  <2>3. CASE i > Len(s)
    <3>1. i - Len(s) \in 1..Len(t) /\ Len(s) + (i - Len(s)) = i
      BY <1>1, <2>3
    <3> QED BY <1>1, <2>1, <3>1 DEF Elements
  <2> QED BY <1>1, <2>2, <2>3
<1>3. ASSUME NEW x \in Elements(s) PROVE x \in Elements(s \o t)
  <2>1. PICK i \in 1..Len(s) : s[i] = x
    BY <1>1 DEF Elements
  <2>2. i \in 1..(Len(s) + Len(t))
    BY <1>1
  <2> QED BY <1>1, <2>1, <2>2 DEF Elements
<1>4. ASSUME NEW x \in Elements(t) PROVE x \in Elements(s \o t)
  <2>1. PICK i \in 1..Len(t) : t[i] = x
    BY <1>1 DEF Elements
  <2>2. Len(s) + i \in 1..(Len(s) + Len(t))
    BY <1>1
  <2> QED BY <1>1, <2>1, <2>2 DEF Elements
<1> QED BY <1>1, <1>2, <1>3, <1>4

\* a concatenation is cut where its parts meet
Cut(s, t) ==
  /\ SubSeq(s \o t, 1, Len(s)) = s
  /\ SubSeq(s \o t, Len(s) + 1, Len(s \o t)) = t

\* What is taken from the front of a concatenation, and what remains.
LEMMA ConcatCut ==
  ASSUME NEW X, NEW s \in Seq(X), NEW t \in Seq(X), Len(s) > 0
  PROVE  Cut(s, t)
<1>1. /\ Len(s) \in Nat /\ Len(t) \in Nat /\ s \o t \in Seq(X)
      /\ Len(s \o t) = Len(s) + Len(t)
  OBVIOUS
<1>2. 1 \in 1..Len(s) /\ Len(s) \in 1..Len(s)
  BY <1>1
<1>3. SubSeq(s \o t, 1, Len(s)) = SubSeq(s, 1, Len(s))
  BY <1>2, SubSeqOfConcat1, Zenon
<1>4. SubSeq(s, 1, Len(s)) = s
  BY SubSeqFull, Zenon
<1>5. SubSeq(s \o t, Len(s) + 1, Len(s \o t)) = t
  <2>1. CASE Len(t) = 0
    <3>1. t = <<>> /\ Len(s \o t) < Len(s) + 1
      BY <1>1, <2>1
    <3>2. Len(s) + 1 \in Int /\ Len(s \o t) \in Int
      BY <1>1
    <3>3. SubSeq(s \o t, Len(s) + 1, Len(s \o t)) = <<>>
      BY <3>1, <3>2, SubSeqEmpty, Zenon
    <3> QED BY <3>1, <3>3
  <2>2. CASE Len(t) # 0
    <3>1. /\ Len(s) + 1 \in (Len(s) + 1)..(Len(s) + Len(t))
          /\ Len(s) + Len(t) \in (Len(s) + 1)..(Len(s) + Len(t))
          /\ (Len(s) + 1) - Len(s) = 1 /\ (Len(s) + Len(t)) - Len(s) = Len(t)
      BY <1>1, <2>2
    <3>2. SubSeq(s \o t, Len(s) + 1, Len(s) + Len(t))
            = SubSeq(t, (Len(s) + 1) - Len(s), (Len(s) + Len(t)) - Len(s))
      BY <3>1, SubSeqOfConcat2, Zenon
    <3>3. SubSeq(t, 1, Len(t)) = t
      BY SubSeqFull, Zenon
    <3> QED BY <1>1, <3>1, <3>2, <3>3
  <2> QED BY <2>1, <2>2
<1> QED BY <1>3, <1>4, <1>5 DEF Cut

\* Induction over the natural numbers, for a set of them: one that holds m and not m + 1
\* would map one to one into itself without 0.
LEMMA NatSet ==
  ASSUME NEW S \in SUBSET Nat, 0 \in S, \A n \in S : n + 1 \in S
  PROVE  S = Nat
<1> SUFFICES ASSUME NEW m \in Nat, m \notin S PROVE FALSE
  OBVIOUS
<1> DEFINE A == {k \in 0..m : k \in S}
           B == A \ {0}
           f == [k \in A |-> k + 1]
<1>1. IsFiniteSet(A) /\ 0 \in A
  <2>1. IsFiniteSet(0..m) /\ A \subseteq 0..m
    BY FS_Interval
  <2> HIDE DEF A
  <2>2. IsFiniteSet(A)
    BY <2>1, FS_Subset
  <2> QED BY <2>2 DEF A
<1>2. \A k \in A : k + 1 \in A /\ k + 1 # 0
  OBVIOUS
<1>3. f \in Injection(A, B)
  BY <1>2 DEF Injection, IsInjective
<1>4. IsFiniteSet(B) /\ Cardinality(B) = Cardinality(A) - 1
  <2> HIDE DEF A
  <2> QED BY <1>1, FS_RemoveElement
<1>5. Cardinality(A) \in Nat
  <2> HIDE DEF A
  <2> QED BY <1>1, FS_CardinalityType
<1>6. Cardinality(A) <= Cardinality(B)
  <2> HIDE DEF A, B, f
  <2> QED BY <1>3, <1>4, FS_Injection
<1> QED BY <1>4, <1>5, <1>6

-------------------------------------------------------------------------------
(* No caller is forgotten *)

BarrierOf(c, items) ==
  \E i \in DOMAIN items : items[i].kind = "flush" /\ items[i].id = c

\* A barrier in one of two sequences is in their concatenation.
LEMMA BarrierConcat ==
  ASSUME NEW S, NEW s \in Seq(S), NEW t \in Seq(S), NEW c
  PROVE  BarrierOf(c, s) \/ BarrierOf(c, t) <=> BarrierOf(c, s \o t)
<1>1. ASSUME BarrierOf(c, s) PROVE BarrierOf(c, s \o t)
  <2>1. PICK i \in DOMAIN s : s[i].kind = "flush" /\ s[i].id = c
    BY <1>1 DEF BarrierOf
  <2>2. i \in DOMAIN (s \o t) /\ (s \o t)[i] = s[i]
    OBVIOUS
  <2> QED BY <2>1, <2>2 DEF BarrierOf
<1>2. ASSUME BarrierOf(c, t) PROVE BarrierOf(c, s \o t)
  <2>1. PICK i \in DOMAIN t : t[i].kind = "flush" /\ t[i].id = c
    BY <1>2 DEF BarrierOf
  <2>2. Len(s) + i \in DOMAIN (s \o t) /\ (s \o t)[Len(s) + i] = t[i]
    OBVIOUS
  <2> QED BY <2>1, <2>2 DEF BarrierOf
<1>3. ASSUME BarrierOf(c, s \o t) PROVE BarrierOf(c, s) \/ BarrierOf(c, t)
  <2>1. PICK i \in DOMAIN (s \o t) : (s \o t)[i].kind = "flush" /\ (s \o t)[i].id = c
    BY <1>3 DEF BarrierOf
  <2>2. CASE i <= Len(s)
    <3>1. i \in DOMAIN s /\ (s \o t)[i] = s[i]
      BY <2>2
    <3> QED BY <2>1, <3>1 DEF BarrierOf
  <2>3. CASE i > Len(s)
    <3>1. i - Len(s) \in DOMAIN t /\ (s \o t)[i] = t[i - Len(s)]
      BY <2>3
    <3> QED BY <2>1, <3>1 DEF BarrierOf
  <2> QED BY <2>2, <2>3
<1> QED BY <1>1, <1>2, <1>3

\* The barrier of a waiting caller is in the batch or in the queue.  The writer holds a
\* batch only while it works on one, ends only for a shutdown or a failure, and a
\* failure leaves nobody waiting.
BarrierInv ==
  /\ offered \in Nat /\ tracked \in Lines \cup {0}
  /\ queue \in Seq(Write \cup Barrier) /\ batch \in Seq(Write \cup Barrier)
  /\ DOMAIN calls = Calls
  /\ wpc \in {"open", "get", "empty", "dead"} => batch = <<>>
  /\ wpc = "dead" => closed \/ writerFailed
  /\ \A c \in Calls : calls[c].state = "waiting" =>
       ~writerFailed /\ (BarrierOf(c, batch) \/ BarrierOf(c, queue))

\* Nobody waits at the start.
LEMMA BarrierInvInit == Init => BarrierInv
BY DEF Init, BarrierInv, NoCall

\* What stands after a release: a caller whose barrier was among the items does not
\* wait any more, and no other begins to.
LEMMA ReleasedWaits ==
  ASSUME NEW items, NEW failed, NEW c \in Calls, DOMAIN calls = Calls,
         calls' = Released(items, failed), calls'[c].state = "waiting"
  PROVE  DOMAIN calls' = Calls /\ calls[c].state = "waiting" /\ ~BarrierOf(c, items)
<1>1. calls'[c] = Release(c, items, failed) /\ DOMAIN calls' = Calls
  BY DEF Released
<1>2. CASE BarrierOf(c, items) /\ calls[c].state = "waiting"
  <2>1. calls'[c] = [calls[c] EXCEPT !.state = "done", !.dropped = dropped',
                                     !.failed = failed]
    BY <1>1, <1>2 DEF Release, BarrierOf
  <2>2. calls'[c].state = "done"
    BY <1>2, <2>1
  <2> QED BY <2>2
<1>3. CASE ~(BarrierOf(c, items) /\ calls[c].state = "waiting")
  BY <1>1, <1>3 DEF Release, BarrierOf
<1> QED BY <1>2, <1>3

-------------------------------------------------------------------------------
(* Callers and barriers *)

\* A write that is offered keeps the invariant.
LEMMA OfferInv ==
  ASSUME BarrierInv, NEW w \in Offers, Offer(w)
  PROVE  BarrierInv'
<1>1. w \in Write
  <2>1. offered + 1 \in 1..MaxWrites /\ tracked \in Lines \cup {0}
    BY MaxWritesAssumption DEF Offer, BarrierInv
  <2> QED BY <2>1, KindsAssumption DEF Offers, Write
<1>2. /\ UNCHANGED <<batch, calls, wpc, closed, writerFailed>>
      /\ queue' = queue \/ queue' = Append(queue, w)
      /\ offered' \in Nat /\ tracked' \in Lines \cup {0}
  BY <1>1 DEF Offer, writerVars, BarrierInv, Write
<1>3. CASE queue' = queue
  BY <1>2, <1>3 DEF BarrierInv, BarrierOf
<1>4. CASE queue' = Append(queue, w)
  <2>1. queue' \in Seq(Write \cup Barrier)
    BY <1>1, <1>4 DEF BarrierInv
  <2>2. \A c \in Calls : BarrierOf(c, queue) => BarrierOf(c, queue')
    BY <1>4 DEF BarrierInv, BarrierOf
  <2> QED BY <1>2, <2>1, <2>2 DEF BarrierInv, BarrierOf
<1> QED BY <1>2, <1>3, <1>4

\* A flush that is admitted puts its barrier into the queue, and one that returns
\* or gives up waits no more.
LEMMA FlushInv ==
  ASSUME BarrierInv, NEW d \in Calls,
         FlushStart(d) \/ FlushAdmit(d) \/ FlushTimesOut(d) \/ FlushReturns(d)
  PROVE  BarrierInv'
<1> DEFINE b == [kind |-> "flush", id |-> d, event |-> "none", line |-> 0]
<1>1. UNCHANGED <<offered, tracked, batch, wpc, closed, writerFailed>>
  BY DEF FlushStart, FlushAdmit, FlushTimesOut, FlushReturns, producerVars,
         statusVars, writerVars
<1>2. /\ DOMAIN calls' = Calls
      /\ \A c \in Calls : c # d => calls'[c] = calls[c]
  BY DEF FlushStart, FlushAdmit, FlushTimesOut, FlushReturns, BarrierInv
<1>3. CASE UNCHANGED queue /\ calls'[d].state # "waiting"
  BY <1>1, <1>2, <1>3 DEF BarrierInv, BarrierOf
<1>4. CASE ~writerFailed /\ queue' = Append(queue, b)
  <2>1. queue' \in Seq(Write \cup Barrier)
    BY <1>4 DEF BarrierInv, Barrier
  <2>2. BarrierOf(d, queue')
    BY <1>4 DEF BarrierInv, BarrierOf
  <2>3. \A c \in Calls : BarrierOf(c, queue) => BarrierOf(c, queue')
    BY <1>4 DEF BarrierInv, BarrierOf
  <2> QED BY <1>1, <1>2, <1>4, <2>1, <2>2, <2>3 DEF BarrierInv, BarrierOf
<1>5. \/ UNCHANGED queue /\ calls'[d].state # "waiting"
      \/ ~writerFailed /\ queue' = Append(queue, b)
  <2>1. CASE FlushStart(d)
    BY <2>1 DEF FlushStart, BarrierInv
  <2>2. CASE FlushAdmit(d)
    BY <2>2 DEF FlushAdmit, BarrierInv, NoCall
  <2>3. CASE FlushTimesOut(d)
    BY <2>3 DEF FlushTimesOut, BarrierInv, NoCall
  <2>4. CASE FlushReturns(d)
    BY <2>4 DEF FlushReturns, BarrierInv, NoCall
  <2> QED BY <2>1, <2>2, <2>3, <2>4
<1> QED BY <1>3, <1>4, <1>5

-------------------------------------------------------------------------------
(* The writer and barriers *)

\* Taking an item from the queue into the batch moves its barrier with it.
LEMMA TakeInv ==
  ASSUME BarrierInv, queue # <<>>, batch' = Append(batch, Head(queue)),
         queue' = Tail(queue), wpc' \in {"fill", "commit"},
         UNCHANGED <<offered, tracked, calls, closed, writerFailed>>
  PROVE  BarrierInv'
<1>1. /\ queue \in Seq(Write \cup Barrier) /\ batch \in Seq(Write \cup Barrier)
      /\ batch' \in Seq(Write \cup Barrier) /\ queue' \in Seq(Write \cup Barrier)
  BY DEF BarrierInv
<1>2. \A c \in Calls : BarrierOf(c, batch) => BarrierOf(c, batch')
  BY <1>1 DEF BarrierOf
<1>3. ASSUME NEW c \in Calls, BarrierOf(c, queue)
      PROVE  BarrierOf(c, batch') \/ BarrierOf(c, queue')
  <2>1. PICK i \in DOMAIN queue : queue[i].kind = "flush" /\ queue[i].id = c
    BY <1>3 DEF BarrierOf
  <2>2. CASE i = 1
    <3>1. /\ Len(batch) + 1 \in DOMAIN batch'
          /\ batch'[Len(batch) + 1] = queue[1]
      BY <1>1, <2>2
    <3> QED BY <2>1, <2>2, <3>1 DEF BarrierOf
  <2>3. CASE i # 1
    <3>1. i - 1 \in DOMAIN queue' /\ queue'[i - 1] = queue[i]
      BY <1>1, <2>3
    <3> QED BY <2>1, <3>1 DEF BarrierOf
  <2> QED BY <2>2, <2>3
<1>4. wpc' \notin {"open", "get", "empty", "dead"}
  OBVIOUS
<1> QED BY <1>1, <1>2, <1>3, <1>4 DEF BarrierInv

\* A step of the writer thread keeps the invariant.
LEMMA WriterInv ==
  ASSUME BarrierInv, Writer
  PROVE  BarrierInv'
<1>1. CASE Open BY <1>1 DEF Open, producerVars, statusVars, BarrierInv, BarrierOf
<1>2. CASE Get
  <2>1. batch = <<>>
    BY <1>2 DEF Get, BarrierInv
  <2>2. batch' = Append(batch, Head(queue))
    BY <1>2, <2>1 DEF Get
  <2> QED BY <1>2, <2>2, TakeInv DEF Get, producerVars, statusVars
<1>3. CASE Fill
  <2>1. CASE queue = <<>> \/ Len(batch) = BatchSize
    BY <1>3, <2>1 DEF Fill, producerVars, statusVars, BarrierInv, BarrierOf
  <2>2. CASE ~(queue = <<>> \/ Len(batch) = BatchSize)
    BY <1>3, <2>2, TakeInv DEF Fill, producerVars, statusVars
  <2> QED BY <2>1, <2>2
<1>4. CASE SeeEmpty
  BY <1>4 DEF SeeEmpty, producerVars, statusVars, BarrierInv, BarrierOf
<1>5. CASE Idle BY <1>5 DEF Idle, producerVars, statusVars, BarrierInv, BarrierOf
<1>6. CASE Commit
  <2>1. /\ UNCHANGED <<offered, tracked, queue, batch, closed, writerFailed, calls>>
        /\ wpc' = "finish"
    BY <1>6 DEF Commit, producerVars
  <2> QED BY <2>1 DEF BarrierInv, BarrierOf
<1>7. CASE Retry BY <1>7 DEF Retry, producerVars, statusVars, BarrierInv, BarrierOf
<1>8. CASE Finish
  <2>1. /\ UNCHANGED <<offered, tracked, queue, closed, writerFailed>>
        /\ batch' = <<>> /\ wpc' = "get"
        /\ calls' = Released(batch, FALSE) /\ DOMAIN calls = Calls
    BY <1>8 DEF Finish, BarrierInv, producerVars
  <2>2. DOMAIN calls' = Calls
    BY <2>1 DEF Released
  <2>3. ASSUME NEW c \in Calls, calls'[c].state = "waiting"
        PROVE  ~writerFailed' /\ BarrierOf(c, queue')
    <3>1. calls[c].state = "waiting" /\ ~BarrierOf(c, batch)
      BY <2>1, <2>3, ReleasedWaits
    <3> QED BY <2>1, <3>1 DEF BarrierInv, BarrierOf
  <2>4. queue' \in Seq(Write \cup Barrier) /\ batch' \in Seq(Write \cup Barrier)
    BY <2>1 DEF BarrierInv
  <2> QED BY <2>1, <2>2, <2>3, <2>4 DEF BarrierInv
<1>9. CASE Fail
  <2>1. /\ UNCHANGED <<offered, tracked>> /\ batch' = <<>> /\ queue' = <<>>
        /\ wpc' = "dead" /\ writerFailed' = TRUE
        /\ calls' = Released(batch \o queue, TRUE) /\ DOMAIN calls = Calls
    BY <1>9 DEF Fail, BarrierInv, producerVars
  <2>2. DOMAIN calls' = Calls
    BY <2>1 DEF Released
  <2>3. ASSUME NEW c \in Calls, calls'[c].state = "waiting" PROVE FALSE
    <3>1. calls[c].state = "waiting" /\ ~BarrierOf(c, batch \o queue)
      BY <2>1, <2>3, ReleasedWaits
    <3>2. BarrierOf(c, batch) \/ BarrierOf(c, queue)
      BY <3>1 DEF BarrierInv
    <3> QED BY <3>1, <3>2, BarrierConcat DEF BarrierInv
  <2>4. queue' \in Seq(Write \cup Barrier) /\ batch' \in Seq(Write \cup Barrier)
    BY <2>1
  <2> QED BY <2>1, <2>2, <2>3, <2>4 DEF BarrierInv
<1> QED
  BY <1>1, <1>2, <1>3, <1>4, <1>5, <1>6, <1>7, <1>8, <1>9 DEF Writer

\* Every step keeps the invariant.
LEMMA BarrierInvNext == BarrierInv /\ [Next]_vars => BarrierInv'
<1> SUFFICES ASSUME BarrierInv, [Next]_vars PROVE BarrierInv'
  OBVIOUS
<1>1. CASE Close
  BY <1>1 DEF Close, producerVars, writerVars, BarrierInv, BarrierOf
<1>2. CASE UNCHANGED vars
  BY <1>2 DEF vars, producerVars, statusVars, writerVars, BarrierInv, BarrierOf
<1>3. CASE Stopped
  BY <1>2, <1>3 DEF Stopped
<1> QED
  BY <1>1, <1>2, <1>3, OfferInv, FlushInv, WriterInv DEF Next

\* The barrier of a waiting caller is in the writer's hands, and only a shutdown
\* leaves it there for good (flush, _finish_items, the failure path of _write_loop).
THEOREM BarriersAreHeld == Spec => []BarriersHeld
<1>1. BarrierInv => BarriersHeld
  <2> SUFFICES ASSUME BarrierInv, NEW c \in Calls, calls[c].state = "waiting"
               PROVE  /\ \E item \in Elements(batch \o queue) :
                            item.kind = "flush" /\ item.id = c
                      /\ Alive \/ closed
    BY DEF BarriersHeld
  <2>1. BarrierOf(c, batch \o queue)
    BY BarrierConcat DEF BarrierInv
  <2>2. Alive \/ closed
    BY DEF BarrierInv, Alive
  <2> QED BY <2>1, <2>2 DEF BarrierOf, Elements
<1> QED BY <1>1, BarrierInvInit, BarrierInvNext, PTL DEF Spec

-------------------------------------------------------------------------------
(* What a batch does to the cache and the row *)

Rows == [state : {"none", "opened", "resolved"}, line : Lines \cup {0}]

\* a known line is the one of an open row
Agreed(s) ==
  /\ s \in [known : Lines \cup {0}, row : Rows]
  /\ s.known # 0 => s.row.state = "opened" /\ s.row.line = s.known

\* prepare_incident_write and _write keep the batch-local cache and the row together.
LEMMA OneWriteAgrees ==
  ASSUME NEW s, Agreed(s), NEW w \in Write
  PROVE  Agreed([known |-> KnownLine(s, w), row |-> WrittenRow(s, w)])
<1>1. /\ s.known \in Lines \cup {0} /\ s.row \in Rows
      /\ s.row.state \in {"none", "opened", "resolved"} /\ s.row.line \in Lines \cup {0}
      /\ w.line \in Lines \cup {0} /\ w.event \in {"none", "opened", "resolved"}
  BY DEF Agreed, Rows, Write
<1>2. KnownLine(s, w) \in Lines \cup {0}
  BY <1>1 DEF KnownLine
<1>3. WrittenRow(s, w) \in Rows
  BY <1>1 DEF WrittenRow, Rows
<1>4. ASSUME KnownLine(s, w) # 0
      PROVE  WrittenRow(s, w).state = "opened" /\ WrittenRow(s, w).line = KnownLine(s, w)
  <2>1. CASE w.event = "opened"
    BY <2>1 DEF KnownLine, WrittenRow
  <2>2. CASE w.event # "opened"
    <3>1. /\ w.event = "none" /\ s.row.state = "opened" /\ KnownLine(s, w) = w.line
          /\ s.known # 0 => s.row.line = s.known
      BY <1>4, <2>2 DEF KnownLine, Agreed
    <3>2. CASE LineChanged(s, w)
      BY <1>1, <3>1, <3>2 DEF WrittenRow, Rows
    <3>3. CASE ~LineChanged(s, w)
      BY <3>1, <3>3 DEF WrittenRow, LineChanged
    <3> QED BY <3>2, <3>3
  <2> QED BY <2>1, <2>2
<1> QED BY <1>2, <1>3, <1>4 DEF Agreed

\* the recursion of After, for a function f in its place
Effect(f, i) ==
  IF i = 0 THEN [known |-> cache, row |-> db]
  ELSE IF batch[i].kind # "incident" THEN f[i-1]
  ELSE [known |-> KnownLine(f[i-1], batch[i]), row |-> WrittenRow(f[i-1], batch[i])]

\* The recursion has a solution, and After is one.
LEMMA AfterExists ==
  ASSUME NEW X, batch \in Seq(X)
  PROVE  After = [i \in 0..Len(batch) |-> Effect(After, i)]
<1> DEFINE S == {n \in Nat : \E f : f = [i \in 0..n |-> Effect(f, i)]}
<1>1. 0 \in S
  <2> DEFINE f == [i \in 0..0 |-> [known |-> cache, row |-> db]]
  <2>1. f = [i \in 0..0 |-> Effect(f, i)]
    BY DEF Effect
  <2> QED BY <2>1
<1>2. ASSUME NEW n \in S PROVE n + 1 \in S
  <2>1. PICK f : f = [i \in 0..n |-> Effect(f, i)]
    OBVIOUS
  <2> DEFINE g == [i \in 0..(n + 1) |-> IF i = n + 1 THEN Effect(f, n + 1) ELSE f[i]]
  <2>2. \A i \in 0..n : g[i] = f[i]
    OBVIOUS
  <2>3. ASSUME NEW i \in 0..(n + 1) PROVE g[i] = Effect(g, i)
    <3>1. i # 0 => g[i-1] = f[i-1]
      BY <2>2
    <3>2. Effect(g, i) = Effect(f, i)
      <4> HIDE DEF g
      <4> QED BY <3>1 DEF Effect
    <3>3. g[i] = Effect(f, i)
      <4>1. CASE i = n + 1
        BY <4>1
      <4>2. CASE i # n + 1
        <5>1. i \in 0..n
          BY <4>2
        <5>2. \A k \in 0..n : f[k] = Effect(f, k)
          BY <2>1, Zenon
        <5> QED BY <2>2, <5>1, <5>2
      <4> QED BY <4>1, <4>2
    <3> QED BY <3>2, <3>3
  <2>4. g = [i \in 0..(n + 1) |-> g[i]]
    OBVIOUS
  <2> HIDE DEF g
  <2>5. g = [i \in 0..(n + 1) |-> Effect(g, i)]
    BY <2>3, <2>4
  <2> QED BY <2>5
<1>3. S = Nat
  <2>1. S \in SUBSET Nat
    OBVIOUS
  <2> HIDE DEF S
  <2> QED BY <1>1, <1>2, <2>1, NatSet
<1>4. \E f : f = [i \in 0..Len(batch) |-> Effect(f, i)]
  <2>1. Len(batch) \in S
    <3> HIDE DEF S
    <3> QED BY <1>3
  <2> QED BY <2>1
<1> QED BY <1>4 DEF After, Effect

\* The cache and the row that a transaction prepares agree (commit_batch).
LEMMA PreparedAgrees ==
  ASSUME batch \in Seq(Write \cup Barrier), Agreed([known |-> cache, row |-> db])
  PROVE  Agreed(Prepared)
<1> DEFINE S == {n \in Nat : n <= Len(batch) => Agreed(After[n])}
<1>0. /\ Len(batch) \in Nat
      /\ \A i \in 0..Len(batch) : After[i] = Effect(After, i)
  BY AfterExists
<1>1. 0 \in S
  <2>1. After[0] = Effect(After, 0)
    BY <1>0
  <2>2. Effect(After, 0) = [known |-> cache, row |-> db]
    BY DEF Effect
  <2> QED BY <2>1, <2>2
<1>2. ASSUME NEW n \in S PROVE n + 1 \in S
  <2> SUFFICES ASSUME n + 1 <= Len(batch) PROVE Agreed(After[n + 1])
    OBVIOUS
  <2>1. /\ n \in Nat /\ n + 1 # 0 /\ n + 1 \in 1..Len(batch) /\ (n + 1) - 1 = n
        /\ Agreed(After[n]) /\ After[n + 1] = Effect(After, n + 1)
    BY <1>0
  <2>2. batch[n + 1] \in Write \cup Barrier
    BY <2>1
  <2>3. CASE batch[n + 1].kind # "incident"
    BY <2>1, <2>3 DEF Effect
  <2>4. CASE batch[n + 1].kind = "incident"
    <3>1. batch[n + 1] \in Write
      BY <2>2, <2>4 DEF Barrier
    <3>2. After[n + 1] = [known |-> KnownLine(After[n], batch[n + 1]),
                          row |-> WrittenRow(After[n], batch[n + 1])]
      BY <2>1, <2>4 DEF Effect
    <3> QED BY <2>1, <3>1, <3>2, OneWriteAgrees
  <2> QED BY <2>3, <2>4
<1>3. S = Nat
  <2>1. S \in SUBSET Nat
    OBVIOUS
  <2> HIDE DEF S
  <2> QED BY <1>1, <1>2, <2>1, NatSet
<1>4. Len(batch) \in S
  <2> HIDE DEF S
  <2> QED BY <1>0, <1>3
<1> QED BY <1>0, <1>4 DEF Prepared

-------------------------------------------------------------------------------
(* The writes among the items of a sequence *)

Items == Seq(Write \cup Barrier)

\* the writes among items
IdSet(items) == {items[i].id : i \in {j \in DOMAIN items : IsWrite(items[j])}}

\* writes follow each other in the order in which they were offered
Rising(items) ==
  \A i, j \in DOMAIN items :
    i < j /\ IsWrite(items[i]) /\ IsWrite(items[j]) => items[i].id < items[j].id

\* An item that is no barrier is a write.
LEMMA ItemKinds ==
  ASSUME NEW x \in Write \cup Barrier
  PROVE  IsWrite(x) <=> x \in Write
BY DEF IsWrite, Write, Barrier

\* The identities of the writes of a sequence, in their order.
LEMMA IdsOfType ==
  ASSUME NEW s \in Items
  PROVE  /\ Len(Writes(s)) \in Nat /\ DOMAIN Writes(s) = 1..Len(Writes(s))
         /\ IdsOf(s) \in Seq(1..MaxWrites) /\ Len(IdsOf(s)) = Len(Writes(s))
         /\ Elements(IdsOf(s)) = IdSet(s)
         /\ \A i \in DOMAIN Writes(s) : IdsOf(s)[i] = Writes(s)[i].id
<1> DEFINE X == Write \cup Barrier
           S == {i \in DOMAIN s : IsWrite(s[i])}
<1>1. s \in Seq(X) /\ S \in SUBSET DOMAIN s
  BY DEF Items
<1>2. /\ Writes(s) \in Seq(X)
      /\ Elements(Writes(s)) = {s[i] : i \in S}
  <2> HIDE DEF S, X
  <2>1. Writes(s) = Picked(s, S)
    BY DEF Writes, S
  <2> QED BY <1>1, <2>1, PickedType
<1> DEFINE W == Writes(s)
<1>3. Len(W) \in Nat /\ DOMAIN W = 1..Len(W)
  <2> HIDE DEF W
  <2> QED BY <1>2 DEF W
<1>4. ASSUME NEW i \in 1..Len(W) PROVE W[i].id \in 1..MaxWrites
  <2>1. W[i] \in Elements(W)
    BY <1>3 DEF Elements
  <2>2. PICK j \in S : W[i] = s[j]
    <3> HIDE DEF S
    <3> QED BY <1>2, <2>1
  <2>3. s[j] \in Write
    BY <1>1, <2>2, ItemKinds
  <2> HIDE DEF W
  <2> QED BY <2>2, <2>3 DEF Write
<1>5. IdsOf(s) = [i \in 1..Len(W) |-> W[i].id]
  BY <1>3 DEF IdsOf
<1>6. Elements(IdsOf(s)) = IdSet(s)
  <2>1. ASSUME NEW x PROVE x \in Elements(IdsOf(s)) <=> \E y \in Elements(W) : y.id = x
    <3> HIDE DEF W
    <3> QED BY <1>3, <1>5 DEF Elements
  <2>2. ASSUME NEW x PROVE x \in IdSet(s) <=> \E y \in {s[i] : i \in S} : y.id = x
    BY DEF IdSet
  <2> HIDE DEF W, S
  <2> QED BY <1>2, <2>1, <2>2 DEF W
<1> HIDE DEF W
<1>7. IdsOf(s) \in Seq(1..MaxWrites) /\ Len(IdsOf(s)) = Len(W)
  BY <1>3, <1>4, <1>5
<1> QED BY <1>3, <1>5, <1>6, <1>7 DEF W

\* The identities of a concatenation.
LEMMA IdsOfConcat ==
  ASSUME NEW s \in Items, NEW t \in Items
  PROVE  /\ s \o t \in Items
         /\ IdsOf(s \o t) = IdsOf(s) \o IdsOf(t)
         /\ IdSet(s \o t) = IdSet(s) \cup IdSet(t)
<1> DEFINE X == Write \cup Barrier
           S == {i \in DOMAIN s : IsWrite(s[i])}
           R == {i \in DOMAIN t : IsWrite(t[i])}
           U == {i \in DOMAIN (s \o t) : IsWrite((s \o t)[i])}
<1>1. s \in Seq(X) /\ t \in Seq(X) /\ s \o t \in Seq(X)
  BY DEF Items
<1>2. U = S \cup {Len(s) + i : i \in R}
  <2>1. /\ DOMAIN s = 1..Len(s) /\ DOMAIN t = 1..Len(t)
        /\ DOMAIN (s \o t) = 1..(Len(s) + Len(t))
        /\ Len(s) \in Nat /\ Len(t) \in Nat
    BY <1>1
  <2>2. /\ \A i \in 1..Len(s) : (s \o t)[i] = s[i]
        /\ \A i \in 1..Len(t) : (s \o t)[Len(s) + i] = t[i]
    BY <1>1
  <2>3. ASSUME NEW i \in U PROVE i \in S \cup {Len(s) + k : k \in R}
    <3>1. CASE i <= Len(s)
      BY <2>1, <2>2, <3>1
    <3>2. CASE i > Len(s)
      <4>1. i - Len(s) \in 1..Len(t) /\ Len(s) + (i - Len(s)) = i
        BY <2>1, <3>2
      <4> QED BY <2>1, <2>2, <4>1
    <3> QED BY <2>1, <3>1, <3>2
  <2>4. ASSUME NEW i \in S PROVE i \in U
    BY <2>1, <2>2
  <2>5. ASSUME NEW i \in R PROVE Len(s) + i \in U
    BY <2>1, <2>2
  <2> HIDE DEF U, S, R
  <2> QED BY <2>3, <2>4, <2>5
<1>3. Writes(s \o t) = Writes(s) \o Writes(t)
  <2>1. /\ Writes(s) = Picked(s, S) /\ Writes(t) = Picked(t, R)
        /\ Writes(s \o t) = Picked(s \o t, U)
    BY DEF Writes
  <2>2. S \in SUBSET DOMAIN s /\ R \in SUBSET DOMAIN t
    OBVIOUS
  <2> HIDE DEF S, R, U, X
  <2>3. s \in Seq(X) /\ t \in Seq(X)
    BY <1>1
  <2>4. \A i : i \in U <=> i \in S \/ \E k \in R : i = Len(s) + k
    BY <1>2
  <2>5. Splits(s, t, S, R, U)
    BY <2>2, <2>3, <2>4, PickedConcat
  <2> QED BY <2>1, <2>5 DEF Splits
<1> DEFINE p == Writes(s)
           q == Writes(t)
<1>4. p \in Seq(X) /\ q \in Seq(X)
  <2>1. /\ Writes(s) = Picked(s, S) /\ Writes(t) = Picked(t, R)
        /\ S \in SUBSET DOMAIN s /\ R \in SUBSET DOMAIN t
    BY DEF Writes
  <2> HIDE DEF S, R, X
  <2> QED BY <1>1, <2>1, PickedType
<1>5. IdsOf(s \o t) = IdsOf(s) \o IdsOf(t)
  <2>1. /\ IdsOf(s) = [i \in DOMAIN p |-> p[i].id]
        /\ IdsOf(t) = [i \in DOMAIN q |-> q[i].id]
        /\ IdsOf(s \o t) = [i \in DOMAIN (p \o q) |-> (p \o q)[i].id]
    BY <1>3 DEF IdsOf
  <2> DEFINE a == IdsOf(s)
             b == IdsOf(t)
  <2>2. a \in Seq(1..MaxWrites) /\ b \in Seq(1..MaxWrites) /\ Len(a) = Len(p) /\ Len(b) = Len(q)
    BY IdsOfType
  <2>3. /\ p \o q \in Seq(X) /\ Len(p \o q) = Len(p) + Len(q)
        /\ \A i \in 1..(Len(p) + Len(q)) :
             (p \o q)[i] = IF i <= Len(p) THEN p[i] ELSE q[i - Len(p)]
    <3> HIDE DEF p, q, X
    <3> QED BY <1>4, ConcatProperties, Zenon
  <2>4. /\ a \o b \in Seq(1..MaxWrites) /\ Len(a \o b) = Len(a) + Len(b)
        /\ \A i \in 1..(Len(a) + Len(b)) :
             (a \o b)[i] = IF i <= Len(a) THEN a[i] ELSE b[i - Len(a)]
    <3> HIDE DEF a, b
    <3> QED BY <2>2, ConcatProperties, Zenon
  <2> DEFINE n == Len(p) + Len(q)
  <2>5. /\ Len(p) \in Nat /\ DOMAIN p = 1..Len(p)
        /\ Len(q) \in Nat /\ DOMAIN q = 1..Len(q)
    <3> HIDE DEF p, q, X
    <3> QED BY <1>4
  <2>6. DOMAIN (p \o q) = 1..n
    <3> HIDE DEF p, q, X
    <3> QED BY <2>3, <2>5
  <2>7. ASSUME NEW i \in 1..n PROVE (p \o q)[i].id = (a \o b)[i]
    <3>1. CASE i <= Len(p)
      <4>1. i \in DOMAIN p /\ (p \o q)[i] = p[i] /\ (a \o b)[i] = a[i]
        <5> HIDE DEF p, q, a, b
        <5> QED BY <2>2, <2>3, <2>4, <2>5, <3>1
      <4> HIDE DEF p, q
      <4> QED BY <2>1, <4>1
    <3>2. CASE i > Len(p)
      <4>1. /\ i - Len(p) \in DOMAIN q /\ (p \o q)[i] = q[i - Len(p)]
            /\ (a \o b)[i] = b[i - Len(p)]
        <5> HIDE DEF p, q, a, b
        <5> QED BY <2>2, <2>3, <2>4, <2>5, <3>2
      <4> HIDE DEF p, q
      <4> QED BY <2>1, <4>1
    <3> QED
      <4>1. i <= Len(p) \/ i > Len(p)
        <5> HIDE DEF p, q
        <5> QED BY <2>5
      <4> HIDE DEF p, q, a, b, n
      <4> QED BY <4>1, <3>1, <3>2
  <2>8. \A r \in Seq(1..MaxWrites) : Len(r) = n => r = [i \in 1..n |-> r[i]]
    <3> HIDE DEF p, q
    <3> QED BY <2>5
  <2>9. a \o b = [i \in 1..n |-> (a \o b)[i]]
    <3> HIDE DEF a, b, p, q
    <3> QED BY <2>2, <2>4, <2>8
  <2> HIDE DEF a, b, n, p, q
  <2>10. IdsOf(s \o t) = a \o b
    BY <2>1, <2>6, <2>7, <2>9
  <2> QED BY <2>10 DEF a, b
<1>6. IdSet(s \o t) = IdSet(s) \cup IdSet(t)
  <2>1. DOMAIN s = 1..Len(s) /\ DOMAIN t = 1..Len(t) /\ Len(s) \in Nat /\ Len(t) \in Nat
    BY <1>1
  <2>2. /\ \A i \in 1..Len(s) : (s \o t)[i] = s[i]
        /\ \A i \in 1..Len(t) : (s \o t)[Len(s) + i] = t[i]
    BY <1>1
  <2>3. ASSUME NEW x
        PROVE  /\ x \in IdSet(s) <=> \E i \in S : s[i].id = x
               /\ x \in IdSet(t) <=> \E i \in R : t[i].id = x
               /\ x \in IdSet(s \o t) <=> \E i \in U : (s \o t)[i].id = x
    BY DEF IdSet
  <2>4. ASSUME NEW x
        PROVE  x \in IdSet(s \o t) <=>
                 (\E i \in S : (s \o t)[i].id = x) \/ (\E i \in R : (s \o t)[Len(s) + i].id = x)
    <3> HIDE DEF S, R, U
    <3>1. \A i : i \in U <=> i \in S \/ \E k \in R : i = Len(s) + k
      BY <1>2
    <3>2. x \in IdSet(s \o t) <=> \E i \in U : (s \o t)[i].id = x
      BY <2>3
    <3> QED BY <3>1, <3>2, Zenon
  <2>5. (\A i \in S : (s \o t)[i] = s[i]) /\ (\A i \in R : (s \o t)[Len(s) + i] = t[i])
    BY <2>1, <2>2
  <2> HIDE DEF S, R, U
  <2> QED BY <2>3, <2>4, <2>5
<1> QED BY <1>1, <1>5, <1>6 DEF Items

\* No writes, no identities.
LEMMA IdsOfNone ==
  ASSUME NEW s \in Items, IdSet(s) = {}
  PROVE  IdsOf(s) = <<>>
<1>1. IdsOf(s) \in Seq(1..MaxWrites) /\ Elements(IdsOf(s)) = {}
  BY IdsOfType
<1> DEFINE r == IdsOf(s)
<1>2. \A i \in DOMAIN r : FALSE
  <2> HIDE DEF r
  <2> QED BY <1>1 DEF Elements, r
<1>3. r \in Seq(1..MaxWrites)
  BY <1>1
<1> HIDE DEF r
<1>4. DOMAIN r = 1..Len(r) /\ Len(r) \in Nat
  BY <1>3
<1>5. Len(r) = 0
  <2>1. DOMAIN r = {}
    BY <1>2
  <2>2. Len(r) # 0 => 1 \in 1..Len(r)
    BY <1>4
  <2> QED BY <1>4, <2>1, <2>2
<1>6. r = <<>>
  BY <1>3, <1>5
<1> QED BY <1>6 DEF r

\* The identities of a single item, and of none.
LEMMA IdsOfOne ==
  ASSUME NEW x \in Write \cup Barrier
  PROVE  /\ <<x>> \in Items
         /\ IsWrite(x) => IdsOf(<<x>>) = <<x.id>> /\ IdSet(<<x>>) = {x.id}
         /\ ~IsWrite(x) => IdsOf(<<x>>) = <<>> /\ IdSet(<<x>>) = {}
         /\ <<>> \in Items /\ IdsOf(<<>>) = <<>> /\ IdSet(<<>>) = {}
<1>1. <<x>> \in Items /\ <<>> \in Items /\ DOMAIN <<x>> = {1} /\ <<x>>[1] = x
  BY DEF Items
<1>2. IsWrite(x) => IdSet(<<x>>) = {x.id}
  BY <1>1 DEF IdSet
<1>3. ~IsWrite(x) => IdSet(<<x>>) = {}
  BY <1>1 DEF IdSet
<1>4. IdSet(<<>>) = {}
  BY DEF IdSet
<1>5. /\ ~IsWrite(x) => IdsOf(<<x>>) = <<>>
      /\ IdsOf(<<>>) = <<>>
  BY <1>1, <1>3, <1>4, IdsOfNone
<1>6. ASSUME IsWrite(x) PROVE IdsOf(<<x>>) = <<x.id>>
  <2> DEFINE S == {i \in DOMAIN <<x>> : IsWrite(<<x>>[i])}
             g == [i \in 1..1 |-> 1]
  <2>1. S = {1}
    BY <1>1, <1>6
  <2>2. S \in SUBSET Nat /\ Enumerates(g, 1, S)
    BY <2>1 DEF Enumerates
  <2>3. Cardinality(S) = 1 /\ Place(S, 1) = 1
    <3>1. 1 \in Nat /\ 1 \in 1..1 /\ g[1] = 1
      OBVIOUS
    <3> HIDE DEF S, g
    <3> QED BY <2>2, <3>1, EnumerationUnique
  <2>4. Writes(<<x>>) = [i \in 1..1 |-> <<x>>[Place(S, i)]]
    <3>1. Writes(<<x>>) = Picked(<<x>>, S)
      BY DEF Writes
    <3> HIDE DEF S
    <3> QED BY <2>3, <3>1 DEF Picked
  <2>5. Writes(<<x>>)[1] = x /\ DOMAIN Writes(<<x>>) = 1..1
    <3> HIDE DEF S
    <3> QED BY <1>1, <2>3, <2>4
  <2>6. IdsOf(<<x>>) = [i \in 1..1 |-> Writes(<<x>>)[i].id]
    BY <2>5 DEF IdsOf
  <2>7. IdsOf(<<x>>) = [i \in 1..1 |-> x.id]
    BY <2>5, <2>6
  <2> QED BY <2>7
<1> QED BY <1>1, <1>2, <1>3, <1>4, <1>5, <1>6

\* The identities of rising writes rise, so that no two are equal.
LEMMA IdsOfRising ==
  ASSUME NEW s \in Items, Rising(s)
  PROVE  \A i, j \in DOMAIN IdsOf(s) : i < j => IdsOf(s)[i] < IdsOf(s)[j]
<1> DEFINE S == {i \in DOMAIN s : IsWrite(s[i])}
           n == Cardinality(S)
           g == [i \in 1..n |-> Place(S, i)]
<1>1. s \in Seq(Write \cup Barrier) /\ S \in SUBSET DOMAIN s /\ S \in SUBSET Nat
  BY DEF Items
<1>2. IsFiniteSet(S) /\ n \in Nat
  <2> HIDE DEF S
  <2> QED BY <1>1, PickedType
<1>3. Enumerates(g, n, S)
  <2> HIDE DEF S
  <2> QED BY <1>1, <1>2, PlaceEnumerates
<1>4. Writes(s) = [i \in 1..n |-> s[g[i]]]
  BY DEF Writes, Picked
<1>5. IdsOf(s) = [i \in 1..n |-> s[g[i]].id]
  <2> HIDE DEF g, n
  <2> QED BY <1>4 DEF IdsOf
<1> HIDE DEF g, n
<1> SUFFICES ASSUME NEW i \in 1..n, NEW j \in 1..n, i < j
             PROVE  s[g[i]].id < s[g[j]].id
  BY <1>5
<1>6. g[i] \in S /\ g[j] \in S /\ g[i] < g[j]
  BY <1>3 DEF Enumerates
<1> QED BY <1>6 DEF Rising

-------------------------------------------------------------------------------
(* The invariant *)

\* settled for good
Settled == Elements(stored) \cup Elements(lost)

\* The writer holds a batch only while it works on one; what it holds, what waits
\* behind it and what is settled are writes that were offered, each of them is
\* somewhere, and every loss was counted.
Fifo ==
  /\ wpc \in {"open", "get", "empty", "dead"} => batch = <<>>
  /\ Rising(batch \o queue)
  /\ IdSet(batch \o queue) \cup Settled \subseteq 1..offered
  /\ 1..offered \subseteq Settled \cup IdSet(InHand) \cup IdSet(queue)
  /\ dropped = Len(lost)

\* a write that the queue holds ahead of the barrier of c
Ahead(c, w) ==
  /\ ~BarrierOf(c, batch)
  /\ \E i \in DOMAIN queue :
       /\ IsWrite(queue[i]) /\ queue[i].id = w
       /\ \A j \in DOMAIN queue :
            queue[j].kind = "flush" /\ queue[j].id = c => i < j

\* A call starts from losses that were acknowledged.  The writes offered before
\* its barrier are settled, in the writer's hands or ahead of it; when the writer
\* reaches the barrier they are stored or among the losses that it reports.
Promise(c) ==
  /\ calls[c].state \in {"idle", "admitting"} => ~BarrierOf(c, batch \o queue)
  /\ calls[c].base <= flushedDrops
  /\ calls[c].state = "waiting" =>
       \A w \in 1..calls[c].mark : w \in Settled \cup IdSet(InHand) \/ Ahead(c, w)
  /\ calls[c].state = "done" /\ ~calls[c].failed =>
       /\ calls[c].dropped <= Len(lost)
       /\ \A w \in 1..calls[c].mark :
            w \in Elements(stored) \/ \E i \in 1..calls[c].dropped : lost[i] = w

Promises == \A c \in Calls : Promise(c)

IInv == TypeOK /\ CacheAgrees /\ Fifo /\ Promises

\* The invariant holds at the start.
LEMMA Initially == Init => IInv
<1> SUFFICES ASSUME Init PROVE IInv
  OBVIOUS
<1>1. TypeOK
  <2>1. calls \in [Calls -> [state : {"idle", "admitting", "waiting", "done",
                                    "true", "false"},
                            base : Nat, dropped : Nat, failed : BOOLEAN, mark : Nat]]
    BY DEF Init, NoCall
  <2>2. /\ offered \in 0..MaxWrites /\ Len(queue) <= Capacity /\ Len(batch) <= BatchSize
        /\ cache = 0 /\ db = [state |-> "none", line |-> 0]
    BY MaxWritesAssumption, SizesAssumption DEF Init
  <2>3. /\ queue \in Seq(Write \cup Barrier) /\ batch \in Seq(Write \cup Barrier)
        /\ stored \in Seq(1..MaxWrites) /\ lost \in Seq(1..MaxWrites)
    BY DEF Init
  <2>4. db \in [state : {"none", "opened", "resolved"}, line : Lines \cup {0}]
    BY <2>2
  <2>5. /\ tracked = 0 /\ closed = FALSE /\ writerFailed = FALSE /\ dropped = 0
        /\ flushedDrops = 0 /\ companions \in BOOLEAN /\ rollups \in BOOLEAN
        /\ wpc = "open" /\ pruned = FALSE
    BY DEF Init
  <2> QED BY <2>1, <2>2, <2>3, <2>4, <2>5 DEF TypeOK
<1>2. CacheAgrees
  BY <1>1 DEF Init, CacheAgrees
<1>3. /\ batch = <<>> /\ queue = <<>> /\ stored = <<>> /\ lost = <<>> /\ offered = 0
      /\ dropped = 0 /\ InHand = <<>> /\ batch \o queue = <<>>
  BY DEF Init, InHand
<1>4. Elements(<<>>) = {} /\ IdSet(<<>>) = {} /\ Rising(<<>>)
  BY DEF Elements, IdSet, Rising
<1>5. Fifo
  BY <1>3, <1>4 DEF Fifo, Settled
<1>6. Promises
  BY <1>3 DEF Init, NoCall, Promises, Promise, BarrierOf
<1> QED BY <1>1, <1>2, <1>5, <1>6 DEF IInv

\* Parts of a rising sequence rise.
LEMMA RisingParts ==
  ASSUME NEW s \in Items, NEW t \in Items, Rising(s \o t)
  PROVE  Rising(s) /\ Rising(t)
<1>1. /\ DOMAIN s = 1..Len(s) /\ DOMAIN t = 1..Len(t) /\ Len(s) \in Nat /\ Len(t) \in Nat
      /\ DOMAIN (s \o t) = 1..(Len(s) + Len(t))
      /\ \A i \in 1..Len(s) : (s \o t)[i] = s[i]
      /\ \A i \in 1..Len(t) : (s \o t)[Len(s) + i] = t[i]
  BY DEF Items
<1>2. Rising(s)
  <2>1. \A i \in 1..Len(s) : i \in 1..(Len(s) + Len(t))
    BY <1>1
  <2> QED BY <1>1, <2>1 DEF Rising
<1>3. Rising(t)
  <2> SUFFICES ASSUME NEW i \in 1..Len(t), NEW j \in 1..Len(t), i < j,
                      IsWrite(t[i]), IsWrite(t[j])
               PROVE  t[i].id < t[j].id
    BY <1>1 DEF Rising
  <2>1. /\ Len(s) + i \in 1..(Len(s) + Len(t)) /\ Len(s) + j \in 1..(Len(s) + Len(t))
        /\ Len(s) + i < Len(s) + j
    BY <1>1
  <2> QED BY <1>1, <2>1 DEF Rising
<1> QED BY <1>2, <1>3

\* A rising sequence still rises with a barrier or a later write behind it.
LEMMA RisingAppend ==
  ASSUME NEW s \in Items, Rising(s), NEW x \in Write \cup Barrier, NEW n \in Nat,
         IdSet(s) \subseteq 1..n, IsWrite(x) => x.id = n + 1
  PROVE  Rising(s \o <<x>>)
<1>1. /\ DOMAIN s = 1..Len(s) /\ Len(s) \in Nat
      /\ DOMAIN (s \o <<x>>) = 1..(Len(s) + 1)
      /\ \A i \in 1..Len(s) : (s \o <<x>>)[i] = s[i]
      /\ (s \o <<x>>)[Len(s) + 1] = x
  BY DEF Items
<1> SUFFICES ASSUME NEW i \in 1..(Len(s) + 1), NEW j \in 1..(Len(s) + 1), i < j,
                    IsWrite((s \o <<x>>)[i]), IsWrite((s \o <<x>>)[j])
             PROVE  (s \o <<x>>)[i].id < (s \o <<x>>)[j].id
  BY <1>1 DEF Rising
<1>2. i \in 1..Len(s) /\ (s \o <<x>>)[i] = s[i]
  BY <1>1
<1>3. CASE j \in 1..Len(s)
  BY <1>1, <1>2, <1>3 DEF Rising
<1>4. CASE j = Len(s) + 1
  <2>1. s[i].id \in 1..n
    BY <1>1, <1>2 DEF IdSet
  <2> QED BY <1>1, <1>2, <1>4, <2>1
<1> QED BY <1>1, <1>3, <1>4

\* How items are grouped does not matter.
LEMMA Regroup ==
  ASSUME NEW s \in Items, NEW t \in Items, NEW u \in Items
  PROVE  (s \o t) \o u = s \o (t \o u)
<1>1. s \in Seq(Write \cup Barrier) /\ t \in Seq(Write \cup Barrier)
  BY DEF Items
<1>2. u \in Seq(Write \cup Barrier)
  BY DEF Items
<1> QED BY <1>1, <1>2, ConcatAssociative

\* Taking an item from the queue into the batch changes nothing of the whole.
LEMMA Moved ==
  ASSUME NEW s \in Items, NEW t \in Items, t # <<>>
  PROVE  /\ Head(t) \in Write \cup Barrier /\ Tail(t) \in Items
         /\ Append(s, Head(t)) = s \o <<Head(t)>>
         /\ t = <<Head(t)>> \o Tail(t)
         /\ Append(s, Head(t)) \in Items /\ Append(s, Head(t)) \o Tail(t) = s \o t
<1>1. /\ Head(t) \in Write \cup Barrier /\ Tail(t) \in Items /\ t = <<Head(t)>> \o Tail(t)
      /\ Append(s, Head(t)) = s \o <<Head(t)>> /\ Append(s, Head(t)) \in Items
      /\ <<Head(t)>> \in Items
  BY DEF Items
<1>2. (s \o <<Head(t)>>) \o Tail(t) = s \o (<<Head(t)>> \o Tail(t))
  BY <1>1, Regroup
<1> QED BY <1>1, <1>2

\* What a promise rests on: a step that moves writes only towards storage or loss
\* keeps the promise to a caller that it does not answer.
LEMMA PromiseKept ==
  ASSUME TypeOK, NEW c \in Calls, Promise(c), calls'[c] = calls[c],
         flushedDrops' \in Nat, flushedDrops <= flushedDrops',
         Elements(stored) \subseteq Elements(stored'),
         Len(lost) \in Nat, Len(lost') \in Nat, Len(lost) <= Len(lost'),
         \A i \in 1..Len(lost) : lost'[i] = lost[i],
         \A w : w \in Settled \cup IdSet(InHand) => w \in Settled' \cup IdSet(InHand)',
         \A w : Ahead(c, w) => Ahead(c, w)' \/ w \in Settled' \cup IdSet(InHand)',
         BarrierOf(c, batch' \o queue') => BarrierOf(c, batch \o queue)
  PROVE  Promise(c)'
<1>1. calls[c].base \in Nat /\ calls[c].dropped \in Nat /\ flushedDrops \in Nat
  BY DEF TypeOK
<1>2. calls'[c].state \in {"idle", "admitting"} => ~BarrierOf(c, batch' \o queue')
  BY DEF Promise
<1>3. calls'[c].base <= flushedDrops'
  BY <1>1 DEF Promise
<1>4. calls'[c].state = "waiting" =>
        \A w \in 1..calls'[c].mark : w \in Settled' \cup IdSet(InHand)' \/ Ahead(c, w)'
  BY DEF Promise
<1>5. ASSUME calls'[c].state = "done", ~calls'[c].failed
      PROVE  /\ calls'[c].dropped <= Len(lost')
             /\ \A w \in 1..calls'[c].mark :
                  w \in Elements(stored') \/ \E i \in 1..calls'[c].dropped : lost'[i] = w
  <2>1. /\ calls[c].dropped <= Len(lost)
        /\ \A w \in 1..calls[c].mark :
             w \in Elements(stored) \/ \E i \in 1..calls[c].dropped : lost[i] = w
    BY <1>5 DEF Promise
  <2>2. \A i \in 1..calls[c].dropped : lost'[i] = lost[i]
    BY <1>1, <2>1
  <2> QED BY <1>1, <2>1, <2>2
<1> QED BY <1>2, <1>3, <1>4, <1>5 DEF Promise

-------------------------------------------------------------------------------
(* Producers and callers *)

\* The types that the steps need most.
LEMMA Shapes ==
  ASSUME TypeOK
  PROVE  /\ batch \in Items /\ queue \in Items /\ batch \o queue \in Items
         /\ stored \in Seq(1..MaxWrites) /\ lost \in Seq(1..MaxWrites)
         /\ Len(lost) \in Nat /\ Len(queue) \in Nat /\ Len(batch) \in Nat
         /\ offered \in Nat /\ offered <= MaxWrites /\ flushedDrops \in Nat /\ dropped \in Nat
         /\ IdSet(batch \o queue) = IdSet(batch) \cup IdSet(queue)
         /\ InHand \in Items /\ IdSet(InHand) \subseteq IdSet(batch)
<1>1. batch \in Items /\ queue \in Items
  BY DEF TypeOK, Items
<1>2. /\ stored \in Seq(1..MaxWrites) /\ lost \in Seq(1..MaxWrites)
      /\ offered \in Nat /\ offered <= MaxWrites /\ flushedDrops \in Nat /\ dropped \in Nat
  BY MaxWritesAssumption DEF TypeOK
<1>3. Len(lost) \in Nat /\ Len(queue) \in Nat /\ Len(batch) \in Nat
  BY <1>1, <1>2 DEF Items
<1>4. batch \o queue \in Items /\ IdSet(batch \o queue) = IdSet(batch) \cup IdSet(queue)
  BY <1>1, IdsOfConcat
<1>5. InHand \in Items /\ IdSet(InHand) \subseteq IdSet(batch)
  <2>1. <<>> \in Items /\ IdSet(<<>>) = {}
    BY DEF Items, IdSet
  <2> QED BY <1>1, <2>1 DEF InHand
<1> QED BY <1>1, <1>2, <1>3, <1>4, <1>5

\* Losses are added behind those counted before.
LEMMA LostGrows ==
  ASSUME TypeOK, NEW p \in Seq(1..MaxWrites), lost' = lost \o p
  PROVE  /\ lost' \in Seq(1..MaxWrites) /\ Len(lost') = Len(lost) + Len(p)
         /\ Len(lost') \in Nat /\ Len(lost) <= Len(lost')
         /\ \A i \in 1..Len(lost) : lost'[i] = lost[i]
         /\ Elements(lost') = Elements(lost) \cup Elements(p)
<1>1. lost \in Seq(1..MaxWrites)
  BY Shapes
<1>2. /\ lost \o p \in Seq(1..MaxWrites) /\ Len(lost) <= Len(lost \o p)
      /\ Len(lost \o p) = Len(lost) + Len(p)
      /\ \A i \in 1..Len(lost) : (lost \o p)[i] = lost[i]
      /\ Elements(lost \o p) = Elements(lost) \cup Elements(p)
  BY <1>1, ElementsConcat, Zenon
<1> QED BY <1>1, <1>2

\* An item that joins the queue: a write whose turn it is, or a barrier.
LEMMA Joined ==
  ASSUME TypeOK, Fifo, NEW x \in Write \cup Barrier, queue' = Append(queue, x),
         IsWrite(x) => x.id = offered + 1, UNCHANGED <<batch, wpc>>
  PROVE  /\ batch' \o queue' \in Items /\ Rising(batch' \o queue')
         /\ queue' \in Items
         /\ IdSet(queue') = IdSet(queue) \cup IdSet(<<x>>)
         /\ IdSet(batch' \o queue') = IdSet(batch \o queue) \cup IdSet(<<x>>)
         /\ InHand' = InHand
<1>1. <<x>> \in Items /\ queue' = queue \o <<x>>
  BY Shapes, IdsOfOne DEF Items
<1>2. batch' \o queue' = (batch \o queue) \o <<x>>
  <2>1. (batch \o queue) \o <<x>> = batch \o (queue \o <<x>>)
    BY <1>1, Shapes, Regroup
  <2> QED BY <1>1, <2>1
<1>3. Rising((batch \o queue) \o <<x>>)
  BY Shapes, RisingAppend DEF Fifo
<1>4. /\ IdSet((batch \o queue) \o <<x>>) = IdSet(batch \o queue) \cup IdSet(<<x>>)
      /\ (batch \o queue) \o <<x>> \in Items
      /\ IdSet(queue \o <<x>>) = IdSet(queue) \cup IdSet(<<x>>) /\ queue \o <<x>> \in Items
  BY <1>1, Shapes, IdsOfConcat
<1>5. InHand' = InHand
  BY DEF InHand
<1> QED BY <1>1, <1>2, <1>3, <1>4, <1>5

\* A queue that an item joins keeps what it had ahead of a barrier, unless the item is
\* that barrier.
LEMMA AheadJoined ==
  ASSUME TypeOK, NEW x \in Write \cup Barrier, queue' = Append(queue, x),
         UNCHANGED batch, NEW c, ~(x.kind = "flush" /\ x.id = c)
  PROVE  /\ \A w : Ahead(c, w) => Ahead(c, w)'
         /\ BarrierOf(c, batch' \o queue') => BarrierOf(c, batch \o queue)
<1>1. /\ queue \in Seq(Write \cup Barrier) /\ batch \in Seq(Write \cup Barrier)
      /\ queue' \in Seq(Write \cup Barrier)
      /\ DOMAIN queue = 1..Len(queue) /\ Len(queue) \in Nat
      /\ DOMAIN queue' = 1..(Len(queue) + 1)
      /\ \A i \in 1..Len(queue) : i \in DOMAIN queue' /\ queue'[i] = queue[i]
      /\ queue'[Len(queue) + 1] = x
  BY DEF TypeOK
<1>2. ASSUME NEW w, Ahead(c, w) PROVE Ahead(c, w)'
  <2>1. PICK i \in DOMAIN queue :
          /\ IsWrite(queue[i]) /\ queue[i].id = w
          /\ \A j \in DOMAIN queue : queue[j].kind = "flush" /\ queue[j].id = c => i < j
    BY <1>2 DEF Ahead
  <2>2. \A j \in DOMAIN queue' : queue'[j].kind = "flush" /\ queue'[j].id = c => i < j
    <3> SUFFICES ASSUME NEW j \in DOMAIN queue', queue'[j].kind = "flush", queue'[j].id = c
                 PROVE  i < j
      OBVIOUS
    <3>1. j # Len(queue) + 1
      BY <1>1
    <3>2. j \in 1..Len(queue)
      BY <1>1, <3>1
    <3> QED BY <1>1, <2>1, <3>2
  <2>3. i \in DOMAIN queue' /\ IsWrite(queue'[i]) /\ queue'[i].id = w
    BY <1>1, <2>1
  <2>4. ~BarrierOf(c, batch)'
    BY <1>2 DEF Ahead, BarrierOf
  <2> QED BY <2>2, <2>3, <2>4 DEF Ahead
<1>3. BarrierOf(c, queue') => BarrierOf(c, queue)
  <2> SUFFICES ASSUME NEW j \in DOMAIN queue', queue'[j].kind = "flush", queue'[j].id = c
               PROVE  BarrierOf(c, queue)
    BY DEF BarrierOf
  <2>1. j # Len(queue) + 1
    BY <1>1
  <2>2. j \in 1..Len(queue)
    BY <1>1, <2>1
  <2> QED BY <1>1, <2>2 DEF BarrierOf
<1>4. BarrierOf(c, batch' \o queue') => BarrierOf(c, batch \o queue)
  BY <1>1, <1>3, BarrierConcat
<1> QED BY <1>2, <1>4

\* What is offered is a write with the next identity.
LEMMA Offered ==
  ASSUME TypeOK, NEW w \in Offers, Offer(w)
  PROVE  /\ w \in Write /\ IsWrite(w) /\ w.id = offered + 1 /\ offered + 1 \in 1..MaxWrites
         /\ w.line \in Lines \cup {0} /\ offered' = offered + 1
<1>1. offered + 1 \in 1..MaxWrites /\ tracked \in Lines \cup {0}
  BY MaxWritesAssumption DEF Offer, TypeOK
<1>2. w \in Write /\ w.id = offered + 1
  BY <1>1, KindsAssumption DEF Offers, Write
<1> QED BY <1>1, <1>2, ItemKinds DEF Write, Offer

\* A write that is offered is queued or counted as lost (_enqueue).
LEMMA OfferKeeps ==
  ASSUME IInv, NEW w \in Offers, Offer(w)
  PROVE  IInv'
<1>0. TypeOK /\ Fifo /\ CacheAgrees
  BY DEF IInv
<1>1. /\ w \in Write /\ IsWrite(w) /\ w.id = offered + 1 /\ offered + 1 \in 1..MaxWrites
      /\ w.line \in Lines \cup {0} /\ offered' = offered + 1
  BY <1>0, Offered
<1>2. /\ UNCHANGED <<batch, wpc, calls, flushedDrops, stored, cache, db, closed,
                     writerFailed, companions, rollups, pruned>>
      /\ tracked' \in Lines \cup {0}
  BY <1>0, <1>1 DEF Offer, startVars, writerVars, diskVars, TypeOK
<1>3. <<w.id>> \in Seq(1..MaxWrites) /\ Elements(<<w.id>>) = {w.id} /\ Len(<<w.id>>) = 1
  BY <1>1 DEF Elements
<1>4. CASE Refused
  <2>1. queue' = queue /\ dropped' = dropped + 1 /\ lost' = lost \o <<w.id>>
    BY <1>0, <1>1, <1>4, Shapes DEF Offer
  <2>2. /\ lost' \in Seq(1..MaxWrites) /\ Len(lost') = Len(lost) + 1
        /\ \A i \in 1..Len(lost) : lost'[i] = lost[i]
        /\ Elements(lost') = Elements(lost) \cup {w.id}
    BY <1>0, <1>3, <2>1, LostGrows
  <2>3. TypeOK'
    BY <1>0, <1>1, <1>2, <2>1, <2>2 DEF TypeOK
  <2>4. Settled' = Settled \cup {w.id} /\ InHand' = InHand
    BY <1>2, <2>2 DEF Settled, InHand
  <2>5. Fifo'
    <3>1. 1..offered' = (1..offered) \cup {offered + 1}
      BY <1>0, <1>1, Shapes
    <3> QED BY <1>0, <1>1, <1>2, <2>1, <2>2, <2>4, <3>1, Shapes DEF Fifo
  <2>6. ASSUME NEW c \in Calls PROVE Promise(c)'
    <3>1. \A v : Ahead(c, v) => Ahead(c, v)'
      BY <1>2, <2>1 DEF Ahead, BarrierOf
    <3>2. Promise(c)
      BY DEF IInv, Promises
    <3>3. /\ Elements(stored) \subseteq Elements(stored')
          /\ \A v : v \in Settled \cup IdSet(InHand) => v \in Settled' \cup IdSet(InHand)'
      BY <1>2, <2>4
    <3>4. /\ Len(lost) \in Nat /\ Len(lost') \in Nat /\ Len(lost) <= Len(lost')
          /\ flushedDrops' \in Nat /\ flushedDrops <= flushedDrops'
      BY <1>0, <1>2, <2>2, Shapes
    <3>5. BarrierOf(c, batch' \o queue') => BarrierOf(c, batch \o queue)
      BY <1>2, <2>1
    <3> QED BY <1>0, <1>2, <2>2, <3>1, <3>2, <3>3, <3>4, <3>5, PromiseKept
  <2> QED BY <1>0, <1>2, <2>3, <2>5, <2>6 DEF IInv, Promises, CacheAgrees
<1>5. CASE ~Refused
  <2>1. queue' = Append(queue, w) /\ dropped' = dropped /\ lost' = lost
    BY <1>5 DEF Offer
  <2>2. /\ batch' \o queue' \in Items /\ Rising(batch' \o queue') /\ queue' \in Items
        /\ IdSet(queue') = IdSet(queue) \cup {w.id}
        /\ IdSet(batch' \o queue') = IdSet(batch \o queue) \cup {w.id}
        /\ InHand' = InHand
    <3>1. IdSet(<<w>>) = {w.id}
      BY <1>1, IdsOfOne
    <3> QED BY <1>0, <1>1, <1>2, <2>1, <3>1, Joined
  <2>3. Len(queue') <= Capacity
    <3>1. Len(queue) < Capacity
      BY <1>0, <1>5, Shapes, SizesAssumption DEF Refused
    <3> QED BY <1>0, <2>1, <3>1, Shapes, SizesAssumption DEF Items
  <2>4. TypeOK'
    BY <1>0, <1>1, <1>2, <2>1, <2>2, <2>3 DEF TypeOK, Items
  <2>5. Settled' = Settled
    BY <1>2, <2>1 DEF Settled
  <2>6. Fifo'
    <3>1. 1..offered' = (1..offered) \cup {offered + 1}
      BY <1>0, <1>1, Shapes
    <3> QED BY <1>0, <1>1, <1>2, <2>1, <2>2, <2>5, <3>1, Shapes DEF Fifo
  <2>7. ASSUME NEW c \in Calls PROVE Promise(c)'
    <3>1. w.kind # "flush"
      BY <1>1 DEF IsWrite
    <3>2. /\ \A v : Ahead(c, v) => Ahead(c, v)'
          /\ BarrierOf(c, batch' \o queue') => BarrierOf(c, batch \o queue)
      BY <1>0, <1>1, <1>2, <2>1, <3>1, AheadJoined
    <3>3. Promise(c)
      BY DEF IInv, Promises
    <3>4. /\ \A v : v \in Settled \cup IdSet(InHand) => v \in Settled' \cup IdSet(InHand)'
          /\ Len(lost) \in Nat /\ flushedDrops' \in Nat /\ flushedDrops <= flushedDrops'
      BY <1>0, <1>2, <2>2, <2>5, Shapes
    <3> QED BY <1>0, <1>2, <2>1, <3>2, <3>3, <3>4, PromiseKept
  <2> QED BY <1>0, <1>2, <2>4, <2>6, <2>7 DEF IInv, Promises, CacheAgrees
<1> QED BY <1>4, <1>5

CallStates == {"idle", "admitting", "waiting", "done", "true", "false"}
CallRecords == [state : CallStates, base : Nat, dropped : Nat, failed : BOOLEAN, mark : Nat]

\* The barrier of a call goes behind every write offered before it, and a call that
\* starts, gives up or returns holds no promise (flush).
LEMMA FlushKeeps ==
  ASSUME IInv, NEW d \in Calls,
         FlushStart(d) \/ FlushAdmit(d) \/ FlushTimesOut(d) \/ FlushReturns(d)
  PROVE  IInv'
<1> DEFINE b == [kind |-> "flush", id |-> d, event |-> "none", line |-> 0]
<1>0. /\ TypeOK /\ Fifo /\ CacheAgrees /\ Promise(d)
      /\ calls \in [Calls -> CallRecords] /\ flushedDrops \in Nat
  BY DEF IInv, Promises, TypeOK, CallRecords, CallStates
<1>1. /\ UNCHANGED <<offered, tracked, batch, wpc, stored, lost, dropped, cache, db, closed,
                     writerFailed, companions, rollups, pruned>>
      /\ \A c \in Calls : c # d => calls'[c] = calls[c]
  BY <1>0 DEF FlushStart, FlushAdmit, FlushTimesOut, FlushReturns, producerVars,
         statusVars, startVars, writerVars, diskVars
<1>2. flushedDrops' \in Nat /\ flushedDrops <= flushedDrops'
  BY <1>0 DEF FlushStart, FlushAdmit, FlushTimesOut, FlushReturns, statusVars, CallRecords
<1>3. Settled' = Settled /\ InHand' = InHand
  BY <1>1 DEF Settled, InHand
<1>4. ASSUME UNCHANGED queue, calls' \in [Calls -> CallRecords], Promise(d)'
      PROVE  IInv'
  <2>1. TypeOK'
    BY <1>0, <1>1, <1>2, <1>4 DEF TypeOK, CallRecords, CallStates
  <2>2. Fifo'
    BY <1>0, <1>1, <1>3, <1>4 DEF Fifo
  <2>3. ASSUME NEW c \in Calls, c # d PROVE Promise(c)'
    <3>1. \A w : Ahead(c, w) => Ahead(c, w)'
      BY <1>1, <1>4 DEF Ahead, BarrierOf
    <3>2. Promise(c) /\ calls'[c] = calls[c]
      BY <1>1, <2>3 DEF IInv, Promises
    <3>3. BarrierOf(c, batch' \o queue') => BarrierOf(c, batch \o queue)
      BY <1>1, <1>4
    <3> QED BY <1>0, <1>1, <1>2, <1>3, <3>1, <3>2, <3>3, PromiseKept, Shapes
  <2> QED BY <1>0, <1>1, <1>4, <2>1, <2>2, <2>3 DEF IInv, Promises, CacheAgrees
<1>5. ASSUME NEW s \in {"true", "false"}, UNCHANGED queue,
             calls' = [calls EXCEPT ![d] = NoCall(s)]
      PROVE  IInv'
  <2>1. calls'[d] = NoCall(s) /\ calls' \in [Calls -> CallRecords]
    BY <1>0, <1>5 DEF NoCall, CallRecords, CallStates
  <2>2. calls'[d].state = s /\ calls'[d].base = 0
    BY <2>1 DEF NoCall
  <2>3. Promise(d)'
    BY <1>2, <2>2 DEF Promise
  <2> QED BY <1>4, <1>5, <2>1, <2>3
<1>6. CASE FlushStart(d)
  <2>1. /\ UNCHANGED queue /\ calls' \in [Calls -> CallRecords]
        /\ calls'[d].state = "admitting" /\ calls'[d].base = flushedDrops
        /\ calls[d].state = "idle" /\ flushedDrops' = flushedDrops
    BY <1>0, <1>6 DEF FlushStart, FlushBase, CallRecords, CallStates, statusVars
  <2>2. ~BarrierOf(d, batch' \o queue')
    BY <1>0, <1>1, <2>1 DEF Promise
  <2>3. Promise(d)'
    BY <1>0, <2>1, <2>2 DEF Promise
  <2> QED BY <1>4, <2>1, <2>3
<1>7. CASE FlushTimesOut(d)
  BY <1>5, <1>7 DEF FlushTimesOut
<1>8. CASE FlushReturns(d)
  BY <1>5, <1>8 DEF FlushReturns
<1>9. CASE FlushAdmit(d)
  <2>1. CASE UNCHANGED queue /\ calls' = [calls EXCEPT ![d] = NoCall("false")]
    BY <1>5, <2>1
  <2>2. CASE /\ calls[d].state = "admitting" /\ Len(queue) < Capacity /\ queue' = Append(queue, b)
             /\ calls' = [calls EXCEPT ![d].state = "waiting", ![d].mark = offered]
    <3>1. b \in Write \cup Barrier /\ ~IsWrite(b) /\ b.kind = "flush" /\ b.id = d
      BY DEF Barrier, IsWrite
    <3>2. /\ batch' \o queue' \in Items /\ Rising(batch' \o queue') /\ queue' \in Items
          /\ IdSet(queue') = IdSet(queue)
          /\ IdSet(batch' \o queue') = IdSet(batch \o queue)
      <4>1. IdSet(<<b>>) = {}
        BY <3>1, IdsOfOne
      <4> HIDE DEF b
      <4>2. /\ batch' \o queue' \in Items /\ Rising(batch' \o queue') /\ queue' \in Items
            /\ IdSet(queue') = IdSet(queue) \cup IdSet(<<b>>)
            /\ IdSet(batch' \o queue') = IdSet(batch \o queue) \cup IdSet(<<b>>)
        BY <1>0, <1>1, <2>2, <3>1, Joined
      <4> QED BY <4>1, <4>2
    <3>3. /\ calls' \in [Calls -> CallRecords]
          /\ calls'[d].state = "waiting" /\ calls'[d].mark = offered
          /\ calls'[d].base = calls[d].base
      BY <1>0, <2>2, Shapes DEF CallRecords, CallStates
    <3>4. Len(queue') <= Capacity
      <4> HIDE DEF b
      <4> QED BY <1>0, <2>2, Shapes, SizesAssumption DEF Items
    <3>5. TypeOK'
      <4> HIDE DEF b
      <4> QED BY <1>0, <1>1, <1>2, <3>2, <3>3, <3>4 DEF TypeOK, Items, CallRecords, CallStates
    <3>6. Fifo'
      <4> HIDE DEF b
      <4> QED BY <1>0, <1>1, <1>3, <3>2 DEF Fifo
    <3>7. ASSUME NEW c \in Calls, c # d PROVE Promise(c)'
      <4>1. /\ \A w : Ahead(c, w) => Ahead(c, w)'
            /\ BarrierOf(c, batch' \o queue') => BarrierOf(c, batch \o queue)
        <5>1. ~(b.kind = "flush" /\ b.id = c)
          BY <3>1, <3>7
        <5> HIDE DEF b
        <5> QED BY <1>0, <1>1, <2>2, <3>1, <5>1, AheadJoined
      <4>2. Promise(c) /\ calls'[c] = calls[c]
        BY <1>1, <3>7 DEF IInv, Promises
      <4> QED BY <1>0, <1>1, <1>2, <1>3, <4>1, <4>2, PromiseKept, Shapes
    <3>8. Promise(d)'
      <4>1. ~BarrierOf(d, batch) /\ ~BarrierOf(d, queue)
        <5>1. ~BarrierOf(d, batch \o queue)
          BY <1>0, <2>2 DEF Promise
        <5> QED BY <1>0, <5>1, BarrierConcat DEF TypeOK
      <4>2. ASSUME NEW w \in 1..offered, w \notin Settled \cup IdSet(InHand) PROVE Ahead(d, w)'
        <5>1. w \in IdSet(queue)
          BY <1>0, <4>2 DEF Fifo
        <5>2. PICK i \in DOMAIN queue : IsWrite(queue[i]) /\ queue[i].id = w
          BY <5>1 DEF IdSet
        <5>3. /\ DOMAIN queue = 1..Len(queue) /\ Len(queue) \in Nat
              /\ DOMAIN queue' = 1..(Len(queue) + 1)
              /\ \A k \in 1..Len(queue) : k \in DOMAIN queue' /\ queue'[k] = queue[k]
          <6> HIDE DEF b
          <6> QED BY <1>0, <2>2, Shapes DEF Items
        <5>4. ASSUME NEW j \in DOMAIN queue', queue'[j].kind = "flush", queue'[j].id = d
              PROVE  i < j
          <6>1. j \notin 1..Len(queue)
            BY <4>1, <5>3, <5>4 DEF BarrierOf
          <6> QED BY <5>3, <6>1
        <5>5. ~BarrierOf(d, batch)'
          BY <1>1, <4>1 DEF BarrierOf
        <5>6. i \in DOMAIN queue' /\ IsWrite(queue'[i]) /\ queue'[i].id = w
          BY <5>2, <5>3
        <5> QED BY <5>4, <5>5, <5>6 DEF Ahead
      <4>3. calls'[d].base <= flushedDrops'
        <5>1. calls[d].base \in Nat /\ calls[d].base <= flushedDrops
          BY <1>0 DEF Promise, CallRecords
        <5> QED BY <1>0, <1>2, <3>3, <5>1
      <4>4. \A w \in 1..calls'[d].mark : w \in Settled' \cup IdSet(InHand)' \/ Ahead(d, w)'
        BY <1>3, <3>3, <4>2
      <4> QED BY <3>3, <4>3, <4>4 DEF Promise
    <3>9. CacheAgrees'
      BY <1>0, <1>1, <3>5 DEF CacheAgrees
    <3> QED BY <3>5, <3>6, <3>7, <3>8, <3>9 DEF IInv, Promises
  <2> QED BY <1>9, <2>1, <2>2 DEF FlushAdmit
<1> QED BY <1>6, <1>7, <1>8, <1>9

-------------------------------------------------------------------------------
(* The writer *)

\* A step that moves nothing keeps the invariant.
LEMMA QuietKeeps ==
  ASSUME IInv, UNCHANGED <<offered, tracked, queue, flushedDrops, dropped, calls, companions,
                           rollups, batch, cache, stored, db, lost, writerFailed>>,
         closed' \in BOOLEAN, pruned' \in BOOLEAN,
         wpc' \in {"open", "get", "fill", "empty", "commit", "finish", "dead"},
         wpc' = "finish" <=> wpc = "finish",
         wpc' \in {"open", "get", "empty", "dead"} => batch = <<>>
  PROVE  IInv'
<1>0. TypeOK /\ Fifo /\ CacheAgrees
  BY DEF IInv
<1>1. TypeOK'
  BY <1>0 DEF TypeOK
<1>2. Settled' = Settled /\ InHand' = InHand
  BY DEF Settled, InHand
<1>3. Fifo'
  BY <1>0, <1>2 DEF Fifo
<1>4. ASSUME NEW c \in Calls PROVE Promise(c)'
  <2>1. Promise(c) /\ \A w : Ahead(c, w) => Ahead(c, w)'
    BY DEF IInv, Promises, Ahead, BarrierOf
  <2> QED BY <1>0, <1>2, <2>1, PromiseKept, Shapes
<1> QED BY <1>0, <1>1, <1>3, <1>4 DEF IInv, Promises, CacheAgrees

\* Taking an item from the queue into the batch keeps the invariant.
LEMMA TakeKeeps ==
  ASSUME IInv, queue # <<>>, batch' = Append(batch, Head(queue)), queue' = Tail(queue),
         Len(batch) < BatchSize, wpc \in {"get", "fill"}, wpc' \in {"fill", "commit"},
         UNCHANGED <<offered, tracked, closed, writerFailed, dropped, flushedDrops, calls,
                     companions, rollups, pruned, cache, stored, db, lost>>
  PROVE  IInv'
<1>0. TypeOK /\ Fifo /\ CacheAgrees
  BY DEF IInv
<1>1. /\ batch' \in Items /\ queue' \in Items /\ batch' \o queue' = batch \o queue
      /\ batch' = batch \o <<Head(queue)>> /\ <<Head(queue)>> \in Items
      /\ Head(queue) \in Write \cup Barrier /\ queue = <<Head(queue)>> \o queue'
  BY <1>0, Moved, Shapes, IdsOfOne
<1>2. /\ IdSet(batch') = IdSet(batch) \cup IdSet(<<Head(queue)>>)
      /\ IdSet(queue) = IdSet(<<Head(queue)>>) \cup IdSet(queue')
  <2>1. IdSet(batch \o <<Head(queue)>>) = IdSet(batch) \cup IdSet(<<Head(queue)>>)
    BY <1>0, <1>1, Shapes, IdsOfConcat
  <2>2. IdSet(<<Head(queue)>> \o queue') = IdSet(<<Head(queue)>>) \cup IdSet(queue')
    BY <1>1, IdsOfConcat
  <2> QED BY <1>1, <2>1, <2>2
<1>3. InHand = batch /\ InHand' = batch' /\ Settled' = Settled
  BY DEF InHand, Settled
<1>4. Len(batch') <= BatchSize /\ Len(queue') <= Capacity
  <2>1. Len(batch') = Len(batch) + 1 /\ Len(queue') = Len(queue) - 1 /\ Len(queue) <= Capacity
    BY <1>0, Shapes DEF TypeOK, Items
  <2> QED BY <1>0, <2>1, Shapes, SizesAssumption
<1>5. TypeOK'
  BY <1>0, <1>1, <1>4 DEF TypeOK, Items
<1>6. Fifo'
  BY <1>0, <1>1, <1>2, <1>3 DEF Fifo
<1>7. ASSUME NEW c \in Calls PROVE Promise(c)'
  <2>1. ASSUME NEW w, Ahead(c, w)
        PROVE  Ahead(c, w)' \/ w \in Settled' \cup IdSet(InHand)'
    <3>1. PICK i \in DOMAIN queue :
            /\ IsWrite(queue[i]) /\ queue[i].id = w
            /\ \A j \in DOMAIN queue : queue[j].kind = "flush" /\ queue[j].id = c => i < j
      BY <2>1 DEF Ahead
    <3>2. /\ DOMAIN queue = 1..Len(queue) /\ Len(queue) \in Nat
          /\ DOMAIN queue' = 1..(Len(queue) - 1) /\ 1 \in DOMAIN queue
          /\ \A k \in 1..(Len(queue) - 1) : queue'[k] = queue[k + 1]
          /\ Head(queue) = queue[1]
      BY <1>0, Shapes DEF Items
    <3>3. CASE i = 1
      <4>1. w \in IdSet(<<Head(queue)>>)
        BY <1>1, <3>1, <3>2, <3>3, IdsOfOne
      <4> QED BY <1>2, <1>3, <4>1
    <3>4. CASE i # 1
      <4>1. ~(Head(queue).kind = "flush" /\ Head(queue).id = c)
        BY <3>1, <3>2, <3>4
      <4>2. ~BarrierOf(c, batch')
        <5>1. ~BarrierOf(c, <<Head(queue)>>)
          BY <4>1 DEF BarrierOf
        <5>2. ~BarrierOf(c, batch)
          BY <2>1 DEF Ahead
        <5> QED BY <1>0, <1>1, <5>1, <5>2, BarrierConcat, Shapes DEF Items
      <4>3. /\ i - 1 \in DOMAIN queue' /\ queue'[i - 1] = queue[i]
        BY <3>2, <3>4
      <4>4. ASSUME NEW j \in DOMAIN queue', queue'[j].kind = "flush", queue'[j].id = c
            PROVE  i - 1 < j
        <5>1. j + 1 \in DOMAIN queue /\ queue'[j] = queue[j + 1]
          BY <3>2
        <5> QED BY <3>1, <3>2, <4>4, <5>1
      <4>5. ~BarrierOf(c, batch)'
        BY <4>2 DEF BarrierOf
      <4> QED BY <3>1, <4>3, <4>4, <4>5 DEF Ahead
    <3> QED BY <3>3, <3>4
  <2>2. Promise(c)
    BY DEF IInv, Promises
  <2>3. \A w : w \in Settled \cup IdSet(InHand) => w \in Settled' \cup IdSet(InHand)'
    BY <1>2, <1>3
  <2>4. BarrierOf(c, batch' \o queue') => BarrierOf(c, batch \o queue)
    BY <1>1
  <2>5. UNCHANGED <<calls, flushedDrops, stored, lost>>
    OBVIOUS
  <2>6. Len(lost) \in Nat /\ flushedDrops \in Nat
    BY <1>0, Shapes
  <2> QED BY <1>0, <2>1, <2>2, <2>3, <2>4, <2>5, <2>6, PromiseKept
<1> QED BY <1>0, <1>5, <1>6, <1>7 DEF IInv, Promises, CacheAgrees

\* A transaction stores or counts every write of its batch, and leaves a cache that
\* agrees with the database whether it commits or not (commit_batch).
LEMMA CommitKeeps ==
  ASSUME IInv, Commit
  PROVE  IInv'
<1> DEFINE W == Writes(batch)
           I == IdsOf(batch)
<1>0. TypeOK /\ Fifo /\ CacheAgrees /\ wpc = "commit" /\ wpc' = "finish" /\ pruned' = FALSE
  BY DEF IInv, Commit
<1>1. PICK late \in SUBSET {i \in DOMAIN W : W[i].kind = "gpu"}, ok \in BOOLEAN,
           gone \in SUBSET DOMAIN W :
        /\ stored' = stored \o Picked(I, DOMAIN W \ gone)
        /\ lost' = lost \o Picked(I, gone)
        /\ dropped' = dropped + Cardinality(gone)
        /\ db' = IF ok THEN Prepared.row ELSE db
        /\ cache' = CacheAfter(ok)
  BY DEF Commit
<1>2. UNCHANGED <<offered, tracked, queue, closed, writerFailed, flushedDrops, calls,
                  companions, rollups, batch>>
  BY DEF Commit, producerVars, startVars
<1>3. I \in Seq(1..MaxWrites) /\ Elements(I) = IdSet(batch) /\ DOMAIN I = DOMAIN W
  <2>1. /\ I \in Seq(1..MaxWrites) /\ Elements(I) = IdSet(batch)
        /\ DOMAIN W = 1..Len(W) /\ Len(I) = Len(W)
    BY <1>0, Shapes, IdsOfType
  <2> HIDE DEF I, W
  <2> QED BY <2>1
<1> HIDE DEF W, I
<1> DEFINE p == Picked(I, DOMAIN W \ gone)
           q == Picked(I, gone)
<1>4. /\ p \in Seq(1..MaxWrites) /\ q \in Seq(1..MaxWrites) /\ Len(q) = Cardinality(gone)
      /\ Elements(p) \cup Elements(q) = IdSet(batch) /\ Cardinality(gone) \in Nat
  <2>1. gone \in SUBSET DOMAIN I
    BY <1>3
  <2>2. /\ Picked(I, DOMAIN I \ gone) \in Seq(1..MaxWrites)
        /\ Picked(I, gone) \in Seq(1..MaxWrites)
        /\ Len(Picked(I, gone)) = Cardinality(gone) /\ Cardinality(gone) \in Nat
        /\ Elements(Picked(I, DOMAIN I \ gone)) \cup Elements(Picked(I, gone)) = Elements(I)
    BY <1>3, <2>1, Parted, Zenon
  <2> QED BY <1>3, <2>2
<1>5. stored' = stored \o p /\ lost' = lost \o q /\ dropped' = dropped + Len(q)
  BY <1>1, <1>4
<1> HIDE DEF p, q
<1>6. /\ lost' \in Seq(1..MaxWrites) /\ Len(lost') = Len(lost) + Len(q)
      /\ Len(lost') \in Nat /\ Len(lost) <= Len(lost') /\ Len(q) \in Nat
      /\ \A i \in 1..Len(lost) : lost'[i] = lost[i]
      /\ Elements(lost') = Elements(lost) \cup Elements(q)
  BY <1>0, <1>4, <1>5, LostGrows
<1>7. stored' \in Seq(1..MaxWrites) /\ Elements(stored') = Elements(stored) \cup Elements(p)
  <2>1. stored \in Seq(1..MaxWrites)
    BY <1>0, Shapes
  <2>2. /\ stored \o p \in Seq(1..MaxWrites)
        /\ Elements(stored \o p) = Elements(stored) \cup Elements(p)
    <3>1. p \in Seq(1..MaxWrites)
      BY <1>4
    <3> QED BY <2>1, <3>1, ElementsConcat, Zenon
  <2> QED BY <1>5, <2>2
<1>8. Settled' = Settled \cup IdSet(batch) /\ InHand = batch /\ InHand' = <<>>
  BY <1>0, <1>4, <1>6, <1>7 DEF Settled, InHand
<1>9. /\ cache' \in Lines \cup {0} /\ db' \in Rows
      /\ cache' # 0 => db'.state = "opened" /\ db'.line = cache'
  <2>1. Agreed([known |-> cache, row |-> db])
    BY <1>0 DEF Agreed, CacheAgrees, TypeOK, Rows
  <2>2. Agreed(Prepared)
    BY <1>0, <2>1, PreparedAgrees DEF TypeOK
  <2>3. CASE ok
    <3>1. cache' = Prepared.known /\ db' = Prepared.row
      BY <1>1, <2>3 DEF CacheAfter
    <3> QED BY <2>2, <3>1 DEF Agreed
  <2>4. CASE ~ok
    <3>1. cache' = cache /\ db' = db
      BY <1>1, <2>4 DEF CacheAfter
    <3> QED BY <1>0, <3>1 DEF CacheAgrees, TypeOK, Rows
  <2> QED BY <2>3, <2>4
<1>10. TypeOK'
  <2>1. dropped' \in Nat
    BY <1>0, <1>5, <1>6, Shapes
  <2> QED BY <1>0, <1>2, <1>6, <1>7, <1>9, <2>1 DEF TypeOK, Rows
<1>11. Fifo'
  <2>1. IdSet(batch) \subseteq 1..offered
    BY <1>0, Shapes DEF Fifo
  <2>2. dropped' = Len(lost')
    BY <1>0, <1>5, <1>6 DEF Fifo
  <2>3. IdSet(InHand) = IdSet(batch)
    BY <1>8
  <2> QED BY <1>0, <1>2, <1>8, <2>1, <2>2, <2>3 DEF Fifo
<1>12. ASSUME NEW c \in Calls PROVE Promise(c)'
  <2>1. Promise(c) /\ \A w : Ahead(c, w) => Ahead(c, w)'
    BY <1>2 DEF IInv, Promises, Ahead, BarrierOf
  <2>2. \A w : w \in Settled \cup IdSet(InHand) => w \in Settled' \cup IdSet(InHand)'
    BY <1>8
  <2>3. flushedDrops' \in Nat /\ flushedDrops <= flushedDrops' /\ Len(lost) \in Nat
    BY <1>0, <1>2, Shapes
  <2>4. BarrierOf(c, batch' \o queue') => BarrierOf(c, batch \o queue)
    BY <1>2
  <2> QED BY <1>0, <1>2, <1>6, <1>7, <2>1, <2>2, <2>3, <2>4, PromiseKept
<1> QED BY <1>0, <1>9, <1>10, <1>11, <1>12 DEF IInv, Promises, CacheAgrees

\* _finish_items answers the waiting callers whose barriers it meets.
LEMMA ReleasedCalls ==
  ASSUME TypeOK, NEW items, NEW failed \in BOOLEAN, calls' = Released(items, failed),
         dropped' \in Nat
  PROVE  /\ calls' \in [Calls -> CallRecords]
         /\ \A c \in Calls :
              IF BarrierOf(c, items) /\ calls[c].state = "waiting"
              THEN /\ calls'[c].state = "done" /\ calls'[c].dropped = dropped'
                   /\ calls'[c].failed = failed
                   /\ calls'[c].base = calls[c].base /\ calls'[c].mark = calls[c].mark
              ELSE calls'[c] = calls[c]
<1>0. calls \in [Calls -> CallRecords]
  BY DEF TypeOK, CallRecords, CallStates
<1>1. ASSUME NEW c \in Calls
      PROVE  /\ calls'[c] \in CallRecords
             /\ IF BarrierOf(c, items) /\ calls[c].state = "waiting"
                THEN /\ calls'[c].state = "done" /\ calls'[c].dropped = dropped'
                     /\ calls'[c].failed = failed
                     /\ calls'[c].base = calls[c].base /\ calls'[c].mark = calls[c].mark
                ELSE calls'[c] = calls[c]
  <2>1. calls'[c] = Release(c, items, failed) /\ calls[c] \in CallRecords
    BY <1>0 DEF Released
  <2>2. CASE BarrierOf(c, items) /\ calls[c].state = "waiting"
    <3>1. calls'[c] = [calls[c] EXCEPT !.state = "done", !.dropped = dropped',
                                       !.failed = failed]
      BY <2>1, <2>2 DEF Release, BarrierOf
    <3> QED BY <2>1, <2>2, <3>1 DEF CallRecords, CallStates
  <2>3. CASE ~(BarrierOf(c, items) /\ calls[c].state = "waiting")
    <3>1. calls'[c] = calls[c]
      BY <2>1, <2>3 DEF Release, BarrierOf
    <3> QED BY <2>1, <2>3, <3>1
  <2> QED BY <2>2, <2>3
<1>2. calls' = [c \in Calls |-> Release(c, items, failed)]
  BY DEF Released
<1> QED BY <1>1, <1>2

\* A batch that is finished answers the caller whose barrier ends it: all that it
\* promised is settled, and the losses are in what it reports.
LEMMA FinishKeeps ==
  ASSUME IInv, Finish
  PROVE  IInv'
<1>0. /\ TypeOK /\ Fifo /\ CacheAgrees
      /\ wpc = "finish" /\ wpc' = "get" /\ batch' = <<>> /\ calls' = Released(batch, FALSE)
  BY DEF IInv, Finish
<1>1. UNCHANGED <<offered, tracked, queue, closed, writerFailed, flushedDrops, companions,
                  rollups, pruned, cache, stored, db, lost, dropped>>
  BY DEF Finish, producerVars, startVars, diskVars
<1>2. Settled' = Settled /\ InHand = <<>> /\ InHand' = <<>>
  BY <1>0, <1>1 DEF Settled, InHand
<1>3. /\ calls' \in [Calls -> CallRecords]
      /\ \A c \in Calls :
           IF BarrierOf(c, batch) /\ calls[c].state = "waiting"
           THEN /\ calls'[c].state = "done" /\ calls'[c].dropped = dropped'
                /\ calls'[c].failed = FALSE
                /\ calls'[c].base = calls[c].base /\ calls'[c].mark = calls[c].mark
           ELSE calls'[c] = calls[c]
  BY <1>0, <1>1, Shapes, ReleasedCalls
<1>4. /\ batch' \o queue' = queue /\ Rising(queue) /\ <<>> \in Items
      /\ IdSet(batch \o queue) = IdSet(batch) \cup IdSet(queue)
  <2>1. batch' \o queue' = queue /\ <<>> \in Items
    BY <1>0, <1>1, Shapes DEF Items
  <2>2. batch \in Items /\ queue \in Items /\ Rising(batch \o queue)
    BY <1>0, Shapes DEF Fifo
  <2> QED BY <1>0, <2>1, <2>2, RisingParts, Shapes
<1>5. TypeOK'
  <2>1. batch' \in Seq(Write \cup Barrier) /\ Len(batch') <= BatchSize
    BY <1>0, SizesAssumption
  <2> QED BY <1>0, <1>1, <1>3, <2>1 DEF TypeOK, CallRecords, CallStates
<1>6. Fifo'
  BY <1>0, <1>1, <1>2, <1>4 DEF Fifo
<1>7. ASSUME NEW c \in Calls PROVE Promise(c)'
  <2>0. /\ Promise(c) /\ lost \in Seq(1..MaxWrites)
        /\ dropped = Len(lost) /\ dropped' = dropped
    BY <1>0, <1>1, Shapes DEF IInv, Promises, Fifo
  <2>1. CASE BarrierOf(c, batch) /\ calls[c].state = "waiting"
    <3>1. /\ calls'[c].state = "done" /\ calls'[c].dropped = Len(lost)
          /\ calls'[c].base = calls[c].base /\ calls'[c].mark = calls[c].mark
      BY <1>3, <2>0, <2>1
    <3>2. ASSUME NEW w \in 1..calls[c].mark
          PROVE  w \in Elements(stored) \/ \E i \in 1..Len(lost) : lost[i] = w
      <4>1. ~Ahead(c, w)
        BY <2>1 DEF Ahead
      <4>2. IdSet(InHand) = {}
        BY <1>2 DEF IdSet
      <4>3. w \in Settled
        BY <2>0, <2>1, <4>1, <4>2 DEF Promise
      <4> QED BY <2>0, <4>3 DEF Settled, Elements
    <3>3. calls'[c].base <= flushedDrops'
      BY <1>1, <2>0, <3>1 DEF Promise
    <3>4. Len(lost) \in Nat
      BY <2>0
    <3> QED BY <1>1, <3>1, <3>2, <3>3, <3>4 DEF Promise
  <2>2. CASE ~(BarrierOf(c, batch) /\ calls[c].state = "waiting")
    <3>1. calls'[c] = calls[c]
      BY <1>3, <2>2
    <3>2. \A w : Ahead(c, w) => Ahead(c, w)'
      BY <1>0, <1>1 DEF Ahead, BarrierOf
    <3>3. BarrierOf(c, batch' \o queue') => BarrierOf(c, batch \o queue)
      BY <1>0, <1>4, Shapes, BarrierConcat DEF TypeOK
    <3>4. UNCHANGED <<flushedDrops, stored, lost>> /\ flushedDrops \in Nat /\ Len(lost) \in Nat
      BY <1>0, <1>1, Shapes
    <3>5. \A w : w \in Settled \cup IdSet(InHand) => w \in Settled' \cup IdSet(InHand)'
      BY <1>2
    <3>6. /\ Elements(stored) \subseteq Elements(stored') /\ Len(lost') \in Nat
          /\ Len(lost) <= Len(lost') /\ \A i \in 1..Len(lost) : lost'[i] = lost[i]
          /\ flushedDrops' \in Nat /\ flushedDrops <= flushedDrops'
      BY <3>4
    <3> QED BY <1>0, <2>0, <3>1, <3>2, <3>3, <3>4, <3>5, <3>6, PromiseKept
  <2> QED BY <2>1, <2>2
<1> QED BY <1>0, <1>1, <1>5, <1>6, <1>7 DEF IInv, Promises, CacheAgrees

\* A failure drops all that is not committed, counts it and answers every caller
\* with failure.
LEMMA FailKeeps ==
  ASSUME IInv, Fail
  PROVE  IInv'
<1>0. /\ TypeOK /\ Fifo /\ CacheAgrees
      /\ wpc \in {"open", "commit", "finish", "empty"} /\ wpc' = "dead"
      /\ writerFailed' = TRUE /\ batch' = <<>> /\ queue' = <<>>
      /\ calls' = Released(batch \o queue, TRUE)
  BY DEF IInv, Fail
<1>1. UNCHANGED <<offered, tracked, closed, flushedDrops, companions, rollups, pruned,
                  cache, stored, db>>
  BY DEF Fail, producerVars, startVars, diskVars
<1>2. Uncommitted = InHand
  BY <1>0 DEF Uncommitted, InHand, Fifo
<1>3. /\ InHand \in Items /\ queue \in Items /\ <<>> \in Items
      /\ IdSet(<<>>) = {} /\ Rising(<<>>) /\ <<>> \o <<>> = <<>>
  BY <1>0, Shapes DEF Items, IdSet, Rising
<1> DEFINE a == IdsOf(InHand)
           b == IdsOf(queue)
           p == IdsOf(InHand \o queue)
<1>4. /\ a \in Seq(1..MaxWrites) /\ b \in Seq(1..MaxWrites) /\ p \in Seq(1..MaxWrites)
      /\ Len(a) = Len(Writes(InHand)) /\ Len(b) = Len(Writes(queue))
      /\ p = a \o b /\ Elements(p) = IdSet(InHand) \cup IdSet(queue)
  BY <1>3, IdsOfType, IdsOfConcat
<1>5. lost' = lost \o p /\ dropped' = dropped + Len(a) + Len(b)
  BY <1>2, <1>4 DEF Fail
<1> HIDE DEF a, b, p
<1>6. Len(p) = Len(a) + Len(b) /\ Len(p) \in Nat /\ Len(a) \in Nat /\ Len(b) \in Nat
  <2>1. a \in Seq(1..MaxWrites) /\ b \in Seq(1..MaxWrites) /\ p = a \o b
    BY <1>4
  <2>2. Len(a \o b) = Len(a) + Len(b)
    BY <2>1, ElementsConcat, Zenon
  <2> QED BY <2>1, <2>2
<1>7. /\ lost' \in Seq(1..MaxWrites) /\ Len(lost') = Len(lost) + Len(p)
      /\ Len(lost') \in Nat /\ Len(lost) <= Len(lost')
      /\ \A i \in 1..Len(lost) : lost'[i] = lost[i]
      /\ Elements(lost') = Elements(lost) \cup Elements(p)
  BY <1>0, <1>4, <1>5, LostGrows
<1>8. /\ Settled' = Settled \cup IdSet(InHand) \cup IdSet(queue) /\ InHand' = <<>>
      /\ dropped' \in Nat /\ dropped' = Len(lost')
  <2>1. dropped \in Nat /\ dropped = Len(lost)
    BY <1>0, Shapes DEF Fifo
  <2>2. dropped' \in Nat /\ dropped' = Len(lost')
    BY <1>5, <1>6, <1>7, <2>1
  <2>3. InHand' = <<>>
    BY <1>0 DEF InHand
  <2> QED BY <1>1, <1>4, <1>7, <2>2, <2>3 DEF Settled
<1>9. /\ calls' \in [Calls -> CallRecords]
      /\ \A c \in Calls :
           IF BarrierOf(c, batch \o queue) /\ calls[c].state = "waiting"
           THEN /\ calls'[c].state = "done" /\ calls'[c].dropped = dropped'
                /\ calls'[c].failed = TRUE
                /\ calls'[c].base = calls[c].base /\ calls'[c].mark = calls[c].mark
           ELSE calls'[c] = calls[c]
  BY <1>0, <1>8, ReleasedCalls
<1>10. TypeOK'
  <2>1. /\ batch' \in Seq(Write \cup Barrier) /\ Len(batch') <= BatchSize
        /\ queue' \in Seq(Write \cup Barrier) /\ Len(queue') <= Capacity
    BY <1>0, SizesAssumption
  <2> QED BY <1>0, <1>1, <1>7, <1>8, <1>9, <2>1 DEF TypeOK, CallRecords, CallStates
<1>11. Fifo'
  <2>1. IdSet(InHand) \cup IdSet(queue) \subseteq 1..offered
    BY <1>0, Shapes DEF Fifo
  <2>2. IdSet(batch' \o queue') = {} /\ Rising(batch' \o queue')
    BY <1>0, <1>3
  <2> QED BY <1>0, <1>1, <1>8, <2>1, <2>2 DEF Fifo
<1>12. ASSUME NEW c \in Calls PROVE Promise(c)'
  <2>0. Promise(c) /\ ~BarrierOf(c, batch' \o queue')
    BY <1>0, <1>3 DEF IInv, Promises, BarrierOf
  <2>1. CASE BarrierOf(c, batch \o queue) /\ calls[c].state = "waiting"
    <3>1. /\ calls'[c].state = "done" /\ calls'[c].failed = TRUE
          /\ calls'[c].base = calls[c].base
      BY <1>9, <2>1
    <3> QED BY <1>1, <2>0, <3>1 DEF Promise
  <2>2. CASE ~(BarrierOf(c, batch \o queue) /\ calls[c].state = "waiting")
    <3>1. calls'[c] = calls[c]
      BY <1>9, <2>2
    <3>2. \A w : Ahead(c, w) => w \in Settled' \cup IdSet(InHand)'
      BY <1>8 DEF Ahead, IdSet
    <3>3. \A w : w \in Settled \cup IdSet(InHand) => w \in Settled' \cup IdSet(InHand)'
      BY <1>8
    <3>4. /\ Elements(stored) \subseteq Elements(stored') /\ Len(lost) \in Nat
          /\ flushedDrops' \in Nat /\ flushedDrops <= flushedDrops'
      BY <1>0, <1>1, Shapes
    <3> QED BY <1>0, <1>7, <2>0, <3>1, <3>2, <3>3, <3>4, PromiseKept
  <2> QED BY <2>1, <2>2
<1> QED BY <1>0, <1>1, <1>10, <1>11, <1>12 DEF IInv, Promises, CacheAgrees

\* A step of the writer thread keeps the invariant.
LEMMA WriterKeeps ==
  ASSUME IInv, Writer
  PROVE  IInv'
<1>0. TypeOK /\ Fifo
  BY DEF IInv
<1>1. CASE Open
  BY <1>0, <1>1, QuietKeeps DEF Open, producerVars, statusVars, startVars, diskVars, TypeOK, Fifo
<1>2. CASE Get
  <2>1. batch = <<>> /\ Len(batch) < BatchSize
    BY <1>0, <1>2, SizesAssumption DEF Get, Fifo
  <2>2. batch' = Append(batch, Head(queue))
    BY <1>2, <2>1 DEF Get
  <2> QED BY <1>2, <2>1, <2>2, TakeKeeps DEF Get, producerVars, statusVars, startVars, diskVars
<1>3. CASE Fill
  <2>1. CASE queue = <<>> \/ Len(batch) = BatchSize
    BY <1>0, <1>3, <2>1, QuietKeeps
       DEF Fill, producerVars, statusVars, startVars, diskVars, TypeOK
  <2>2. CASE ~(queue = <<>> \/ Len(batch) = BatchSize)
    <3>1. Len(batch) < BatchSize
      BY <1>0, <2>2, SizesAssumption, Shapes DEF TypeOK
    <3> QED
      BY <1>3, <2>2, <3>1, TakeKeeps DEF Fill, producerVars, statusVars, startVars, diskVars
  <2> QED BY <2>1, <2>2
<1>4. CASE SeeEmpty
  BY <1>0, <1>4, QuietKeeps
     DEF SeeEmpty, producerVars, statusVars, startVars, diskVars, TypeOK, Fifo
<1>5. CASE Idle
  BY <1>0, <1>5, QuietKeeps
     DEF Idle, producerVars, statusVars, startVars, diskVars, TypeOK, Fifo
<1>6. CASE Commit
  BY <1>6, CommitKeeps
<1>7. CASE Retry
  BY <1>0, <1>7, QuietKeeps
     DEF Retry, producerVars, statusVars, startVars, diskVars, TypeOK, Fifo
<1>8. CASE Finish
  BY <1>8, FinishKeeps
<1>9. CASE Fail
  BY <1>9, FailKeeps
<1> QED BY <1>1, <1>2, <1>3, <1>4, <1>5, <1>6, <1>7, <1>8, <1>9 DEF Writer

\* Every step keeps the invariant.
LEMMA Preserved == IInv /\ [Next]_vars => IInv'
<1> SUFFICES ASSUME IInv, [Next]_vars PROVE IInv'
  OBVIOUS
<1>0. TypeOK /\ Fifo
  BY DEF IInv
<1>1. CASE Close
  BY <1>0, <1>1, QuietKeeps
     DEF Close, producerVars, startVars, writerVars, diskVars, TypeOK, Fifo
<1>2. CASE UNCHANGED vars
  BY <1>0, <1>2, QuietKeeps
     DEF vars, producerVars, statusVars, startVars, writerVars, diskVars, TypeOK, Fifo
<1>3. CASE Stopped
  BY <1>2, <1>3 DEF Stopped
<1> QED
  BY <1>1, <1>2, <1>3, OfferKeeps, FlushKeeps, WriterKeeps DEF Next

\* IInv is an invariant of the specification.
LEMMA Invariance == Spec => []IInv
BY Initially, Preserved, PTL DEF Spec

-------------------------------------------------------------------------------
(* The theorems *)

\* Between transactions the cached critical line is the one that the database holds for
\* the open condition (prepare_incident_write).
THEOREM CacheIsRight == Spec => []CacheAgrees
<1>1. IInv => CacheAgrees
  BY DEF IInv
<1> QED BY <1>1, Invariance, PTL

\* A flush that answers "true" promises that every write offered before its barrier is
\* stored, save the losses that an earlier flush has reported (flush, _finish_items).
THEOREM FlushesAreHonest == Spec => FlushHonest
<1>1. ASSUME IInv, [Next]_vars, NEW c \in Calls, calls[c].state = "done",
             calls'[c].state = "true", NEW w \in 1..calls[c].mark
      PROVE  w \in Elements(stored) \/ \E i \in 1..flushedDrops : lost[i] = w
  <2>0. calls \in [Calls -> CallRecords] /\ Promise(c) /\ flushedDrops \in Nat
    BY <1>1 DEF IInv, Promises, TypeOK, CallRecords, CallStates
  <2>1. \E d \in Calls : FlushReturns(d)
    <3> SUFFICES ASSUME ~\E d \in Calls : FlushReturns(d) PROVE FALSE
      OBVIOUS
    <3>1. ASSUME NEW d \in Calls, FlushStart(d) \/ FlushAdmit(d) \/ FlushTimesOut(d)
          PROVE  FALSE
      <4>1. CASE c = d
        BY <1>1, <2>0, <3>1, <4>1 DEF FlushStart, FlushAdmit, FlushTimesOut, NoCall, CallRecords
      <4>2. CASE c # d
        BY <1>1, <2>0, <3>1, <4>2 DEF FlushStart, FlushAdmit, FlushTimesOut
      <4> QED BY <4>1, <4>2
    <3>2. ASSUME NEW items, NEW failed, calls' = Released(items, failed) PROVE FALSE
      BY <1>1, <2>0, <3>2 DEF Released, Release
    <3>3. calls' # calls
      BY <1>1
    <3>4. CASE Writer
      BY <3>2, <3>3, <3>4 DEF Writer, Open, Get, Fill, SeeEmpty, Idle, Commit, Retry, Finish,
         Fail, statusVars
    <3>5. ~Close /\ ~Stopped /\ ~UNCHANGED vars /\ \A v \in Offers : ~Offer(v)
      BY <3>3 DEF Close, Stopped, Offer, vars
    <3> QED BY <1>1, <3>1, <3>4, <3>5 DEF Next
  <2>2. PICK d \in Calls : FlushReturns(d)
    BY <2>1
  <2>3. ~calls[c].failed /\ calls[c].dropped = calls[c].base
    <3>1. CASE c = d
      BY <1>1, <2>0, <2>2, <3>1 DEF FlushReturns, NoCall
    <3>2. CASE c # d
      BY <1>1, <2>0, <2>2, <3>2 DEF FlushReturns
    <3> QED BY <3>1, <3>2
  <2>4. /\ w \in Elements(stored) \/ \E i \in 1..calls[c].dropped : lost[i] = w
        /\ calls[c].base <= flushedDrops /\ calls[c].base \in Nat
    BY <1>1, <2>0, <2>3 DEF Promise, CallRecords
  <2> QED BY <2>0, <2>3, <2>4
<1>2. IInv /\ [Next]_vars =>
        [\A c \in Calls :
           calls[c].state = "done" /\ calls'[c].state = "true" =>
             \A w \in 1..calls[c].mark :
               \/ w \in Elements(stored)
               \/ \E i \in 1..flushedDrops : lost[i] = w]_vars
  BY <1>1
<1> QED BY <1>2, Invariance, PTL DEF Spec, FlushHonest

-------------------------------------------------------------------------------
(* The lossy queue *)

Pending == IdsOf(InHand \o queue)

\* What the lossy queue calls a part of a sequence is what the writer calls it.
LEMMA SameParts ==
  ASSUME NEW s, NEW S
  PROVE  /\ Abstract!Elements(s) = Elements(s) /\ Abstract!Picked(s, S) = Picked(s, S)
         /\ Abstract!Cardinality(S) = Cardinality(S)
BY DEF Abstract!Elements, Elements, Abstract!Picked, Picked, Abstract!Place, Place,
       Abstract!Below, Below, Abstract!Cardinality, Cardinality

\* The identities of what is in hand or queued.
LEMMA PendingShape ==
  ASSUME IInv
  PROVE  /\ InHand \in Items /\ queue \in Items /\ InHand \o queue \in Items
         /\ Pending = IdsOf(InHand) \o IdsOf(queue)
         /\ Pending \in Seq(1..MaxWrites)
         /\ Elements(Pending) = IdSet(InHand) \cup IdSet(queue)
         /\ Elements(Pending) \cup Settled \subseteq 1..offered
         /\ Rising(InHand \o queue)
<1>1. TypeOK /\ Fifo
  BY DEF IInv
<1>2. InHand \in Items /\ queue \in Items /\ IdSet(InHand) \subseteq IdSet(batch)
  BY <1>1, Shapes
<1>3. /\ InHand \o queue \in Items /\ Pending = IdsOf(InHand) \o IdsOf(queue)
      /\ IdSet(InHand \o queue) = IdSet(InHand) \cup IdSet(queue)
  BY <1>2, IdsOfConcat DEF Pending
<1>4. /\ Pending \in Seq(1..MaxWrites)
      /\ Elements(Pending) = IdSet(InHand \o queue)
  BY <1>3, IdsOfType DEF Pending
<1>5. IdSet(InHand) \cup IdSet(queue) \cup Settled \subseteq 1..offered
  BY <1>1, <1>2, Shapes DEF Fifo
<1>6. Rising(InHand \o queue)
  <2>1. CASE wpc = "finish"
    <3>1. InHand \o queue = queue
      BY <1>2, <2>1 DEF InHand, Items
    <3>2. batch \in Items /\ Rising(batch \o queue)
      BY <1>1, Shapes DEF Fifo
    <3> QED BY <1>2, <3>1, <3>2, RisingParts
  <2>2. CASE wpc # "finish"
    BY <1>1, <2>2 DEF InHand, Fifo
  <2> QED BY <2>1, <2>2
<1> QED BY <1>2, <1>3, <1>4, <1>5, <1>6

\* An offer is admitted or refused, as the lossy queue may do with a fresh write.
LEMMA OfferImplements ==
  ASSUME IInv, NEW w \in Offers, Offer(w)
  PROVE  Abstract!Next
<1>0. TypeOK /\ dropped \in Nat
  BY Shapes DEF IInv
<1>1. /\ w \in Write /\ IsWrite(w) /\ w.id = offered + 1 /\ w.id \in 1..MaxWrites
  BY <1>0, Offered
<1>2. w.id \in Abstract!Fresh
  <2>1. offered \in Nat /\ offered + 1 \notin 1..offered
    BY <1>0, Shapes
  <2>2. w.id \notin Elements(Pending) \cup Elements(stored) \cup Elements(lost)
    BY <1>1, <2>1, PendingShape DEF Settled
  <2> QED BY <1>1, <2>2, SameParts DEF Abstract!Fresh, Pending
<1>3. UNCHANGED <<batch, wpc, stored>> /\ InHand' = InHand
  BY DEF Offer, writerVars, diskVars, InHand
<1>4. CASE Refused
  <2>1. queue' = queue /\ dropped' = dropped + 1 /\ lost' = lost \o <<w.id>>
    BY <1>0, <1>1, <1>4, Shapes DEF Offer
  <2>2. <<w.id>> \in Seq(1..MaxWrites) /\ Elements(<<w.id>>) = {w.id}
    BY <1>1 DEF Elements
  <2>3. Elements(lost') = Elements(lost) \cup {w.id}
    BY <1>0, <2>1, <2>2, LostGrows
  <2>4. Pending' = Pending
    BY <1>3, <2>1 DEF Pending
  <2>5. Abstract!Refuse(w.id)
    BY <1>2, <1>3, <2>1, <2>3, <2>4 DEF Abstract!Refuse, Pending
  <2> QED BY <1>1, <2>5 DEF Abstract!Next
<1>5. CASE ~Refused
  <2>1. queue' = Append(queue, w) /\ dropped' = dropped /\ lost' = lost
    BY <1>5 DEF Offer
  <2>2. /\ <<w>> \in Items /\ IdsOf(<<w>>) = <<w.id>> /\ queue' = queue \o <<w>>
        /\ InHand \in Items /\ queue \in Items /\ InHand \o queue \in Items
    BY <1>0, <1>1, <2>1, IdsOfOne, PendingShape DEF Items
  <2>3. InHand \o (queue \o <<w>>) = (InHand \o queue) \o <<w>>
    BY <2>2, Regroup
  <2>4. IdsOf((InHand \o queue) \o <<w>>) = Pending \o <<w.id>>
    BY <2>2, IdsOfConcat DEF Pending
  <2>5. Pending' = Pending \o <<w.id>>
    BY <1>3, <2>2, <2>3, <2>4 DEF Pending
  <2>6. Pending \o <<w.id>> = Append(Pending, w.id)
    BY <1>1, PendingShape
  <2>7. Abstract!Admit(w.id)
    BY <1>2, <1>3, <2>1, <2>5, <2>6 DEF Abstract!Admit, Pending
  <2> QED BY <1>1, <2>7 DEF Abstract!Next
<1> QED BY <1>4, <1>5

\* A step that settles the oldest writes and loses those at the places in G is one of
\* the lossy queue: the identities of the writes are distinct, so that as many are lost
\* as were counted.
LEMMA SettleImplements ==
  ASSUME IInv, NEW s \in Seq(1..MaxWrites), NEW t \in Seq(1..MaxWrites),
         Pending = s \o t, Len(s) > 0, NEW G \in SUBSET DOMAIN s,
         Pending' = t, stored' = stored \o Picked(s, DOMAIN s \ G),
         Elements(lost)' = Elements(lost) \cup {s[i] : i \in G},
         dropped' = dropped + Cardinality(G)
  PROVE  Abstract!Next
<1> DEFINE L == {s[i] : i \in G}
           n == Len(s)
<1>1. /\ n \in 1..Len(Pending) /\ SubSeq(Pending, 1, n) = s
      /\ SubSeq(Pending, n + 1, Len(Pending)) = t
      /\ DOMAIN s = 1..n /\ n \in Nat
  <2>1. Len(s \o t) = Len(s) + Len(t) /\ Len(s) \in Nat /\ Len(t) \in Nat
    OBVIOUS
  <2>2. Cut(s, t)
    BY ConcatCut
  <2> QED BY <2>1, <2>2 DEF Cut
<1>2. \A i \in DOMAIN s : i \in DOMAIN Pending /\ Pending[i] = s[i]
  <2>1. /\ DOMAIN (s \o t) = 1..(Len(s) + Len(t)) /\ Len(s) \in Nat /\ Len(t) \in Nat
        /\ DOMAIN s = 1..Len(s) /\ \A i \in 1..Len(s) : (s \o t)[i] = s[i]
    OBVIOUS
  <2> QED BY <2>1
<1>3. \A i, j \in DOMAIN s : i < j => s[i] < s[j]
  <2>1. \A i, j \in DOMAIN Pending : i < j => Pending[i] < Pending[j]
    BY PendingShape, IdsOfRising DEF Pending
  <2> QED BY <1>2, <2>1
<1>4. L \subseteq Elements(s) /\ L \subseteq Elements(Pending)
  BY <1>2 DEF Elements
<1>5. Cardinality(L) = Cardinality(G)
  <2>1. s \in Seq(Nat)
    BY MaxWritesAssumption
  <2> QED BY <1>3, <2>1, PickedDistinct
<1>6. {i \in DOMAIN s : s[i] \notin L} = DOMAIN s \ G
  <2>1. ASSUME NEW i \in DOMAIN s, NEW j \in G, s[i] = s[j] PROVE i = j
    <3>1. j \in DOMAIN s /\ i \in Nat /\ j \in Nat /\ s[i] \in Nat /\ s[j] \in Nat
      BY MaxWritesAssumption
    <3>2. ~(s[i] < s[j]) /\ ~(s[j] < s[i])
      BY <2>1, <3>1
    <3>3. ~(i < j) /\ ~(j < i)
      BY <1>3, <3>1, <3>2
    <3> QED BY <3>1, <3>3
  <2> QED BY <2>1
<1> HIDE DEF L, n
<1>7. Abstract!Settle(n, L)
  <2>1. Elements(lost)' = Elements(lost) \cup L
    BY DEF L
  <2> QED
    BY <1>1, <1>4, <1>5, <1>6, <2>1, SameParts DEF Abstract!Settle, Pending
<1>8. n \in 1..Len(Pending) /\ L \in SUBSET Abstract!Elements(Pending)
  BY <1>1, <1>4, SameParts
<1> QED BY <1>7, <1>8 DEF Abstract!Next, Pending

\* A transaction settles its batch, unless a barrier is all there is in it.
LEMMA CommitImplements ==
  ASSUME IInv, Commit
  PROVE  Abstract!Next \/ UNCHANGED Abstract!vars
<1> DEFINE W == Writes(batch)
           s == IdsOf(batch)
           t == IdsOf(queue)
<1>1. /\ TypeOK /\ wpc = "commit" /\ wpc' = "finish" /\ UNCHANGED <<queue, batch>>
      /\ InHand = batch /\ InHand' = <<>>
  BY DEF IInv, Commit, InHand
<1>2. PICK gone \in SUBSET DOMAIN W :
        /\ stored' = stored \o Picked(s, DOMAIN W \ gone)
        /\ lost' = lost \o Picked(s, gone)
        /\ dropped' = dropped + Cardinality(gone)
  BY DEF Commit
<1>3. /\ batch \in Items /\ queue \in Items
      /\ Pending = s \o t /\ s \in Seq(1..MaxWrites) /\ t \in Seq(1..MaxWrites)
      /\ DOMAIN W = DOMAIN s
  <2>1. /\ DOMAIN W = 1..Len(W) /\ Len(s) = Len(W)
        /\ s \in Seq(1..MaxWrites) /\ t \in Seq(1..MaxWrites)
        /\ Pending = s \o t /\ batch \in Items /\ queue \in Items
    BY <1>1, Shapes, PendingShape, IdsOfType
  <2> HIDE DEF s, t, W
  <2> QED BY <2>1
<1>4. Pending' = t
  <2>1. InHand' \o queue' = queue
    BY <1>1, <1>3 DEF Items
  <2> QED BY <2>1 DEF Pending
<1> HIDE DEF s, t, W
<1>5. gone \in SUBSET DOMAIN s
  BY <1>3
<1>6. /\ Picked(s, gone) \in Seq(1..MaxWrites)
      /\ Elements(Picked(s, gone)) = {s[i] : i \in gone}
  <2>1. s \in Seq(1..MaxWrites)
    BY <1>3
  <2> QED BY <1>5, <2>1, PickedType, Zenon
<1>7. Elements(lost') = Elements(lost) \cup {s[i] : i \in gone}
  BY <1>1, <1>2, <1>6, LostGrows
<1>8. CASE Len(s) > 0
  <2>1. stored' = stored \o Picked(s, DOMAIN s \ gone)
    BY <1>2, <1>3
  <2>2. Elements(lost)' = Elements(lost) \cup {s[i] : i \in gone}
    BY <1>7
  <2> QED BY <1>2, <1>3, <1>4, <1>5, <1>8, <2>1, <2>2, SettleImplements
<1>9. CASE Len(s) = 0
  <2>1. s = <<>> /\ DOMAIN W = {} /\ gone = {} /\ DOMAIN W \ gone = {}
    BY <1>3, <1>9
  <2>2. Cardinality({}) = 0
    BY FS_EmptySet
  <2>3. Picked(s, {}) = <<>>
    BY PickedNone
  <2>4. UNCHANGED <<stored, lost, dropped>>
    <3>1. stored \in Seq(1..MaxWrites) /\ lost \in Seq(1..MaxWrites) /\ dropped \in Nat
      BY <1>1, Shapes
    <3> QED BY <1>2, <2>1, <2>2, <2>3, <3>1
  <2>5. Pending' = Pending
    <3>1. s \o t = t
      BY <1>3, <2>1
    <3> QED BY <1>3, <1>4, <3>1
  <2> QED BY <2>4, <2>5 DEF Abstract!vars, Pending
<1>10. Len(s) > 0 \/ Len(s) = 0
  BY <1>3
<1> QED BY <1>8, <1>9, <1>10

\* A failure loses all that is pending.
LEMMA FailImplements ==
  ASSUME IInv, Fail
  PROVE  Abstract!Next \/ UNCHANGED Abstract!vars
<1> DEFINE s == Pending
           G == DOMAIN Pending
<1>1. /\ TypeOK /\ Fifo /\ wpc' = "dead" /\ batch' = <<>> /\ queue' = <<>>
      /\ wpc \in {"open", "commit", "finish", "empty"} /\ stored' = stored
  BY DEF IInv, Fail, diskVars
<1>2. /\ InHand \in Items /\ queue \in Items /\ InHand \o queue \in Items
      /\ Pending = IdsOf(InHand) \o IdsOf(queue) /\ s \in Seq(1..MaxWrites)
      /\ <<>> \in Items /\ InHand' \o queue' = <<>>
  BY <1>1, PendingShape DEF InHand, Items
<1>3. IdsOf(<<>>) = <<>>
  <2>1. IdSet(<<>>) = {}
    BY DEF IdSet
  <2> QED BY <1>2, <2>1, IdsOfNone
<1>4. Pending' = <<>>
  BY <1>2, <1>3 DEF Pending
<1>5. Uncommitted = InHand
  BY <1>1 DEF Uncommitted, InHand, Fifo
<1>6. lost' = lost \o s /\ dropped' = dropped + Len(s)
  <2>1. /\ Len(IdsOf(InHand)) = Len(Writes(InHand)) /\ Len(IdsOf(queue)) = Len(Writes(queue))
        /\ IdsOf(InHand) \in Seq(1..MaxWrites) /\ IdsOf(queue) \in Seq(1..MaxWrites)
    BY <1>2, IdsOfType
  <2>2. Len(IdsOf(InHand) \o IdsOf(queue)) = Len(IdsOf(InHand)) + Len(IdsOf(queue))
    <3>1. IdsOf(InHand) \in Seq(1..MaxWrites) /\ IdsOf(queue) \in Seq(1..MaxWrites)
      BY <2>1
    <3> QED BY <3>1, ElementsConcat, Zenon
  <2>3. /\ Len(IdsOf(InHand)) \in Nat /\ Len(IdsOf(queue)) \in Nat /\ dropped \in Nat
    BY <1>1, <2>1, Shapes
  <2>4. /\ lost' = lost \o IdsOf(InHand \o queue)
        /\ dropped' = dropped + Len(Writes(InHand)) + Len(Writes(queue))
    BY <1>5 DEF Fail
  <2> QED BY <1>2, <2>1, <2>2, <2>3, <2>4 DEF Pending
<1> HIDE DEF s, G
<1>7. G = DOMAIN s /\ G = 1..Len(s) /\ Len(s) \in Nat /\ Cardinality(G) = Len(s)
  <2>1. G = DOMAIN s /\ G = 1..Len(s) /\ Len(s) \in Nat
    BY <1>2 DEF s, G
  <2>2. Cardinality(1..Len(s)) = Len(s)
    BY <2>1, FS_Interval
  <2> QED BY <2>1, <2>2
<1>8. Elements(lost)' = Elements(lost) \cup {s[i] : i \in G}
  <2>1. s \in Seq(1..MaxWrites) /\ lost' = lost \o s
    BY <1>2, <1>6
  <2>2. Elements(lost') = Elements(lost) \cup Elements(s)
    BY <1>1, <2>1, LostGrows
  <2> QED BY <1>7, <2>2 DEF Elements
<1>9. CASE Len(s) > 0
  <2>1. stored' = stored \o Picked(s, DOMAIN s \ G)
    <3>1. DOMAIN s \ G = {}
      BY <1>7
    <3>2. Picked(s, {}) = <<>> /\ stored \in Seq(1..MaxWrites)
      BY <1>1, PickedNone, Shapes
    <3>3. stored \o <<>> = stored
      BY <3>2
    <3> QED BY <1>1, <3>1, <3>2, <3>3
  <2>2. Pending = s \o <<>> /\ <<>> \in Seq(1..MaxWrites) /\ G \in SUBSET DOMAIN s
    BY <1>2, <1>7 DEF s
  <2> QED BY <1>2, <1>4, <1>6, <1>7, <1>8, <1>9, <2>1, <2>2, SettleImplements
<1>10. CASE Len(s) = 0
  <2>1. s = <<>>
    BY <1>2, <1>10
  <2>2. lost' = lost /\ dropped' = dropped
    BY <1>1, <1>6, <2>1, Shapes
  <2> QED BY <1>1, <1>4, <2>1, <2>2 DEF Abstract!vars, Pending, s
<1> QED BY <1>7, <1>9, <1>10

\* A step that changes neither what is in hand or queued nor what is settled.
LEMMA QuietImplements ==
  ASSUME UNCHANGED <<stored, lost, dropped>>,
         \/ UNCHANGED <<batch, queue>> /\ (wpc' = "finish" <=> wpc = "finish")
         \/ batch' \o queue' = batch \o queue /\ InHand = batch /\ InHand' = batch'
  PROVE  UNCHANGED Abstract!vars
<1>1. Pending' = Pending
  BY DEF Pending, InHand
<1> QED BY <1>1 DEF Abstract!vars, Pending

\* Callers do nothing to the writes: a barrier has no identity.
LEMMA FlushImplements ==
  ASSUME IInv, NEW c \in Calls,
         FlushStart(c) \/ FlushAdmit(c) \/ FlushTimesOut(c) \/ FlushReturns(c)
  PROVE  UNCHANGED Abstract!vars
<1> DEFINE b == [kind |-> "flush", id |-> c, event |-> "none", line |-> 0]
<1>1. UNCHANGED <<stored, lost, dropped, batch, wpc>> /\ InHand' = InHand
  BY DEF FlushStart, FlushAdmit, FlushTimesOut, FlushReturns, statusVars, writerVars,
         diskVars, InHand
<1>2. queue' = queue \/ queue' = Append(queue, b)
  BY DEF FlushStart, FlushAdmit, FlushTimesOut, FlushReturns
<1>3. CASE queue' = queue
  BY <1>1, <1>3, QuietImplements
<1>4. CASE queue' = Append(queue, b)
  <2>1. b \in Write \cup Barrier /\ ~IsWrite(b)
    BY DEF Barrier, IsWrite
  <2> HIDE DEF b
  <2>2. /\ <<b>> \in Items /\ IdsOf(<<b>>) = <<>> /\ queue' = queue \o <<b>>
        /\ InHand \in Items /\ queue \in Items /\ InHand \o queue \in Items
    BY <1>4, <2>1, IdsOfOne, PendingShape DEF Items
  <2>3. InHand \o (queue \o <<b>>) = (InHand \o queue) \o <<b>>
    BY <2>2, Regroup
  <2>4. IdsOf((InHand \o queue) \o <<b>>) = Pending \o <<>>
    BY <2>2, IdsOfConcat DEF Pending
  <2>5. Pending \o <<>> = Pending
    BY PendingShape
  <2>6. Pending' = Pending
    BY <1>1, <2>2, <2>3, <2>4, <2>5 DEF Pending
  <2> QED BY <1>1, <2>6 DEF Abstract!vars, Pending
<1> QED BY <1>2, <1>3, <1>4

\* The writer settles a batch when it commits, and all that is left when it fails.
LEMMA WriterImplements ==
  ASSUME IInv, Writer
  PROVE  Abstract!Next \/ UNCHANGED Abstract!vars
<1>0. TypeOK /\ Fifo /\ batch \in Items /\ queue \in Items
  BY Shapes DEF IInv
<1>1. CASE Open \/ SeeEmpty \/ Idle \/ Retry
  BY <1>1, QuietImplements DEF Open, SeeEmpty, Idle, Retry, statusVars, diskVars
<1>2. CASE Get
  <2>1. batch = <<>> /\ wpc = "get" /\ wpc' \in {"fill", "commit"} /\ queue # <<>>
    BY <1>0, <1>2 DEF Get, Fifo
  <2>2. batch' = Append(batch, Head(queue)) /\ queue' = Tail(queue)
    BY <1>2, <2>1 DEF Get
  <2>3. batch' \o queue' = batch \o queue
    BY <1>0, <2>1, <2>2, Moved
  <2>4. InHand = batch /\ InHand' = batch'
    BY <2>1 DEF InHand
  <2> QED BY <1>2, <2>3, <2>4, QuietImplements DEF Get, statusVars, diskVars
<1>3. CASE Fill
  <2>1. wpc = "fill" /\ wpc' \in {"fill", "commit"} /\ UNCHANGED <<stored, lost, dropped>>
    BY <1>3 DEF Fill, statusVars, diskVars
  <2>2. CASE queue = <<>> \/ Len(batch) = BatchSize
    BY <1>3, <2>1, <2>2, QuietImplements DEF Fill
  <2>3. CASE ~(queue = <<>> \/ Len(batch) = BatchSize)
    <3>1. batch' = Append(batch, Head(queue)) /\ queue' = Tail(queue)
      BY <1>3, <2>3 DEF Fill
    <3>2. batch' \o queue' = batch \o queue
      BY <1>0, <2>3, <3>1, Moved
    <3>3. InHand = batch /\ InHand' = batch'
      BY <2>1 DEF InHand
    <3> QED BY <2>1, <3>2, <3>3, QuietImplements
  <2> QED BY <2>2, <2>3
<1>4. CASE Commit
  BY <1>4, CommitImplements
<1>5. CASE Finish
  <2>1. InHand = <<>> /\ InHand' = <<>> /\ UNCHANGED <<queue, stored, lost, dropped>>
    BY <1>5 DEF Finish, InHand, diskVars
  <2>2. Pending' = Pending
    BY <2>1 DEF Pending
  <2> QED BY <2>1, <2>2 DEF Abstract!vars, Pending
<1>6. CASE Fail
  BY <1>6, FailImplements
<1> QED BY <1>1, <1>2, <1>3, <1>4, <1>5, <1>6 DEF Writer

\* The writer is a lossy queue: each admitted write is stored at most once and in order
\* or lost, and each loss is counted once (_enqueue, _write_loop, commit_batch).
THEOREM WriterIsLossyQueue == Spec => Implements
<1>1. Init => Abstract!Init
  <2> SUFFICES ASSUME Init PROVE Abstract!Init
    OBVIOUS
  <2>1. InHand \o queue = <<>> /\ stored = <<>> /\ lost = <<>> /\ dropped = 0
    BY DEF Init, InHand
  <2>2. <<>> \in Items /\ IdSet(<<>>) = {} /\ Elements(<<>>) = {}
    BY DEF Items, IdSet, Elements
  <2>3. IdsOf(<<>>) = <<>>
    BY <2>2, IdsOfNone
  <2> QED BY <2>1, <2>2, <2>3 DEF Abstract!Init
<1>2. IInv /\ [Next]_vars => [Abstract!Next]_Abstract!vars
  <2> SUFFICES ASSUME IInv, [Next]_vars PROVE Abstract!Next \/ UNCHANGED Abstract!vars
    OBVIOUS
  <2>1. CASE Close
    BY <2>1, QuietImplements DEF Close, writerVars, diskVars
  <2>2. CASE UNCHANGED vars
    BY <2>2, QuietImplements DEF vars, statusVars, writerVars, diskVars
  <2>3. CASE Stopped
    BY <2>2, <2>3 DEF Stopped
  <2> QED
    BY <2>1, <2>2, <2>3, OfferImplements, FlushImplements, WriterImplements DEF Next
<1> QED BY <1>1, <1>2, Invariance, PTL DEF Spec, Implements, Abstract!Spec

===============================================================================
