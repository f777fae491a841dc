------------------------- MODULE MessageQueueProofs -------------------------
(***************************************************************************)
(* The ring of messages is well formed and implements a queue, and its     *)
(* owner does not sleep over a message, for any threads, windows, messages,*)
(* calls and sizes of the ring.                                            *)
(***************************************************************************)
EXTENDS MessageQueue, FiniteSetTheorems, SequenceTheorems, WellFoundedInduction, TLAPS

-----------------------------------------------------------------------------
(* Subsequences *)

\* Positions grow with the elements and leave no gap.
LEMMA Positions ==
  ASSUME NEW S, IsFiniteSet(S), S \subseteq Int
  PROVE  /\ \A i \in S : Position(S, i) \in 1 .. Cardinality(S)
         /\ \A i, j \in S : i < j => Position(S, i) < Position(S, j)
         /\ \A n \in 1 .. Cardinality(S) : \E i \in S : Position(S, i) = n
<1> DEFINE upTo(i) == {j \in S : j <= i}
           pos == [i \in S |-> Position(S, i)]
<1>0. Cardinality(S) \in Nat
  BY FS_CardinalityType
<1>1. ASSUME NEW i \in S
      PROVE  IsFiniteSet(upTo(i)) /\ Position(S, i) \in 1 .. Cardinality(S)
  <2>1. upTo(i) \in SUBSET S /\ i \in upTo(i)
    OBVIOUS
  <2>2. IsFiniteSet(upTo(i)) /\ Cardinality(upTo(i)) <= Cardinality(S)
    BY <2>1, FS_Subset
  <2>3. Cardinality(upTo(i)) \in Nat /\ Cardinality(upTo(i)) # 0
    BY <2>1, <2>2, FS_CardinalityType, FS_EmptySet
  <2> HIDE DEF upTo
  <2>4. Cardinality(upTo(i)) \in 1 .. Cardinality(S)
    BY <2>2, <2>3, <1>0
  <2> QED
    BY <2>2, <2>4 DEF Position, upTo
<1>2. ASSUME NEW i \in S, NEW j \in S, i < j
      PROVE  Position(S, i) < Position(S, j)
  <2>0. i \in Int /\ j \in Int /\ \A k \in S : k \in Int
    OBVIOUS
  <2>a. (\A k \in S : k <= i => k <= j) /\ j <= j /\ ~(j <= i)
    BY <2>0, <1>2
  <2>1. upTo(i) \in SUBSET upTo(j) /\ j \in upTo(j) /\ j \notin upTo(i)
    BY <2>a
  <2>2. Cardinality(upTo(i)) <= Cardinality(upTo(j)) /\ Cardinality(upTo(j)) # Cardinality(upTo(i))
    BY <2>1, <1>1, FS_Subset
  <2>3. Cardinality(upTo(i)) \in Nat /\ Cardinality(upTo(j)) \in Nat
    BY <1>1, FS_CardinalityType
  <2> HIDE DEF upTo
  <2>4. Cardinality(upTo(i)) < Cardinality(upTo(j))
    BY <2>2, <2>3
  <2> QED
    BY <2>4 DEF Position, upTo
<1>3. pos \in Injection(S, 1 .. Cardinality(S))
  <2>1. \A i, j \in S : Position(S, i) = Position(S, j) => i = j
    <3> SUFFICES ASSUME NEW i \in S, NEW j \in S, Position(S, i) = Position(S, j), i # j
                 PROVE  FALSE
      OBVIOUS
    <3>1. i < j \/ j < i
      OBVIOUS
    <3>2. Position(S, i) \in 1 .. Cardinality(S) /\ Position(S, j) \in 1 .. Cardinality(S)
      BY <1>1
    <3> QED
      BY <3>1, <3>2, <1>2
  <2> QED
    BY <2>1, <1>1 DEF Injection, IsInjective
<1>4. IsFiniteSet(1 .. Cardinality(S)) /\ Cardinality(1 .. Cardinality(S)) = Cardinality(S)
  BY <1>0, FS_Interval
<1>5. pos \in Surjection(S, 1 .. Cardinality(S))
  BY <1>3, <1>4, FS_Injection
<1>6. \A n \in 1 .. Cardinality(S) : \E i \in S : Position(S, i) = n
  BY <1>5 DEF Surjection
<1> QED
  BY <1>1, <1>2, <1>6

\* Nth is the inverse of Position, and grows with it.
LEMMA Enumeration ==
  ASSUME NEW S, IsFiniteSet(S), S \subseteq Int
  PROVE  /\ \A n \in 1 .. Cardinality(S) : Nth(S, n) \in S /\ Position(S, Nth(S, n)) = n
         /\ \A i \in S : Nth(S, Position(S, i)) = i
         /\ \A m, n \in 1 .. Cardinality(S) : m < n => Nth(S, m) < Nth(S, n)
<1>1. \A n \in 1 .. Cardinality(S) : Nth(S, n) \in S /\ Position(S, Nth(S, n)) = n
  BY Positions DEF Nth
<1>2. \A i \in S : Position(S, i) \in 1 .. Cardinality(S)
  BY Positions
<1>3. \A i, j \in S : i < j => Position(S, i) < Position(S, j)
  BY Positions
<1>0. Cardinality(S) \in Nat
  BY FS_CardinalityType
<1>4. ASSUME NEW i \in S PROVE Nth(S, Position(S, i)) = i
  <2> DEFINE k == Nth(S, Position(S, i))
  <2>1. k \in S /\ Position(S, k) = Position(S, i)
    BY <1>1, <1>2
  <2> HIDE DEF k
  <2>2. ~(k < i) /\ ~(i < k)
    BY <2>1, <1>2, <1>3, <1>0
  <2>3. k = i
    BY <2>1, <2>2
  <2> QED
    BY <2>3 DEF k
<1>5. ASSUME NEW m \in 1 .. Cardinality(S), NEW n \in 1 .. Cardinality(S), m < n
      PROVE  Nth(S, m) < Nth(S, n)
  <2>1. Nth(S, m) \in S /\ Nth(S, n) \in S /\ Position(S, Nth(S, m)) = m /\ Position(S, Nth(S, n)) = n
    BY <1>1
  <2>2. Nth(S, n) < Nth(S, m) => n < m
    BY <2>1, <1>3
  <2>3. Nth(S, n) # Nth(S, m)
    BY <2>1, <1>5, <1>0
  <2>4. Nth(S, m) \in Int /\ Nth(S, n) \in Int
    BY <2>1
  <2> QED
    BY <2>2, <2>3, <2>4, <1>5
<1> QED
  BY <1>1, <1>4, <1>5

\* f lists the elements of S in their order.
Enumerates(f, n, S) ==
  /\ f \in [1 .. n -> S]
  /\ \A l, m \in 1 .. n : l < m => f[l] < f[m]
  /\ \A i \in S : \E m \in 1 .. n : f[m] = i

\* No other function enumerates a set in its order.
LEMMA OneEnumeration ==
  ASSUME NEW n \in Nat, NEW S \in SUBSET Int, NEW f, Enumerates(f, n, S)
  PROVE  /\ IsFiniteSet(S)
         /\ Cardinality(S) = n
         /\ \A m \in 1 .. n : Nth(S, m) = f[m] /\ Position(S, f[m]) = m
<1> USE DEF Enumerates
<1>1. ASSUME NEW m \in 0 .. n, NEW T, T = {f[l] : l \in 1 .. m}
      PROVE  IsFiniteSet(T) /\ Cardinality(T) = m
  <2> DEFINE g == [l \in 1 .. m |-> f[l]]
  <2>1. \A k, l \in 1 .. m : f[k] = f[l] => k = l
    <3> SUFFICES ASSUME NEW k \in 1 .. m, NEW l \in 1 .. m, f[k] = f[l], k < l \/ l < k
                 PROVE  FALSE
      OBVIOUS
    <3>1. k \in 1 .. n /\ l \in 1 .. n
      OBVIOUS
    <3>2. f[k] < f[l] \/ f[l] < f[k]
      BY <3>1
    <3>3. f[k] \in Int
      BY <3>1
    <3> QED
      BY <3>2, <3>3
  <2>2. g \in Bijection(1 .. m, T)
    BY <2>1, <1>1 DEF Bijection, Injection, Surjection, IsInjective
  <2>3. IsFiniteSet(1 .. m) /\ Cardinality(1 .. m) = m
    BY FS_Interval
  <2> QED
    BY <2>2, <2>3, FS_Bijection DEF ExistsBijection
<1>2. IsFiniteSet(S) /\ Cardinality(S) = n
  <2>1. S = {f[l] : l \in 1 .. n}
    OBVIOUS
  <2>2. n \in 0 .. n
    OBVIOUS
  <2> QED
    BY <2>1, <2>2, <1>1
<1>3. ASSUME NEW m \in 1 .. n PROVE Position(S, f[m]) = m
  <2>1. {j \in S : j <= f[m]} = {f[l] : l \in 1 .. m}
    <3>1. ASSUME NEW j \in S, j <= f[m] PROVE j \in {f[l] : l \in 1 .. m}
      <4>1. PICK l \in 1 .. n : f[l] = j
        OBVIOUS
      <4>2. f[l] \in Int /\ f[m] \in Int
        OBVIOUS
      <4>3. ~(m < l)
        BY <4>1, <4>2, <3>1
      <4> QED
        BY <4>1, <4>3
    <3>2. ASSUME NEW l \in 1 .. m PROVE f[l] \in S /\ f[l] <= f[m]
      <4>1. l \in 1 .. n /\ (l = m \/ l < m)
        OBVIOUS
      <4>2. f[l] \in S /\ f[l] \in Int /\ f[m] \in Int
        BY <4>1
      <4>3. f[l] <= f[m]
        BY <4>1, <4>2
      <4> QED
        BY <4>2, <4>3
    <3> QED
      BY <3>1, <3>2
  <2>2. Cardinality({j \in S : j <= f[m]}) = m
    BY <2>1, <1>1
  <2> QED
    BY <2>2 DEF Position
<1>4. \A m \in 1 .. n : Nth(S, m) = f[m]
  BY <1>2, <1>3, Enumeration
<1> QED
  BY <1>2, <1>3, <1>4

\* What a subsequence is, and that the elements it has are those at S.
LEMMA SubsequenceIs ==
  ASSUME NEW n \in Nat, NEW s, DOMAIN s = 1 .. n, NEW S \in SUBSET (1 .. n)
  PROVE  /\ IsFiniteSet(S) /\ S \subseteq Int
         /\ Cardinality(S) \in 0 .. n
         /\ Subsequence(s, S) = [m \in 1 .. Cardinality(S) |-> s[Nth(S, m)]]
         /\ \A m \in 1 .. Cardinality(S) : Nth(S, m) \in S
<1>1. IsFiniteSet(1 .. n) /\ Cardinality(1 .. n) = n
  BY FS_Interval
<1>2. IsFiniteSet(S) /\ Cardinality(S) <= n
  <2>1. IsFiniteSet(S) /\ Cardinality(S) <= Cardinality(1 .. n)
    BY <1>1, FS_Subset, Zenon
  <2> QED
    BY <2>1, <1>1
<1>3. Cardinality(S) \in Nat
  BY <1>2, FS_CardinalityType
<1>4. S \subseteq Int
  OBVIOUS
<1>5. \A m \in 1 .. Cardinality(S) : Nth(S, m) \in S
  BY <1>2, <1>4, Enumeration
<1>6. Subsequence(s, S) = [m \in 1 .. Cardinality(S) |-> s[Nth(S, m)]]
  BY DEF Subsequence
<1> QED
  BY <1>2, <1>3, <1>4, <1>5, <1>6

LEMMA SubsequenceBy ==
  ASSUME NEW n \in Nat, NEW s, DOMAIN s = 1 .. n, NEW S \in SUBSET (1 .. n),
         NEW k \in Nat, NEW f, Enumerates(f, k, S)
  PROVE  Subsequence(s, S) = [m \in 1 .. k |-> s[f[m]]]
<1>1. S \in SUBSET Int
  OBVIOUS
<1>2. Cardinality(S) = k /\ \A m \in 1 .. k : Nth(S, m) = f[m]
  BY <1>1, OneEnumeration
<1>3. Subsequence(s, S) = [m \in 1 .. Cardinality(S) |-> s[Nth(S, m)]]
  BY SubsequenceIs
<1> QED
  BY <1>2, <1>3

\* Sequences that agree on S have the same subsequence there.
LEMMA SameSubsequence ==
  ASSUME NEW n \in Nat, NEW s, DOMAIN s = 1 .. n,
         NEW k \in Nat, NEW r, DOMAIN r = 1 .. k,
         NEW S \in SUBSET (1 .. n), S \subseteq 1 .. k, \A i \in S : r[i] = s[i]
  PROVE  Subsequence(r, S) = Subsequence(s, S)
<1>1. Subsequence(s, S) = [m \in 1 .. Cardinality(S) |-> s[Nth(S, m)]]
  BY SubsequenceIs
<1>2. Subsequence(r, S) = [m \in 1 .. Cardinality(S) |-> r[Nth(S, m)]]
  BY SubsequenceIs
<1>3. \A m \in 1 .. Cardinality(S) : r[Nth(S, m)] = s[Nth(S, m)]
  BY SubsequenceIs
<1> QED
  BY <1>1, <1>2, <1>3

LEMMA SubsequenceOfSubsequence ==
  ASSUME NEW n \in Nat, NEW s, DOMAIN s = 1 .. n, NEW K \in SUBSET (1 .. n),
         NEW M \in SUBSET (1 .. Cardinality(K))
  PROVE  Subsequence(Subsequence(s, K), M) = Subsequence(s, {Nth(K, m) : m \in M})
<1> DEFINE r == Subsequence(s, K)
           k == Cardinality(K)
           T == {Nth(K, m) : m \in M}
           f == [l \in 1 .. Cardinality(M) |-> Nth(K, Nth(M, l))]
<1>1. /\ k \in Nat /\ DOMAIN r = 1 .. k
      /\ \A m \in 1 .. k : r[m] = s[Nth(K, m)] /\ Nth(K, m) \in K
      /\ IsFiniteSet(K) /\ K \subseteq Int
  BY SubsequenceIs
<1>2. \A l, m \in 1 .. k : l < m => Nth(K, l) < Nth(K, m)
  BY <1>1, Enumeration
<1> HIDE DEF r
<1>3. /\ Cardinality(M) \in Nat
      /\ Subsequence(r, M) = [l \in 1 .. Cardinality(M) |-> r[Nth(M, l)]]
      /\ \A l \in 1 .. Cardinality(M) : Nth(M, l) \in M
      /\ IsFiniteSet(M) /\ M \subseteq Int
  BY <1>1, SubsequenceIs
<1>4. /\ \A l, m \in 1 .. Cardinality(M) : l < m => Nth(M, l) < Nth(M, m)
      /\ \A m \in M : m = Nth(M, Position(M, m)) /\ Position(M, m) \in 1 .. Cardinality(M)
  BY <1>3, Enumeration, Positions
<1>5. T \in SUBSET (1 .. n)
  BY <1>1
<1>6. f \in [1 .. Cardinality(M) -> T]
  BY <1>3
<1>7. \A l, m \in 1 .. Cardinality(M) : l < m => f[l] < f[m]
  BY <1>2, <1>3, <1>4
<1>8. \A i \in T : \E l \in 1 .. Cardinality(M) : f[l] = i
  BY <1>4
<1>9. Subsequence(s, T) = [l \in 1 .. Cardinality(M) |-> s[f[l]]]
  <2> HIDE DEF f, T
  <2>1. Enumerates(f, Cardinality(M), T)
    BY <1>6, <1>7, <1>8 DEF Enumerates
  <2> QED
    BY <1>3, <1>5, <2>1, SubsequenceBy
<1>10. \A l \in 1 .. Cardinality(M) : r[Nth(M, l)] = s[f[l]]
  BY <1>1, <1>3
<1> QED
  BY <1>3, <1>9, <1>10 DEF r

\* Where elements of A are.
Among(s, A) == {i \in DOMAIN s : s[i] \in A}

\* Choosing by value among the elements chosen by index.
LEMMA SelectFromSubsequence ==
  ASSUME NEW n \in Nat, NEW s, DOMAIN s = 1 .. n, NEW K \in SUBSET (1 .. n), NEW A,
         NEW r, r = Subsequence(s, K)
  PROVE  Subsequence(r, Among(r, A)) = Subsequence(s, K \cap Among(s, A))
<1> DEFINE M == Among(r, A)
<1>1. /\ DOMAIN r = 1 .. Cardinality(K)
      /\ \A m \in 1 .. Cardinality(K) : r[m] = s[Nth(K, m)] /\ Nth(K, m) \in K
      /\ IsFiniteSet(K) /\ K \subseteq Int
  BY SubsequenceIs
<1>2. \A i \in K : i = Nth(K, Position(K, i)) /\ Position(K, i) \in 1 .. Cardinality(K)
  BY <1>1, Enumeration, Positions
<1>3. M \in SUBSET (1 .. Cardinality(K))
  BY <1>1 DEF Among
<1>4. {Nth(K, m) : m \in M} = K \cap Among(s, A)
  <2>1. ASSUME NEW m \in M PROVE Nth(K, m) \in K \cap Among(s, A)
    BY <1>1 DEF Among
  <2>2. ASSUME NEW i \in K \cap Among(s, A) PROVE \E m \in M : i = Nth(K, m)
    BY <1>1, <1>2, <2>2 DEF Among
  <2> HIDE DEF M
  <2> QED
    BY <2>1, <2>2
<1>5. Subsequence(r, M) = Subsequence(s, {Nth(K, m) : m \in M})
  <2> HIDE DEF M
  <2> QED
    BY <1>3, SubsequenceOfSubsequence
<1> QED
  BY <1>4, <1>5

\* Leaving out one of the elements chosen.
LEMMA DropFromSubsequence ==
  ASSUME NEW n \in Nat, NEW s, DOMAIN s = 1 .. n, NEW K \in SUBSET (1 .. n), NEW k \in K,
         NEW r, r = Subsequence(s, K)
  PROVE  Subsequence(r, DOMAIN r \ {Position(K, k)}) = Subsequence(s, K \ {k})
<1> DEFINE M == DOMAIN r \ {Position(K, k)}
<1>1. /\ DOMAIN r = 1 .. Cardinality(K)
      /\ \A m \in 1 .. Cardinality(K) : Nth(K, m) \in K
      /\ IsFiniteSet(K) /\ K \subseteq Int
  BY SubsequenceIs
<1>2. /\ \A i \in K : i = Nth(K, Position(K, i)) /\ Position(K, i) \in 1 .. Cardinality(K)
      /\ \A m \in 1 .. Cardinality(K) : Position(K, Nth(K, m)) = m
  BY <1>1, Enumeration, Positions
<1>3. M \in SUBSET (1 .. Cardinality(K))
  BY <1>1
<1>4. {Nth(K, m) : m \in M} = K \ {k}
  <2> QED
    BY <1>1, <1>2
<1>5. Subsequence(r, M) = Subsequence(s, {Nth(K, m) : m \in M})
  <2> HIDE DEF M
  <2> QED
    BY <1>3, SubsequenceOfSubsequence
<1> QED
  BY <1>4, <1>5

\* A subsequence of a sequence is one, of the same elements.
LEMMA SubsequenceType ==
  ASSUME NEW V, NEW s \in Seq(V), NEW S \in SUBSET DOMAIN s
  PROVE  /\ DOMAIN s = 1 .. Len(s) /\ Len(s) \in Nat
         /\ Subsequence(s, S) \in Seq(V)
         /\ Len(Subsequence(s, S)) = Cardinality(S)
         /\ \A i \in S : Position(S, i) \in DOMAIN Subsequence(s, S)
                         /\ Subsequence(s, S)[Position(S, i)] = s[i]
<1>1. DOMAIN s = 1 .. Len(s) /\ Len(s) \in Nat /\ \A i \in DOMAIN s : s[i] \in V
  OBVIOUS
<1>2. /\ IsFiniteSet(S) /\ S \subseteq Int
      /\ Cardinality(S) \in Nat
      /\ Subsequence(s, S) = [m \in 1 .. Cardinality(S) |-> s[Nth(S, m)]]
      /\ \A m \in 1 .. Cardinality(S) : Nth(S, m) \in S
  BY <1>1, SubsequenceIs
<1>3. \A m \in 1 .. Cardinality(S) : s[Nth(S, m)] \in V
  BY <1>1, <1>2
<1>4. Subsequence(s, S) \in Seq(V) /\ Len(Subsequence(s, S)) = Cardinality(S)
  BY <1>2, <1>3
<1>5. \A i \in S : Position(S, i) \in 1 .. Cardinality(S) /\ Nth(S, Position(S, i)) = i
  BY <1>2, Positions, Enumeration
<1> QED
  BY <1>1, <1>2, <1>4, <1>5

\* Removing an element, and putting one behind.
LEMMA RemoveIsSubsequence ==
  ASSUME NEW V, NEW s \in Seq(V), NEW k \in DOMAIN s
  PROVE  RemoveAt(s, k) = Subsequence(s, DOMAIN s \ {k})
<1> DEFINE n == Len(s)
           S == 1 .. n \ {k}
           f == [m \in 1 .. n - 1 |-> IF m < k THEN m ELSE m + 1]
<1>1. n \in Nat /\ DOMAIN s = 1 .. n /\ k \in 1 .. n /\ n - 1 \in Nat
  OBVIOUS
<1>2. f \in [1 .. n - 1 -> S]
  BY <1>1
<1>3. \A l, m \in 1 .. n - 1 : l < m => f[l] < f[m]
  BY <1>1
<1>4. \A i \in S : \E m \in 1 .. n - 1 : f[m] = i
  <2> SUFFICES ASSUME NEW i \in S PROVE \E m \in 1 .. n - 1 : f[m] = i
    OBVIOUS
  <2> DEFINE m == IF i < k THEN i ELSE i - 1
  <2>1. m \in 1 .. n - 1 /\ f[m] = i
    BY <1>1
  <2> QED
    BY <2>1
<1>5. Subsequence(s, S) = [m \in 1 .. n - 1 |-> s[f[m]]]
  <2>1. S \in SUBSET (1 .. n)
    OBVIOUS
  <2> HIDE DEF f, n, S
  <2>2. Enumerates(f, n - 1, S)
    BY <1>2, <1>3, <1>4 DEF Enumerates
  <2> QED
    BY <1>1, <2>1, <2>2, SubsequenceBy
<1>6. RemoveAt(s, k) = [m \in 1 .. n - 1 |-> s[f[m]]]
  <2> DEFINE a == SubSeq(s, 1, k - 1)
             b == SubSeq(s, k + 1, n)
  <2>1. a \in Seq(V) /\ Len(a) = k - 1 /\ \A i \in 1 .. k - 1 : a[i] = s[i]
    BY <1>1, SubSeqProperties
  <2>2. b \in Seq(V) /\ Len(b) = n - k /\ \A i \in 1 .. n - k : b[i] = s[i + k]
    BY <1>1, SubSeqProperties
  <2> HIDE DEF a, b
  <2>a. /\ a \o b \in Seq(V) /\ Len(a \o b) = Len(a) + Len(b)
        /\ \A i \in 1 .. Len(a) + Len(b) : (a \o b)[i] = IF i <= Len(a) THEN a[i] ELSE b[i - Len(a)]
    BY <2>1, <2>2, ConcatProperties
  <2>3. /\ a \o b \in Seq(V) /\ Len(a \o b) = n - 1
        /\ \A i \in 1 .. n - 1 : (a \o b)[i] = IF i < k THEN s[i] ELSE s[i + 1]
    <3>1. Len(a) + Len(b) = n - 1
      BY <1>1, <2>1, <2>2
    <3>2. ASSUME NEW i \in 1 .. n - 1, i < k PROVE (a \o b)[i] = s[i]
      BY <1>1, <2>1, <2>a, <3>1, <3>2
    <3>3. ASSUME NEW i \in 1 .. n - 1, ~(i < k) PROVE (a \o b)[i] = s[i + 1]
      <4>1. (a \o b)[i] = b[i - (k - 1)] /\ i - (k - 1) \in 1 .. n - k
        BY <1>1, <2>1, <2>a, <3>1, <3>3
      <4> QED
        BY <1>1, <2>2, <4>1
    <3> QED
      BY <2>a, <3>1, <3>2, <3>3
  <2>4. a \o b = [m \in 1 .. n - 1 |-> s[f[m]]]
    <3>1. a \o b = [m \in 1 .. n - 1 |-> (a \o b)[m]]
      BY <2>3, LenProperties
    <3>2. \A m \in 1 .. n - 1 : (a \o b)[m] = s[f[m]]
      BY <1>1, <2>3
    <3> QED
      BY <3>1, <3>2
  <2> QED
    BY <2>4 DEF RemoveAt, a, b
<1> QED
  BY <1>1, <1>5, <1>6

LEMMA SubsequenceOfAppend ==
  ASSUME NEW V, NEW s \in Seq(V), NEW e \in V, NEW S \in SUBSET DOMAIN s
  PROVE  /\ Subsequence(Append(s, e), S) = Subsequence(s, S)
         /\ Subsequence(Append(s, e), S \cup {Len(s) + 1}) = Append(Subsequence(s, S), e)
<1> DEFINE n == Len(s)
           r == Append(s, e)
           k == Cardinality(S)
           f == [m \in 1 .. k + 1 |-> IF m = k + 1 THEN n + 1 ELSE Nth(S, m)]
           T == S \cup {n + 1}
<1>1. /\ n \in Nat /\ DOMAIN s = 1 .. n
      /\ DOMAIN r = 1 .. n + 1 /\ \A i \in 1 .. n : r[i] = s[i]
      /\ r[n + 1] = e
  OBVIOUS
<1>2. /\ k \in 0 .. n /\ IsFiniteSet(S) /\ S \subseteq Int
      /\ Subsequence(s, S) = [m \in 1 .. k |-> s[Nth(S, m)]]
      /\ \A m \in 1 .. k : Nth(S, m) \in S
  BY <1>1, SubsequenceIs
<1>3. /\ \A l, m \in 1 .. k : l < m => Nth(S, l) < Nth(S, m)
      /\ \A i \in S : Position(S, i) \in 1 .. k /\ Nth(S, Position(S, i)) = i
  BY <1>2, Enumeration, Positions
<1> HIDE DEF r, k, n
<1>4. Subsequence(r, S) = Subsequence(s, S)
  BY <1>1, SameSubsequence
<1>5. f \in [1 .. k + 1 -> T] /\ T \in SUBSET (1 .. n + 1)
  BY <1>1, <1>2
<1>6. \A l, m \in 1 .. k + 1 : l < m => f[l] < f[m]
  BY <1>1, <1>2, <1>3
<1>7. \A i \in T : \E m \in 1 .. k + 1 : f[m] = i
  <2>1. ASSUME NEW i \in S PROVE \E m \in 1 .. k + 1 : f[m] = i
    <3> DEFINE m == Position(S, i)
    <3>1. m \in 1 .. k /\ Nth(S, m) = i
      BY <1>3
    <3> HIDE DEF m
    <3>2. m \in 1 .. k + 1 /\ m # k + 1
      BY <1>2, <3>1
    <3> QED
      BY <3>1, <3>2
  <2>2. k + 1 \in 1 .. k + 1
    BY <1>2
  <2>3. f[k + 1] = n + 1
    BY <2>2
  <2> HIDE DEF f
  <2> QED
    BY <2>1, <2>2, <2>3
<1>8. Subsequence(r, T) = [m \in 1 .. k + 1 |-> r[f[m]]]
  <2>1. n + 1 \in Nat /\ k + 1 \in Nat
    BY <1>1, <1>2
  <2> HIDE DEF f, T
  <2>2. Enumerates(f, k + 1, T)
    BY <1>5, <1>6, <1>7 DEF Enumerates
  <2> QED
    BY <1>1, <1>5, <2>1, <2>2, SubsequenceBy
<1>9. Subsequence(s, S) \in Seq(V) /\ Len(Subsequence(s, S)) = k
  BY SubsequenceType DEF k
<1>10. Append(Subsequence(s, S), e) = [m \in 1 .. k + 1 |-> IF m = k + 1 THEN e ELSE Subsequence(s, S)[m]]
  <2> HIDE DEF k
  <2> DEFINE u == Subsequence(s, S)
  <2>1. u \in Seq(V) /\ Len(u) = k
    BY <1>9
  <2> HIDE DEF u
  <2>2. Append(u, e) = [m \in 1 .. k + 1 |-> IF m = k + 1 THEN e ELSE u[m]]
    <3>1. /\ Append(u, e) \in Seq(V) /\ Len(Append(u, e)) = k + 1
          /\ \A m \in 1 .. k : Append(u, e)[m] = u[m]
          /\ Append(u, e)[k + 1] = e
      BY <2>1, AppendProperties
    <3>2. Append(u, e) = [m \in 1 .. k + 1 |-> Append(u, e)[m]]
      BY <3>1, LenProperties
    <3> QED
      BY <1>2, <3>1, <3>2
  <2> QED
    BY <2>2 DEF u
<1>11. \A m \in 1 .. k + 1 : r[f[m]] = IF m = k + 1 THEN e ELSE Subsequence(s, S)[m]
  BY <1>1, <1>2
<1> QED
  BY <1>4, <1>8, <1>10, <1>11 DEF r, n

-----------------------------------------------------------------------------
(* The ring *)

Slot == [hwnd : Windows \cup {NULL, INVALID_HANDLE_VALUE}, message : Codes \cup {0}]

\* What the messages in the ring are; the hwnd of a marked one is INVALID_HANDLE_VALUE.
Stored == [hwnd : Windows \cup {NULL, INVALID_HANDLE_VALUE}, message : Codes]

WellFormed(q) ==
  /\ q \in [lpMsgData : [0 .. q.size - 1 -> Slot], size : 1 .. MaxSize, count : 0 .. q.size,
            nQueueHead : 0 .. q.size - 1, nQueueTail : 0 .. q.size - 1]
  /\ q.nQueueTail = Wrap(q, q.nQueueHead + q.count)
  /\ \A i \in 1 .. q.count : Contents(q)[i] \in Stored

\* The numbers of a ring.
LEMMA RingNumbers ==
  ASSUME NEW q, WellFormed(q)
  PROVE  /\ MaxSize \in Nat /\ Grow \in Nat \ {0}
         /\ q.size \in Nat \ {0} /\ q.size <= MaxSize
         /\ q.count \in Nat /\ q.count <= q.size
         /\ q.nQueueHead \in Nat /\ q.nQueueHead < q.size
         /\ q.nQueueTail \in Nat /\ q.nQueueTail < q.size
<1>1. MaxSize \in Nat /\ Grow \in Nat \ {0}
  BY MessageQueueAssumption
<1> QED
  BY <1>1 DEF WellFormed

LEMMA ContentsIs ==
  ASSUME NEW q, WellFormed(q)
  PROVE  /\ Contents(q) \in Seq(Stored)
         /\ DOMAIN Contents(q) = 1 .. q.count
         /\ Len(Contents(q)) = q.count
         /\ \A i \in 1 .. q.count :
              /\ Wrap(q, q.nQueueHead + i - 1) \in 0 .. q.size - 1
              /\ Contents(q)[i] = q.lpMsgData[Wrap(q, q.nQueueHead + i - 1)]
<1>1. \A i \in 1 .. q.count : Wrap(q, q.nQueueHead + i - 1) \in 0 .. q.size - 1
  BY RingNumbers DEF Wrap
<1>2. Contents(q) \in [1 .. q.count -> Stored]
  BY DEF Contents, WellFormed
<1>3. Contents(q) \in Seq(Stored) /\ Len(Contents(q)) = q.count
  BY <1>2, RingNumbers
<1> QED
  BY <1>1, <1>3 DEF Contents

LEMMA InsertAtTailAppends ==
  ASSUME NEW q, WellFormed(q), q.count < q.size, NEW m \in Stored
  PROVE  /\ WellFormed(InsertAtTail(q, m))
         /\ Contents(InsertAtTail(q, m)) = Append(Contents(q), m)
<1> DEFINE r == InsertAtTail(q, m)
<1>1. /\ r.size = q.size /\ r.count = q.count + 1 /\ r.nQueueHead = q.nQueueHead
      /\ r.nQueueTail = Wrap(q, q.nQueueTail + 1)
      /\ r.lpMsgData = [q.lpMsgData EXCEPT ![q.nQueueTail] = m]
  BY DEF WellFormed, InsertAtTail
<1>2. m \in Slot
  BY DEF Stored, Slot
<1>3. r \in [lpMsgData : [0 .. r.size - 1 -> Slot], size : 1 .. MaxSize, count : 0 .. r.size,
             nQueueHead : 0 .. r.size - 1, nQueueTail : 0 .. r.size - 1]
  <2>1. r.lpMsgData \in [0 .. q.size - 1 -> Slot]
    BY <1>1, <1>2 DEF WellFormed
  <2>2. Wrap(q, q.nQueueTail + 1) \in 0 .. q.size - 1 /\ q.count + 1 \in 0 .. q.size
    BY RingNumbers DEF Wrap
  <2>3. q.size \in 1 .. MaxSize /\ q.nQueueHead \in 0 .. q.size - 1
    BY DEF WellFormed
  <2>4. /\ r.lpMsgData \in [0 .. r.size - 1 -> Slot] /\ r.size \in 1 .. MaxSize
        /\ r.count \in 0 .. r.size /\ r.nQueueHead \in 0 .. r.size - 1
        /\ r.nQueueTail \in 0 .. r.size - 1
    BY <1>1, <2>1, <2>2, <2>3
  <2> QED
    BY <2>4, Zenon DEF r, WellFormed, InsertAtTail
<1>4. r.nQueueTail = Wrap(r, r.nQueueHead + r.count)
  BY <1>1, RingNumbers DEF WellFormed, Wrap
<1>5. Wrap(r, r.nQueueHead + r.count - 1) = q.nQueueTail
  BY <1>1, RingNumbers DEF WellFormed, Wrap
<1>6. \A i \in 1 .. q.count : Wrap(r, r.nQueueHead + i - 1) = Wrap(q, q.nQueueHead + i - 1)
                              /\ Wrap(q, q.nQueueHead + i - 1) # q.nQueueTail
  BY <1>1, RingNumbers DEF WellFormed, Wrap
<1> HIDE DEF r
<1>7. \A i \in 1 .. q.count : Contents(r)[i] = Contents(q)[i]
  BY <1>1, <1>6, RingNumbers, ContentsIs DEF Contents
<1>8. Contents(r)[q.count + 1] = m
  BY <1>1, <1>5, RingNumbers DEF Contents, WellFormed
<1>9. WellFormed(r)
  <2>1. ASSUME NEW i \in 1 .. r.count PROVE Contents(r)[i] \in Stored
    <3>1. i \in 1 .. q.count \/ i = q.count + 1
      BY <1>1, RingNumbers
    <3> QED
      BY <3>1, <1>7, <1>8 DEF WellFormed
  <2> QED
    BY <1>3, <1>4, <2>1 DEF WellFormed
<1>10. Contents(r) = Append(Contents(q), m)
  BY <1>1, <1>7, <1>8, <1>9, ContentsIs, AppendProperties, SeqEqual
<1> QED
  BY <1>9, <1>10 DEF r

LEMMA ModIsWrap ==
  \A a \in Nat, b \in Nat \ {0} : a < 2 * b => a % b = IF a < b THEN a ELSE a - b
  OBVIOUS

LEMMA EnlargeKeepsContents ==
  ASSUME NEW q, WellFormed(q), q.count = q.size, q.size + Grow <= MaxSize
  PROVE  /\ WellFormed(Enlarge(q))
         /\ Contents(Enlarge(q)) = Contents(q)
         /\ Enlarge(q).count < Enlarge(q).size
<1> DEFINE r == Enlarge(q)
           s == q.size
           h == q.nQueueHead
           d == q.lpMsgData
<1>0. /\ s \in Nat \ {0} /\ h \in Nat /\ h < s /\ Grow \in Nat \ {0} /\ q.count = s
      /\ d \in [0 .. s - 1 -> Slot] /\ MaxSize \in Nat
  BY RingNumbers DEF WellFormed
<1>a. Empty \in Slot
  BY DEF Empty, Slot
<1>1. /\ r.size = s + Grow /\ r.count = s /\ r.nQueueHead = h
      /\ r.nQueueTail = (s + h) % (s + Grow)
  BY <1>0 DEF WellFormed, Enlarge
<1> DEFINE data == [j \in 0 .. (s + Grow) - 1 |->
                      CASE j >= s /\ j - s < h -> d[j - s]
                        [] j >= s /\ j - s >= h -> Empty
                        [] j < h -> IF j + Grow < h THEN d[j + Grow] ELSE Empty
                        [] j >= h /\ j < s -> d[j]]
<1>b. r.lpMsgData = data
  <2>1. r = [q EXCEPT !.size = s + Grow, !.lpMsgData = data, !.nQueueTail = (s + h) % (s + Grow)]
    BY DEF Enlarge
  <2> HIDE DEF data, r
  <2> QED
    BY <2>1 DEF WellFormed
<1>2. r.nQueueTail = IF s + h < s + Grow THEN s + h ELSE h - Grow
  <2> HIDE DEF r, s, h
  <2>1. s + h \in Nat /\ s + Grow \in Nat \ {0} /\ s + h < 2 * (s + Grow)
    BY <1>0
  <2>2. (s + h) % (s + Grow) = IF s + h < s + Grow THEN s + h ELSE s + h - (s + Grow)
    <3> DEFINE a == s + h
               b == s + Grow
    <3> HIDE DEF a, b
    <3>1. a \in Nat /\ b \in Nat \ {0} /\ a < 2 * b
      BY <2>1 DEF a, b
    <3>2. a % b = IF a < b THEN a ELSE a - b
      BY <3>1, ModIsWrap, Zenon
    <3> QED
      BY <3>2, <1>0 DEF a, b
  <2> QED
    BY <1>0, <1>1, <2>2
<1> HIDE DEF d
<1>3. \A j \in 0 .. s + Grow - 1 :
        /\ j >= s /\ j - s < h => r.lpMsgData[j] = d[j - s]
        /\ j >= s /\ ~(j - s < h) => r.lpMsgData[j] = Empty
        /\ j < h /\ j + Grow < h => r.lpMsgData[j] = d[j + Grow]
        /\ j < h /\ ~(j + Grow < h) => r.lpMsgData[j] = Empty
        /\ j >= h /\ j < s => r.lpMsgData[j] = d[j]
  BY <1>0, <1>b
<1>4. r.lpMsgData \in [0 .. r.size - 1 -> Slot]
  <2>1. r.lpMsgData = [j \in 0 .. (s + Grow) - 1 |-> r.lpMsgData[j]]
    BY <1>b
  <2> HIDE DEF r, s, h, data
  <2>2. ASSUME NEW j \in 0 .. (s + Grow) - 1 PROVE r.lpMsgData[j] \in Slot
    <3>1. CASE j >= s /\ j - s < h
      BY <3>1, <1>0, <1>3
    <3>2. CASE j < h /\ j + Grow < h
      BY <3>2, <1>0, <1>3
    <3>3. CASE j >= h /\ j < s
      BY <3>3, <1>0, <1>3
    <3> QED
      BY <3>1, <3>2, <3>3, <1>0, <1>a, <1>3
  <2>3. r.lpMsgData \in [0 .. (s + Grow) - 1 -> Slot]
    BY <2>1, <2>2, Zenon
  <2> QED
    BY <1>1, <2>3
<1>5. r \in [lpMsgData : [0 .. r.size - 1 -> Slot], size : 1 .. MaxSize, count : 0 .. r.size,
             nQueueHead : 0 .. r.size - 1, nQueueTail : 0 .. r.size - 1]
  <2>1. /\ r.size \in 1 .. MaxSize /\ r.count \in 0 .. r.size
        /\ r.nQueueHead \in 0 .. r.size - 1 /\ r.nQueueTail \in 0 .. r.size - 1
    <3> HIDE DEF r, s, h
    <3> QED
      BY <1>0, <1>1, <1>2
  <2> QED
    BY <1>4, <2>1 DEF WellFormed, Enlarge
<1> HIDE DEF r, s, h, data
<1>6. r.nQueueTail = Wrap(r, r.nQueueHead + r.count)
  BY <1>0, <1>1, <1>2 DEF Wrap
<1>7. ASSUME NEW i \in 1 .. s PROVE Contents(r)[i] = Contents(q)[i]
  <2>1. Contents(q)[i] = d[IF h + i - 1 < s THEN h + i - 1 ELSE h + i - 1 - s]
    BY <1>0 DEF Contents, Wrap, d, s, h
  <2>2. Contents(r)[i] = r.lpMsgData[IF h + i - 1 < s + Grow THEN h + i - 1 ELSE h + i - 1 - (s + Grow)]
    BY <1>0, <1>1 DEF Contents, Wrap
  <2> QED
    BY <2>1, <2>2, <1>0, <1>3
<1>8. WellFormed(r)
  BY <1>0, <1>1, <1>5, <1>6, <1>7, ContentsIs DEF WellFormed
<1>9. Contents(r) = Contents(q)
  BY <1>0, <1>1, <1>7, <1>8, ContentsIs, SeqEqual
<1> QED
  BY <1>0, <1>1, <1>8, <1>9 DEF r

\* What is behind the first k elements.
LEMMA SuffixIsSubsequence ==
  ASSUME NEW n \in Nat, NEW s, DOMAIN s = 1 .. n, NEW k \in 0 .. n
  PROVE  Subsequence(s, k + 1 .. n) = [m \in 1 .. n - k |-> s[k + m]]
<1> DEFINE f == [m \in 1 .. n - k |-> k + m]
<1>1. /\ f \in [1 .. n - k -> k + 1 .. n]
      /\ \A l, m \in 1 .. n - k : l < m => f[l] < f[m]
  OBVIOUS
<1>2. \A i \in k + 1 .. n : i - k \in 1 .. n - k /\ f[i - k] = i
  OBVIOUS
<1>3. Enumerates(f, n - k, k + 1 .. n)
  <2> HIDE DEF f
  <2> QED
    BY <1>1, <1>2 DEF Enumerates
<1>4. (k + 1 .. n) \in SUBSET (1 .. n) /\ n - k \in Nat
  OBVIOUS
<1>5. Subsequence(s, k + 1 .. n) = [m \in 1 .. n - k |-> s[f[m]]]
  <2> HIDE DEF f
  <2> QED
    BY <1>3, <1>4, SubsequenceBy
<1> QED
  BY <1>5

LEMMA AdvanceDrops ==
  ASSUME NEW q, WellFormed(q), NEW n \in 0 .. q.count
  PROVE  /\ WellFormed(Advance(q, n))
         /\ Contents(Advance(q, n)) = Subsequence(Contents(q), n + 1 .. q.count)
<1> DEFINE r == Advance(q, n)
           dropped == {Wrap(q, q.nQueueHead + i) : i \in 0 .. n - 1}
<1>1. /\ r.size = q.size /\ r.count = q.count - n /\ r.nQueueHead = Wrap(q, q.nQueueHead + n)
      /\ r.nQueueTail = q.nQueueTail
      /\ r.lpMsgData = [j \in 0 .. q.size - 1 |-> IF j \in dropped THEN Empty ELSE q.lpMsgData[j]]
  <2>1. DOMAIN q.lpMsgData = 0 .. q.size - 1
    BY DEF WellFormed
  <2> QED
    BY <2>1 DEF WellFormed, Advance
<1>2. r.lpMsgData \in [0 .. q.size - 1 -> Slot]
  <2>1. Empty \in Slot
    BY DEF Empty, Slot
  <2> HIDE DEF dropped
  <2> QED
    BY <1>1, <2>1 DEF WellFormed
<1>3. r \in [lpMsgData : [0 .. r.size - 1 -> Slot], size : 1 .. MaxSize, count : 0 .. r.size,
             nQueueHead : 0 .. r.size - 1, nQueueTail : 0 .. r.size - 1]
  <2>1. q.size \in 1 .. MaxSize /\ q.nQueueTail \in 0 .. q.size - 1
    BY DEF WellFormed
  <2>2. q.count - n \in 0 .. q.size /\ Wrap(q, q.nQueueHead + n) \in 0 .. q.size - 1
    BY RingNumbers DEF Wrap
  <2>3. /\ r.lpMsgData \in [0 .. r.size - 1 -> Slot] /\ r.size \in 1 .. MaxSize
        /\ r.count \in 0 .. r.size /\ r.nQueueHead \in 0 .. r.size - 1
        /\ r.nQueueTail \in 0 .. r.size - 1
    BY <1>1, <1>2, <2>1, <2>2
  <2> QED
    BY <2>3 DEF WellFormed, Advance
<1> HIDE DEF r
<1>4. r.nQueueTail = Wrap(r, r.nQueueHead + r.count)
  BY <1>1, RingNumbers DEF WellFormed, Wrap
<1>5. ASSUME NEW i \in 1 .. q.count - n PROVE Contents(r)[i] = Contents(q)[n + i]
  <2>1. n + i \in 1 .. q.count
    BY RingNumbers
  <2> DEFINE j == Wrap(q, q.nQueueHead + (n + i) - 1)
             k == n + i
  <2>2. j \in 0 .. q.size - 1 /\ Contents(q)[n + i] = q.lpMsgData[j]
    <3> HIDE DEF k
    <3>1. k \in 1 .. q.count => Wrap(q, q.nQueueHead + k - 1) \in 0 .. q.size - 1
                               /\ Contents(q)[k] = q.lpMsgData[Wrap(q, q.nQueueHead + k - 1)]
      BY ContentsIs
    <3> QED
      BY <2>1, <3>1 DEF k
  <2>3. Wrap(r, r.nQueueHead + i - 1) = j
    <3> DEFINE h == q.nQueueHead
               z == q.size
    <3>1. h \in Nat /\ z \in Nat \ {0} /\ h < z /\ n \in Nat /\ i \in Nat \ {0} /\ n + i <= z
      BY <2>1, RingNumbers
    <3>2. r.size = z /\ r.nQueueHead = IF h + n < z THEN h + n ELSE h + n - z
      BY <1>1, <3>1 DEF Wrap
    <3>3. j = IF h + n + i - 1 < z THEN h + n + i - 1 ELSE h + n + i - 1 - z
      BY <3>1 DEF Wrap
    <3> HIDE DEF h, z, j
    <3>4. CASE h + n < z
      BY <3>1, <3>2, <3>3, <3>4 DEF Wrap
    <3>5. CASE ~(h + n < z)
      BY <3>1, <3>2, <3>3, <3>5 DEF Wrap
    <3> QED
      BY <3>4, <3>5
  <2>4. j \notin dropped
    BY <2>1, RingNumbers DEF Wrap
  <2> HIDE DEF j, dropped
  <2>5. r.lpMsgData[j] = q.lpMsgData[j]
    BY <1>1, <2>2, <2>4
  <2>6. Contents(r)[i] = r.lpMsgData[j]
    BY <1>1, <2>3 DEF Contents
  <2> QED
    BY <2>2, <2>5, <2>6
<1>6. WellFormed(r)
  <2>1. ASSUME NEW i \in 1 .. r.count PROVE Contents(r)[i] \in Stored
    <3>1. n + i \in 1 .. q.count /\ i \in 1 .. q.count - n
      BY <1>1, RingNumbers
    <3> QED
      BY <3>1, <1>5 DEF WellFormed
  <2> QED
    BY <1>3, <1>4, <2>1 DEF WellFormed
<1>7. Contents(r) = [i \in 1 .. q.count - n |-> Contents(r)[i]]
  BY <1>1 DEF Contents
<1>8. Subsequence(Contents(q), n + 1 .. q.count) = [i \in 1 .. q.count - n |-> Contents(q)[n + i]]
  <2> DEFINE c == Contents(q)
  <2>1. q.count \in Nat /\ DOMAIN c = 1 .. q.count
    BY RingNumbers, ContentsIs
  <2> HIDE DEF c
  <2> QED
    <3> DEFINE z == q.count
    <3>1. z \in Nat /\ DOMAIN c = 1 .. z /\ n \in 0 .. z
      BY <2>1
    <3> HIDE DEF z
    <3>2. Subsequence(c, n + 1 .. z) = [m \in 1 .. z - n |-> c[n + m]]
      BY <3>1, SuffixIsSubsequence, Zenon
    <3> QED
      BY <3>2 DEF z, c
<1>9. Contents(r) = Subsequence(Contents(q), n + 1 .. q.count)
  BY <1>5, <1>7, <1>8
<1> QED
  BY <1>6, <1>9 DEF r

LEMMA RefillHolds ==
  ASSUME NEW q, WellFormed(q), NEW s \in Seq(Stored), Len(s) <= q.size
  PROVE  WellFormed(Refill(q, s)) /\ Contents(Refill(q, s)) = s
<1> DEFINE r == Refill(q, s)
           offset(j) == IF j >= q.nQueueHead THEN j - q.nQueueHead ELSE j - q.nQueueHead + q.size
<1>0. Len(s) \in Nat /\ \A i \in 1 .. Len(s) : s[i] \in Stored
  OBVIOUS
<1>1. /\ r.size = q.size /\ r.count = Len(s) /\ r.nQueueHead = q.nQueueHead
      /\ r.nQueueTail = Wrap(q, q.nQueueHead + Len(s))
      /\ r.lpMsgData = [j \in 0 .. q.size - 1 |-> IF offset(j) < Len(s) THEN s[offset(j) + 1] ELSE Empty]
  <2>1. DOMAIN q.lpMsgData = 0 .. q.size - 1
    BY DEF WellFormed
  <2> QED
    BY <2>1 DEF WellFormed, Refill
<1>2. r.lpMsgData \in [0 .. q.size - 1 -> Slot]
  <2>1. Empty \in Slot /\ Stored \subseteq Slot
    BY DEF Empty, Slot, Stored
  <2>2. \A j \in 0 .. q.size - 1 : offset(j) < Len(s) => s[offset(j) + 1] \in Stored
    BY <1>0, RingNumbers
  <2> HIDE DEF offset
  <2> QED
    BY <1>1, <2>1, <2>2
<1>3. r \in [lpMsgData : [0 .. r.size - 1 -> Slot], size : 1 .. MaxSize, count : 0 .. r.size,
             nQueueHead : 0 .. r.size - 1, nQueueTail : 0 .. r.size - 1]
  <2>1. q.size \in 1 .. MaxSize /\ q.nQueueHead \in 0 .. q.size - 1
    BY DEF WellFormed
  <2>2. Len(s) \in 0 .. q.size /\ Wrap(q, q.nQueueHead + Len(s)) \in 0 .. q.size - 1
    BY <1>0, RingNumbers DEF Wrap
  <2>3. /\ r.lpMsgData \in [0 .. r.size - 1 -> Slot] /\ r.size \in 1 .. MaxSize
        /\ r.count \in 0 .. r.size /\ r.nQueueHead \in 0 .. r.size - 1
        /\ r.nQueueTail \in 0 .. r.size - 1
    BY <1>1, <1>2, <2>1, <2>2
  <2> QED
    BY <2>3 DEF WellFormed, Refill
<1> HIDE DEF r
<1>4. r.nQueueTail = Wrap(r, r.nQueueHead + r.count)
  BY <1>1 DEF Wrap
<1>5. ASSUME NEW i \in 1 .. Len(s) PROVE Contents(r)[i] = s[i]
  <2> DEFINE j == Wrap(q, q.nQueueHead + i - 1)
  <2>1. j \in 0 .. q.size - 1 /\ offset(j) = i - 1 /\ offset(j) < Len(s) /\ offset(j) + 1 = i
    <3>1. i - 1 < q.size /\ i \in Nat /\ i > 0 /\ i - 1 < Len(s)
      BY <1>0, RingNumbers
    <3>2. CASE q.nQueueHead + i - 1 < q.size
      <4>1. j = q.nQueueHead + i - 1
        BY <3>2 DEF Wrap
      <4> HIDE DEF j
      <4> QED
        BY <3>1, <3>2, <4>1, RingNumbers
    <3>3. CASE ~(q.nQueueHead + i - 1 < q.size)
      <4>1. j = q.nQueueHead + i - 1 - q.size
        BY <3>1, <3>3, RingNumbers DEF Wrap
      <4> DEFINE h == q.nQueueHead
                 z == q.size
      <4>2. h \in Nat /\ z \in Nat /\ h < z /\ i - 1 < z
        BY <3>1, RingNumbers
      <4> HIDE DEF j, h, z
      <4>3. j = h + i - 1 - z /\ ~(h + i - 1 < z)
        BY <3>3, <4>1 DEF h, z
      <4>4. j \in 0 .. z - 1 /\ j < h /\ j - h + z = i - 1
        BY <3>1, <4>2, <4>3
      <4>5. offset(j) = i - 1
        BY <3>1, <4>2, <4>4 DEF h, z
      <4> QED
        BY <3>1, <4>4, <4>5 DEF z
    <3> QED
      BY <3>2, <3>3
  <2>2. Wrap(r, r.nQueueHead + i - 1) = j
    BY <1>1 DEF Wrap
  <2> HIDE DEF j, offset
  <2>3. r.lpMsgData[j] = s[i]
    BY <1>1, <2>1
  <2> QED
    BY <1>1, <2>2, <2>3 DEF Contents
<1>6. WellFormed(r)
  BY <1>0, <1>1, <1>3, <1>4, <1>5 DEF WellFormed
<1>7. Contents(r) = [i \in 1 .. Len(s) |-> Contents(r)[i]]
  BY <1>1 DEF Contents
<1>8. s = [i \in 1 .. Len(s) |-> s[i]]
  OBVIOUS
<1>9. Contents(r) = s
  BY <1>5, <1>7, <1>8
<1> QED
  BY <1>6, <1>9 DEF r

LEMMA InsertAppends ==
  ASSUME NEW q, WellFormed(q), q.count < q.size \/ q.size + Grow <= MaxSize, NEW m \in Stored
  PROVE  /\ WellFormed(_InsertQueue(q, m))
         /\ Contents(_InsertQueue(q, m)) = Append(Contents(q), m)
<1>1. CASE q.count < q.size
  BY <1>1, InsertAtTailAppends DEF _InsertQueue
<1>2. CASE ~(q.count < q.size)
  <2>1. q.count = q.size /\ q.size + Grow <= MaxSize
    BY <1>2, RingNumbers
  <2>2. WellFormed(Enlarge(q)) /\ Contents(Enlarge(q)) = Contents(q) /\ Enlarge(q).count < Enlarge(q).size
    BY <2>1, EnlargeKeepsContents
  <2> QED
    BY <1>2, <2>2, InsertAtTailAppends DEF _InsertQueue
<1> QED
  BY <1>1, <1>2

\* What a marked sequence is.
LEMMA MarkIs ==
  ASSUME NEW s \in Seq(Stored), NEW marked
  PROVE  /\ Mark(s, marked) \in Seq(Stored)
         /\ DOMAIN Mark(s, marked) = DOMAIN s
         /\ Len(Mark(s, marked)) = Len(s)
         /\ \A i \in DOMAIN s \ marked : Mark(s, marked)[i] = s[i]
         /\ \A i \in DOMAIN s \cap marked : Mark(s, marked)[i].hwnd = INVALID_HANDLE_VALUE
<1>1. Len(s) \in Nat /\ DOMAIN s = 1 .. Len(s) /\ \A i \in DOMAIN s : s[i] \in Stored
  OBVIOUS
<1>2. \A i \in DOMAIN s : [s[i] EXCEPT !.hwnd = INVALID_HANDLE_VALUE] \in Stored
                         /\ [s[i] EXCEPT !.hwnd = INVALID_HANDLE_VALUE].hwnd = INVALID_HANDLE_VALUE
  BY <1>1 DEF Stored
<1>3. Mark(s, marked) \in [1 .. Len(s) -> Stored]
  BY <1>1, <1>2 DEF Mark
<1>4. Mark(s, marked) \in Seq(Stored) /\ Len(Mark(s, marked)) = Len(s)
  BY <1>1, <1>3
<1>5. \A i \in DOMAIN s \ marked : Mark(s, marked)[i] = s[i]
  BY DEF Mark
<1>6. \A i \in DOMAIN s \cap marked : Mark(s, marked)[i].hwnd = INVALID_HANDLE_VALUE
  BY <1>2 DEF Mark
<1> QED
  BY <1>1, <1>3, <1>4, <1>5, <1>6

-----------------------------------------------------------------------------
(* Looking for a message *)

\* Some numbers have a least one.
LEMMA MinIs ==
  ASSUME NEW S \in SUBSET Nat, S # {}
  PROVE  Min(S) \in S /\ \A i \in S : Min(S) <= i
<1> DEFINE less == {p \in Nat \X Nat : p[1] < p[2]}
<1>1. IsWellFoundedOn(less, Nat)
  <2>1. OpToRel(<, Nat) = less
    BY DEF OpToRel
  <2> QED
    BY <2>1, NatLessThanWellFounded, Zenon
<1> HIDE DEF less
<1>2. PICK m \in S : \A i \in S : <<i, m>> \notin less
  BY <1>1, WFMin, Zenon
<1>3. ASSUME NEW i \in S PROVE m <= i
  <2>1. i \in Nat /\ m \in Nat
    OBVIOUS
  <2>2. ~(i < m)
    BY <1>2, <2>1 DEF less
  <2> QED
    BY <2>1, <2>2
<1> QED
  BY <1>3 DEF Min

\* The search ends at the first hit, or behind the last message.
LEMMA ReachIs ==
  ASSUME NEW s \in Seq(Stored), NEW f
  PROVE  /\ Len(s) \in Nat
         /\ Reach(s, f) \in 1 .. Len(s) + 1
         /\ \A i \in 1 .. Reach(s, f) - 1 : i \in DOMAIN s /\ i \notin Hits(s, f)
         /\ Hits(s, f) # {} => Reach(s, f) \in Hits(s, f)
         /\ Hits(s, f) = {} => Reach(s, f) = Len(s) + 1
<1> DEFINE H == Hits(s, f)
           n == Reach(s, f)
<1>1. Len(s) \in Nat /\ DOMAIN s = 1 .. Len(s)
  OBVIOUS
<1>2. H \subseteq 1 .. Len(s)
  BY <1>1 DEF Hits, LiveIndices
<1>3. H \cup {Len(s) + 1} \in SUBSET Nat
  BY <1>1, <1>2
<1>4. n \in H \cup {Len(s) + 1} /\ \A i \in H \cup {Len(s) + 1} : n <= i
  <2> HIDE DEF H
  <2>1. n = Min(H \cup {Len(s) + 1})
    BY DEF Reach, H
  <2> QED
    BY <1>3, <2>1, MinIs
<1> HIDE DEF H, n
<1>5. n \in 1 .. Len(s) + 1
  BY <1>1, <1>2, <1>4
<1>6. \A i \in 1 .. n - 1 : i \in DOMAIN s /\ i \notin H
  BY <1>1, <1>4, <1>5
<1>7. ASSUME NEW h \in H PROVE n \in H
  <2>1. n <= h /\ h \in 1 .. Len(s)
    BY <1>2, <1>4
  <2>2. n # Len(s) + 1
    BY <1>1, <2>1
  <2> QED
    BY <1>4, <2>2
<1> QED
  BY <1>1, <1>4, <1>5, <1>6, <1>7 DEF H, n

\* Any message is a hit without a filter.
LEMMA NoFilterHitsAll ==
  ASSUME NEW s
  PROVE  Hits(s, NoFilter) = LiveIndices(s)
  BY DEF Hits, Matches, NoFilter

\* A marked message is not live.
LEMMA MarkedIsNotLive ==
  ASSUME windows \subseteq Windows, NEW m, Live(m)
  PROVE  m.hwnd # INVALID_HANDLE_VALUE
  BY MessageQueueAssumption DEF Live

\* A look leaves some of the messages, in their order, and of the live ones all but the one
\* it takes.
LEMMA LookLeaves ==
  ASSUME NEW q, WellFormed(q), windows \subseteq Windows, NEW f, NEW fRemove \in BOOLEAN
  PROVE  LET s == Contents(q)
             r == _CheckThreadQueue(q, f, fRemove)
         IN /\ WellFormed(r)
            /\ \E K \in SUBSET DOMAIN s :
                 /\ Contents(r) = Subsequence(s, K)
                 /\ K \cap LiveIndices(s) = IF Taken(q, f, fRemove)
                                            THEN LiveIndices(s) \ {Reach(s, f)}
                                            ELSE LiveIndices(s)
<1> DEFINE s == Contents(q)
           r == _CheckThreadQueue(q, f, fRemove)
           L == LiveIndices(s)
           n == Reach(s, f)
           taken == Taken(q, f, fRemove)
<1>1. /\ s \in Seq(Stored) /\ DOMAIN s = 1 .. Len(s) /\ Len(s) = q.count
      /\ q.count \in Nat /\ q.count <= q.size /\ q.size \in Nat
  BY ContentsIs, RingNumbers
<1>2. /\ n \in 1 .. Len(s) + 1
      /\ \A i \in 1 .. n - 1 : i \in DOMAIN s /\ i \notin Hits(s, f)
      /\ taken => n \in Hits(s, f)
  BY <1>1, ReachIs DEF Taken
<1>3. L \subseteq DOMAIN s /\ Hits(s, f) \subseteq L /\ \A i \in DOMAIN s \ L : ~Live(s[i])
  BY DEF LiveIndices, Hits
<1> HIDE DEF n
<1>4. CASE f = NoFilter
  <2> DEFINE m == IF taken THEN n ELSE n - 1
             K == m + 1 .. Len(s)
  <2>1. L = Hits(s, f)
    BY <1>4, NoFilterHitsAll
  <2>2. taken => n \in 1 .. Len(s)
    BY <1>1, <1>2, <1>3
  <2>3. m \in 0 .. Len(s)
    BY <1>1, <1>2, <2>2
  <2>4. r = Advance(q, m)
    BY <1>4 DEF _CheckThreadQueue, CheckAll, n
  <2> HIDE DEF r, s
  <2>5. WellFormed(r) /\ Contents(r) = Subsequence(s, K)
    BY <1>1, <2>3, <2>4, AdvanceDrops DEF s
  <2>6. K \in SUBSET DOMAIN s
    BY <1>1, <2>3
  <2>7. \A i \in L : n <= i
    BY <1>1, <1>2, <1>3, <2>1
  <2>8. K \cap L = IF taken THEN L \ {n} ELSE L
    <3>1. CASE taken
      <4>1. K = n + 1 .. Len(s)
        BY <3>1
      <4> HIDE DEF L
      <4> QED
        BY <1>1, <1>2, <1>3, <2>7, <3>1, <4>1
    <3>2. CASE ~taken
      <4>1. K = n .. Len(s)
        BY <1>1, <1>2, <3>2
      <4> HIDE DEF L
      <4> QED
        BY <1>1, <1>2, <1>3, <2>7, <3>2, <4>1
    <3> QED
      BY <3>1, <3>2
  <2> HIDE DEF K, taken
  <2> QED
    BY <2>5, <2>6, <2>8 DEF r, s, n, taken
<1>5. CASE f # NoFilter
  <2> DEFINE marked == {i \in 1 .. n - 1 : ~Live(s[i])} \cup (IF taken THEN {n} ELSE {})
             u == Mark(s, marked)
             K == {i \in DOMAIN u : u[i].hwnd # INVALID_HANDLE_VALUE}
  <2>1. r = IF marked = {} THEN q ELSE Refill(q, Compact(u))
    BY <1>5 DEF _CheckThreadQueue, CheckSome, n
  <2>2. L \ marked = IF taken THEN L \ {n} ELSE L
    BY DEF LiveIndices
  <2> HIDE DEF r, marked, taken
  <2>3. CASE marked = {}
    <3>1. WellFormed(r) /\ Contents(r) = s
      BY <2>1, <2>3
    <3>2. Subsequence(s, 1 .. Len(s)) = s
      <4> HIDE DEF s
      <4>1. Len(s) \in Nat /\ DOMAIN s = 1 .. Len(s) /\ s = [m \in 1 .. Len(s) |-> s[m]]
        BY <1>1
      <4>2. Subsequence(s, 0 + 1 .. Len(s)) = [m \in 1 .. Len(s) - 0 |-> s[0 + m]]
        BY <4>1, SuffixIsSubsequence
      <4> QED
        BY <4>1, <4>2
    <3>3. DOMAIN s \cap L = IF taken THEN L \ {n} ELSE L
      BY <1>3, <2>2, <2>3
    <3> HIDE DEF s, L
    <3>4. Contents(r) = Subsequence(s, DOMAIN s)
      BY <1>1, <3>1, <3>2
    <3> QED
      BY <3>1, <3>3, <3>4 DEF r, s, n, L, taken
  <2>4. CASE marked # {}
    <3>1. /\ u \in Seq(Stored) /\ DOMAIN u = DOMAIN s /\ Len(u) = Len(s)
          /\ \A i \in DOMAIN s \ marked : u[i] = s[i]
          /\ \A i \in DOMAIN s \cap marked : u[i].hwnd = INVALID_HANDLE_VALUE
      BY <1>1, MarkIs
    <3>2. K \in SUBSET DOMAIN s /\ \A i \in K : u[i] = s[i]
      BY <3>1
    <3>3. K \cap L = L \ marked
      <4>1. \A i \in L : s[i].hwnd # INVALID_HANDLE_VALUE
        BY MarkedIsNotLive DEF LiveIndices
      <4> HIDE DEF u, L, s
      <4> QED
        BY <1>3, <3>1, <4>1
    <3> HIDE DEF u, s, L
    <3>4. Compact(u) = Subsequence(u, K)
      BY DEF Compact
    <3> HIDE DEF K
    <3>5. Compact(u) \in Seq(Stored) /\ Len(Compact(u)) <= q.size
      <4>1. K \in SUBSET DOMAIN u
        BY <3>1, <3>2
      <4>2. Compact(u) \in Seq(Stored) /\ Len(Compact(u)) = Cardinality(K)
        BY <3>1, <3>4, <4>1, SubsequenceType
      <4>3. Cardinality(K) \in 0 .. Len(s)
        BY <1>1, <3>2, SubsequenceIs
      <4> QED
        BY <1>1, <4>2, <4>3
    <3>6. WellFormed(r) /\ Contents(r) = Compact(u)
      BY <2>1, <2>4, <3>5, RefillHolds
    <3>7. Compact(u) = Subsequence(s, K)
      <4>1. Len(s) \in Nat /\ K \in SUBSET (1 .. Len(s)) /\ DOMAIN u = 1 .. Len(s)
        BY <1>1, <3>1, <3>2
      <4> QED
        BY <1>1, <3>2, <3>4, <4>1, SameSubsequence
    <3> QED
      BY <2>2, <3>2, <3>3, <3>6, <3>7 DEF r, s, n, L, taken
  <2> QED
    BY <2>3, <2>4
<1> QED
  BY <1>4, <1>5

\* What is asked for and not found is not there after the look either.
LEMMA HitsOfSubsequence ==
  ASSUME NEW s \in Seq(Stored), NEW K \in SUBSET DOMAIN s, NEW f, Hits(Subsequence(s, K), f) # {}
  PROVE  Hits(s, f) # {}
<1>1. Len(s) \in Nat /\ DOMAIN s = 1 .. Len(s)
  OBVIOUS
<1>2. \A m \in DOMAIN Subsequence(s, K) : Nth(K, m) \in DOMAIN s /\ Subsequence(s, K)[m] = s[Nth(K, m)]
  BY <1>1, SubsequenceIs
<1>3. PICK m \in DOMAIN Subsequence(s, K) :
        Live(Subsequence(s, K)[m]) /\ Matches(Subsequence(s, K)[m], f)
  BY DEF Hits, LiveIndices
<1>4. Nth(K, m) \in Hits(s, f)
  BY <1>2, <1>3 DEF Hits, LiveIndices
<1> QED
  BY <1>4

\* What a successful look finds is a live message.
LEMMA FoundIsMessage ==
  ASSUME NEW s \in Seq(Stored), windows \subseteq Windows, NEW f, Hits(s, f) # {}
  PROVE  s[Reach(s, f)] \in Message /\ Live(s[Reach(s, f)]) /\ Matches(s[Reach(s, f)], f)
<1> DEFINE n == Reach(s, f)
<1>1. n \in Hits(s, f)
  BY ReachIs
<1> HIDE DEF n
<1>2. n \in DOMAIN s /\ Live(s[n]) /\ Matches(s[n], f)
  BY <1>1 DEF Hits, LiveIndices
<1>3. s[n] \in Stored
  BY <1>2
<1> QED
  BY <1>2, <1>3 DEF Live, Stored, Message, n

-----------------------------------------------------------------------------
(* The invariant *)

PCs == {"idle", "check", "insert", "signal", "peek", "wait", "dispatch"}

\* What the calls have in hand; only the owner asks for messages.
ArgsFit ==
  \A t \in Threads :
    /\ pc[t] \in {"check", "insert"} => arg[t] \in Message
    /\ pc[t] \in {"peek", "wait"} => arg[t] \in Filter /\ t = Owner
    /\ pc[t] = "dispatch" => arg[t] \in Message /\ t = Owner

IInv ==
  /\ WellFormed(msgQueue)
  /\ hWaitEvent \in BOOLEAN
  /\ windows \subseteq Windows
  /\ pc \in [Threads -> PCs]
  /\ arg \in [Threads -> Message \cup Filter \cup {Empty}]
  /\ ArgsFit
  /\ NoSleepWithMessage

\* Goto changes the place and the argument of one thread.
LEMMA GotoOne ==
  ASSUME pc \in [Threads -> PCs], arg \in [Threads -> Message \cup Filter \cup {Empty}],
         NEW t \in Threads, NEW l \in PCs, NEW a \in Message \cup Filter \cup {Empty}, Goto(t, l, a)
  PROVE  /\ pc' \in [Threads -> PCs]
         /\ arg' \in [Threads -> Message \cup Filter \cup {Empty}]
         /\ pc'[t] = l /\ arg'[t] = a
         /\ \A u \in Threads \ {t} : pc'[u] = pc[u] /\ arg'[u] = arg[u]
  BY DEF Goto

LEMMA InitIInv == Init => IInv
<1> SUFFICES ASSUME Init PROVE IInv
  OBVIOUS
<1>1. Empty \in Slot
  BY DEF Empty, Slot
<1>2. /\ msgQueue.size = InitSize /\ msgQueue.count = 0
      /\ msgQueue.nQueueHead = 0 /\ msgQueue.nQueueTail = 0
      /\ msgQueue.lpMsgData = [j \in 0 .. InitSize - 1 |-> Empty]
  BY DEF Init
<1>3. InitSize \in Nat \ {0} /\ MaxSize \in Nat /\ InitSize <= MaxSize
  BY MessageQueueAssumption
<1>4. WellFormed(msgQueue)
  <2>1. /\ msgQueue.lpMsgData \in [0 .. msgQueue.size - 1 -> Slot]
        /\ msgQueue.size \in 1 .. MaxSize /\ msgQueue.count \in 0 .. msgQueue.size
        /\ msgQueue.nQueueHead \in 0 .. msgQueue.size - 1
        /\ msgQueue.nQueueTail \in 0 .. msgQueue.size - 1
    BY <1>1, <1>2, <1>3
  <2>2. msgQueue \in [lpMsgData : [0 .. msgQueue.size - 1 -> Slot], size : 1 .. MaxSize,
                      count : 0 .. msgQueue.size, nQueueHead : 0 .. msgQueue.size - 1,
                      nQueueTail : 0 .. msgQueue.size - 1]
    BY <2>1 DEF Init
  <2>3. msgQueue.nQueueTail = Wrap(msgQueue, msgQueue.nQueueHead + msgQueue.count)
    BY <1>2, <1>3 DEF Wrap
  <2> QED
    BY <1>2, <2>2, <2>3 DEF WellFormed
<1> QED
  BY <1>4, MessageQueueAssumption DEF Init, IInv, ArgsFit, PCs, NoSleepWithMessage

LEMMA LookKeeps ==
  ASSUME IInv, NEW f, NEW fRemove \in BOOLEAN,
         msgQueue' = _CheckThreadQueue(msgQueue, f, fRemove), windows' = windows
  PROVE  WellFormed(msgQueue)' /\ \A g : Pending(g)' => Pending(g)
<1> DEFINE s == Contents(msgQueue)
<1>1. WellFormed(msgQueue') /\ \E K \in SUBSET DOMAIN s : Contents(msgQueue') = Subsequence(s, K)
  BY LookLeaves DEF IInv
<1>2. s \in Seq(Stored)
  BY ContentsIs DEF IInv
<1>3. ASSUME NEW g, Pending(g)' PROVE Pending(g)
  <2>1. Hits(Contents(msgQueue'), g) # {}
    BY <1>3 DEF Pending, Hits, LiveIndices, Live
  <2> HIDE DEF s
  <2>2. Hits(s, g) # {}
    BY <1>1, <1>2, <2>1, HitsOfSubsequence
  <2> QED
    BY <2>2 DEF Pending, s
<1>4. WellFormed(msgQueue)'
  BY <1>1 DEF WellFormed, Wrap, Contents
<1> QED
  BY <1>3, <1>4

LEMMA PostKeeps ==
  ASSUME IInv, NEW t \in Threads, NEW m \in Posted, Post(t, m) \/ PostOnlyOne(t, m)
  PROVE  IInv'
<1>1. m \in Message
  BY CallsAssumption
<1>2. /\ pc[t] = "idle" /\ UNCHANGED <<msgQueue, hWaitEvent, windows>>
      /\ \E l \in {"check", "insert"} : Goto(t, l, m)
  BY DEF Post, PostOnlyOne
<1>3. PICK l \in {"check", "insert"} : Goto(t, l, m)
  BY <1>2
<1>4. /\ pc' \in [Threads -> PCs]
      /\ arg' \in [Threads -> Message \cup Filter \cup {Empty}]
      /\ pc'[t] = l /\ arg'[t] = m
      /\ \A u \in Threads \ {t} : pc'[u] = pc[u] /\ arg'[u] = arg[u]
  BY <1>1, <1>3, GotoOne DEF IInv, PCs
<1>5. ArgsFit'
  BY <1>1, <1>4 DEF IInv, ArgsFit
<1>6. NoSleepWithMessage'
  BY <1>2, <1>4, MessageQueueAssumption DEF IInv, NoSleepWithMessage, Pending, Hits, LiveIndices, Live
<1> QED
  BY <1>2, <1>4, <1>5, <1>6 DEF IInv, WellFormed, Wrap, Contents

LEMMA CheckOnlyOneKeeps ==
  ASSUME IInv, NEW t \in Threads, CheckOnlyOne(t)
  PROVE  IInv'
<1> DEFINE m == arg[t]
           f == [hwnd |-> m.hwnd, min |-> m.message, max |-> m.message, fCheckChild |-> FALSE]
<1>1. pc[t] = "check" /\ m \in Message /\ UNCHANGED <<hWaitEvent, windows>>
  BY DEF CheckOnlyOne, IInv, ArgsFit
<1>2. WellFormed(msgQueue)' /\ \A g : Pending(g)' => Pending(g)
  BY LookKeeps DEF CheckOnlyOne
<1> HIDE DEF f
<1>3. PICK l \in {"idle", "insert"}, a \in {Empty, m} : (l = "insert" => a = m) /\ Goto(t, l, a)
  BY DEF CheckOnlyOne
<1>4. /\ pc' \in [Threads -> PCs]
      /\ arg' \in [Threads -> Message \cup Filter \cup {Empty}]
      /\ pc'[t] = l /\ arg'[t] = a
      /\ \A u \in Threads \ {t} : pc'[u] = pc[u] /\ arg'[u] = arg[u]
  BY <1>1, <1>3, GotoOne DEF IInv, PCs
<1>5. ArgsFit'
  BY <1>1, <1>3, <1>4 DEF IInv, ArgsFit
<1>6. NoSleepWithMessage'
  <2> SUFFICES ASSUME pc'[Owner] = "wait", ~hWaitEvent', Pending(arg[Owner])'
               PROVE  \E u \in Threads : pc'[u] = "signal"
    BY DEF NoSleepWithMessage
  <2>1. Owner # t /\ Owner \in Threads
    BY <1>3, <1>4, MessageQueueAssumption
  <2>2. pc[Owner] = "wait" /\ arg'[Owner] = arg[Owner]
    BY <1>4, <2>1
  <2>3. Pending(arg[Owner])
    BY <1>2, <2>2
  <2>4. PICK u \in Threads : pc[u] = "signal"
    BY <1>1, <2>2, <2>3 DEF IInv, NoSleepWithMessage
  <2> QED
    BY <1>1, <1>4, <2>4
<1> QED
  BY <1>1, <1>2, <1>4, <1>5, <1>6 DEF IInv

LEMMA InsertKeeps ==
  ASSUME IInv, NEW t \in Threads, Insert(t)
  PROVE  IInv'
<1>1. pc[t] = "insert" /\ arg[t] \in Message /\ UNCHANGED <<hWaitEvent, windows>>
  BY DEF Insert, IInv, ArgsFit
<1>2. arg[t] \in Stored
  BY <1>1 DEF Message, Stored
<1>3. WellFormed(msgQueue')
  BY <1>2, InsertAppends DEF Insert, IInv
<1>4. /\ pc' \in [Threads -> PCs]
      /\ arg' \in [Threads -> Message \cup Filter \cup {Empty}]
      /\ pc'[t] = "signal"
      /\ \A u \in Threads \ {t} : pc'[u] = pc[u] /\ arg'[u] = arg[u]
  BY GotoOne DEF Insert, IInv, PCs
<1>5. ArgsFit'
  BY <1>4 DEF IInv, ArgsFit
<1>6. NoSleepWithMessage'
  BY <1>4 DEF NoSleepWithMessage
<1> QED
  BY <1>1, <1>3, <1>4, <1>5, <1>6 DEF IInv, WellFormed, Wrap, Contents

LEMMA SignalKeeps ==
  ASSUME IInv, NEW t \in Threads, Signal(t)
  PROVE  IInv'
<1>1. /\ pc' \in [Threads -> PCs]
      /\ arg' \in [Threads -> Message \cup Filter \cup {Empty}]
      /\ pc'[t] = "idle"
      /\ \A u \in Threads \ {t} : pc'[u] = pc[u] /\ arg'[u] = arg[u]
  BY GotoOne DEF Signal, IInv, PCs
<1>2. ArgsFit'
  BY <1>1 DEF IInv, ArgsFit
<1>3. NoSleepWithMessage'
  BY DEF Signal, NoSleepWithMessage
<1> QED
  BY <1>1, <1>2, <1>3 DEF Signal, IInv, WellFormed, Wrap, Contents

LEMMA ClearKeeps ==
  ASSUME IInv, NEW t \in Threads, NEW f, ClearThreadQueue(t, f)
  PROVE  IInv'
<1> DEFINE s == Contents(msgQueue)
           marked == {i \in DOMAIN s : Matches(s[i], f)}
<1>1. msgQueue' = Refill(msgQueue, Mark(s, marked)) /\ UNCHANGED <<hWaitEvent, windows, pc, arg>>
  BY DEF ClearThreadQueue
<1>2. s \in Seq(Stored) /\ Len(s) = msgQueue.count /\ msgQueue.count <= msgQueue.size
  BY ContentsIs, RingNumbers DEF IInv
<1> HIDE DEF s, marked
<1>3. /\ Mark(s, marked) \in Seq(Stored) /\ Len(Mark(s, marked)) = Len(s)
      /\ DOMAIN Mark(s, marked) = DOMAIN s
      /\ \A i \in DOMAIN s \ marked : Mark(s, marked)[i] = s[i]
      /\ \A i \in DOMAIN s \cap marked : Mark(s, marked)[i].hwnd = INVALID_HANDLE_VALUE
  BY <1>2, MarkIs
<1>4. WellFormed(msgQueue') /\ Contents(msgQueue') = Mark(s, marked)
  BY <1>1, <1>2, <1>3, RefillHolds DEF IInv
<1>5. ASSUME NEW g, Pending(g)' PROVE Pending(g)
  <2>1. PICK i \in DOMAIN Contents(msgQueue') :
          Live(Contents(msgQueue')[i]) /\ Matches(Contents(msgQueue')[i], g)
    BY <1>1, <1>5 DEF Pending, Hits, LiveIndices, Live
  <2>2. Contents(msgQueue')[i].hwnd # INVALID_HANDLE_VALUE
    BY <2>1, MarkedIsNotLive DEF IInv
  <2>3. i \in DOMAIN s /\ Contents(msgQueue')[i] = s[i]
    BY <1>3, <1>4, <2>1, <2>2
  <2> QED
    BY <2>1, <2>3 DEF Pending, Hits, LiveIndices, s
<1>6. NoSleepWithMessage'
  BY <1>1, <1>5 DEF IInv, NoSleepWithMessage
<1> QED
  BY <1>1, <1>4, <1>6 DEF IInv, WellFormed, Wrap, Contents, ArgsFit

LEMMA LooksKeep ==
  ASSUME IInv, NEW f \in Filter, NEW fRemove \in BOOLEAN, NEW otherwise \in {"idle", "wait"},
         Look(f, fRemove, otherwise)
  PROVE  IInv'
<1> DEFINE s == Contents(msgQueue)
<1>1. UNCHANGED <<hWaitEvent, windows>> /\ Owner \in Threads
  BY MessageQueueAssumption DEF Look
<1>2. WellFormed(msgQueue)' /\ \A g : Pending(g)' => Pending(g)
  BY <1>1, LookKeeps DEF Look
<1>3. s \in Seq(Stored)
  BY ContentsIs DEF IInv
<1>4. PICK l \in {"dispatch", otherwise}, a \in Message \cup {f, Empty} :
        /\ Goto(Owner, l, a)
        /\ l = "dispatch" => a \in Message
        /\ l = "wait" => a = f /\ ~Pending(f)
  <2>1. CASE Pending(f)
    <3>1. s[Reach(s, f)] \in Message
      BY <1>3, <2>1, FoundIsMessage DEF IInv, Pending
    <3> QED
      BY <2>1, <3>1 DEF Look
  <2>2. CASE ~Pending(f)
    BY <2>2 DEF Look
  <2> QED
    BY <2>1, <2>2
<1>5. /\ pc' \in [Threads -> PCs]
      /\ arg' \in [Threads -> Message \cup Filter \cup {Empty}]
      /\ pc'[Owner] = l /\ arg'[Owner] = a
      /\ \A u \in Threads \ {Owner} : pc'[u] = pc[u] /\ arg'[u] = arg[u]
  BY <1>1, <1>4, GotoOne DEF IInv, PCs
<1>6. ArgsFit'
  BY <1>4, <1>5 DEF IInv, ArgsFit
<1>7. NoSleepWithMessage'
  BY <1>2, <1>4, <1>5 DEF NoSleepWithMessage
<1> QED
  BY <1>1, <1>2, <1>5, <1>6, <1>7 DEF IInv

LEMMA OwnerKeeps ==
  ASSUME IInv,
         \/ \E f \in Filters : GetMessage(f) \/ \E fRemove \in BOOLEAN : PeekMessage(f, fRemove)
         \/ Peek \/ Dispatch \/ WaitMessage
  PROVE  IInv'
<1>1. Filters \subseteq Filter /\ Owner \in Threads
  BY CallsAssumption, MessageQueueAssumption
<1>2. ASSUME NEW f \in Filters, NEW fRemove \in BOOLEAN, PeekMessage(f, fRemove) PROVE IInv'
  BY <1>1, <1>2, LooksKeep DEF PeekMessage
<1>3. ASSUME Peek PROVE IInv'
  <2>1. arg[Owner] \in Filter
    BY <1>1, <1>3 DEF Peek, IInv, ArgsFit
  <2> QED
    BY <1>3, <2>1, LooksKeep DEF Peek
<1>4. ASSUME (\E f \in Filters : GetMessage(f)) \/ Dispatch \/ WaitMessage PROVE IInv'
  <2>1. PICK l \in {"peek", "idle"}, a \in Filter \cup {Empty} :
          Goto(Owner, l, a) /\ (l = "peek" => a \in Filter)
    BY <1>1, <1>4 DEF GetMessage, Dispatch, WaitMessage, IInv, ArgsFit
  <2>2. /\ pc' \in [Threads -> PCs]
        /\ arg' \in [Threads -> Message \cup Filter \cup {Empty}]
        /\ pc'[Owner] = l /\ arg'[Owner] = a
        /\ \A u \in Threads \ {Owner} : pc'[u] = pc[u] /\ arg'[u] = arg[u]
    BY <1>1, <2>1, GotoOne DEF IInv, PCs
  <2>3. ArgsFit' /\ NoSleepWithMessage'
    BY <1>1, <2>1, <2>2 DEF IInv, ArgsFit, NoSleepWithMessage
  <2>4. UNCHANGED <<msgQueue, windows>> /\ hWaitEvent' \in BOOLEAN
    BY <1>4 DEF GetMessage, Dispatch, WaitMessage, IInv
  <2> QED
    BY <2>2, <2>3, <2>4 DEF IInv, WellFormed, Wrap, Contents
<1> QED
  BY <1>2, <1>3, <1>4

LEMMA WindowsKeep ==
  ASSUME IInv, NEW w \in Windows, CreateWindow(w) \/ DestroyWindow(w)
  PROVE  IInv'
<1>1. UNCHANGED <<msgQueue, hWaitEvent, pc, arg>> /\ windows' \subseteq Windows /\ pc[Owner] = "idle"
  BY DEF CreateWindow, DestroyWindow, IInv
<1> QED
  BY <1>1 DEF IInv, WellFormed, Wrap, Contents, ArgsFit, NoSleepWithMessage

LEMMA NextKeeps == IInv /\ [Next]_vars => IInv'
<1> SUFFICES ASSUME IInv, [Next]_vars PROVE IInv'
  OBVIOUS
<1>1. ASSUME NEW t \in Threads, NEW m \in Posted, Post(t, m) \/ PostOnlyOne(t, m) PROVE IInv'
  BY <1>1, PostKeeps
<1>2. ASSUME NEW t \in Threads, CheckOnlyOne(t) \/ Insert(t) \/ Signal(t) PROVE IInv'
  BY <1>2, CheckOnlyOneKeeps, InsertKeeps, SignalKeeps
<1>3. ASSUME NEW t \in Threads, NEW f \in Filters, ClearThreadQueue(t, f) PROVE IInv'
  BY <1>3, ClearKeeps
<1>4. ASSUME NEW w \in Windows, CreateWindow(w) \/ DestroyWindow(w) PROVE IInv'
  BY <1>4, WindowsKeep
<1>5. CASE UNCHANGED vars
  BY <1>5 DEF vars, IInv, WellFormed, Wrap, Contents, ArgsFit, NoSleepWithMessage, Pending, Hits,
    LiveIndices, Live
<1> QED
  BY <1>1, <1>2, <1>3, <1>4, <1>5, OwnerKeeps DEF Next

LEMMA AlwaysIInv == Spec => []IInv
  BY InitIInv, NextKeeps, PTL DEF Spec

\* The ring is well formed, its tail is count slots after its head, and the calls have what
\* they need (_InsertQueue, _CheckThreadQueue, ClearThreadQueue).
THEOREM RingIsWellFormed == Spec => []TypeOK
<1>1. IInv => TypeOK
  <2> SUFFICES ASSUME IInv PROVE TypeOK
    OBVIOUS
  <2>1. /\ msgQueue.size \in 1 .. MaxSize /\ msgQueue.count \in 0 .. msgQueue.size
        /\ msgQueue.nQueueHead \in 0 .. msgQueue.size - 1
        /\ msgQueue.nQueueTail = Wrap(msgQueue, msgQueue.nQueueHead + msgQueue.count)
        /\ msgQueue.lpMsgData \in [0 .. msgQueue.size - 1 -> Slot]
    BY DEF IInv, WellFormed
  <2> QED
    BY <2>1 DEF IInv, TypeOK, Slot, PCs
<1> QED
  BY <1>1, AlwaysIInv, PTL

\* The owner does not sleep while a message it waits for is in the queue, unless a thread is
\* about to set the event (_InsertThreadQueue, WinMsg_Get).
THEOREM OwnerIsWoken == Spec => []NoSleepWithMessage
<1>1. IInv => NoSleepWithMessage
  BY DEF IInv
<1> QED
  BY <1>1, AlwaysIInv, PTL

-----------------------------------------------------------------------------
(* The ring is a queue *)

LiveOf(s) == Subsequence(s, LiveIndices(s))

\* The queue that MsgFifo sees, and the message the owner has got.
Queue == LiveOf(Contents(msgQueue))

InHand == IF pc[Owner] = "dispatch" THEN arg[Owner] ELSE NULL

\* Live messages of a part are those of the whole that are in it.
LEMMA LiveOfSubsequence ==
  ASSUME NEW s \in Seq(Stored), NEW K \in SUBSET DOMAIN s
  PROVE  LiveOf(Subsequence(s, K)) = Subsequence(s, K \cap LiveIndices(s))
<1> DEFINE r == Subsequence(s, K)
           A == {m \in Stored : Live(m)}
<1>1. Len(s) \in Nat /\ DOMAIN s = 1 .. Len(s) /\ \A i \in DOMAIN s : s[i] \in Stored
  OBVIOUS
<1>2. r \in Seq(Stored)
  BY SubsequenceType
<1>3. Subsequence(r, Among(r, A)) = Subsequence(s, K \cap Among(s, A))
  <2> HIDE DEF A
  <2> QED
    BY <1>1, SelectFromSubsequence
<1> HIDE DEF r
<1>4. Among(r, A) = LiveIndices(r)
  <2>1. \A m \in DOMAIN r : r[m] \in Stored
    BY <1>2
  <2> QED
    BY <2>1 DEF LiveIndices, Among
<1>5. Among(s, A) = LiveIndices(s)
  BY <1>1 DEF LiveIndices, Among
<1> QED
  BY <1>3, <1>4, <1>5 DEF r, LiveOf

\* The indices of L with an element that is not of a kind.
Other(s, L, kind) == {i \in L : s[i] \notin kind}

\* Those not of a kind, in a part and in the whole.
LEMMA WithoutIs ==
  ASSUME NEW s \in Seq(Stored), NEW L \in SUBSET DOMAIN s, NEW kind,
         NEW r, r = Subsequence(s, L)
  PROVE  Subsequence(r, Other(r, DOMAIN r, kind)) = Subsequence(s, Other(s, L, kind))
<1> DEFINE A == Stored \ kind
<1>1. Len(s) \in Nat /\ DOMAIN s = 1 .. Len(s) /\ \A i \in DOMAIN s : s[i] \in Stored
  OBVIOUS
<1>2. r \in Seq(Stored)
  BY SubsequenceType
<1>3. Subsequence(r, Among(r, A)) = Subsequence(s, L \cap Among(s, A))
  <2> HIDE DEF A
  <2> QED
    BY <1>1, SelectFromSubsequence
<1>4. Among(r, A) = Other(r, DOMAIN r, kind)
  <2>1. \A m \in DOMAIN r : r[m] \in Stored
    BY <1>2
  <2> QED
    BY <2>1 DEF Among, Other
<1>5. L \cap Among(s, A) = Other(s, L, kind)
  BY <1>1 DEF Among, Other
<1> QED
  BY <1>3, <1>4, <1>5

\* The place of an element of s in the part r, what is before it, and the part without it.
PlaceOf(i, r, s, L, n) ==
  /\ i \in DOMAIN r
  /\ r[i] = s[n]
  /\ \A j \in 1 .. i - 1 : \E k \in L : k < n /\ r[j] = s[k]
  /\ RemoveAt(r, i) = Subsequence(s, L \ {n})

LEMMA PlaceInPart ==
  ASSUME NEW s \in Seq(Stored), NEW L \in SUBSET DOMAIN s, NEW n \in L,
         NEW r, r = Subsequence(s, L)
  PROVE  \E i : PlaceOf(i, r, s, L, n)
<1> DEFINE i == Position(L, n)
<1>1. Len(s) \in Nat /\ DOMAIN s = 1 .. Len(s)
  OBVIOUS
<1>2. /\ r \in Seq(Stored) /\ i \in DOMAIN r /\ r[i] = s[n]
      /\ DOMAIN r = 1 .. Cardinality(L)
      /\ \A j \in DOMAIN r : r[j] = s[Nth(L, j)] /\ Nth(L, j) \in L
      /\ IsFiniteSet(L) /\ L \subseteq Int
  BY <1>1, SubsequenceType, SubsequenceIs
<1>3. Cardinality(L) \in Nat /\ i \in 1 .. Cardinality(L)
  BY <1>2, FS_CardinalityType
<1>4. /\ \A l, m \in 1 .. Cardinality(L) : l < m => Nth(L, l) < Nth(L, m)
      /\ Nth(L, i) = n
  BY <1>2, Enumeration
<1>5. RemoveAt(r, i) = Subsequence(r, DOMAIN r \ {i})
  BY <1>2, RemoveIsSubsequence
<1>6. Subsequence(r, DOMAIN r \ {i}) = Subsequence(s, L \ {n})
  BY <1>1, DropFromSubsequence
<1> HIDE DEF i
<1>7. \A j \in 1 .. i - 1 : j \in 1 .. Cardinality(L) /\ j < i
  BY <1>3
<1>8. \A j \in 1 .. i - 1 : Nth(L, j) \in L /\ Nth(L, j) < n /\ r[j] = s[Nth(L, j)]
  BY <1>2, <1>3, <1>4, <1>7
<1> QED
  BY <1>2, <1>5, <1>6, <1>8 DEF PlaceOf

\* The kind of messages that a filter asks for.
KindOf(f) ==
  [hwnd : {w \in Windows \cup {NULL} :
             f.hwnd \in {NULL, w} \/ (f.fCheckChild /\ <<w, f.hwnd>> \in ChildOf)},
   message : {c \in Codes : f.max = 0 \/ c \in f.min .. f.max}]

LEMMA KindIs ==
  ASSUME NEW f, NEW m \in Message
  PROVE  m \in KindOf(f) <=> Matches(m, f)
  BY DEF KindOf, Matches, Message

LEMMA KindOfFifo ==
  ASSUME NEW f
  PROVE  KindOf(f) \in Fifo!Kinds
<1> DEFINE W == {w \in Windows \cup {NULL} :
                   f.hwnd \in {NULL, w} \/ (f.fCheckChild /\ <<w, f.hwnd>> \in ChildOf)}
           C == {c \in Codes : f.max = 0 \/ c \in f.min .. f.max}
<1>1. W \in SUBSET (Windows \cup {NULL}) /\ C \in SUBSET Codes
  OBVIOUS
<1>2. KindOf(f) = Fifo!Kind(W, C)
  BY DEF KindOf, Fifo!Kind
<1> HIDE DEF W, C
<1> QED
  BY <1>1, <1>2 DEF Fifo!Kinds

\* A live message of the ring is a message of MsgFifo.
LEMMA LiveIsMessage ==
  ASSUME windows \subseteq Windows, NEW s \in Seq(Stored), NEW i \in LiveIndices(s)
  PROVE  s[i] \in Message /\ s[i].hwnd \in windows \cup {NULL}
<1>1. i \in DOMAIN s /\ Live(s[i]) /\ s[i] \in Stored
  BY DEF LiveIndices
<1> QED
  BY <1>1 DEF Live, Stored, Message

\* MsgFifo means the same operators.
LEMMA SameOperators ==
  /\ \A s, S : Fifo!Subsequence(s, S) = Subsequence(s, S)
  /\ \A s, i : Fifo!RemoveAt(s, i) = RemoveAt(s, i)
  BY DEF Fifo!Subsequence, Fifo!Nth, Fifo!Position, Fifo!Cardinality, Fifo!RemoveAt,
    Subsequence, Nth, Position, Cardinality, RemoveAt

Seen == <<Queue, windows, InHand>>

LEMMA QueueIs ==
  ASSUME IInv
  PROVE  /\ Contents(msgQueue) \in Seq(Stored)
         /\ LiveIndices(Contents(msgQueue)) \in SUBSET DOMAIN Contents(msgQueue)
         /\ Queue = Subsequence(Contents(msgQueue), LiveIndices(Contents(msgQueue)))
         /\ Queue \in Seq(Stored)
         /\ Len(Queue) = Cardinality(LiveIndices(Contents(msgQueue)))
<1>1. Contents(msgQueue) \in Seq(Stored)
  BY ContentsIs DEF IInv
<1>2. LiveIndices(Contents(msgQueue)) \in SUBSET DOMAIN Contents(msgQueue)
  BY DEF LiveIndices
<1>3. Queue = Subsequence(Contents(msgQueue), LiveIndices(Contents(msgQueue)))
  BY DEF Queue, LiveOf
<1> QED
  BY <1>1, <1>2, <1>3, SubsequenceType

LEMMA QueueNext ==
  ASSUME windows' = windows
  PROVE  Queue' = LiveOf(Contents(msgQueue'))
  BY DEF Queue, LiveOf, LiveIndices, Live

\* A call that neither gives the owner a message nor ends its handling.
LEMMA InHandStays ==
  ASSUME IInv, NEW t \in Threads, NEW l, NEW a, Goto(t, l, a),
         pc[t] # "dispatch", l # "dispatch"
  PROVE  InHand' = InHand
<1>1. pc \in [Threads -> PCs] /\ Owner \in Threads
  BY MessageQueueAssumption DEF IInv
<1>2. /\ pc' = [pc EXCEPT ![t] = l] /\ arg' = [arg EXCEPT ![t] = a]
      /\ arg \in [Threads -> Message \cup Filter \cup {Empty}]
  BY DEF Goto, IInv
<1>3. CASE t = Owner
  <2>1. pc'[Owner] # "dispatch" /\ pc[Owner] # "dispatch"
    BY <1>1, <1>2, <1>3
  <2> QED
    BY <2>1 DEF InHand
<1>4. CASE t # Owner
  <2>1. pc'[Owner] = pc[Owner] /\ arg'[Owner] = arg[Owner]
    BY <1>1, <1>2, <1>4
  <2> QED
    BY <2>1 DEF InHand
<1> QED
  BY <1>3, <1>4

\* The queue after a look.
LEMMA QueueAfterLook ==
  ASSUME IInv, NEW f, NEW fRemove \in BOOLEAN,
         msgQueue' = _CheckThreadQueue(msgQueue, f, fRemove), windows' = windows
  PROVE  Queue' = IF Taken(msgQueue, f, fRemove)
                  THEN Subsequence(Contents(msgQueue),
                         LiveIndices(Contents(msgQueue)) \ {Reach(Contents(msgQueue), f)})
                  ELSE Queue
<1> DEFINE s == Contents(msgQueue)
<1>1. PICK K \in SUBSET DOMAIN s :
        /\ Contents(msgQueue') = Subsequence(s, K)
        /\ K \cap LiveIndices(s) = IF Taken(msgQueue, f, fRemove)
                                   THEN LiveIndices(s) \ {Reach(s, f)} ELSE LiveIndices(s)
  BY LookLeaves DEF IInv
<1>2. s \in Seq(Stored) /\ Queue = Subsequence(s, LiveIndices(s))
  BY QueueIs
<1>3. Queue' = LiveOf(Contents(msgQueue'))
  BY QueueNext
<1> HIDE DEF s
<1>4. Queue' = Subsequence(s, K \cap LiveIndices(s))
  BY <1>1, <1>2, <1>3, LiveOfSubsequence
<1> QED
  BY <1>1, <1>2, <1>4 DEF s

-----------------------------------------------------------------------------
(* Its actions are those of the queue *)

LEMMA InsertIsPut ==
  ASSUME IInv, NEW t \in Threads, Insert(t)
  PROVE  Fifo!Put \/ UNCHANGED Seen
<1> DEFINE s == Contents(msgQueue)
           m == arg[t]
           L == LiveIndices(s)
<1>1. pc[t] = "insert" /\ m \in Message /\ m \in Stored /\ windows' = windows
  BY DEF Insert, IInv, ArgsFit, Message, Stored
<1>2. InHand' = InHand
  BY <1>1, InHandStays DEF Insert
<1>3. /\ s \in Seq(Stored) /\ L \in SUBSET DOMAIN s
      /\ Queue = Subsequence(s, L) /\ Queue \in Seq(Stored)
  BY QueueIs
<1>4. Queue' = LiveOf(Contents(msgQueue'))
  BY <1>1, QueueNext
<1>5. CASE msgQueue.count < msgQueue.size \/ msgQueue.size + Grow <= MaxSize
  <2>1. Contents(msgQueue') = Append(s, m)
    BY <1>1, <1>5, InsertAppends DEF Insert, IInv
  <2> HIDE DEF s, m
  <2>2. /\ Len(s) \in Nat /\ DOMAIN s = 1 .. Len(s)
        /\ DOMAIN Append(s, m) = 1 .. Len(s) + 1
        /\ \A i \in DOMAIN s : Append(s, m)[i] = s[i]
        /\ Append(s, m)[Len(s) + 1] = m
    BY <1>1, <1>3
  <2>3. CASE Live(m)
    <3>1. LiveIndices(Append(s, m)) = L \cup {Len(s) + 1}
      BY <2>2, <2>3 DEF LiveIndices
    <3> HIDE DEF L
    <3>a. Queue' = Subsequence(Append(s, m), L \cup {Len(s) + 1})
      BY <1>4, <2>1, <3>1 DEF LiveOf
    <3>b. Subsequence(Append(s, m), L \cup {Len(s) + 1}) = Append(Subsequence(s, L), m)
      BY <1>1, <1>3, SubsequenceOfAppend
    <3>2. Queue' = Append(Queue, m)
      BY <1>3, <3>a, <3>b
    <3>3. Len(Queue') > Len(Queue)
      BY <1>1, <1>3, <3>2
    <3>4. m \in Fifo!Messages /\ m.hwnd \in windows \cup {NULL}
      BY <1>1, <2>3 DEF Fifo!Messages, Message, Live
    <3> QED
      BY <1>1, <1>2, <3>2, <3>3, <3>4 DEF Fifo!Put, Queue, LiveOf, InHand
  <2>4. CASE ~Live(m)
    <3>1. LiveIndices(Append(s, m)) = L
      BY <2>2, <2>4 DEF LiveIndices
    <3> HIDE DEF L
    <3>a. Queue' = Subsequence(Append(s, m), L)
      BY <1>4, <2>1, <3>1 DEF LiveOf
    <3>b. Subsequence(Append(s, m), L) = Subsequence(s, L)
      BY <1>1, <1>3, SubsequenceOfAppend
    <3>2. Queue' = Queue
      BY <1>3, <3>a, <3>b
    <3> QED
      BY <1>1, <1>2, <3>2 DEF Seen
  <2> QED
    BY <2>3, <2>4
<1>6. CASE ~(msgQueue.count < msgQueue.size \/ msgQueue.size + Grow <= MaxSize)
  <2>1. Queue' = Queue
    BY <1>4, <1>6 DEF Insert, Queue
  <2> QED
    BY <1>1, <1>2, <2>1 DEF Seen
<1> QED
  BY <1>5, <1>6

LEMMA LookIsGet ==
  ASSUME IInv, NEW f \in Filter, NEW fRemove \in BOOLEAN, NEW otherwise \in {"idle", "wait"},
         Look(f, fRemove, otherwise), pc[Owner] # "dispatch"
  PROVE  Fifo!Get \/ UNCHANGED Seen
<1> DEFINE s == Contents(msgQueue)
           L == LiveIndices(s)
           n == Reach(s, f)
<1>1. windows' = windows /\ Owner \in Threads
  BY MessageQueueAssumption DEF Look
<1>2. /\ s \in Seq(Stored) /\ L \in SUBSET DOMAIN s
      /\ Queue = Subsequence(s, L) /\ Queue \in Seq(Stored)
  BY QueueIs
<1>3. Queue' = IF Taken(msgQueue, f, fRemove) THEN Subsequence(s, L \ {n}) ELSE Queue
  BY <1>1, QueueAfterLook DEF Look
<1>4. CASE ~Pending(f)
  <2>1. Queue' = Queue
    BY <1>3, <1>4 DEF Taken, Pending
  <2>2. InHand' = InHand
    BY <1>1, <1>4, InHandStays DEF Look
  <2> QED
    BY <1>1, <2>1, <2>2 DEF Seen
<1>5. CASE Pending(f)
  <2>1. Goto(Owner, "dispatch", s[n])
    BY <1>5 DEF Look
  <2>2. s[n] \in Message /\ Matches(s[n], f)
    BY <1>2, <1>5, FoundIsMessage DEF IInv, Pending
  <2>3. InHand = NULL /\ InHand' = s[n] /\ InHand' # NULL
    BY <1>1, <2>1, <2>2, NullAssumption DEF Goto, IInv, InHand
  <2>4. /\ n \in L
        /\ \A k \in L : k < n => ~Matches(s[k], f)
    <3>1. /\ n \in Hits(s, f) /\ n \in 1 .. Len(s) + 1 /\ Len(s) \in Nat
          /\ \A k \in 1 .. n - 1 : k \notin Hits(s, f)
      BY <1>2, <1>5, ReachIs DEF Pending
    <3>2. \A k \in L : k < n => k \in 1 .. n - 1
      BY <1>2, <3>1
    <3> QED
      BY <3>1, <3>2 DEF Hits
  <2> HIDE DEF s, L, n
  <2>a. PICK i : PlaceOf(i, Queue, s, L, n)
    BY <1>2, <2>4, PlaceInPart
  <2>5. /\ i \in DOMAIN Queue /\ Queue[i] = s[n]
        /\ \A j \in 1 .. i - 1 : \E k \in L : k < n /\ Queue[j] = s[k]
        /\ RemoveAt(Queue, i) = Subsequence(s, L \ {n})
    BY <2>a DEF PlaceOf
  <2>6. Queue' = Queue \/ (Queue[i].message # WM_PAINT /\ Queue' = RemoveAt(Queue, i))
    BY <1>3, <2>5 DEF Taken, s, n
  <2>7. \A k \in L : s[k] \in Message
    BY <1>2, LiveIsMessage DEF L, IInv
  <2>8. Queue[i] \in KindOf(f) /\ \A j \in 1 .. i - 1 : Queue[j] \notin KindOf(f)
    BY <2>2, <2>4, <2>5, <2>7, KindIs
  <2>9. KindOf(f) \in Fifo!Kinds
    BY KindOfFifo
  <2>10. Fifo!RemoveAt(Queue, i) = RemoveAt(Queue, i)
    BY SameOperators
  <2> QED
    BY <1>1, <2>3, <2>5, <2>6, <2>8, <2>9, <2>10 DEF Fifo!Get, Queue, LiveOf, InHand
<1> QED
  BY <1>4, <1>5

LEMMA ClearIsClear ==
  ASSUME IInv, NEW t \in Threads, NEW f, ClearThreadQueue(t, f)
  PROVE  Fifo!Clear \/ UNCHANGED Seen
<1> DEFINE s == Contents(msgQueue)
           L == LiveIndices(s)
           marked == {i \in DOMAIN s : Matches(s[i], f)}
           r == Mark(s, marked)
<1>1. windows' = windows /\ InHand' = InHand /\ msgQueue' = Refill(msgQueue, r)
  BY DEF ClearThreadQueue, InHand
<1>2. /\ s \in Seq(Stored) /\ L \in SUBSET DOMAIN s
      /\ Queue = Subsequence(s, L) /\ Queue \in Seq(Stored) /\ Len(Queue) = Cardinality(L)
  BY QueueIs
<1>3. Len(s) = msgQueue.count /\ msgQueue.count <= msgQueue.size
  BY ContentsIs, RingNumbers DEF IInv
<1> HIDE DEF s
<1>4. /\ r \in Seq(Stored) /\ Len(r) = Len(s) /\ DOMAIN r = DOMAIN s
      /\ \A i \in DOMAIN s \ marked : r[i] = s[i]
      /\ \A i \in DOMAIN s \cap marked : r[i].hwnd = INVALID_HANDLE_VALUE
  <2> HIDE DEF marked
  <2> QED
    BY <1>2, MarkIs
<1>5. \A i \in L : s[i] \in Message /\ (i \in marked <=> s[i] \in KindOf(f))
  BY <1>2, LiveIsMessage, KindIs DEF IInv
<1>6. Contents(msgQueue') = r
  <2> HIDE DEF r
  <2> QED
    BY <1>1, <1>3, <1>4, RefillHolds DEF IInv
<1>7. LiveIndices(r) = L \ marked
  <2> HIDE DEF r
  <2>1. \A i \in DOMAIN r : Live(r[i]) => r[i].hwnd # INVALID_HANDLE_VALUE
    BY MarkedIsNotLive DEF IInv
  <2> QED
    BY <1>4, <2>1 DEF LiveIndices
<1>8. Queue' = LiveOf(r)
  BY <1>1, <1>6, QueueNext
<1> HIDE DEF r, marked, L
<1>9. Queue' = Subsequence(s, L \ marked)
  <2>1. Len(s) \in Nat /\ DOMAIN s = 1 .. Len(s) /\ L \ marked \in SUBSET (1 .. Len(s))
    BY <1>2
  <2>2. \A i \in L \ marked : r[i] = s[i]
    BY <1>2, <1>4
  <2>3. Subsequence(r, L \ marked) = Subsequence(s, L \ marked)
    BY <1>4, <2>1, <2>2, SameSubsequence
  <2> QED
    BY <1>7, <1>8, <2>3 DEF LiveOf
<1>10. CASE L \cap marked = {}
  <2>1. L \ marked = L
    BY <1>10
  <2> QED
    BY <1>1, <1>2, <1>9, <2>1 DEF Seen
<1>11. CASE L \cap marked # {}
  <2>1. L \ marked = Other(s, L, KindOf(f))
    BY <1>5 DEF Other
  <2>2. Queue' = Subsequence(Queue, Other(Queue, DOMAIN Queue, KindOf(f)))
    <3>1. Subsequence(Queue, Other(Queue, DOMAIN Queue, KindOf(f))) = Subsequence(s, Other(s, L, KindOf(f)))
      BY <1>2, WithoutIs
    <3> QED
      BY <1>9, <2>1, <3>1
  <2>3. Queue' = Fifo!Without(KindOf(f))
    BY <2>2, SameOperators DEF Fifo!Without, Queue, LiveOf, Other
  <2>4. Len(Queue') < Len(Queue)
    <3>1. Len(s) \in Nat /\ DOMAIN s = 1 .. Len(s) /\ IsFiniteSet(1 .. Len(s))
      BY <1>2, FS_Interval
    <3>2. IsFiniteSet(L)
      BY <1>2, <3>1, FS_Subset
    <3>3. L \ marked \in SUBSET L /\ L \ marked # L
      BY <1>11
    <3>4. Cardinality(L \ marked) < Cardinality(L)
      BY <3>2, <3>3, FS_Subset, FS_CardinalityType
    <3>5. Len(Queue') = Cardinality(L \ marked)
      BY <1>2, <1>9, <3>3, SubsequenceType
    <3> QED
      BY <1>2, <3>4, <3>5
  <2> QED
    BY <1>1, <2>3, <2>4, KindOfFifo DEF Fifo!Clear, Queue, LiveOf, InHand
<1> QED
  BY <1>10, <1>11

LEMMA DispatchIsHandled ==
  ASSUME IInv, Dispatch
  PROVE  Fifo!Handled
<1>1. windows' = windows /\ msgQueue' = msgQueue /\ Queue' = Queue
  BY DEF Dispatch, Queue, LiveOf, LiveIndices, Live
<1>2. pc'[Owner] = "idle"
  BY MessageQueueAssumption DEF Dispatch, Goto, IInv
<1> QED
  BY <1>1, <1>2 DEF Fifo!Handled, Queue, LiveOf, InHand

\* Without StaleHandles no message in the queue becomes one of a new window.
LEMMA CreateIsCreate ==
  ASSUME IInv, ~StaleHandles, NEW w \in Windows, CreateWindow(w)
  PROVE  Fifo!Create(w)
<1> DEFINE s == Contents(msgQueue)
<1>1. UNCHANGED <<msgQueue, pc, arg>> /\ w \notin windows /\ windows' = windows \cup {w}
  BY DEF CreateWindow
<1>2. \A i \in DOMAIN s : s[i].hwnd # w
  BY DEF CreateWindow, Queued
<1>3. {i \in DOMAIN s : s[i].hwnd \in windows' \cup {NULL}}
      = {i \in DOMAIN s : s[i].hwnd \in windows \cup {NULL}}
  BY <1>1, <1>2
<1>4. Queue' = Queue /\ InHand' = InHand
  BY <1>1, <1>3 DEF Queue, LiveOf, LiveIndices, Live, InHand
<1> QED
  BY <1>1, <1>4 DEF Fifo!Create, Queue, LiveOf, InHand

LEMMA DestroyIsDestroy ==
  ASSUME IInv, NEW w \in Windows, DestroyWindow(w)
  PROVE  \E W \in (SUBSET windows) \ {{}} : Fifo!Destroy(W)
<1> DEFINE s == Contents(msgQueue)
           L == LiveIndices(s)
           W == windows \cap ({w} \cup {c \in Windows : <<c, w>> \in ChildOf})
           kind == Fifo!Kind(W, Codes)
<1>1. /\ UNCHANGED <<msgQueue, pc, arg>> /\ windows' = windows \ W
      /\ W \in (SUBSET windows) \ {{}} /\ InHand' = InHand
  <2>1. w \in W
    BY DEF DestroyWindow
  <2>2. UNCHANGED <<msgQueue, pc, arg>> /\ windows' = windows \ W
    BY DEF DestroyWindow
  <2> HIDE DEF W
  <2>3. W \in (SUBSET windows) \ {{}}
    <3>1. W \subseteq windows
      BY DEF W
    <3>2. W \in SUBSET windows /\ W # {}
      BY <2>1, <3>1
    <3> QED
      BY <3>2
  <2> QED
    BY <2>2, <2>3 DEF InHand
<1>2. /\ s \in Seq(Stored) /\ L \in SUBSET DOMAIN s
      /\ Queue = Subsequence(s, L) /\ Queue \in Seq(Stored)
  BY QueueIs
<1>3. \A i \in L : s[i] \in Message /\ s[i].hwnd \in windows \cup {NULL}
  <2> HIDE DEF s
  <2> QED
    BY <1>2, LiveIsMessage DEF IInv
<1>4. NULL \notin W /\ W \subseteq windows
  BY MessageQueueAssumption
<1>5. {i \in DOMAIN s : s[i].hwnd \in windows' \cup {NULL}} = Other(s, L, kind)
  <2> HIDE DEF s, W
  <2>1. \A i \in L : s[i] \in kind <=> s[i].hwnd \in W
    BY <1>3 DEF Message, Fifo!Kind
  <2>2. \A i \in DOMAIN s : i \in L <=> s[i].hwnd \in windows \cup {NULL}
    BY DEF LiveIndices, Live
  <2> HIDE DEF L, kind
  <2> QED
    BY <1>1, <1>2, <1>4, <2>1, <2>2 DEF Other
<1>6. Queue' = Subsequence(s, {i \in DOMAIN s : s[i].hwnd \in windows' \cup {NULL}})
  BY <1>1 DEF Queue, LiveOf, LiveIndices, Live
<1> HIDE DEF s, L, kind, W
<1>7. Queue' = Subsequence(Queue, Other(Queue, DOMAIN Queue, kind))
  <2>1. Subsequence(Queue, Other(Queue, DOMAIN Queue, kind)) = Subsequence(s, Other(s, L, kind))
    BY <1>2, WithoutIs
  <2> QED
    BY <1>5, <1>6, <2>1
<1>8. Queue' = Fifo!Without(kind)
  BY <1>7, SameOperators DEF Fifo!Without, Queue, LiveOf, Other
<1>9. Fifo!Destroy(W)
  BY <1>1, <1>8 DEF Fifo!Destroy, Queue, LiveOf, InHand, kind
<1> QED
  BY <1>1, <1>9

-----------------------------------------------------------------------------
(* The refinement *)

LEMMA InitIsInit == Init => Fifo!Init
<1> SUFFICES ASSUME Init PROVE Fifo!Init
  OBVIOUS
<1>1. IInv
  BY InitIInv
<1>2. Contents(msgQueue) \in Seq(Stored) /\ DOMAIN Contents(msgQueue) = 1 .. 0
  BY <1>1, ContentsIs DEF Init, IInv
<1>3. LiveIndices(Contents(msgQueue)) = {}
  BY <1>2 DEF LiveIndices
<1>4. Queue = <<>>
  BY <1>1, <1>3, QueueIs, FS_EmptySet
<1>5. windows = {} /\ InHand = NULL
  BY MessageQueueAssumption DEF Init, InHand
<1> QED
  BY <1>4, <1>5 DEF Fifo!Init, Queue, LiveOf, InHand

\* All other steps leave what MsgFifo sees alone.
LEMMA OthersStutter ==
  ASSUME IInv, NEW t \in Threads,
         \/ \E m \in Posted : Post(t, m) \/ PostOnlyOne(t, m)
         \/ CheckOnlyOne(t) \/ Signal(t)
         \/ \E f \in Filters : GetMessage(f)
         \/ WaitMessage
  PROVE  UNCHANGED Seen
<1>1. windows' = windows /\ Owner \in Threads
  BY MessageQueueAssumption DEF Post, PostOnlyOne, CheckOnlyOne, Signal, GetMessage, WaitMessage
<1>2. CASE CheckOnlyOne(t)
  <2> DEFINE f == [hwnd |-> arg[t].hwnd, min |-> arg[t].message, max |-> arg[t].message,
                   fCheckChild |-> FALSE]
  <2>1. msgQueue' = _CheckThreadQueue(msgQueue, f, FALSE) /\ pc[t] = "check"
    BY <1>2 DEF CheckOnlyOne
  <2>2. PICK l \in {"idle", "insert"} : \E a : Goto(t, l, a)
    BY <1>2 DEF CheckOnlyOne
  <2> HIDE DEF f
  <2>3. ~Taken(msgQueue, f, FALSE)
    BY DEF Taken
  <2>4. Queue' = Queue
    BY <1>1, <2>1, <2>3, QueueAfterLook
  <2>5. InHand' = InHand
    BY <2>1, <2>2, InHandStays
  <2> QED
    BY <1>1, <2>4, <2>5 DEF Seen
<1>3. CASE ~CheckOnlyOne(t)
  <2>1. msgQueue' = msgQueue
    BY <1>3 DEF Post, PostOnlyOne, Signal, GetMessage, WaitMessage
  <2>2. Queue' = Queue
    BY <1>1, <2>1 DEF Queue, LiveOf, LiveIndices, Live
  <2>3. PICK u \in {t, Owner}, l \in PCs \ {"dispatch"} : pc[u] # "dispatch" /\ \E a : Goto(u, l, a)
    BY <1>3 DEF Post, PostOnlyOne, Signal, GetMessage, WaitMessage, PCs
  <2>4. InHand' = InHand
    BY <1>1, <2>3, InHandStays
  <2> QED
    BY <1>1, <2>2, <2>4 DEF Seen
<1> QED
  BY <1>2, <1>3

LEMMA NextIsNext ==
  ASSUME IInv, [Next]_vars, ~StaleHandles
  PROVE  Fifo!Next \/ UNCHANGED Seen
<1>1. Filters \subseteq Filter /\ Owner \in Threads
  BY CallsAssumption, MessageQueueAssumption
<1>2. ASSUME NEW t \in Threads,
             \/ \E m \in Posted : Post(t, m) \/ PostOnlyOne(t, m)
             \/ CheckOnlyOne(t) \/ Signal(t)
      PROVE  UNCHANGED Seen
  BY <1>2, OthersStutter
<1>3. CASE (\E f \in Filters : GetMessage(f)) \/ WaitMessage
  BY <1>1, <1>3, OthersStutter
<1>4. ASSUME NEW t \in Threads, Insert(t) PROVE Fifo!Next \/ UNCHANGED Seen
  BY <1>4, InsertIsPut DEF Fifo!Next
<1>5. ASSUME NEW t \in Threads, NEW f \in Filters, ClearThreadQueue(t, f)
      PROVE  Fifo!Next \/ UNCHANGED Seen
  BY <1>5, ClearIsClear DEF Fifo!Next
<1>6. ASSUME NEW f \in Filters, NEW fRemove \in BOOLEAN, PeekMessage(f, fRemove)
      PROVE  Fifo!Next \/ UNCHANGED Seen
  BY <1>1, <1>6, LookIsGet DEF PeekMessage, Fifo!Next
<1>7. ASSUME Peek PROVE Fifo!Next \/ UNCHANGED Seen
  <2>1. arg[Owner] \in Filter
    BY <1>1, <1>7 DEF Peek, IInv, ArgsFit
  <2> QED
    BY <1>7, <2>1, LookIsGet DEF Peek, Fifo!Next
<1>8. CASE Dispatch
  BY <1>8, DispatchIsHandled DEF Fifo!Next
<1>9. ASSUME NEW w \in Windows, CreateWindow(w) \/ DestroyWindow(w) PROVE Fifo!Next
  BY <1>9, CreateIsCreate, DestroyIsDestroy DEF Fifo!Next
<1>10. CASE UNCHANGED vars
  BY <1>10 DEF vars, Seen, Queue, LiveOf, LiveIndices, Live, InHand
<1> QED
  BY <1>2, <1>3, <1>4, <1>5, <1>6, <1>7, <1>8, <1>9, <1>10 DEF Next

\* The ring is a queue: growing, dropping marked messages and taking one out of the middle
\* neither lose nor reorder a message of a window that exists, unless a new window gets the
\* HWND of an older one which messages in the queue carry (_InsertQueue, _CheckThreadQueue,
\* ClearThreadQueue).
THEOREM RingIsAQueue ==
  ASSUME ~StaleHandles
  PROVE  Spec => ImplementsFifo
<1>1. Init => Fifo!Init
  BY InitIsInit
<1>2. IInv /\ [Next]_vars =>
        [Fifo!Next]_<<Subsequence(Contents(msgQueue), LiveIndices(Contents(msgQueue))), windows,
                      IF pc[Owner] = "dispatch" THEN arg[Owner] ELSE NULL>>
  BY NextIsNext DEF Seen, Queue, LiveOf, InHand
<1> QED
  BY <1>1, <1>2, AlwaysIInv, PTL DEF Spec, ImplementsFifo, Fifo!Spec
=============================================================================
