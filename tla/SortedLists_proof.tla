--------------------------- MODULE SortedLists_proof ---------------------------
(***************************************************************************)
(* What the operators of SortedLists return, for every finite set and      *)
(* every list: that a sorting exists and is one, what filtering keeps,     *)
(* what joining contains, and that an increasing list is determined by its *)
(* elements.  Each induction is an argument about a least counterexample:  *)
(* LeastNatural picks it from the set of counterexamples.                  *)
(***************************************************************************)
EXTENDS SortedLists, FiniteSetTheorems, WellFoundedInduction, TLAPS

(* A non-empty set of naturals has a least element.                        *)
LEMMA LeastNatural ==
    ASSUME NEW T, T \subseteq Nat, T # {}
    PROVE  \E x \in T : \A y \in T : x <= y
  <1> DEFINE R == OpToRel(<, Nat)
  <1>1. \A x, y \in Nat : <<y, x>> \in R <=> y < x
    BY Zenon DEF OpToRel
  <1>2. IsWellFoundedOn(R, Nat)
    BY NatLessThanWellFounded, Zenon
  <1> HIDE DEF R
  <1>3. PICK x \in T : \A y \in T : ~(<<y, x>> \in R)
    BY <1>2, WFMin, Zenon
  <1>4. \A y \in T : ~(y < x) /\ x \in Nat /\ y \in Nat
    BY <1>1, <1>3, Zenon
  <1>5. \A y \in T : x <= y
    BY <1>4
  <1> QED BY <1>5, Zenon

(* A non-empty finite set has an element whose key is greatest.            *)
LEMMA GreatestKey ==
    ASSUME NEW S, IsFiniteSet(S), S # {}, NEW key \in [S -> Int]
    PROVE  \E m \in S : \A x \in S : key[x] <= key[m]
  <1> DEFINE Good(U) == \E m \in U : \A x \in U : key[x] <= key[m]
             Bad     == {U \in SUBSET S : U # {} /\ ~Good(U)}
             Sizes   == {Cardinality(U) : U \in Bad}
  <1>1. \A U \in SUBSET S : IsFiniteSet(U) /\ Cardinality(U) \in Nat
    BY FS_Subset, FS_CardinalityType, Zenon
  <1>2. ASSUME Bad # {} PROVE FALSE
    <2>1. Sizes \subseteq Nat /\ Sizes # {}
      BY <1>1, <1>2, Zenon
    <2>2. PICK U \in Bad : \A V \in Bad : Cardinality(U) <= Cardinality(V)
      <3> HIDE DEF Bad
      <3>1. PICK n \in Sizes : \A k \in Sizes : n <= k
        BY <2>1, LeastNatural, Zenon
      <3> QED BY <3>1, Zenon
    <2>3. PICK a \in U : TRUE
      BY Zenon
    <2> DEFINE V == U \ {a}
    <2>4. V \in SUBSET S /\ Cardinality(V) < Cardinality(U)
      <3>1. U \in SUBSET S
        BY Zenon
      <3>2. IsFiniteSet(U) /\ Cardinality(U) \in Nat
        BY <1>1, <3>1, Zenon
      <3>3. Cardinality(V) = Cardinality(U) - 1
        BY <2>3, <3>2, FS_RemoveElement, Zenon
      <3> QED BY <3>1, <3>2, <3>3
    <2>5. V \notin Bad
      <3> HIDE DEF Bad, V
      <3>1. V \in Bad => Cardinality(U) <= Cardinality(V)
        BY <2>2, Zenon
      <3>2. Cardinality(U) \in Nat /\ Cardinality(V) \in Nat
        BY <1>1, <2>4, Zenon DEF Bad
      <3> QED BY <2>4, <3>1, <3>2
    <2>6. CASE V = {}
      <3>1. U = {a} /\ key[a] \in Int
        BY <2>3, <2>6, Zenon
      <3> QED BY <3>1
    <2>7. CASE V # {}
      <3>1. PICK m \in V : \A x \in V : key[x] <= key[m]
        BY <2>4, <2>5, <2>7, Zenon
      <3>2. key[m] \in Int /\ \A x \in U : key[x] \in Int /\ (x = a \/ x \in V)
        BY Zenon
      <3>3. CASE key[a] <= key[m]
        <4>1. \A x \in U : key[x] <= key[m]
          BY <3>1, <3>2, <3>3, Zenon
        <4> QED BY <4>1, Zenon
      <3>4. CASE ~(key[a] <= key[m])
        <4>1. \A x \in U : key[x] <= key[a]
          BY <3>1, <3>2, <3>4, <2>3
        <4> QED BY <4>1, <2>3, Zenon
      <3> QED BY <3>3, <3>4, Zenon
    <2> QED BY <2>6, <2>7, Zenon
  <1> QED BY <1>2, Zenon

(* A sorting of U by key.                                                  *)
Sorts(f, U, key) ==
    LET n == Cardinality(U)
    IN  /\ f \in [1..n -> U]
        /\ \A i, j \in 1..n : f[i] = f[j] => i = j
        /\ \A i, j \in 1..n : i < j => key[f[i]] <= key[f[j]]

LEMMA SortingExists ==
    ASSUME NEW S, IsFiniteSet(S), NEW key \in [S -> Int]
    PROVE  \E f : Sorts(f, S, key)
  <1> DEFINE Bad     == {U \in SUBSET S : ~\E f : Sorts(f, U, key)}
             Sizes   == {Cardinality(U) : U \in Bad}
  <1>1. \A U \in SUBSET S : IsFiniteSet(U) /\ Cardinality(U) \in Nat
    BY FS_Subset, FS_CardinalityType, Zenon
  <1>2. ASSUME Bad # {} PROVE FALSE
    <2>1. Sizes \subseteq Nat /\ Sizes # {}
      BY <1>1, <1>2, Zenon
    <2>2. PICK U \in Bad : \A V \in Bad : Cardinality(U) <= Cardinality(V)
      <3> HIDE DEF Bad
      <3>1. PICK n \in Sizes : \A k \in Sizes : n <= k
        BY <2>1, LeastNatural, Zenon
      <3> QED BY <3>1, Zenon
    <2>3. IsFiniteSet(U) /\ Cardinality(U) \in Nat /\ U \subseteq S
      BY <1>1, Zenon
    <2>4. U # {}
      <3>1. Cardinality({}) = 0
        BY FS_EmptySet, Zenon
      <3>2. Sorts([i \in 1..0 |-> i], {}, key)
        BY <3>1 DEF Sorts
      <3> QED BY <3>2, Zenon
    <2>5. PICK m \in U : \A x \in U : key[x] <= key[m]
      <3>1. [x \in U |-> key[x]] \in [U -> Int]
        BY <2>3, Zenon
      <3>2. \E m \in U : \A x \in U : [y \in U |-> key[y]][x] <= [y \in U |-> key[y]][m]
        BY <2>3, <2>4, <3>1, GreatestKey, Zenon
      <3> QED BY <3>2, Zenon
    <2> DEFINE V == U \ {m}
               n == Cardinality(U)
    <2>6. V \in SUBSET S /\ Cardinality(V) = n - 1 /\ n - 1 \in Nat
      <3>1. Cardinality(V) = Cardinality(U) - 1
        BY <2>3, <2>5, FS_RemoveElement, Zenon
      <3>2. V \in SUBSET S
        BY <2>3, Zenon
      <3> QED BY <1>1, <3>1, <3>2, Zenon
    <2>7. PICK g : Sorts(g, V, key)
      <3>1. V \notin Bad
        <4> HIDE DEF Bad, V
        <4> QED BY <2>2, <2>3, <2>6
      <3> QED BY <2>6, <3>1, Zenon
    <2>8. /\ g \in [1..(n - 1) -> V]
          /\ \A i, j \in 1..(n - 1) : g[i] = g[j] => i = j
          /\ \A i, j \in 1..(n - 1) : i < j => key[g[i]] <= key[g[j]]
      BY <2>6, <2>7, Zenon DEF Sorts
    <2> DEFINE f == [i \in 1..n |-> IF i = n THEN m ELSE g[i]]
    <2>9. n \in Nat /\ \A i \in 1..n : i = n \/ i \in 1..(n - 1)
      BY <2>3, <2>6
    <2> HIDE DEF n
    <2>10. f \in [1..n -> U]
      BY <2>8, <2>9, Zenon
    <2>11. \A i, j \in 1..n : f[i] = f[j] => i = j
      BY <2>8, <2>9, Zenon
    <2>12. \A i, j \in 1..n : i < j => key[f[i]] <= key[f[j]]
      <3> SUFFICES ASSUME NEW i \in 1..n, NEW j \in 1..n, i < j PROVE key[f[i]] <= key[f[j]]
        BY Zenon
      <3>1. i \in 1..(n - 1) /\ f[i] = g[i] /\ g[i] \in U
        BY <2>8, <2>9
      <3>2. CASE j = n
        BY <2>5, <3>1, <3>2, Zenon
      <3>3. CASE j # n
        BY <2>8, <2>9, <3>1, <3>3, Zenon
      <3> QED BY <3>2, <3>3, Zenon
    <2>13. Sorts(f, U, key)
      BY <2>10, <2>11, <2>12, Zenon DEF Sorts, n
    <2> QED BY <2>13, Zenon
  <1> QED BY <1>2, Zenon

(* What sorting a finite set by integer keys returns: a list of all its    *)
(* elements, each once, whose keys do not decrease.                        *)
LEMMA SortedByProperties ==
    ASSUME NEW S, IsFiniteSet(S), NEW key \in [S -> Int]
    PROVE  /\ Cardinality(S) \in Nat
           /\ Sorts(SortedBy(S, key), S, key)
           /\ \A x \in S : \E i \in 1..Cardinality(S) : SortedBy(S, key)[i] = x
  <1> DEFINE n == Cardinality(S)
             f == SortedBy(S, key)
  <1>1. n \in Nat
    BY FS_CardinalityType, Zenon
  <1>2. \E g \in [1..n -> S] : /\ \A i, j \in 1..n : g[i] = g[j] => i = j
                               /\ \A i, j \in 1..n : i < j => key[g[i]] <= key[g[j]]
    BY SortingExists, Zenon DEF Sorts
  <1>3. /\ f \in [1..n -> S]
        /\ \A i, j \in 1..n : f[i] = f[j] => i = j
        /\ \A i, j \in 1..n : i < j => key[f[i]] <= key[f[j]]
    <2> HIDE DEF n
    <2> QED BY <1>2, Zenon DEF SortedBy, n
  <1> HIDE DEF f
  <1>4. f \in Injection(1..n, S)
    BY <1>3, Zenon DEF Injection, IsInjective
  <1>5. IsFiniteSet(1..n) /\ Cardinality(1..n) = n
    BY <1>1, FS_Interval
  <1>6. f \in Surjection(1..n, S)
    BY <1>4, <1>5, FS_Injection, Zenon
  <1>7. \A x \in S : \E i \in 1..n : f[i] = x
    BY <1>6, Zenon DEF Surjection
  <1> QED BY <1>1, <1>3, <1>7, Zenon DEF Sorts, f

(* A finite set of integers in increasing order.                           *)
LEMMA AscendingProperties ==
    ASSUME NEW S, IsFiniteSet(S), S \subseteq Int
    PROVE  /\ Cardinality(S) \in Nat
           /\ Ascending(S) \in [1..Cardinality(S) -> S]
           /\ \A i, j \in 1..Cardinality(S) : i < j => Ascending(S)[i] < Ascending(S)[j]
           /\ \A x \in S : \E i \in 1..Cardinality(S) : Ascending(S)[i] = x
  <1>1. PICK key \in [S -> Int] : key = [x \in S |-> x]
    BY Zenon
  <1> DEFINE n == Cardinality(S)
             f == SortedBy(S, key)
  <1>2. Ascending(S) = f /\ \A x \in S : key[x] = x
    BY <1>1, Zenon DEF Ascending
  <1>3. /\ n \in Nat /\ Sorts(f, S, key)
        /\ \A x \in S : \E i \in 1..n : f[i] = x
    BY SortedByProperties, Zenon
  <1>4. /\ f \in [1..n -> S]
        /\ \A i, j \in 1..n : f[i] = f[j] => i = j
        /\ \A i, j \in 1..n : i < j => key[f[i]] <= key[f[j]]
    BY <1>3, Zenon DEF Sorts
  <1> HIDE DEF f, n
  <1>5. ASSUME NEW i \in 1..n, NEW j \in 1..n, i < j PROVE f[i] < f[j]
    <2>1. f[i] \in S /\ f[j] \in S /\ f[i] # f[j] /\ key[f[i]] <= key[f[j]]
      BY <1>3, <1>4, <1>5
    <2>2. f[i] \in Int /\ f[j] \in Int /\ f[i] # f[j] /\ f[i] <= f[j]
      BY <1>2, <2>1, Zenon
    <2> QED BY <2>2
  <1> QED BY <1>2, <1>3, <1>4, <1>5, Zenon DEF n

(* A set of positions of a list is a finite set of integers.               *)
LEMMA PositionsFinite ==
    ASSUME NEW n \in Nat, NEW P, P \subseteq 1..n
    PROVE  IsFiniteSet(P) /\ P \subseteq Int
  <1>1. IsFiniteSet(1..n)
    BY FS_Interval
  <1>2. P \in SUBSET (1..n)
    BY Zenon
  <1>3. IsFiniteSet(P)
    BY <1>1, <1>2, FS_Subset, Zenon
  <1> QED BY <1>3

(* The elements of s at the positions P are in X.                          *)
Holds(s, P, X) == \A i \in P : s[i] \in X

(* The elements of t are those of s at the positions P.                    *)
Picks(t, s, P) == /\ \A k \in DOMAIN t : \E i \in P : t[k] = s[i]
                  /\ \A i \in P : \E k \in DOMAIN t : t[k] = s[i]

(* A list filtered by position is a list of exactly the elements at those  *)
(* positions.                                                              *)
LEMMA PickList ==
    ASSUME NEW s, NEW P, IsFiniteSet(P), P \subseteq Int, NEW X, Holds(s, P, X)
    PROVE  Pick(s, P) \in Seq(X) /\ Picks(Pick(s, P), s, P)
  <1> DEFINE n == Cardinality(P)
             f == Ascending(P)
             t == Pick(s, P)
  <1>1. /\ n \in Nat /\ f \in [1..n -> P]
        /\ \A x \in P : \E i \in 1..n : f[i] = x
    BY AscendingProperties, Zenon
  <1> HIDE DEF n, f
  <1>2. DOMAIN f = 1..n
    BY <1>1, Zenon
  <1>3. t = [k \in 1..n |-> s[f[k]]]
    BY <1>2, Zenon DEF Pick, f
  <1>4. DOMAIN t = 1..n /\ \A k \in 1..n : f[k] \in P /\ t[k] = s[f[k]]
    BY <1>1, <1>3, Zenon
  <1> HIDE DEF t
  <1>5. \A k \in 1..n : \E i \in P : t[k] = s[i]
    BY <1>4, Zenon
  <1>6. \A i \in P : \E k \in 1..n : t[k] = s[i]
    BY <1>1, <1>4
  <1>7. \A k \in 1..n : t[k] \in X
    BY <1>5, Zenon DEF Holds
  <1>8. t = [k \in 1..n |-> t[k]]
    BY <1>3, <1>4, Zenon
  <1>9. t \in Seq(X)
    BY <1>1, <1>7, <1>8
  <1> QED BY <1>4, <1>5, <1>6, <1>9, Zenon DEF t, Picks

-------------------------------------------------------------------------------
(* Joining lists                                                           *)

(* The elements of a concatenation.                                        *)
LEMMA ConcatElements ==
    ASSUME NEW X, NEW a \in Seq(X), NEW b \in Seq(X)
    PROVE  Range(a \o b) = Range(a) \cup Range(b)
  <1>1. ASSUME NEW j \in DOMAIN (a \o b)
        PROVE  \/ j \in DOMAIN a /\ (a \o b)[j] = a[j]
               \/ j - Len(a) \in DOMAIN b /\ (a \o b)[j] = b[j - Len(a)]
    BY <1>1
  <1>2. ASSUME NEW j \in DOMAIN a PROVE j \in DOMAIN (a \o b) /\ (a \o b)[j] = a[j]
    BY <1>2
  <1>3. ASSUME NEW j \in DOMAIN b
        PROVE  Len(a) + j \in DOMAIN (a \o b) /\ (a \o b)[Len(a) + j] = b[j]
    BY <1>3
  <1>4. ASSUME NEW x \in Range(a \o b) PROVE x \in Range(a) \cup Range(b)
    BY <1>1, <1>4, Zenon DEF Range
  <1>5. ASSUME NEW x \in Range(a) \cup Range(b) PROVE x \in Range(a \o b)
    BY <1>2, <1>3, <1>5, Zenon DEF Range
  <1> QED BY <1>4, <1>5, Zenon

(* The equation of the function that Joined defines.                       *)
Joins(g, k, seqs) ==
    g = [i \in 0..k |-> IF i = 0 THEN <<>> ELSE g[i - 1] \o seqs[i]]

(* The function exists.                                                    *)
LEMMA JoinExists ==
    ASSUME NEW seqs, NEW n \in Nat
    PROVE  \E g : Joins(g, n, seqs)
  <1> DEFINE Bad == {k \in Nat : ~\E g : Joins(g, k, seqs)}
  <1>1. ASSUME Bad # {} PROVE FALSE
    <2>1. PICK k \in Bad : \A j \in Bad : k <= j
      <3>1. Bad \subseteq Nat
        BY Zenon
      <3> HIDE DEF Bad
      <3> QED BY <1>1, <3>1, LeastNatural, Zenon
    <2>2. k \in Nat /\ ~\E g : Joins(g, k, seqs)
      BY Zenon
    <2>3. k # 0
      <3>1. Joins([i \in 0..0 |-> <<>>], 0, seqs)
        BY DEF Joins
      <3> QED BY <2>2, <3>1, Zenon
    <2>4. k - 1 \in Nat /\ k - 1 \notin Bad
      <3> HIDE DEF Bad
      <3> QED BY <2>1, <2>2, <2>3
    <2>5. PICK g : g = [i \in 0..(k - 1) |-> IF i = 0 THEN <<>> ELSE g[i - 1] \o seqs[i]]
      BY <2>4, Zenon DEF Joins
    <2> DEFINE h == [i \in 0..k |-> IF i < k THEN g[i] ELSE g[i - 1] \o seqs[i]]
    <2>6. \A i \in 0..k : h[i] = IF i = 0 THEN <<>> ELSE h[i - 1] \o seqs[i]
      <3> SUFFICES ASSUME NEW i \in 0..k
                   PROVE  h[i] = IF i = 0 THEN <<>> ELSE h[i - 1] \o seqs[i]
        BY Zenon
      <3>1. i # 0 => i - 1 \in 0..k /\ i - 1 < k
        BY <2>2
      <3>2. i # 0 => h[i - 1] = g[i - 1]
        BY <3>1, Zenon
      <3>3. CASE i < k
        <4>1. h[i] = g[i] /\ i \in 0..(k - 1)
          BY <2>2, <3>3
        <4>2. g[i] = IF i = 0 THEN <<>> ELSE g[i - 1] \o seqs[i]
          BY <2>5, <4>1, Zenon
        <4> QED BY <3>2, <4>1, <4>2, Zenon
      <3>4. CASE ~(i < k)
        <4>1. i # 0
          BY <2>2, <2>3, <3>4
        <4>2. h[i] = g[i - 1] \o seqs[i]
          BY <3>4, Zenon
        <4> QED BY <3>2, <4>1, <4>2, Zenon
      <3> QED BY <3>3, <3>4, Zenon
    <2>7. Joins(h, k, seqs)
      <3>1. h = [i \in 0..k |-> h[i]]
        BY Zenon
      <3> HIDE DEF h
      <3> QED BY <2>6, <3>1, Zenon DEF Joins
    <2> QED BY <2>2, <2>7, Zenon
  <1> QED BY <1>1, Zenon

Lists(seqs, n, X) == seqs \in [1..n -> Seq(X)]

(* The elements of the first k lists.                                      *)
Elements(seqs, k) == UNION {Range(seqs[i]) : i \in 1..k}

(* Its values are lists of the elements of the lists joined so far.        *)
LEMMA JoinElements ==
    ASSUME NEW X, NEW n \in Nat, NEW seqs, Lists(seqs, n, X), NEW g, Joins(g, n, seqs)
    PROVE  \A k \in 0..n : /\ g[k] \in Seq(X)
                           /\ Range(g[k]) = Elements(seqs, k)
  <1> DEFINE Good(m) ==
               /\ g[m] \in Seq(X)
               /\ Range(g[m]) = Elements(seqs, m)
             Bad == {m \in 0..n : ~Good(m)}
  <1>0. \A i \in 1..n : seqs[i] \in Seq(X)
    BY Zenon DEF Lists
  <1>1. \A i \in 0..n : g[i] = IF i = 0 THEN <<>> ELSE g[i - 1] \o seqs[i]
    BY Zenon DEF Joins
  <1>2. ASSUME Bad # {} PROVE FALSE
    <2>1. PICK m \in Bad : \A j \in Bad : m <= j
      <3>1. Bad \subseteq Nat
        OBVIOUS
      <3> HIDE DEF Bad
      <3> QED BY <1>2, <3>1, LeastNatural, Zenon
    <2>2. m \in 0..n /\ ~Good(m)
      BY Zenon
    <2>3. CASE m = 0
      <3>1. g[0] = <<>> /\ 1..0 = {}
        BY <1>1, <2>2, <2>3
      <3>2. Elements(seqs, 0) = {} /\ Range(<<>>) = {} /\ <<>> \in Seq(X)
        BY <3>1 DEF Elements, Range
      <3> QED BY <2>2, <2>3, <3>1, <3>2, Zenon
    <2>4. CASE m # 0
      <3>1. m - 1 \in 0..n /\ m - 1 \notin Bad
        <4>1. m - 1 \in 0..n /\ ~(m <= m - 1)
          BY <2>2, <2>4
        <4> HIDE DEF Bad
        <4> QED BY <2>1, <4>1, Zenon
      <3>2. Good(m - 1)
        BY <3>1, Zenon
      <3>3. g[m] = g[m - 1] \o seqs[m] /\ seqs[m] \in Seq(X)
        <4>1. m \in 1..n /\ m \in 0..n
          BY <2>2, <2>4
        <4>2. seqs[m] \in Seq(X)
          BY <1>0, <4>1, Zenon
        <4> HIDE DEF Good
        <4> QED BY <1>1, <2>4, <4>1, <4>2, Zenon
      <3>4. g[m] \in Seq(X)
        BY <3>2, <3>3
      <3>5. Range(g[m]) = Range(g[m - 1]) \cup Range(seqs[m])
        BY <3>2, <3>3, ConcatElements
      <3>6. \A i : i \in 1..m <=> i \in 1..(m - 1) \/ i = m
        BY <2>2, <2>4
      <3>7. Elements(seqs, m) = Elements(seqs, m - 1) \cup Range(seqs[m])
        BY <3>6, Zenon DEF Elements
      <3> QED BY <2>2, <3>2, <3>4, <3>5, <3>7, Zenon
    <2> QED BY <2>3, <2>4, Zenon
  <1> QED BY <1>2, Zenon

(* Joining lists gives a list of their elements.                           *)
LEMMA JoinedProperties ==
    ASSUME NEW X, NEW n \in Nat, NEW seqs \in [1..n -> Seq(X)]
    PROVE  /\ Joined(seqs) \in Seq(X)
           /\ Range(Joined(seqs)) = Elements(seqs, n)
  <1>1. Len(seqs) = n
    OBVIOUS
  <1>2. PICK g : g = CHOOSE f : f = [i \in 0..n |-> IF i = 0 THEN <<>> ELSE f[i - 1] \o seqs[i]]
    BY Zenon
  <1>3. Joined(seqs) = g[n]
    BY <1>1, <1>2, Zenon DEF Joined
  <1>4. Joins(g, n, seqs)
    <2>1. \E f : f = [i \in 0..n |-> IF i = 0 THEN <<>> ELSE f[i - 1] \o seqs[i]]
      BY JoinExists, Zenon DEF Joins
    <2> QED BY <1>2, <2>1, Zenon DEF Joins
  <1>5. Lists(seqs, n, X)
    BY Zenon DEF Lists
  <1>6. \A k \in 0..n : g[k] \in Seq(X) /\ Range(g[k]) = Elements(seqs, k)
    BY <1>4, <1>5, JoinElements
  <1> QED BY <1>3, <1>6

-------------------------------------------------------------------------------
(* Strictly increasing lists                                               *)

Increasing(f, n) == /\ f \in [1..n -> Int]
                    /\ \A i, j \in 1..n : i < j => f[i] < f[j]

(* Every element of f is one of g.                                         *)
Within(f, m, g, n) == \A i \in 1..m : \E j \in 1..n : g[j] = f[i]

(* Two strictly increasing lists agree as far as both go, if all elements  *)
(* of each are elements of the other.                                      *)
LEMMA IncreasingAgree ==
    ASSUME NEW m \in Nat, NEW n \in Nat, NEW f, NEW g, Increasing(f, m), Increasing(g, n),
           Within(f, m, g, n), Within(g, n, f, m)
    PROVE  \A i \in 1..m : i \in 1..n /\ f[i] = g[i]
  <1> DEFINE Bad == {i \in 1..m : ~(i \in 1..n /\ f[i] = g[i])}
  <1>1. /\ \A i \in 1..m : f[i] \in Int
        /\ \A i \in 1..n : g[i] \in Int
        /\ \A i, j \in 1..m : i < j => f[i] < f[j]
        /\ \A i, j \in 1..n : i < j => g[i] < g[j]
    BY Zenon DEF Increasing
  <1>2. ASSUME Bad # {} PROVE FALSE
    <2>1. PICK k \in Bad : \A j \in Bad : k <= j
      <3>1. Bad \subseteq Nat
        OBVIOUS
      <3> HIDE DEF Bad
      <3> QED BY <1>2, <3>1, LeastNatural, Zenon
    <2>2. k \in 1..m /\ ~(k \in 1..n /\ f[k] = g[k])
      BY Zenon
    <2>3. \A i \in 1..m : i < k => i \in 1..n /\ f[i] = g[i]
      <3>1. \A i \in 1..m : i < k => i \notin Bad
        <4> HIDE DEF Bad
        <4> QED BY <2>1, <2>2
      <3> QED BY <3>1, Zenon
    <2>4. PICK j \in 1..n : g[j] = f[k]
      BY <2>2, Zenon DEF Within
    <2>5. ~(j < k)
      <3> SUFFICES ASSUME j < k PROVE FALSE
        BY Zenon
      <3>1. j \in 1..m /\ f[j] = g[j] /\ f[j] < f[k]
        BY <1>1, <2>2, <2>3
      <3> QED BY <1>1, <2>4, <3>1
    <2>6. k \in 1..n /\ k < j
      <3>1. j # k
        BY <2>2, <2>4, Zenon
      <3> QED BY <2>2, <2>4, <2>5, <3>1
    <2>7. PICK i \in 1..m : f[i] = g[k]
      BY <2>6, Zenon DEF Within
    <2>8. g[k] < f[k]
      BY <1>1, <2>4, <2>6, Zenon
    <2>9. i < k
      <3>1. i = k \/ k < i \/ i < k
        BY <2>2
      <3>2. CASE k < i
        <4>1. f[k] < f[i] /\ f[k] \in Int /\ f[i] \in Int
          BY <1>1, <2>2, <3>2, Zenon
        <4> QED BY <2>7, <2>8, <4>1
      <3>3. CASE i = k
        BY <1>1, <2>2, <2>7, <2>8, <3>3
      <3> QED BY <3>1, <3>2, <3>3, Zenon
    <2>10. g[i] = g[k] /\ i \in 1..n
      BY <2>3, <2>7, <2>9, Zenon
    <2>11. g[i] < g[k] /\ g[k] \in Int
      BY <1>1, <2>6, <2>9, <2>10, Zenon
    <2> QED BY <2>10, <2>11
  <1> QED BY <1>2, Zenon

(* A strictly increasing list is determined by its elements.               *)
LEMMA IncreasingUnique ==
    ASSUME NEW m \in Nat, NEW n \in Nat, NEW f, NEW g, Increasing(f, m), Increasing(g, n),
           Within(f, m, g, n), Within(g, n, f, m)
    PROVE  m = n /\ f = g
  <1>1. \A i \in 1..m : i \in 1..n /\ f[i] = g[i]
    BY IncreasingAgree, Zenon
  <1>2. \A i \in 1..n : i \in 1..m /\ g[i] = f[i]
    BY IncreasingAgree, Zenon
  <1>3. m = n
    BY <1>1, <1>2
  <1> QED BY <1>1, <1>3 DEF Increasing
================================================================================
