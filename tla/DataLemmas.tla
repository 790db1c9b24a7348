----------------------------- MODULE DataLemmas -----------------------------
(***************************************************************************)
(* Induction over data, in a form the provers can use: its parameters are  *)
(* sets and functions, never operators.                                    *)
(***************************************************************************)
EXTENDS PythonLists, FiniteSets, FiniteSetTheorems, SequenceTheorems,
        WellFoundedInduction, TLAPS

\* A set of naturals that is not empty has a least element.
LEMMA LeastNumber ==
  ASSUME NEW S, S \subseteq Nat, S # {}
  PROVE  \E n \in S : \A m \in S : n <= m
<1>1. PICK n \in S : \A m \in S : ~ (<<m, n>> \in OpToRel(<, Nat))
  BY NatLessThanWellFounded, WFMin
<1>2. \A m \in S : ~ (m < n)
  BY <1>1 DEF OpToRel
<1> QED BY <1>2

\* A set that has 0, and the successor of each of its numbers up to n, has all of
\* them: an induction whose predicate is membership in a set.
LEMMA UpTo ==
  ASSUME NEW n \in Nat, NEW S, 0 \in S, \A k \in 0..n : k \in S /\ k < n => k + 1 \in S
  PROVE  \A k \in 0..n : k \in S
<1> DEFINE Bad == {k \in 0..n : k \notin S}
<1>1. Bad \subseteq Nat /\ \A k : k \in Bad <=> k \in 0..n /\ k \notin S
  OBVIOUS
<1> HIDE DEF Bad
<1>2. ASSUME Bad # {} PROVE FALSE
  <2>1. PICK k \in Bad : \A j \in Bad : k <= j
    BY <1>1, <1>2, LeastNumber
  <2>2. k \in 0..n /\ k # 0
    BY <1>1, <2>1
  <2>3. k - 1 \in 0..n /\ k - 1 < n /\ ~ (k <= k - 1)
    BY <2>2
  <2>4. k - 1 \in S
    BY <1>1, <2>1, <2>3
  <2>5. (k - 1) + 1 \in S
    BY <2>3, <2>4
  <2> QED BY <1>1, <2>1, <2>2, <2>5
<1> QED BY <1>1, <1>2

\* Max of indices is the largest of them.
LEMMA LargestIndex ==
  ASSUME NEW n \in Nat, NEW S, S \subseteq 1..n, S # {}
  PROVE  Max(S) \in S /\ \A m \in S : m <= Max(S)
<1> DEFINE D == {n - x : x \in S}
<1>1. \A x \in S : x \in Int /\ n - x \in Nat
  OBVIOUS
<1>2. D \subseteq Nat
  BY <1>1
<1>3. D # {}
  OBVIOUS
<1>4. \A d \in D : \E x \in S : d = n - x
  OBVIOUS
<1>5. \A y \in S : n - y \in D
  OBVIOUS
<1> HIDE DEF D
<1>6. PICK d \in D : \A e \in D : d <= e
  BY <1>2, <1>3, LeastNumber
<1>7. PICK x \in S : d = n - x
  BY <1>4, <1>6
<1>8. \A y \in S : y <= x
  BY <1>1, <1>5, <1>6, <1>7
<1> QED BY <1>8 DEF Max

\* What MapThenFoldSet's function satisfies on the indices up to n: the largest
\* index of a set is folded last.
FoldsTo(f, base, step, n) ==
  \A s \in SUBSET (1..n) : f[s] = IF s = {} THEN base ELSE step[<<f[s \ {Max(s)}], Max(s)>>]

\* One more index.
LEMMA FoldExtends ==
  ASSUME NEW n \in Nat, NEW T, NEW base \in T, NEW step \in [T \X (1..(n + 1)) -> T],
         NEW f \in [SUBSET (1..n) -> T], FoldsTo(f, base, step, n)
  PROVE  \E g \in [SUBSET (1..(n + 1)) -> T] : FoldsTo(g, base, step, n + 1)
<1> DEFINE k == n + 1
           g == [s \in SUBSET (1..k) |-> IF k \in s THEN step[<<f[s \ {k}], k>>] ELSE f[s]]
<1>1. k \in 1..k /\ k \in Nat
  OBVIOUS
<1>2. ASSUME NEW s \in SUBSET (1..k) PROVE s \ {k} \in SUBSET (1..n)
  OBVIOUS
<1>3. ASSUME NEW s \in SUBSET (1..k), k \notin s PROVE s \in SUBSET (1..n)
  BY <1>2, <1>3
<1>4. ASSUME NEW s \in SUBSET (1..k), k \in s PROVE s # {} /\ Max(s) = k
  <2>1. s # {} /\ s \subseteq 1..k
    BY <1>4
  <2>2. Max(s) \in s /\ \A m \in s : m <= Max(s)
    BY <1>1, <2>1, LargestIndex
  <2>3. Max(s) \in 1..k
    BY <2>1, <2>2
  <2>4. k <= Max(s)
    BY <1>4, <2>2
  <2>5. Max(s) = k
    BY <1>1, <2>3, <2>4
  <2> QED BY <2>1, <2>5
<1> HIDE DEF k
<1>5. ASSUME NEW s \in SUBSET (1..k)
      PROVE  g[s] = (IF k \in s THEN step[<<f[s \ {k}], k>>] ELSE f[s]) /\ g[s] \in T
  <2>1. CASE k \in s
    <3>1. f[s \ {k}] \in T
      BY <1>2
    <3>2. step[<<f[s \ {k}], k>>] \in T
      BY <1>1, <3>1 DEF k
    <3> QED BY <2>1, <3>2
  <2>2. CASE k \notin s
    <3>1. f[s] \in T
      BY <1>3, <2>2
    <3> QED BY <2>2, <3>1
  <2> QED BY <2>1, <2>2
<1>6. g \in [SUBSET (1..k) -> T]
  BY <1>5
<1> HIDE DEF g
<1>7. ASSUME NEW s \in SUBSET (1..k)
      PROVE  g[s] = IF s = {} THEN base ELSE step[<<g[s \ {Max(s)}], Max(s)>>]
  <2>1. CASE k \in s
    <3>1. s \ {k} \in SUBSET (1..k) /\ k \notin s \ {k}
      OBVIOUS
    <3>2. g[s \ {k}] = f[s \ {k}]
      BY <1>5, <3>1
    <3>3. g[s] = step[<<f[s \ {k}], k>>]
      BY <1>5, <2>1
    <3> QED BY <1>4, <2>1, <3>2, <3>3
  <2>2. CASE k \notin s
    <3>1. s \in SUBSET (1..n) /\ g[s] = f[s]
      BY <1>3, <1>5, <2>2
    <3>2. f[s] = IF s = {} THEN base ELSE step[<<f[s \ {Max(s)}], Max(s)>>]
      BY <3>1 DEF FoldsTo
    <3>3. s \ {Max(s)} \in SUBSET (1..k) /\ k \notin s \ {Max(s)}
      BY <2>2
    <3>4. g[s \ {Max(s)}] = f[s \ {Max(s)}]
      BY <1>5, <3>3
    <3> QED BY <3>1, <3>2, <3>4
  <2> QED BY <2>1, <2>2
<1>8. FoldsTo(g, base, step, k)
  BY <1>7 DEF FoldsTo
<1> QED BY <1>6, <1>8 DEF k

\* The recursive function that a fold over n indices is defined by exists.
LEMMA FoldDefined ==
  ASSUME NEW n \in Nat, NEW T, NEW base \in T, NEW step \in [T \X (1..n) -> T]
  PROVE  \E f \in [SUBSET (1..n) -> T] : FoldsTo(f, base, step, n)
<1> DEFINE S == {k \in 0..n : \E f \in [SUBSET (1..k) -> T] : FoldsTo(f, base, step, k)}
<1>1. \A k : k \in S <=> k \in 0..n /\ \E f \in [SUBSET (1..k) -> T] : FoldsTo(f, base, step, k)
  OBVIOUS
<1> HIDE DEF S
<1>2. 0 \in S
  <2>1. 0 \in 0..n /\ SUBSET (1..0) = {{}}
    OBVIOUS
  <2> DEFINE f == [s \in SUBSET (1..0) |-> base]
  <2>2. f \in [SUBSET (1..0) -> T] /\ FoldsTo(f, base, step, 0)
    BY <2>1 DEF FoldsTo
  <2> QED BY <1>1, <2>1, <2>2
<1>3. ASSUME NEW k \in 0..n, k \in S, k < n PROVE k + 1 \in S
  <2>1. PICK f \in [SUBSET (1..k) -> T] : FoldsTo(f, base, step, k)
    BY <1>1, <1>3
  <2> DEFINE below == [p \in T \X (1..(k + 1)) |-> step[p]]
  <2>2. \A p \in T \X (1..(k + 1)) : p \in T \X (1..n)
    BY <1>3
  <2>3. below \in [T \X (1..(k + 1)) -> T]
    BY <2>2
  <2>4. \A p \in T \X (1..(k + 1)) : below[p] = step[p]
    OBVIOUS
  <2> HIDE DEF below
  <2>5. ASSUME NEW j \in Nat, j <= k + 1, NEW g \in [SUBSET (1..j) -> T]
        PROVE  FoldsTo(g, base, below, j) <=> FoldsTo(g, base, step, j)
    <3>1. ASSUME NEW s \in SUBSET (1..j), s # {}
          PROVE  below[<<g[s \ {Max(s)}], Max(s)>>] = step[<<g[s \ {Max(s)}], Max(s)>>]
      <4>1. Max(s) \in s
        BY <3>1, LargestIndex
      <4>2. Max(s) \in 1..j
        BY <4>1
      <4> DEFINE m == Max(s)
      <4>4. m \in 1..(k + 1)
        <5> HIDE DEF m
        <5>1. m \in 1..j
          BY <4>2 DEF m
        <5> QED BY <2>5, <5>1
      <4>3. g[s \ {Max(s)}] \in T
        OBVIOUS
      <4> QED BY <2>4, <4>4, <4>3
    <3> QED BY <3>1 DEF FoldsTo
  <2>6. k \in Nat /\ k + 1 \in Nat /\ k <= k + 1
    OBVIOUS
  <2>7. FoldsTo(f, base, below, k)
    BY <2>1, <2>5, <2>6
  <2>8. PICK g \in [SUBSET (1..(k + 1)) -> T] : FoldsTo(g, base, below, k + 1)
    BY <2>3, <2>6, <2>7, FoldExtends
  <2>9. FoldsTo(g, base, step, k + 1)
    BY <2>5, <2>6, <2>8
  <2>10. k + 1 \in 0..n
    BY <1>3
  <2> QED BY <1>1, <2>8, <2>9, <2>10
<1>4. n \in 0..n /\ \A k \in 0..n : k \in S
  BY <1>2, <1>3, UpTo
<1> QED BY <1>1, <1>4

\* The indices up to k + 1 are those up to k and a largest one.
LEMMA LastIndex ==
  ASSUME NEW k \in Nat
  PROVE  /\ 1..(k + 1) # {} /\ Max(1..(k + 1)) = k + 1
         /\ (1..(k + 1)) \ {Max(1..(k + 1))} = 1..k
<1>1. k + 1 \in Nat /\ 1..(k + 1) # {} /\ k + 1 \in 1..(k + 1) /\ 1..(k + 1) \subseteq 1..(k + 1)
  OBVIOUS
<1>2. Max(1..(k + 1)) \in 1..(k + 1) /\ \A m \in 1..(k + 1) : m <= Max(1..(k + 1))
  BY <1>1, LargestIndex
<1>3. Max(1..(k + 1)) = k + 1
  BY <1>1, <1>2
<1> QED BY <1>1, <1>3

OrderedBy(s, key) == \A i, j \in DOMAIN s : i < j => key[s[i]] <= key[s[j]]

\* A finite set can be put in the order of a key: the element with the least key
\* first, then the others in order.
LEMMA CanBeOrdered ==
  ASSUME NEW S, IsFiniteSet(S), NEW key \in [S -> Nat]
  PROVE  \E s \in SetToSeqs(S) : OrderedBy(s, key)
<1> DEFINE n == Cardinality(S)
           K == {k \in 0..n : \A U \in SUBSET S :
                   Cardinality(U) = k => \E s \in SetToSeqs(U) : OrderedBy(s, key)}
<1>1. n \in Nat
  BY FS_CardinalityType
<1>2. \A U \in SUBSET S : IsFiniteSet(U)
  BY FS_Subset
<1>3. \A k : k \in K <=> /\ k \in 0..n
                         /\ \A U \in SUBSET S :
                              Cardinality(U) = k => \E s \in SetToSeqs(U) : OrderedBy(s, key)
  OBVIOUS
<1> HIDE DEF n, K
<1>4. 0 \in K
  <2>1. ASSUME NEW U \in SUBSET S, Cardinality(U) = 0
        PROVE  \E s \in SetToSeqs(U) : OrderedBy(s, key)
    <3>1. U = {}
      BY <1>2, <2>1, FS_EmptySet
    <3> DEFINE s == [i \in 1..0 |-> 0]
    <3>2. s \in [1..Cardinality(U) -> U] /\ \A i \in 1..Cardinality(U) : FALSE
      BY <2>1
    <3>3. s \in SetToSeqs(U)
      BY <3>2 DEF SetToSeqs
    <3>4. OrderedBy(s, key)
      BY DEF OrderedBy
    <3> QED BY <3>3, <3>4
  <2> QED BY <1>1, <1>3, <2>1
<1>5. ASSUME NEW k \in 0..n, k \in K, k < n PROVE k + 1 \in K
  <2>1. ASSUME NEW U \in SUBSET S, Cardinality(U) = k + 1
        PROVE  \E s \in SetToSeqs(U) : OrderedBy(s, key)
    <3> DEFINE keys == {key[u] : u \in U}
    <3>1. U # {}
      BY <2>1, FS_EmptySet
    <3>2. keys \subseteq Nat /\ keys # {} /\ \A u \in U : key[u] \in keys
      BY <3>1
    <3>3. \A m \in keys : \E u \in U : m = key[u]
      OBVIOUS
    <3> HIDE DEF keys
    <3>4. PICK m \in keys : \A j \in keys : m <= j
      BY <3>2, LeastNumber
    <3>5. PICK x \in U : m = key[x]
      BY <3>3
    <3>6. \A u \in U : key[x] <= key[u]
      BY <3>2, <3>4, <3>5
    <3>7. Cardinality(U \ {x}) = k /\ U \ {x} \in SUBSET S
      <4>1. IsFiniteSet(U)
        BY <1>2
      <4>2. Cardinality(U \ {x}) = Cardinality(U) - 1
        BY <4>1, FS_RemoveElement
      <4> QED BY <2>1, <4>2
    <3>8. PICK t \in SetToSeqs(U \ {x}) : OrderedBy(t, key)
      BY <1>3, <1>5, <3>7
    <3>9. /\ t \in [1..k -> U \ {x}]
          /\ \A i, j \in 1..k : i # j => t[i] # t[j]
          /\ \A i, j \in 1..k : i < j => key[t[i]] <= key[t[j]]
      BY <3>7, <3>8 DEF SetToSeqs, OrderedBy
    <3> DEFINE s == [i \in 1..(k + 1) |-> IF i = 1 THEN x ELSE t[i - 1]]
    <3>10. ASSUME NEW i \in 1..(k + 1)
           PROVE  /\ i = 1 => s[i] = x
                  /\ i # 1 => i - 1 \in 1..k /\ s[i] = t[i - 1] /\ s[i] \in U \ {x}
      <4>1. i # 1 => i - 1 \in 1..k
        BY <1>5
      <4> QED BY <3>9, <4>1
    <3>11. DOMAIN s = 1..(k + 1) /\ s \in [1..(k + 1) -> U]
      <4>1. \A i \in 1..(k + 1) : s[i] \in U
        BY <3>10
      <4> QED BY <4>1
    <3> HIDE DEF s
    <3>12. ASSUME NEW i \in 1..(k + 1), NEW j \in 1..(k + 1), i < j
           PROVE  s[i] # s[j] /\ key[s[i]] <= key[s[j]]
      <4>1. j # 1 /\ j - 1 \in 1..k /\ s[j] = t[j - 1] /\ s[j] \in U \ {x}
        BY <3>10, <3>12
      <4>2. CASE i = 1
        BY <3>6, <3>10, <4>1, <4>2
      <4>3. CASE i # 1
        <5>1. i - 1 \in 1..k /\ s[i] = t[i - 1]
          BY <3>10, <4>3
        <5>2. i - 1 < j - 1 /\ i - 1 # j - 1
          BY <1>5, <3>12
        <5> QED BY <3>9, <4>1, <5>1, <5>2
      <4> QED BY <4>2, <4>3
    <3>13. \A i, j \in 1..(k + 1) : i # j => s[i] # s[j]
      <4>1. \A i, j \in 1..(k + 1) : i # j => i < j \/ j < i
        BY <1>5
      <4> QED BY <3>12, <4>1
    <3>14. s \in SetToSeqs(U)
      BY <2>1, <3>11, <3>13 DEF SetToSeqs
    <3>15. OrderedBy(s, key)
      BY <3>11, <3>12 DEF OrderedBy
    <3> QED BY <3>14, <3>15
  <2>2. k + 1 \in 0..n
    BY <1>1, <1>5
  <2> QED BY <1>3, <2>1, <2>2
<1>6. \A k \in 0..n : k \in K
  BY <1>1, <1>4, <1>5, UpTo
<1>7. n \in 0..n /\ S \in SUBSET S
  BY <1>1
<1> QED BY <1>3, <1>6, <1>7 DEF n

\* What the elements of a sequence that has those of a finite set are, and how
\* many there are.
LEMMA SetToSeqsElements ==
  ASSUME NEW S, IsFiniteSet(S), NEW s \in SetToSeqs(S)
  PROVE  s \in Seq(S) /\ Len(s) = Cardinality(S) /\ ToSet(s) = S
<1>1. Cardinality(S) \in Nat
  BY FS_CardinalityType
<1>2. s \in [1..Cardinality(S) -> S] /\ \A i, j \in 1..Cardinality(S) : i # j => s[i] # s[j]
  BY DEF SetToSeqs
<1>3. s \in Seq(S) /\ Len(s) = Cardinality(S)
  BY <1>1, <1>2
<1>4. ToSet(s) = S
  <2>1. s \in Injection(1..Cardinality(S), S)
    BY <1>2 DEF Injection, IsInjective
  <2>2. IsFiniteSet(1..Cardinality(S)) /\ Cardinality(1..Cardinality(S)) = Cardinality(S)
    BY <1>1, FS_Interval
  <2>3. s \in Surjection(1..Cardinality(S), S)
    BY <2>1, <2>2, FS_Injection
  <2>4. \A x \in S : \E i \in DOMAIN s : s[i] = x
    BY <2>3 DEF Surjection
  <2>5. \A i \in DOMAIN s : s[i] \in S
    BY <1>2
  <2> QED BY <2>4, <2>5 DEF ToSet
<1> QED BY <1>3, <1>4

-----------------------------------------------------------------------------
(* List comprehensions.                                                    *)

\* Filter reads its sequence from left to right.
LEMMA FilterSteps ==
  ASSUME NEW T, NEW s \in Seq(T), NEW S
  PROVE  \E f \in [0..Len(s) -> Seq(T)] :
           /\ f[0] = << >> /\ f[Len(s)] = Filter(s, S)
           /\ \A k \in 0..Len(s) : k < Len(s) =>
                f[k + 1] = IF s[k + 1] \in S THEN Append(f[k], s[k + 1]) ELSE f[k]
<1> DEFINE n == Len(s)
           step == [p \in Seq(T) \X (1..n) |->
                      IF s[p[2]] \in S THEN Append(p[1], s[p[2]]) ELSE p[1]]
           Def(h) == [t \in SUBSET DOMAIN s |->
                        IF t = {} THEN << >>
                        ELSE IF s[Max(t)] \in S THEN Append(h[t \ {Max(t)}], s[Max(t)])
                             ELSE h[t \ {Max(t)}]]
           iter == CHOOSE h : h = Def(h)
           f == [k \in 0..n |-> iter[1..k]]
<1>1. n \in Nat /\ DOMAIN s = 1..n /\ << >> \in Seq(T)
  OBVIOUS
<1>2. Filter(s, S) = iter[DOMAIN s]
  BY DEF Filter, FoldLeft, MapThenFoldSet
<1>3. step \in [Seq(T) \X (1..n) -> Seq(T)]
  <2>1. ASSUME NEW p \in Seq(T) \X (1..n)
        PROVE  (IF s[p[2]] \in S THEN Append(p[1], s[p[2]]) ELSE p[1]) \in Seq(T)
    <3>1. p[1] \in Seq(T) /\ p[2] \in 1..n
      OBVIOUS
    <3>2. s[p[2]] \in T
      BY <3>1
    <3>3. Append(p[1], s[p[2]]) \in Seq(T)
      BY <3>1, <3>2
    <3> QED BY <3>1, <3>3
  <2> QED BY <2>1
<1>4. \A q \in Seq(T), i \in 1..n :
        step[<<q, i>>] = IF s[i] \in S THEN Append(q, s[i]) ELSE q
  OBVIOUS
<1> HIDE DEF step, n
<1>5. PICK h \in [SUBSET (1..n) -> Seq(T)] : FoldsTo(h, << >>, step, n)
  BY <1>1, <1>3, FoldDefined
<1>6. h = Def(h)
  <2>1. ASSUME NEW t \in SUBSET (1..n), t # {}
        PROVE  step[<<h[t \ {Max(t)}], Max(t)>>] =
                    IF s[Max(t)] \in S THEN Append(h[t \ {Max(t)}], s[Max(t)])
                             ELSE h[t \ {Max(t)}]
    <3>1. Max(t) \in t
      BY <1>1, <2>1, LargestIndex
    <3>2. Max(t) \in 1..n /\ h[t \ {Max(t)}] \in Seq(T)
      BY <3>1
    <3> QED BY <1>4, <3>2
  <2> QED BY <1>1, <1>5, <2>1 DEF FoldsTo
<1>7. iter = Def(iter)
  BY <1>6
<1> HIDE DEF iter
<1>8. f[0] = << >>
  BY <1>1, <1>7
<1>9. ASSUME NEW k \in 0..n, k < n
      PROVE  f[k + 1] = IF s[k + 1] \in S THEN Append(f[k], s[k + 1]) ELSE f[k]
  <2>1. k \in Nat /\ k + 1 \in 0..n /\ 1..(k + 1) \in SUBSET DOMAIN s
    BY <1>1, <1>9
  <2>2. f[k] = iter[1..k] /\ f[k + 1] = iter[1..(k + 1)]
    BY <2>1
  <2> QED BY <1>7, <2>1, <2>2, LastIndex
<1>10. ASSUME NEW k \in 0..n, k < n, f[k] \in Seq(T) PROVE f[k + 1] \in Seq(T)
  <2>1. s[k + 1] \in T
    BY <1>1, <1>10
  <2>2. Append(f[k], s[k + 1]) \in Seq(T)
    BY <1>10, <2>1
  <2> HIDE DEF f
  <2> QED BY <1>9, <1>10, <2>2
<1>11. \A k \in 0..n : f[k] \in Seq(T)
  <2> DEFINE G == {k \in 0..n : f[k] \in Seq(T)}
  <2> HIDE DEF f
  <2>1. \A k \in 0..n : k < n => k + 1 \in 0..n
    BY <1>1
  <2>2. 0 \in G
    <3>1. 0 \in 0..n /\ << >> \in Seq(T)
      BY <1>1
    <3> QED BY <1>8, <3>1
  <2>3. ASSUME NEW k \in 0..n, k \in G, k < n PROVE k + 1 \in G
    BY <1>10, <2>1, <2>3
  <2> HIDE DEF G
  <2>4. \A k \in 0..n : k \in G
    BY <1>1, <2>2, <2>3, UpTo
  <2> QED BY <2>4 DEF G
<1>12. f[n] = Filter(s, S) /\ f \in [0..n -> Seq(T)]
  BY <1>1, <1>2, <1>11
<1> HIDE DEF f
<1> QED BY <1>8, <1>9, <1>12 DEF n

\* It keeps the elements that are in the set, each as often as it was there.
LEMMA FilterElements ==
  ASSUME NEW T, NEW s \in Seq(T), NEW S
  PROVE  /\ Filter(s, S) \in Seq(T) /\ ToSet(Filter(s, S)) = ToSet(s) \intersect S
         /\ (\A i, j \in DOMAIN s : s[i] = s[j] => i = j) =>
              \A i, j \in DOMAIN Filter(s, S) : Filter(s, S)[i] = Filter(s, S)[j] => i = j
<1> DEFINE n == Len(s)
           once == \A i, j \in DOMAIN s : s[i] = s[j] => i = j
<1>1. PICK f \in [0..n -> Seq(T)] :
        /\ f[0] = << >> /\ f[n] = Filter(s, S)
        /\ \A k \in 0..n : k < n => f[k + 1] = IF s[k + 1] \in S THEN Append(f[k], s[k + 1]) ELSE f[k]
  BY FilterSteps
<1>2. n \in Nat /\ DOMAIN s = 1..n /\ 0 \in 0..n /\ n \in 0..n
  OBVIOUS
<1> DEFINE Upto(k) == {s[i] : i \in 1..k} \intersect S
           Right(k) == /\ {f[k][i] : i \in 1..Len(f[k])} = Upto(k)
                       /\ once => \A i, j \in 1..Len(f[k]) : f[k][i] = f[k][j] => i = j
           G == {k \in 0..n : Right(k)}
<1> HIDE DEF n
<1>3. 0 \in G
  <2>1. 1..0 = {} /\ Len(f[0]) = 0
    BY <1>1
  <2> QED BY <1>2, <2>1
<1>4. ASSUME NEW k \in 0..n, k \in G, k < n PROVE k + 1 \in G
  <2>0. Right(k)
    BY <1>4
  <2>1. k \in Nat /\ k + 1 \in 0..n /\ k + 1 \in 1..n /\ f[k] \in Seq(T) /\ Right(k)
    <3> HIDE DEF Right
    <3>1. k \in Nat /\ k + 1 \in 0..n /\ k + 1 \in 1..n
      BY <1>2, <1>4
    <3> QED BY <2>0, <3>1
  <2>2. Upto(k + 1) = Upto(k) \union ({s[k + 1]} \intersect S)
    <3>1. 1..(k + 1) = 1..k \union {k + 1}
      BY <2>1
    <3> QED BY <3>1
  <2>3. CASE s[k + 1] \in S
    <3>1. PICK e \in T : e = s[k + 1]
      BY <1>2, <2>1 DEF n
    <3>2. PICK q, m : q = f[k] /\ m = Len(q)
      OBVIOUS
    <3>3. q \in Seq(T) /\ m \in Nat /\ f[k + 1] = Append(q, e)
      <4>1. f[k + 1] = Append(f[k], s[k + 1])
        BY <1>1, <1>4, <2>3
      <4>2. q \in Seq(T)
        BY <2>1, <3>2
      <4> QED BY <3>1, <3>2, <4>1, <4>2, LenProperties
    <3>4. /\ Len(Append(q, e)) = m + 1 /\ Append(q, e)[m + 1] = e
          /\ \A i \in 1..m : Append(q, e)[i] = q[i]
      BY <3>2, <3>3, AppendProperties
    <3>5. 1..(m + 1) = 1..m \union {m + 1}
      BY <3>3
    <3>6. {f[k + 1][i] : i \in 1..Len(f[k + 1])} = {q[i] : i \in 1..m} \union {e}
      BY <3>3, <3>4, <3>5
    <3>7. {q[i] : i \in 1..m} = Upto(k)
      BY <2>1, <3>2
    <3>8. ASSUME once, NEW i \in 1..(m + 1), NEW j \in 1..(m + 1), Append(q, e)[i] = Append(q, e)[j]
          PROVE  i = j
      <4>1. \A x \in 1..k : s[x] # e
        <5>1. \A x \in 1..k : x \in DOMAIN s /\ k + 1 \in DOMAIN s /\ x # k + 1
          BY <1>2, <2>1
        <5> QED BY <3>1, <3>8, <5>1
      <4>2. e \notin Upto(k)
        BY <4>1
      <4>3. \A x \in 1..m : q[x] # e
        BY <3>7, <4>2
      <4>4. \A x, y \in 1..m : q[x] = q[y] => x = y
        BY <2>1, <3>2, <3>8
      <4>5. i \in 1..m \/ i = m + 1
        BY <3>5
      <4>6. j \in 1..m \/ j = m + 1
        BY <3>5
      <4> QED BY <3>4, <3>8, <4>3, <4>4, <4>5, <4>6
    <3>9. Right(k + 1)
      BY SMTT(30), <2>2, <2>3, <3>1, <3>3, <3>4, <3>6, <3>7, <3>8
    <3> QED BY <2>1, <3>9
  <2>4. CASE s[k + 1] \notin S
    <3>1. f[k + 1] = f[k] /\ Upto(k + 1) = Upto(k)
      BY <1>1, <1>4, <2>2, <2>4
    <3>2. Right(k + 1)
      <4> HIDE DEF Upto
      <4> QED BY <2>0, <3>1
    <3> QED BY <2>1, <3>2
  <2> QED BY <2>3, <2>4
<1>5. \A k \in 0..n : k \in G
  <2> HIDE DEF G
  <2> QED BY <1>2, <1>3, <1>4, UpTo
<1>6. Right(n)
  BY <1>2, <1>5
<1>7. Upto(n) = ToSet(s) \intersect S
  BY <1>2 DEF ToSet
<1>8. Filter(s, S) \in Seq(T)
  BY <1>1, <1>2
<1>9. DOMAIN Filter(s, S) = 1..Len(Filter(s, S))
  BY <1>8
<1>10. ToSet(Filter(s, S)) = {Filter(s, S)[i] : i \in 1..Len(Filter(s, S))}
  BY <1>9 DEF ToSet
<1> QED BY <1>1, <1>6, <1>7, <1>8, <1>9, <1>10

\* What is in the set altogether stays as it is.
LEMMA FilterNothing ==
  ASSUME NEW T, NEW s \in Seq(T), NEW S, ToSet(s) \subseteq S
  PROVE  Filter(s, S) = s
<1> DEFINE n == Len(s)
<1>1. PICK f \in [0..n -> Seq(T)] :
        /\ f[0] = << >> /\ f[n] = Filter(s, S)
        /\ \A k \in 0..n : k < n => f[k + 1] = IF s[k + 1] \in S THEN Append(f[k], s[k + 1]) ELSE f[k]
  BY FilterSteps
<1>2. n \in Nat /\ 0 \in 0..n /\ n \in 0..n /\ \A i \in 1..n : s[i] \in S
  BY DEF ToSet
<1> DEFINE G == {k \in 0..n : Len(f[k]) = k /\ \A i \in 1..k : f[k][i] = s[i]}
<1>3. 0 \in G
  BY <1>1, <1>2
<1>4. ASSUME NEW k \in 0..n, k \in G, k < n PROVE k + 1 \in G
  <2>1. k \in Nat /\ k + 1 \in 0..n /\ k + 1 \in 1..n /\ s[k + 1] \in T
    BY <1>2, <1>4
  <2>2. PICK q, e : q = f[k] /\ e = s[k + 1]
    OBVIOUS
  <2>3. q \in Seq(T) /\ e \in T /\ Len(q) = k
    BY <1>4, <2>1, <2>2
  <2>4. f[k + 1] = Append(q, e)
    BY <1>1, <1>2, <1>4, <2>1, <2>2
  <2>5. Len(Append(q, e)) = k + 1 /\ Append(q, e)[k + 1] = e /\ \A i \in 1..k : Append(q, e)[i] = q[i]
    BY <2>3, AppendProperties
  <2>6. \A i \in 1..(k + 1) : i \in 1..k \/ i = k + 1
    BY <2>1
  <2>7. \A i \in 1..k : q[i] = s[i]
    BY <1>4, <2>2
  <2> QED BY <2>1, <2>2, <2>4, <2>5, <2>6, <2>7
<1>5. \A k \in 0..n : k \in G
  <2> HIDE DEF G, n
  <2> QED BY <1>2, <1>3, <1>4, UpTo
<1>6. Len(Filter(s, S)) = n /\ \A i \in 1..n : Filter(s, S)[i] = s[i]
  BY <1>1, <1>2, <1>5
<1>7. Filter(s, S) \in Seq(T)
  BY <1>1, <1>2
<1> QED BY <1>6, <1>7, SeqEqual

\* A sequence without repetition is as long as its set is large.
LEMMA LengthWithoutRepetition ==
  ASSUME NEW T, NEW s \in Seq(T), \A i, j \in DOMAIN s : s[i] = s[j] => i = j
  PROVE  IsFiniteSet(ToSet(s)) /\ Len(s) = Cardinality(ToSet(s))
<1>1. Len(s) \in Nat /\ DOMAIN s = 1..Len(s)
  OBVIOUS
<1>2. s \in Bijection(1..Len(s), ToSet(s))
  BY <1>1 DEF Bijection, Injection, Surjection, IsInjective, ToSet
<1>3. IsFiniteSet(1..Len(s)) /\ Cardinality(1..Len(s)) = Len(s)
  BY <1>1, FS_Interval
<1>4. ExistsBijection(1..Len(s), ToSet(s))
  BY <1>2 DEF ExistsBijection
<1> QED BY <1>3, <1>4, FS_Bijection

\* f starts at base, and a step leads from each of its values to the next.
IteratesTo(f, base, step, n) ==
  f[0] = base /\ \A k \in 0..n : k < n => f[k + 1] = step[<<f[k], k + 1>>]

LEMMA IteratesDefined ==
  ASSUME NEW n \in Nat, NEW T, NEW base \in T, NEW step \in [T \X (1..n) -> T]
  PROVE  \E f \in [0..n -> T] : IteratesTo(f, base, step, n)
<1>1. PICK h \in [SUBSET (1..n) -> T] : FoldsTo(h, base, step, n)
  BY FoldDefined
<1> DEFINE f == [k \in 0..n |-> h[1..k]]
<1>2. \A k \in 0..n : 1..k \in SUBSET (1..n)
  OBVIOUS
<1>3. f \in [0..n -> T]
  BY <1>2
<1>4. f[0] = base
  <2>1. 1..0 = {} /\ 0 \in 0..n
    OBVIOUS
  <2> QED BY <1>1, <2>1 DEF FoldsTo
<1>5. ASSUME NEW k \in 0..n, k < n PROVE f[k + 1] = step[<<f[k], k + 1>>]
  <2>1. k \in Nat /\ k + 1 \in 0..n
    BY <1>5
  <2>2. f[k] = h[1..k] /\ f[k + 1] = h[1..(k + 1)]
    BY <2>1
  <2>3. 1..(k + 1) \in SUBSET (1..n)
    BY <1>2, <2>1
  <2>4. h[1..(k + 1)] = step[<<h[(1..(k + 1)) \ {Max(1..(k + 1))}], Max(1..(k + 1))>>]
    BY <1>1, <2>1, <2>3, LastIndex DEF FoldsTo
  <2> QED BY <2>1, <2>2, <2>4, LastIndex
<1> HIDE DEF f
<1> QED BY <1>3, <1>4, <1>5 DEF IteratesTo

FlattensTo(f, ss) ==
  /\ f[0] = << >> /\ f[Len(ss)] = FlattenSeq(ss)
  /\ \A k \in 0..Len(ss) : k < Len(ss) => f[k + 1] = f[k] \o ss[k + 1]

\* FlattenSeq joins its sequences from left to right.
LEMMA FlattenSteps ==
  ASSUME NEW T, NEW ss \in Seq(Seq(T))
  PROVE  \E f \in [0..Len(ss) -> Seq(T)] : FlattensTo(f, ss)
<1> DEFINE n == Len(ss)
           step == [p \in Seq(T) \X (1..n) |-> p[1] \o ss[p[2]]]
           Def(h) == [i \in 1..n |-> IF i = 1 THEN ss[i] ELSE h[i - 1] \o ss[i]]
           iter == CHOOSE h : h = Def(h)
<1>1. n \in Nat /\ DOMAIN ss = 1..n /\ << >> \in Seq(T) /\ \A i \in 1..n : ss[i] \in Seq(T)
  OBVIOUS
<1>2. step \in [Seq(T) \X (1..n) -> Seq(T)]
  <2>1. \A p \in Seq(T) \X (1..n) : p[1] \in Seq(T) /\ ss[p[2]] \in Seq(T)
    BY <1>1
  <2>2. \A p \in Seq(T) \X (1..n) : p[1] \o ss[p[2]] \in Seq(T)
    BY <2>1, ConcatProperties
  <2> QED BY <2>2
<1>3. \A q \in Seq(T), i \in 1..n : step[<<q, i>>] = q \o ss[i]
  OBVIOUS
<1> HIDE DEF step, n
<1>4. PICK f \in [0..n -> Seq(T)] :
        f[0] = << >> /\ \A k \in 0..n : k < n => f[k + 1] = step[<<f[k], k + 1>>]
  <2>1. PICK f \in [0..n -> Seq(T)] : IteratesTo(f, << >>, step, n)
    BY <1>1, <1>2, IteratesDefined
  <2> QED BY <2>1 DEF IteratesTo
<1>5. ASSUME NEW k \in 0..n, k < n PROVE f[k + 1] = f[k] \o ss[k + 1]
  <2>1. k + 1 \in 1..n /\ f[k] \in Seq(T)
    BY <1>1, <1>5
  <2> QED BY <1>3, <1>4, <1>5, <2>1
<1>6. f[n] = FlattenSeq(ss)
  <2>1. CASE n = 0
    <3>1. FlattenSeq(ss) = ss /\ ss = << >>
      BY <2>1 DEF FlattenSeq, n
    <3> QED BY <1>4, <2>1, <3>1
  <2>2. CASE n # 0
    <3> DEFINE h == [i \in 1..n |-> f[i]]
    <3>1. ASSUME NEW i \in 1..n PROVE h[i] = IF i = 1 THEN ss[i] ELSE h[i - 1] \o ss[i]
      <4>1. i - 1 \in 0..n /\ i - 1 < n /\ (i - 1) + 1 = i
        BY <1>1
      <4>2. f[i] = f[i - 1] \o ss[i]
        BY <1>5, <4>1
      <4>3. CASE i = 1
        <5>0. i - 1 = 0
          BY <4>3
        <5>1. f[i] = << >> \o ss[i] /\ ss[i] \in Seq(T)
          BY <1>1, <1>4, <4>2, <5>0
        <5> QED BY <4>3, <5>1, ConcatEmptySeq
      <4>4. CASE i # 1
        <5>1. i - 1 \in 1..n
          BY <1>1, <4>4
        <5> QED BY <4>2, <4>4, <5>1
      <4> QED BY <4>3, <4>4
    <3>2. h = Def(h)
      BY <3>1
    <3>3. iter = Def(iter)
      BY <3>2
    <3> HIDE DEF iter
    <3> DEFINE G == {k \in 0..n : k # 0 => iter[k] = f[k]}
    <3>4. 0 \in G
      BY <1>1
    <3>5. ASSUME NEW k \in 0..n, k \in G, k < n PROVE k + 1 \in G
      <4>1. k + 1 \in 1..n /\ k + 1 \in 0..n /\ (k + 1) - 1 = k
        BY <1>1, <3>5
      <4>2. iter[k + 1] = IF k + 1 = 1 THEN ss[k + 1] ELSE iter[k] \o ss[k + 1]
        BY <3>3, <4>1
      <4>3. f[k + 1] = IF k + 1 = 1 THEN ss[k + 1] ELSE f[k] \o ss[k + 1]
        <5>1. CASE k = 0
          <6>1. f[k + 1] = f[k] \o ss[k + 1] /\ f[k] = << >> /\ ss[k + 1] \in Seq(T)
            BY <1>1, <1>4, <1>5, <3>5, <4>1, <5>1
          <6> QED BY <5>1, <6>1, ConcatEmptySeq
        <5>2. CASE k # 0
          <6>1. k + 1 # 1
            BY <5>2
          <6> QED BY <1>5, <3>5, <6>1
        <5> QED BY <5>1, <5>2
      <4>4. k # 0 => iter[k] = f[k]
        BY <3>5
      <4>5. k = 0 => k + 1 = 1
        OBVIOUS
      <4> QED BY <4>1, <4>2, <4>3, <4>4, <4>5
    <3> HIDE DEF G
    <3>6. \A k \in 0..n : k \in G
      BY <1>1, <3>4, <3>5, UpTo
    <3>7. iter[n] = f[n]
      BY <1>1, <2>2, <3>6 DEF G
    <3>8. FlattenSeq(ss) = iter[n]
      BY <2>2 DEF FlattenSeq, n, iter
    <3> QED BY <3>7, <3>8
  <2> QED BY <2>1, <2>2
<1> QED BY <1>4, <1>5, <1>6 DEF n, FlattensTo

\* What holds of the empty sequence, and of a sequence with one more element if it
\* holds of the sequence, holds of all.
LEMMA SequenceInduction ==
  ASSUME NEW T, NEW G, << >> \in G,
         \A s \in Seq(T), e \in T : s \in G => Append(s, e) \in G
  PROVE  \A s \in Seq(T) : s \in G
<1> SUFFICES ASSUME NEW s \in Seq(T) PROVE s \in G
  OBVIOUS
<1> DEFINE n == Len(s)
           K == {k \in 0..n : \A t \in Seq(T) : Len(t) = k => t \in G}
<1>1. n \in Nat
  OBVIOUS
<1>2. 0 \in K
  <2>1. \A t \in Seq(T) : Len(t) = 0 => t = << >>
    OBVIOUS
  <2> QED BY <1>1, <2>1
<1>3. ASSUME NEW k \in 0..n, k \in K, k < n PROVE k + 1 \in K
  <2>1. ASSUME NEW t \in Seq(T), Len(t) = k + 1 PROVE t \in G
    <3>1. t # << >>
      BY <1>1, <2>1
    <3>2. PICK q \in Seq(T), e \in T : t = Append(q, e)
      BY <3>1, SequenceEmptyOrAppend
    <3>3. Len(t) = Len(q) + 1 /\ Len(q) \in Nat
      BY <3>2, AppendProperties, LenProperties
    <3>4. q \in G
      BY <1>1, <1>3, <2>1, <3>3
    <3> QED BY <3>2, <3>4
  <2>2. k + 1 \in 0..n
    BY <1>1, <1>3
  <2> QED BY <2>1, <2>2
<1>4. \A k \in 0..n : k \in K
  <2> HIDE DEF n, K
  <2> QED BY <1>1, <1>2, <1>3, UpTo
<1>5. n \in K
  BY <1>1, <1>4
<1> QED BY <1>5

\* One more sequence is joined at the end.
LEMMA FlattenAppend ==
  ASSUME NEW T, NEW ss \in Seq(Seq(T)), NEW s \in Seq(T)
  PROVE  /\ FlattenSeq(ss) \in Seq(T)
         /\ FlattenSeq(Append(ss, s)) = FlattenSeq(ss) \o s
<1> DEFINE n == Len(ss)
<1>1. PICK f \in [0..n -> Seq(T)] :
        /\ f[0] = << >> /\ f[n] = FlattenSeq(ss)
        /\ \A k \in 0..n : k < n => f[k + 1] = f[k] \o ss[k + 1]
  BY FlattenSteps DEF FlattensTo
<1>2. PICK tt \in Seq(Seq(T)) : tt = Append(ss, s)
  BY AppendProperties
<1>3. /\ Len(tt) = n + 1 /\ n \in Nat /\ tt[n + 1] = s
      /\ \A k \in 1..n : tt[k] = ss[k]
  BY <1>2, AppendProperties, LenProperties
<1>4. PICK g \in [0..(n + 1) -> Seq(T)] :
        /\ g[0] = << >> /\ g[n + 1] = FlattenSeq(tt)
        /\ \A k \in 0..(n + 1) : k < n + 1 => g[k + 1] = g[k] \o tt[k + 1]
  <2>1. PICK g \in [0..Len(tt) -> Seq(T)] : FlattensTo(g, tt)
    BY FlattenSteps
  <2> QED BY <1>3, <2>1 DEF FlattensTo
<1> HIDE DEF n
<1> DEFINE G == {k \in 0..n : g[k] = f[k]}
<1>5. 0 \in G
  BY <1>1, <1>3, <1>4
<1>6. ASSUME NEW k \in 0..n, k \in G, k < n PROVE k + 1 \in G
  <2>1. k \in 0..(n + 1) /\ k < n + 1 /\ k + 1 \in 1..n /\ k + 1 \in 0..n
    BY <1>3, <1>6
  <2> QED BY <1>1, <1>3, <1>4, <1>6, <2>1
<1>7. \A k \in 0..n : k \in G
  <2> HIDE DEF G
  <2> QED BY <1>3, <1>5, <1>6, UpTo
<1>8. g[n] = f[n] /\ n \in 0..(n + 1) /\ n < n + 1 /\ n \in 0..n
  BY <1>3, <1>7
<1>9. g[n + 1] = g[n] \o tt[n + 1]
  BY <1>4, <1>8
<1> QED BY <1>1, <1>2, <1>3, <1>4, <1>8, <1>9

LEMMA FlattenEmpty == FlattenSeq(<< >>) = << >>
BY DEF FlattenSeq

\* f reads s from left to right and keeps what is in S.
FiltersTo(f, s, S) ==
  /\ f[0] = << >> /\ f[Len(s)] = Filter(s, S)
  /\ \A k \in 0..Len(s) : k < Len(s) =>
       f[k + 1] = IF s[k + 1] \in S THEN Append(f[k], s[k + 1]) ELSE f[k]

LEMMA Filters ==
  ASSUME NEW T, NEW s \in Seq(T), NEW S
  PROVE  \E f \in [0..Len(s) -> Seq(T)] : FiltersTo(f, s, S)
BY FilterSteps DEF FiltersTo

LEMMA FilterEmpty == \A S : Filter(<< >>, S) = << >>
<1> SUFFICES ASSUME NEW S PROVE Filter(<< >>, S) = << >>
  OBVIOUS
<1>1. PICK s \in Seq({}) : s = << >>
  BY EmptySeq
<1>2. PICK f \in [0..Len(s) -> Seq({})] : FiltersTo(f, s, S)
  BY Filters
<1> QED BY <1>1, <1>2 DEF FiltersTo

\* One more element is kept, or not, at the end.
LEMMA FilterAppend ==
  ASSUME NEW T, NEW s \in Seq(T), NEW e \in T, NEW S
  PROVE  Filter(Append(s, e), S) = IF e \in S THEN Append(Filter(s, S), e) ELSE Filter(s, S)
<1> DEFINE n == Len(s)
<1>1. PICK f \in [0..n -> Seq(T)] : FiltersTo(f, s, S)
  BY Filters
<1>2. PICK t \in Seq(T) : t = Append(s, e)
  BY AppendProperties
<1>3. /\ Len(t) = n + 1 /\ n \in Nat /\ t[n + 1] = e
      /\ \A k \in 1..n : t[k] = s[k]
  BY <1>2, AppendProperties, LenProperties
<1>4. PICK g \in [0..Len(t) -> Seq(T)] : FiltersTo(g, t, S)
  BY Filters
<1>5. /\ f[0] = << >> /\ f[n] = Filter(s, S)
      /\ \A k \in 0..n : k < n =>
           f[k + 1] = IF s[k + 1] \in S THEN Append(f[k], s[k + 1]) ELSE f[k]
  BY <1>1 DEF FiltersTo
<1>6. /\ g[0] = << >> /\ g[n + 1] = Filter(t, S)
      /\ \A k \in 0..(n + 1) : k < n + 1 =>
           g[k + 1] = IF t[k + 1] \in S THEN Append(g[k], t[k + 1]) ELSE g[k]
  BY <1>3, <1>4 DEF FiltersTo
<1> HIDE DEF n
<1> DEFINE G == {k \in 0..n : g[k] = f[k]}
<1>7. 0 \in G
  BY <1>3, <1>5, <1>6
<1>8. ASSUME NEW k \in 0..n, k \in G, k < n PROVE k + 1 \in G
  <2>1. k \in 0..(n + 1) /\ k < n + 1 /\ k + 1 \in 1..n /\ k + 1 \in 0..n
    BY <1>3, <1>8
  <2>2. t[k + 1] = s[k + 1] /\ g[k] = f[k]
    BY <1>3, <1>8, <2>1
  <2> QED BY <1>5, <1>6, <1>8, <2>1, <2>2
<1>9. \A k \in 0..n : k \in G
  <2> HIDE DEF G
  <2> QED BY <1>3, <1>7, <1>8, UpTo
<1>10. g[n] = f[n] /\ n \in 0..(n + 1) /\ n < n + 1
  BY <1>3, <1>9
<1>11. g[n + 1] = IF t[n + 1] \in S THEN Append(g[n], t[n + 1]) ELSE g[n]
  BY <1>6, <1>10
<1> QED BY <1>2, <1>3, <1>5, <1>6, <1>10, <1>11

LEMMA AppendConcat ==
  ASSUME NEW T, NEW p \in Seq(T), NEW q \in Seq(T), NEW e \in T
  PROVE  Append(p \o q, e) = p \o Append(q, e)
<1>1. PICK x \in Seq(T), y \in Seq(T), r \in Seq(T) :
        x = Append(p \o q, e) /\ y = p \o Append(q, e) /\ r = Append(q, e)
  BY AppendProperties, ConcatProperties
<1>2. PICK m \in Nat, n \in Nat : m = Len(p) /\ n = Len(q)
  BY LenProperties
<1>3. /\ p \o q \in Seq(T) /\ Len(p \o q) = m + n
      /\ \A i \in 1..(m + n) : (p \o q)[i] = IF i <= m THEN p[i] ELSE q[i - m]
  BY <1>2, ConcatProperties
<1>4. /\ Len(x) = m + n + 1 /\ x[m + n + 1] = e
      /\ \A i \in 1..(m + n) : x[i] = IF i <= m THEN p[i] ELSE q[i - m]
  <2>1. PICK pq \in Seq(T) : pq = p \o q
    BY <1>3
  <2>2. Len(pq) = m + n /\ x = Append(pq, e)
    BY <1>1, <1>3, <2>1
  <2>3. Len(x) = m + n + 1 /\ x[m + n + 1] = e /\ \A i \in 1..(m + n) : x[i] = pq[i]
    BY <2>2, AppendProperties
  <2> QED BY <1>3, <2>1, <2>3
<1>5. Len(r) = n + 1 /\ r[n + 1] = e /\ \A i \in 1..n : r[i] = q[i]
  BY <1>1, <1>2, AppendProperties
<1>6. Len(y) = m + (n + 1) /\ \A i \in 1..(m + (n + 1)) : y[i] = IF i <= m THEN p[i] ELSE r[i - m]
  BY <1>1, <1>2, <1>5, ConcatProperties
<1>7. ASSUME NEW i \in 1..(m + n + 1) PROVE x[i] = y[i]
  <2>1. CASE i <= m
    <3>1. i \in 1..(m + n) /\ i \in 1..(m + (n + 1))
      BY <2>1
    <3> QED BY <1>4, <1>6, <2>1, <3>1
  <2>2. CASE i > m /\ i <= m + n
    <3>1. i - m \in 1..n /\ i \in 1..(m + n) /\ i \in 1..(m + (n + 1)) /\ ~ (i <= m)
      BY <2>2
    <3> QED BY <1>4, <1>5, <1>6, <3>1
  <2>3. CASE i = m + n + 1
    <3>1. i - m = n + 1 /\ i \in 1..(m + (n + 1)) /\ ~ (i <= m)
      BY <2>3
    <3> QED BY <1>4, <1>5, <1>6, <2>3, <3>1
  <2> QED BY <2>1, <2>2, <2>3
<1>8. Len(x) = Len(y)
  BY <1>4, <1>6
<1>9. x = y
  BY <1>4, <1>7, <1>8, SeqEqual
<1> QED BY <1>1, <1>9

\* What is kept of two sequences is kept of each.
LEMMA FilterConcat ==
  ASSUME NEW T, NEW s \in Seq(T), NEW t \in Seq(T), NEW S
  PROVE  Filter(s \o t, S) = Filter(s, S) \o Filter(t, S)
<1> DEFINE G == {r \in Seq(T) : Filter(s \o r, S) = Filter(s, S) \o Filter(r, S)}
<1>0. Filter(s, S) \in Seq(T)
  BY FilterElements
<1>1. << >> \in G
  <2>1. s \o << >> = s /\ << >> \in Seq(T)
    BY ConcatEmptySeq, EmptySeq
  <2>2. Filter(s, S) \o << >> = Filter(s, S)
    BY <1>0, ConcatEmptySeq
  <2> QED BY <2>1, <2>2, FilterEmpty
<1>2. ASSUME NEW r \in Seq(T), NEW e \in T, r \in G PROVE Append(r, e) \in G
  <2>1. Append(r, e) \in Seq(T) /\ s \o r \in Seq(T)
    BY AppendProperties, ConcatProperties
  <2>2. s \o Append(r, e) = Append(s \o r, e)
    OBVIOUS
  <2>3. Filter(Append(s \o r, e), S) = IF e \in S THEN Append(Filter(s \o r, S), e) ELSE Filter(s \o r, S)
    BY <2>1, FilterAppend
  <2>4. Filter(Append(r, e), S) = IF e \in S THEN Append(Filter(r, S), e) ELSE Filter(r, S)
    BY FilterAppend
  <2>5. Filter(r, S) \in Seq(T) /\ Filter(s \o r, S) = Filter(s, S) \o Filter(r, S)
    BY <1>2, FilterElements
  <2>7. Append(Filter(s, S) \o Filter(r, S), e) = Filter(s, S) \o Append(Filter(r, S), e)
    BY SMTT(30), <1>0, <2>5, AppendConcat
  <2>8. Filter(s \o Append(r, e), S) = Filter(s, S) \o Filter(Append(r, e), S)
    BY <2>2, <2>3, <2>4, <2>5, <2>7
  <2> QED BY <2>1, <2>8
<1> HIDE DEF G
<1>3. \A r \in Seq(T) : r \in G
  BY <1>1, <1>2, SequenceInduction
<1> QED BY <1>3 DEF G

\* Only what is said of the elements matters.
LEMMA FilterSame ==
  ASSUME NEW T, NEW s \in Seq(T), NEW S, NEW U, \A x \in ToSet(s) : x \in S <=> x \in U
  PROVE  Filter(s, S) = Filter(s, U)
<1> DEFINE n == Len(s)
<1>1. PICK f \in [0..n -> Seq(T)] : FiltersTo(f, s, S)
  BY Filters
<1>2. PICK g \in [0..n -> Seq(T)] : FiltersTo(g, s, U)
  BY Filters
<1>3. n \in Nat /\ \A k \in 1..n : s[k] \in S <=> s[k] \in U
  BY DEF ToSet
<1>4. /\ f[0] = << >> /\ f[n] = Filter(s, S)
      /\ \A k \in 0..n : k < n =>
           f[k + 1] = IF s[k + 1] \in S THEN Append(f[k], s[k + 1]) ELSE f[k]
  BY <1>1 DEF FiltersTo
<1>5. /\ g[0] = << >> /\ g[n] = Filter(s, U)
      /\ \A k \in 0..n : k < n =>
           g[k + 1] = IF s[k + 1] \in U THEN Append(g[k], s[k + 1]) ELSE g[k]
  BY <1>2 DEF FiltersTo
<1> HIDE DEF n
<1> DEFINE G == {k \in 0..n : g[k] = f[k]}
<1>6. 0 \in G
  BY <1>3, <1>4, <1>5
<1>7. ASSUME NEW k \in 0..n, k \in G, k < n PROVE k + 1 \in G
  <2>1. k + 1 \in 1..n /\ k + 1 \in 0..n
    BY <1>3, <1>7
  <2>2. /\ f[k + 1] = IF s[k + 1] \in S THEN Append(f[k], s[k + 1]) ELSE f[k]
        /\ g[k + 1] = IF s[k + 1] \in U THEN Append(g[k], s[k + 1]) ELSE g[k]
        /\ g[k] = f[k] /\ (s[k + 1] \in S <=> s[k + 1] \in U)
    BY <1>3, <1>4, <1>5, <1>7, <2>1
  <2> QED BY <2>1, <2>2
<1>8. \A k \in 0..n : k \in G
  <2> HIDE DEF G
  <2> QED BY <1>3, <1>6, <1>7, UpTo
<1> QED BY <1>3, <1>4, <1>5, <1>8

\* g gives the places of s and t, in order, where what is kept of them comes from.
PlacesOf(g, s, S, t, R) ==
  /\ g \in Seq(1..Len(s))
  /\ Len(Filter(s, S)) = Len(g) /\ Len(Filter(t, R)) = Len(g)
  /\ \A k \in 1..Len(g) : /\ Filter(s, S)[k] = s[g[k]] /\ s[g[k]] \in S
                          /\ Filter(t, R)[k] = t[g[k]]
  /\ \A j, k \in 1..Len(g) : j < k => g[j] < g[k]
  /\ \A i \in 1..Len(s) : s[i] \in S => \E k \in 1..Len(g) : g[k] = i

\* Two sequences of which the same places are kept.
LEMMA FilterParallel ==
  ASSUME NEW T, NEW U, NEW s \in Seq(T), NEW t \in Seq(U), Len(s) = Len(t), NEW S, NEW R,
         \A i \in 1..Len(s) : s[i] \in S <=> t[i] \in R
  PROVE  \E g : PlacesOf(g, s, S, t, R)
<1> DEFINE n == Len(s)
<1>1. PICK f \in [0..n -> Seq(T)] : FiltersTo(f, s, S)
  BY Filters
<1>2. PICK h \in [0..Len(t) -> Seq(U)] : FiltersTo(h, t, R)
  BY Filters
<1>3. n \in Nat /\ Len(t) = n
  OBVIOUS
<1>4. /\ f[0] = << >> /\ f[n] = Filter(s, S)
      /\ \A k \in 0..n : k < n =>
           f[k + 1] = IF s[k + 1] \in S THEN Append(f[k], s[k + 1]) ELSE f[k]
  BY <1>1 DEF FiltersTo
<1>5. /\ h[0] = << >> /\ h[n] = Filter(t, R)
      /\ \A k \in 0..n : k < n =>
           h[k + 1] = IF t[k + 1] \in R THEN Append(h[k], t[k + 1]) ELSE h[k]
  BY <1>2, <1>3 DEF FiltersTo
<1>6. \A i \in 1..n : s[i] \in T /\ t[i] \in U /\ (s[i] \in S <=> t[i] \in R)
  BY <1>3, ElementOfSeq
<1>7. n = Len(s)
  OBVIOUS
<1> HIDE DEF n
<1> DEFINE Good(g, k) ==
             /\ Len(f[k]) = Len(g) /\ Len(h[k]) = Len(g)
             /\ \A j \in 1..Len(g) : /\ g[j] \in 1..k /\ f[k][j] = s[g[j]] /\ s[g[j]] \in S
                                     /\ h[k][j] = t[g[j]]
             /\ \A i, j \in 1..Len(g) : i < j => g[i] < g[j]
             /\ \A i \in 1..k : s[i] \in S => \E j \in 1..Len(g) : g[j] = i
           G == {k \in 0..n : \E g \in Seq(1..n) : Good(g, k)}
<1>8. 0 \in G
  <2>1. << >> \in Seq(1..n) /\ Len(<< >>) = 0 /\ 1..0 = {} /\ 0 \in 0..n
    BY <1>3, EmptySeq
  <2>2. Good(<< >>, 0)
    BY <1>4, <1>5, <2>1
  <2> QED BY <2>1, <2>2
<1>9. ASSUME NEW k \in 0..n, k \in G, k < n PROVE k + 1 \in G
  <2>1. PICK g \in Seq(1..n) : Good(g, k)
    BY <1>9
  <2>2. k \in Nat /\ k + 1 \in 1..n /\ k + 1 \in 0..n
    BY <1>3, <1>9
  <2>3. CASE s[k + 1] \in S
    <3>1. PICK p \in Seq(T), q \in Seq(U) : p = f[k] /\ q = h[k]
      BY <1>1, <1>2, <1>3
    <3>2. PICK a \in T, b \in U : a = s[k + 1] /\ b = t[k + 1]
      BY <1>6, <2>2
    <3>3. f[k + 1] = Append(p, a) /\ h[k + 1] = Append(q, b)
      BY <1>4, <1>5, <1>6, <1>9, <2>2, <2>3, <3>1, <3>2
    <3>4. PICK m \in Nat : m = Len(g)
      BY LenProperties
    <3>5. PICK gg \in Seq(1..n) : gg = Append(g, k + 1)
      BY <2>2, AppendProperties
    <3>6. Len(gg) = m + 1 /\ gg[m + 1] = k + 1 /\ \A j \in 1..m : gg[j] = g[j]
      BY <2>2, <3>4, <3>5, AppendProperties
    <3>7. Len(p) = m /\ Len(q) = m
      BY <2>1, <3>1, <3>4
    <3>8. /\ Len(f[k + 1]) = m + 1 /\ f[k + 1][m + 1] = a /\ \A j \in 1..m : f[k + 1][j] = p[j]
          /\ Len(h[k + 1]) = m + 1 /\ h[k + 1][m + 1] = b /\ \A j \in 1..m : h[k + 1][j] = q[j]
      <4> HIDE DEF G
      <4>1. /\ Len(Append(p, a)) = Len(p) + 1 /\ Append(p, a)[Len(p) + 1] = a
            /\ \A j \in 1..Len(p) : Append(p, a)[j] = p[j]
        BY AppendProperties
      <4>2. /\ Len(Append(q, b)) = Len(q) + 1 /\ Append(q, b)[Len(q) + 1] = b
            /\ \A j \in 1..Len(q) : Append(q, b)[j] = q[j]
        BY AppendProperties
      <4> QED BY <3>3, <3>7, <4>1, <4>2
    <3>9. \A j \in 1..m : g[j] \in 1..k /\ p[j] = s[g[j]] /\ s[g[j]] \in S /\ q[j] = t[g[j]]
      BY <2>1, <3>1, <3>4
    <3>10. \A j \in 1..(m + 1) : j \in 1..m \/ j = m + 1
      OBVIOUS
    <3>11. \A j \in 1..(m + 1) : /\ gg[j] \in 1..(k + 1) /\ f[k + 1][j] = s[gg[j]]
                                 /\ s[gg[j]] \in S /\ h[k + 1][j] = t[gg[j]]
      <4> SUFFICES ASSUME NEW j \in 1..(m + 1)
                   PROVE  /\ gg[j] \in 1..(k + 1) /\ f[k + 1][j] = s[gg[j]]
                          /\ s[gg[j]] \in S /\ h[k + 1][j] = t[gg[j]]
        OBVIOUS
      <4>1. CASE j \in 1..m
        <5>1. gg[j] = g[j] /\ g[j] \in 1..k /\ f[k + 1][j] = p[j] /\ h[k + 1][j] = q[j]
          BY <3>6, <3>8, <3>9, <4>1
        <5>2. gg[j] \in 1..(k + 1)
          BY <2>2, <5>1
        <5> QED BY <3>9, <4>1, <5>1, <5>2
      <4>2. CASE j = m + 1
        BY <2>2, <2>3, <3>2, <3>6, <3>8, <4>2
      <4> QED BY <3>10, <4>1, <4>2
    <3>12. \A i, j \in 1..m : i < j => g[i] < g[j]
      BY <2>1, <3>4
    <3>13. \A i, j \in 1..(m + 1) : i < j => gg[i] < gg[j]
      <4> SUFFICES ASSUME NEW i \in 1..(m + 1), NEW j \in 1..(m + 1), i < j PROVE gg[i] < gg[j]
        OBVIOUS
      <4>1. i \in 1..m
        OBVIOUS
      <4>2. gg[i] = g[i] /\ g[i] \in 1..k
        BY <3>6, <3>9, <4>1
      <4>3. CASE j \in 1..m
        BY <3>6, <3>12, <4>1, <4>3
      <4>4. CASE j = m + 1
        BY <2>2, <3>6, <4>2, <4>4
      <4> QED BY <3>10, <4>3, <4>4
    <3>14. \A i \in 1..(k + 1) : s[i] \in S => \E j \in 1..(m + 1) : gg[j] = i
      <4> SUFFICES ASSUME NEW i \in 1..(k + 1), s[i] \in S PROVE \E j \in 1..(m + 1) : gg[j] = i
        OBVIOUS
      <4>1. CASE i = k + 1
        <5>1. m + 1 \in 1..(m + 1)
          OBVIOUS
        <5> QED BY <3>6, <4>1, <5>1
      <4>2. CASE i # k + 1
        <5>1. i \in 1..k
          BY <2>2, <4>2
        <5>2. PICK j \in 1..m : g[j] = i
          BY <2>1, <3>4, <5>1
        <5>3. j \in 1..(m + 1)
          OBVIOUS
        <5> QED BY <3>6, <5>2, <5>3
      <4> QED BY <4>1, <4>2
    <3>15. Good(gg, k + 1)
      BY <3>6, <3>8, <3>11, <3>13, <3>14
    <3> QED BY <2>2, <3>15
  <2>4. CASE s[k + 1] \notin S
    <3>1. f[k + 1] = f[k] /\ h[k + 1] = h[k]
      BY <1>4, <1>5, <1>6, <1>9, <2>2, <2>4
    <3>2. \A i \in 1..(k + 1) : i \in 1..k \/ i = k + 1
      BY <2>2
    <3>3. \A j \in 1..Len(g) : g[j] \in 1..(k + 1)
      <4>1. \A i \in 1..k : i \in 1..(k + 1)
        BY <2>2
      <4> QED BY <2>1, <4>1
    <3>4. Good(g, k + 1)
      BY <2>1, <2>4, <3>1, <3>2, <3>3
    <3> QED BY <2>2, <3>4
  <2> QED BY <2>3, <2>4
<1>10. \A k \in 0..n : k \in G
  <2> HIDE DEF G
  <2> QED BY <1>3, <1>8, <1>9, UpTo
<1>11. PICK g \in Seq(1..n) : Good(g, n)
  <2>1. n \in G
    <3> HIDE DEF G
    <3> QED BY <1>3, <1>10
  <2> HIDE DEF Good
  <2> QED BY <2>1
<1>12. PlacesOf(g, s, S, t, R)
  BY <1>4, <1>5, <1>7, <1>11 DEF PlacesOf
<1> QED BY <1>12

Mapped(f, s) == [i \in DOMAIN s |-> f[s[i]]]

MapsOneMore(f, ss, e, T) ==
  /\ FlattenSeq(Mapped(f, ss)) \in Seq(T)
  /\ FlattenSeq(Mapped(f, Append(ss, e))) = FlattenSeq(Mapped(f, ss)) \o f[e]

\* One more element maps to one more sequence, joined at the end.
LEMMA FlattenMap ==
  ASSUME NEW S, NEW T, NEW f \in [S -> Seq(T)], NEW ss \in Seq(S), NEW e \in S
  PROVE  MapsOneMore(f, ss, e, T)
<1>1. PICK n \in Nat : n = Len(ss) /\ DOMAIN ss = 1..n
  BY LenProperties
<1>2. PICK tt \in Seq(S) : tt = Append(ss, e)
  BY AppendProperties
<1>3. /\ Len(tt) = n + 1 /\ DOMAIN tt = 1..(n + 1) /\ tt[n + 1] = e
      /\ \A i \in 1..n : tt[i] = ss[i]
  BY <1>1, <1>2, AppendProperties, LenProperties
<1> DEFINE p == [i \in 1..n |-> f[ss[i]]]
           q == [i \in 1..(n + 1) |-> f[tt[i]]]
<1>4. p \in Seq(Seq(T)) /\ Len(p) = n /\ \A i \in 1..n : p[i] = f[ss[i]]
  <2>1. \A i \in 1..n : f[ss[i]] \in Seq(T)
    BY <1>1, ElementOfSeq
  <2> QED BY <2>1
<1>5. q \in Seq(Seq(T)) /\ Len(q) = n + 1 /\ \A i \in 1..(n + 1) : q[i] = f[tt[i]]
  <2>1. \A i \in 1..(n + 1) : f[tt[i]] \in Seq(T)
    BY <1>3, ElementOfSeq
  <2> QED BY <2>1
<1>6. p = Mapped(f, ss) /\ q = Mapped(f, tt)
  BY <1>1, <1>3 DEF Mapped
<1> HIDE DEF p, q
<1>7. PICK r \in Seq(Seq(T)) : r = Append(p, f[e])
  BY <1>4, AppendProperties
<1>8. Len(r) = n + 1 /\ r[n + 1] = f[e] /\ \A i \in 1..n : r[i] = p[i]
  BY <1>4, <1>7, AppendProperties
<1>9. \A i \in 1..(n + 1) : r[i] = q[i]
  <2>1. \A i \in 1..(n + 1) : i \in 1..n \/ i = n + 1
    OBVIOUS
  <2>2. ASSUME NEW i \in 1..n PROVE q[i] = p[i]
    <3>1. i \in 1..(n + 1)
      OBVIOUS
    <3>2. q[i] = f[tt[i]]
      BY <1>5, <3>1
    <3>3. p[i] = f[ss[i]]
      BY <1>4
    <3>4. tt[i] = ss[i]
      BY <1>3
    <3> QED BY <3>2, <3>3, <3>4
  <2>3. q[n + 1] = f[e]
    BY <1>3, <1>5
  <2> QED BY <1>8, <2>1, <2>2, <2>3
<1>10. r = q
  BY <1>5, <1>7, <1>8, <1>9, SeqEqual
<1>11. FlattenSeq(p) \in Seq(T) /\ FlattenSeq(r) = FlattenSeq(p) \o f[e]
  BY <1>4, <1>7, FlattenAppend
<1> QED BY <1>2, <1>6, <1>10, <1>11 DEF MapsOneMore

\* Joining two lists of sequences is joining what each of them joins to.
LEMMA FlattenConcat ==
  ASSUME NEW T, NEW ss \in Seq(Seq(T)), NEW tt \in Seq(Seq(T))
  PROVE  FlattenSeq(ss \o tt) = FlattenSeq(ss) \o FlattenSeq(tt)
<1> DEFINE G == {rr \in Seq(Seq(T)) : FlattenSeq(ss \o rr) = FlattenSeq(ss) \o FlattenSeq(rr)}
<1>0. FlattenSeq(ss) \in Seq(T)
  <2>1. << >> \in Seq(T)
    BY EmptySeq
  <2> QED BY <2>1, FlattenAppend
<1>1. << >> \in G
  <2>1. ss \o << >> = ss /\ << >> \in Seq(Seq(T))
    BY ConcatEmptySeq, EmptySeq
  <2>2. FlattenSeq(ss) \o << >> = FlattenSeq(ss)
    BY <1>0, ConcatEmptySeq
  <2> QED BY <2>1, <2>2, FlattenEmpty
<1>2. ASSUME NEW rr \in Seq(Seq(T)), NEW e \in Seq(T), rr \in G PROVE Append(rr, e) \in G
  <2>1. Append(rr, e) \in Seq(Seq(T)) /\ ss \o rr \in Seq(Seq(T))
    BY AppendProperties, ConcatProperties
  <2>2. ss \o Append(rr, e) = Append(ss \o rr, e)
    OBVIOUS
  <2>3. FlattenSeq(Append(ss \o rr, e)) = FlattenSeq(ss \o rr) \o e
    BY <2>1, FlattenAppend
  <2>4. FlattenSeq(Append(rr, e)) = FlattenSeq(rr) \o e /\ FlattenSeq(rr) \in Seq(T)
    BY FlattenAppend
  <2>5. (FlattenSeq(ss) \o FlattenSeq(rr)) \o e = FlattenSeq(ss) \o (FlattenSeq(rr) \o e)
    BY SMTT(30), <1>0, <2>4, ConcatAssociative
  <2>6. FlattenSeq(ss \o rr) = FlattenSeq(ss) \o FlattenSeq(rr)
    BY <1>2
  <2>7. FlattenSeq(ss \o Append(rr, e)) = FlattenSeq(ss) \o FlattenSeq(Append(rr, e))
    BY <2>2, <2>3, <2>4, <2>5, <2>6
  <2> QED BY <2>1, <2>7
<1> HIDE DEF G
<1>3. \A rr \in Seq(Seq(T)) : rr \in G
  BY <1>1, <1>2, SequenceInduction
<1> QED BY <1>3 DEF G

\* The first sequence comes first.
LEMMA FlattenHead ==
  ASSUME NEW T, NEW ss \in Seq(Seq(T)), ss # << >>
  PROVE  FlattenSeq(ss) = Head(ss) \o FlattenSeq(Tail(ss))
<1>1. Head(ss) \in Seq(T) /\ Tail(ss) \in Seq(Seq(T))
  BY HeadTailProperties
<1>2. PICK one \in Seq(Seq(T)) : one = Append(<< >>, Head(ss))
  BY <1>1, EmptySeq, AppendProperties
<1>3. ss = one \o Tail(ss)
  BY <1>1, <1>2
<1>4. FlattenSeq(one) = << >> \o Head(ss)
  BY <1>1, <1>2, EmptySeq, FlattenAppend, FlattenEmpty
<1>5. FlattenSeq(one) = Head(ss)
  BY <1>1, <1>4, ConcatEmptySeq
<1> QED BY <1>1, <1>3, <1>5, FlattenConcat

\* A relation that tells the elements of S apart and puts them in a row.
StrictOrder(R, S) ==
  /\ \A x \in S : <<x, x>> \notin R
  /\ \A x, y \in S : x # y => <<x, y>> \in R \/ <<y, x>> \in R
  /\ \A x, y, z \in S : <<x, y>> \in R /\ <<y, z>> \in R => <<x, z>> \in R

\* A finite set can be put in such an order: by how many come before each.
LEMMA CanBeSorted ==
  ASSUME NEW S, IsFiniteSet(S), NEW R, StrictOrder(R, S)
  PROVE  \E s \in SetToSeqs(S) : \A i, j \in DOMAIN s : i < j => <<s[i], s[j]>> \in R
<1> DEFINE Below(x) == {y \in S : <<y, x>> \in R}
           key == [x \in S |-> Cardinality(Below(x))]
<1>1. \A x \in S : IsFiniteSet(Below(x)) /\ Cardinality(Below(x)) \in Nat
  BY FS_Subset, FS_CardinalityType
<1>2. key \in [S -> Nat] /\ \A x \in S : key[x] = Cardinality(Below(x))
  BY <1>1
<1> HIDE DEF key
<1>3. ASSUME NEW x \in S, NEW y \in S, <<x, y>> \in R PROVE key[x] < key[y]
  <2>1. Below(x) \subseteq Below(y)
    BY <1>3 DEF StrictOrder
  <2>2. x \in Below(y) /\ x \notin Below(x)
    BY <1>3 DEF StrictOrder
  <2>3. Cardinality(Below(x)) <= Cardinality(Below(y))
    BY <1>1, <2>1, FS_Subset
  <2>4. Cardinality(Below(x)) # Cardinality(Below(y))
    BY <1>1, <2>1, <2>2, FS_Subset
  <2> QED BY <1>1, <1>2, <2>3, <2>4
<1>4. PICK s \in SetToSeqs(S) : OrderedBy(s, key)
  BY <1>2, CanBeOrdered
<1>5. /\ s \in [1..Cardinality(S) -> S]
      /\ \A i, j \in 1..Cardinality(S) : i # j => s[i] # s[j]
  BY DEF SetToSeqs
<1>6. Cardinality(S) \in Nat
  BY FS_CardinalityType
<1>7. ASSUME NEW i \in DOMAIN s, NEW j \in DOMAIN s, i < j PROVE <<s[i], s[j]>> \in R
  <2>1. s[i] \in S /\ s[j] \in S /\ s[i] # s[j]
    BY <1>5, <1>6, <1>7
  <2>2. key[s[i]] <= key[s[j]] /\ key[s[i]] \in Nat /\ key[s[j]] \in Nat
    BY <1>2, <1>4, <1>7, <2>1 DEF OrderedBy
  <2>3. <<s[j], s[i]>> \notin R
    BY <1>3, <2>1, <2>2
  <2> QED BY <2>1, <2>3 DEF StrictOrder
<1> QED BY <1>7

\* The order of four keys, the first first.
ByKeys(S, e, f, g, h) ==
  {p \in S \X S :
     \/ e[p[1]] < e[p[2]]
     \/ e[p[1]] = e[p[2]] /\ f[p[1]] < f[p[2]]
     \/ e[p[1]] = e[p[2]] /\ f[p[1]] = f[p[2]] /\ g[p[1]] < g[p[2]]
     \/ e[p[1]] = e[p[2]] /\ f[p[1]] = f[p[2]] /\ g[p[1]] = g[p[2]] /\ h[p[1]] < h[p[2]]}

LEMMA KeysOrder ==
  ASSUME NEW S, NEW e \in [S -> Int], NEW f \in [S -> Int], NEW g \in [S -> Int], NEW h \in [S -> Int],
         \A x, y \in S : h[x] = h[y] => x = y
  PROVE  StrictOrder(ByKeys(S, e, f, g, h), S)
<1> DEFINE R == ByKeys(S, e, f, g, h)
<1>1. \A x \in S : e[x] \in Int /\ f[x] \in Int /\ g[x] \in Int /\ h[x] \in Int
  OBVIOUS
<1>2. \A x, y \in S : <<x, y>> \in R <=>
        \/ e[x] < e[y]
        \/ e[x] = e[y] /\ f[x] < f[y]
        \/ e[x] = e[y] /\ f[x] = f[y] /\ g[x] < g[y]
        \/ e[x] = e[y] /\ f[x] = f[y] /\ g[x] = g[y] /\ h[x] < h[y]
  BY DEF ByKeys
<1> HIDE DEF R
<1>3. ASSUME NEW x \in S PROVE <<x, x>> \notin R
  BY <1>1, <1>2
<1>4. ASSUME NEW x \in S, NEW y \in S, x # y PROVE <<x, y>> \in R \/ <<y, x>> \in R
  <2>1. h[x] # h[y]
    BY <1>4
  <2> QED BY <1>1, <1>2, <2>1
<1>5. ASSUME NEW x \in S, NEW y \in S, NEW z \in S, <<x, y>> \in R, <<y, z>> \in R
      PROVE  <<x, z>> \in R
  <2>1. PICK e1 \in Int, e2 \in Int, e3 \in Int, f1 \in Int, f2 \in Int, f3 \in Int :
          e1 = e[x] /\ e2 = e[y] /\ e3 = e[z] /\ f1 = f[x] /\ f2 = f[y] /\ f3 = f[z]
    BY <1>1
  <2>2. PICK g1 \in Int, g2 \in Int, g3 \in Int, h1 \in Int, h2 \in Int, h3 \in Int :
          g1 = g[x] /\ g2 = g[y] /\ g3 = g[z] /\ h1 = h[x] /\ h2 = h[y] /\ h3 = h[z]
    BY <1>1
  <2>3. \/ e1 < e2
        \/ e1 = e2 /\ f1 < f2
        \/ e1 = e2 /\ f1 = f2 /\ g1 < g2
        \/ e1 = e2 /\ f1 = f2 /\ g1 = g2 /\ h1 < h2
    BY <1>2, <1>5, <2>1, <2>2
  <2>4. \/ e2 < e3
        \/ e2 = e3 /\ f2 < f3
        \/ e2 = e3 /\ f2 = f3 /\ g2 < g3
        \/ e2 = e3 /\ f2 = f3 /\ g2 = g3 /\ h2 < h3
    BY <1>2, <1>5, <2>1, <2>2
  <2>5. \/ e1 < e3
        \/ e1 = e3 /\ f1 < f3
        \/ e1 = e3 /\ f1 = f3 /\ g1 < g3
        \/ e1 = e3 /\ f1 = f3 /\ g1 = g3 /\ h1 < h3
    BY <2>3, <2>4
  <2> QED BY <1>2, <2>1, <2>2, <2>5
<1> QED BY <1>3, <1>4, <1>5 DEF StrictOrder, R
=============================================================================
