----------------------------- MODULE QueryProofs -----------------------------
(***************************************************************************)
(* Facts about module Query that the proofs of both registries rest on:    *)
(* timestamps and their seconds, largest keys, and the sequences in which  *)
(* a query may return its rows.                                            *)
(***************************************************************************)
EXTENDS Query, FiniteSets, FiniteSetTheorems, WellFoundedInduction, TLAPS

USE TicksAssumption

(***************************************************************************)
(* Timestamps.                                                             *)
(***************************************************************************)

\* A timestamp that was stored and read back is stored unchanged.
LEMMA KeptTwice ==
    ASSUME NEW b, NEW x \in Nat
    PROVE  Kept(b, x) \in Nat /\ Kept(b, Kept(b, x)) = Kept(b, x)
  <1> DEFINE k == x \div TicksPerSecond
  <1>1. k \in Nat /\ k * TicksPerSecond \in Nat
    OBVIOUS
  <1>2. (k * TicksPerSecond) \div TicksPerSecond = k
    <2> HIDE DEF k
    <2> QED  BY <1>1
  <1> QED  BY <1>1, <1>2 DEF Kept, Second

\* Bounds that do not cut a second bound timestamps and their seconds alike.
LEMMA SecondBounds ==
    ASSUME NEW t \in Int, NEW n \in Int
    PROVE  /\ Second(t) >= Second(n * TicksPerSecond) <=> t >= n * TicksPerSecond
           /\ Second(t) <= Second(n * TicksPerSecond + TicksPerSecond - 1)
                <=> t <= n * TicksPerSecond + TicksPerSecond - 1
  <1> DEFINE k == t \div TicksPerSecond
             T == TicksPerSecond
             m == t % TicksPerSecond
  <1>1. k \in Int /\ m \in 0 .. T - 1 /\ t = k * T + m /\ T \in Nat \ {0}
    OBVIOUS
  <1>2. (n * T) \div T = n /\ (n * T + T - 1) \div T = n
    OBVIOUS
  <1>3. /\ Second(t) = k /\ Second(n * TicksPerSecond) = n
        /\ Second(n * TicksPerSecond + TicksPerSecond - 1) = n
    BY <1>2 DEF Second
  <1> HIDE DEF k, T, m
  <1>4. k >= n => k * T >= n * T
    BY <1>1
  <1>5. k <= n => k * T <= n * T
    BY <1>1
  <1>6. k + 1 <= n => k * T + T <= n * T
    BY <1>1
  <1>7. n + 1 <= k => n * T + T <= k * T
    BY <1>1
  <1>8. k * T \in Int /\ n * T \in Int /\ n * T + T - 1 \in Int
    BY <1>1
  <1>9. k >= n <=> t >= n * T
    BY <1>1, <1>4, <1>6, <1>8
  <1>10. k <= n <=> t <= n * T + T - 1
    BY <1>1, <1>5, <1>7, <1>8
  <1> QED  BY <1>3, <1>9, <1>10 DEF T

(***************************************************************************)
(* Sorted sequences and their pages.                                       *)
(***************************************************************************)

\* Every non-empty finite set has an element with the largest key.
LEMMA LargestKey ==
    ASSUME NEW S, IsFiniteSet(S), S # {}, NEW key \in [S -> Int]
    PROVE  \E x \in S : \A y \in S : key[y] <= key[x]
  <1> DEFINE None == {U \in SUBSET S : U # {} /\ ~ \E x \in U : \A y \in U : key[y] <= key[x]}
  <1> SUFFICES ASSUME S \in None PROVE FALSE
    OBVIOUS
  <1>1. None \subseteq FiniteSubsetsOf(S)
    BY FS_FiniteSubsetsOfFinite
  <1>2. PICK U \in None : \A V \in None : ~ (<<V, U>> \in StrictSubsetOrdering(S))
    <2>1. IsWellFoundedOn(StrictSubsetOrdering(S), FiniteSubsetsOf(S))
      BY FS_StrictSubsetOrderingWellFounded
    <2> HIDE DEF None
    <2> QED  BY <1>1, <2>1, WFMin
  <1>3. PICK u \in U : TRUE
    BY <1>2
  <1> DEFINE V == U \ {u}
  <1>4. <<V, U>> \in StrictSubsetOrdering(S)
    BY <1>2, <1>3, FS_FiniteSubsetsOfFinite DEF StrictSubsetOrdering
  <1>5. V \notin None
    BY <1>2, <1>4
  <1>6. CASE V = {}
    <2>1. U = {u}
      BY <1>3, <1>6
    <2> QED  BY <1>2, <1>3, <2>1
  <1>7. CASE V # {}
    <2>1. PICK v \in V : \A y \in V : key[y] <= key[v]
      BY <1>2, <1>5, <1>7
    <2>2. key[u] \in Int /\ \A y \in U : key[y] \in Int /\ (y = u \/ key[y] <= key[v])
      BY <1>2, <1>3, <2>1
    <2>3. CASE key[u] <= key[v]
      <3>1. \A y \in U : key[y] <= key[v]
        BY <2>2, <2>3
      <3> QED  BY <1>2, <2>1, <3>1
    <2>4. CASE key[v] <= key[u]
      <3>1. key[v] \in Int
        BY <2>1, <2>2
      <3>2. ASSUME NEW y \in U
            PROVE  key[y] <= key[u]
        <4>1. key[y] \in Int /\ key[u] \in Int /\ (y = u \/ key[y] <= key[v])
          BY <2>2
        <4>2. CASE y = u
          BY <4>1, <4>2
        <4>3. CASE key[y] <= key[v]
          BY <2>4, <3>1, <4>1, <4>3
        <4> QED  BY <4>1, <4>2, <4>3
      <3> QED  BY <1>2, <1>3, <3>2
    <2>5. key[v] \in Int
      BY <2>1, <2>2
    <2> QED  BY <2>2, <2>3, <2>4, <2>5
  <1> QED  BY <1>6, <1>7

\* A page of two holds some of the entries, the first page two if there are as many.
LEMMA UptoType ==
    ASSUME NEW S, NEW s \in Seq(S), NEW from \in Nat \ {0}
    PROVE  /\ Upto(s, from, 2) \in Seq(S)
           /\ from = 1 => Len(Upto(s, from, 2)) = IF Len(s) < 2 THEN Len(s) ELSE 2
  <1> DEFINE e == IF Len(s) < from + 2 - 1 THEN Len(s) ELSE from + 2 - 1
  <1>1. Len(s) \in Nat /\ e \in Nat /\ e <= Len(s)
    OBVIOUS
  <1>2. Upto(s, from, 2) = SubSeq(s, from, e)
    BY DEF Upto
  <1>3. from = 1 => e = IF Len(s) < 2 THEN Len(s) ELSE 2
    BY <1>1
  <1> HIDE DEF e
  <1>4. SubSeq(s, from, e) = [i \in 1 .. (1 + e - from) |-> s[i + from - 1]]
    BY <1>1
  <1>5. \A i \in 1 .. (1 + e - from) : s[i + from - 1] \in S
    BY <1>1
  <1>6. CASE from <= e
    <2>1. 1 + e - from \in Nat
      BY <1>1, <1>6
    <2>2. SubSeq(s, from, e) \in Seq(S) /\ Len(SubSeq(s, from, e)) = 1 + e - from
      BY <1>4, <1>5, <2>1
    <2>3. from = 1 => 1 + e - from = e
      BY <1>1
    <2> QED  BY <1>2, <1>3, <2>2, <2>3
  <1>7. CASE ~ (from <= e)
    <2>1. 1 .. (1 + e - from) = 1 .. 0
      BY <1>1, <1>7
    <2>2. SubSeq(s, from, e) = [i \in 1 .. 0 |-> s[i + from - 1]]
      BY <1>4, <2>1
    <2>3. SubSeq(s, from, e) \in Seq(S) /\ Len(SubSeq(s, from, e)) = 0
      BY <2>2
    <2>4. from = 1 => e = 0
      BY <1>1, <1>7
    <2> QED  BY <1>2, <1>3, <2>3, <2>4
  <1> QED  BY <1>6, <1>7

\* A non-empty set of positions has a first one.
LEMMA FirstPosition ==
    ASSUME NEW n \in Nat, NEW P \in SUBSET (1 .. n), P # {}
    PROVE  \E i \in P : \A j \in P : i <= j
  <1> DEFINE key == [i \in P |-> -i]
  <1>1. IsFiniteSet(P)
    <2>1. IsFiniteSet(1 .. n)
      BY FS_Interval
    <2> QED  BY <2>1, FS_Subset
  <1>2. key \in [P -> Int]
    OBVIOUS
  <1>3. \E i \in P : \A j \in P : key[j] <= key[i]
    <2> HIDE DEF key
    <2> QED  BY <1>1, <1>2, LargestKey
  <1>4. PICK i \in P : \A j \in P : -j <= -i
    BY <1>3
  <1>5. \A j \in P : i <= j
    BY <1>4
  <1> QED  BY <1>5

\* a may come before b.
InOrder(order, a, b) == IF order = "asc" THEN a <= b ELSE b <= a

\* A sorted sequence has every row once, and any two rows in order.
LEMMA SortedRows ==
    ASSUME NEW D, IsFiniteSet(D), NEW key \in [D -> Int], NEW order, NEW s \in Sorted(key, order)
    PROVE  /\ s \in Seq(D) /\ Len(s) = Cardinality(D) /\ Len(s) \in Nat
           /\ \A i, j \in 1 .. Len(s) : s[i] = s[j] => i = j
           /\ \A x \in D : \E i \in 1 .. Len(s) : s[i] = x
           /\ \A i, j \in 1 .. Len(s) : i < j => InOrder(order, key[s[i]], key[s[j]])
  <1> DEFINE n == Cardinality(D)
  <1>1. n \in Nat
    BY FS_CardinalityType
  <1>2. /\ s \in [1 .. n -> D] /\ \A i, j \in 1 .. n : i # j => s[i] # s[j]
        /\ \A i \in 1 .. Len(s) - 1 : InOrder(order, key[s[i]], key[s[i + 1]])
    BY DEF Sorted, SetToSeqs, InOrder
  <1> HIDE DEF n
  <1>3. s \in Seq(D) /\ Len(s) = n
    BY <1>1, <1>2
  <1>4. \A x \in D : \E i \in 1 .. n : s[i] = x
    <2>1. IsFiniteSet(1 .. n) /\ Cardinality(1 .. n) = n
      BY <1>1, FS_Interval
    <2>2. s \in Injection(1 .. n, D)
      BY <1>2 DEF Injection, IsInjective
    <2>3. Cardinality(1 .. n) = Cardinality(D)
      BY <2>1 DEF n
    <2>4. s \in Surjection(1 .. n, D)
      BY <2>2, <2>3, FS_Injection
    <2> QED  BY <2>4 DEF Surjection
  <1>5. ASSUME NEW i \in 1 .. n, NEW j \in 1 .. n, i < j
        PROVE  InOrder(order, key[s[i]], key[s[j]])
    <2> DEFINE Bad == {k \in 1 .. n : i < k /\ ~InOrder(order, key[s[i]], key[s[k]])}
    <2> SUFFICES ASSUME Bad # {} PROVE FALSE
      BY <1>5
    <2>1. PICK k \in Bad : \A l \in Bad : k <= l
      BY <1>1, FirstPosition
    <2>2. k - 1 \in 1 .. n /\ k - 1 + 1 = k /\ k - 1 \in 1 .. Len(s) - 1 /\ i <= k - 1
      BY <1>1, <1>3, <2>1
    <2>3. InOrder(order, key[s[k - 1]], key[s[k]])
      BY <1>2, <2>2
    <2>4. i = k - 1 \/ InOrder(order, key[s[i]], key[s[k - 1]])
      <3>1. k - 1 \notin Bad
        BY <1>1, <2>1, <2>2
      <3> QED  BY <1>1, <2>2, <3>1
    <2>5. key[s[i]] \in Int /\ key[s[k]] \in Int /\ key[s[k - 1]] \in Int
      BY <1>2, <2>1, <2>2
    <2>6. InOrder(order, key[s[i]], key[s[k]])
      BY <2>3, <2>4, <2>5 DEF InOrder
    <2> QED  BY <2>1, <2>6
  <1>6. Len(s) = Cardinality(D)
    BY <1>3 DEF n
  <1> QED  BY <1>1, <1>2, <1>3, <1>4, <1>5, <1>6

\* Keys that are all different leave one order only.
Untied(key) == \A x, y \in DOMAIN key : key[x] = key[y] => x = y

LEMMA SortedOnce ==
    ASSUME NEW D, IsFiniteSet(D), NEW key \in [D -> Int], Untied(key), NEW order,
           NEW s \in Sorted(key, order), NEW u \in Sorted(key, order)
    PROVE  s = u
  <1> DEFINE n == Cardinality(D)
  <1>1. /\ s \in Seq(D) /\ u \in Seq(D) /\ Len(s) = n /\ Len(u) = n /\ n \in Nat
        /\ \A i, j \in 1 .. n : (s[i] = s[j] => i = j) /\ (u[i] = u[j] => i = j)
        /\ \A x \in D : (\E i \in 1 .. n : s[i] = x) /\ (\E i \in 1 .. n : u[i] = x)
        /\ \A i, j \in 1 .. n : i < j => /\ InOrder(order, key[s[i]], key[s[j]])
                                         /\ InOrder(order, key[u[i]], key[u[j]])
    <2>1. /\ s \in Seq(D) /\ Len(s) = n /\ n \in Nat
          /\ \A i, j \in 1 .. n : s[i] = s[j] => i = j
          /\ \A x \in D : \E i \in 1 .. n : s[i] = x
          /\ \A i, j \in 1 .. n : i < j => InOrder(order, key[s[i]], key[s[j]])
      <3> HIDE DEF n
      <3>1. /\ s \in Seq(D) /\ Len(s) = Cardinality(D) /\ Len(s) \in Nat
            /\ \A i, j \in 1 .. Len(s) : s[i] = s[j] => i = j
            /\ \A x \in D : \E i \in 1 .. Len(s) : s[i] = x
            /\ \A i, j \in 1 .. Len(s) : i < j => InOrder(order, key[s[i]], key[s[j]])
        BY SortedRows
      <3> QED  BY <3>1 DEF n
    <2>2. /\ u \in Seq(D) /\ Len(u) = n
          /\ \A i, j \in 1 .. n : u[i] = u[j] => i = j
          /\ \A x \in D : \E i \in 1 .. n : u[i] = x
          /\ \A i, j \in 1 .. n : i < j => InOrder(order, key[u[i]], key[u[j]])
      <3> HIDE DEF n
      <3>1. /\ u \in Seq(D) /\ Len(u) = Cardinality(D) /\ Len(u) \in Nat
            /\ \A i, j \in 1 .. Len(u) : u[i] = u[j] => i = j
            /\ \A x \in D : \E i \in 1 .. Len(u) : u[i] = x
            /\ \A i, j \in 1 .. Len(u) : i < j => InOrder(order, key[u[i]], key[u[j]])
        BY SortedRows
      <3> QED  BY <3>1 DEF n
    <2> QED  BY <2>1, <2>2
  <1> HIDE DEF n
  <1> DEFINE Differ == {i \in 1 .. n : s[i] # u[i]}
  <1>2. ASSUME Differ # {} PROVE FALSE
    <2>1. PICK i \in Differ : \A j \in Differ : i <= j
      BY <1>1, <1>2, FirstPosition
    <2>2. s[i] \in D /\ u[i] \in D /\ s[i] # u[i] /\ i \in 1 .. n
      BY <1>1, <2>1
    <2>3. PICK j \in 1 .. n : u[j] = s[i]
      BY <1>1, <2>2
    <2>4. PICK k \in 1 .. n : s[k] = u[i]
      BY <1>1, <2>2
    <2>5. i < j
      <3>1. \A l \in 1 .. n : l < i => u[l] = s[l]
        BY <1>1, <2>1
      <3>2. j # i
        BY <2>2, <2>3
      <3>3. ~(j < i)
        BY <1>1, <2>2, <2>3, <3>1
      <3> QED  BY <2>2, <3>2, <3>3
    <2>6. i < k
      <3>1. \A l \in 1 .. n : l < i => s[l] = u[l]
        BY <1>1, <2>1
      <3>2. k # i
        BY <2>2, <2>4
      <3>3. ~(k < i)
        BY <1>1, <2>2, <2>4, <3>1
      <3> QED  BY <2>2, <3>2, <3>3
    <2>7. InOrder(order, key[u[i]], key[s[i]]) /\ InOrder(order, key[s[i]], key[u[i]])
      BY <1>1, <2>2, <2>3, <2>4, <2>5, <2>6
    <2>8. key[u[i]] = key[s[i]]
      <3>1. key[u[i]] \in Int /\ key[s[i]] \in Int
        BY <2>2
      <3> QED  BY <2>7, <3>1 DEF InOrder
    <2> QED  BY <2>2, <2>8 DEF Untied
  <1>3. \A i \in 1 .. n : s[i] = u[i]
    BY <1>2
  <1> QED  BY <1>1, <1>3

\* A page of one entry.
LEMMA UptoOne ==
    ASSUME NEW S, NEW s \in Seq(S), NEW from \in Nat \ {0}
    PROVE  Upto(s, from, 1) = IF from <= Len(s) THEN <<s[from]>> ELSE <<>>
  <1> DEFINE e == IF Len(s) < from + 1 - 1 THEN Len(s) ELSE from + 1 - 1
  <1>1. Len(s) \in Nat /\ e = IF Len(s) < from THEN Len(s) ELSE from
    OBVIOUS
  <1>2. Upto(s, from, 1) = SubSeq(s, from, e)
    BY DEF Upto
  <1> HIDE DEF e
  <1>3. CASE from <= Len(s)
    <2>1. e = from
      BY <1>1, <1>3
    <2> DEFINE p == SubSeq(s, from, from)
    <2>2. p = [i \in 1 .. (1 + from - from) |-> s[i + from - 1]]
      BY <1>1
    <2>3. 1 + from - from = 1 /\ s[1 + from - 1] = s[from]
      BY <1>1
    <2>4. DOMAIN p = 1 .. 1 /\ p[1] = s[from]
      BY <2>2, <2>3
    <2>5. p \in Seq({s[from]}) /\ Len(p) = 1
      BY <2>2, <2>3
    <2> HIDE DEF p
    <2>6. p = <<s[from]>>
      BY <2>4, <2>5
    <2> QED  BY <1>2, <1>3, <2>1, <2>6 DEF p
  <1>4. CASE ~(from <= Len(s))
    <2>1. e = Len(s) /\ e < from
      BY <1>1, <1>4
    <2>2. SubSeq(s, from, e) = <<>>
      BY <1>1, <2>1
    <2> QED  BY <1>2, <1>4, <2>2
  <1> QED  BY <1>3, <1>4

\* The page after an entry, with a cursor: the entry that follows it.
LEMMA CursorOne ==
    ASSUME NEW S, NEW s \in Seq(S), \A i, j \in 1 .. Len(s) : s[i] = s[j] => i = j,
           NEW i \in 1 .. Len(s)
    PROVE  CursorPage(s, {s[i]}, 1) = IF i < Len(s) THEN <<s[i + 1]>> ELSE <<>>
  <1> DEFINE c == CHOOSE j \in DOMAIN s : {s[j]} = {s[i]}
  <1>1. DOMAIN s = 1 .. Len(s) /\ Len(s) \in Nat
    OBVIOUS
  <1>2. c \in 1 .. Len(s) /\ {s[c]} = {s[i]}
    BY <1>1
  <1> HIDE DEF c
  <1>3. c = i
    BY <1>2
  <1>4. {s[i]} \in {{s[j]} : j \in DOMAIN s}
    BY <1>1
  <1>5. CursorPage(s, {s[i]}, 1) = Upto(s, 1 + c, 1)
    BY <1>4 DEF CursorPage, c
  <1>6. 1 + i \in Nat \ {0} /\ 1 + i = i + 1 /\ (i + 1 <= Len(s) <=> i < Len(s))
    BY <1>1
  <1>7. Upto(s, 1 + i, 1) = IF 1 + i <= Len(s) THEN <<s[1 + i]>> ELSE <<>>
    BY <1>6, UptoOne
  <1> QED  BY <1>3, <1>5, <1>6, <1>7


(***************************************************************************)
(* Listing page by page, one entry at a time.                              *)
(***************************************************************************)

\* One more entry at the end.
LEMMA OneMore ==
    ASSUME NEW S, NEW x \in S, NEW q \in Seq(S), NEW longer, longer = q \o <<x>>
    PROVE  /\ longer \in Seq(S) /\ Len(longer) = Len(q) + 1 /\ longer # <<>> /\ Len(q) \in Nat
           /\ \A i \in 1 .. Len(q) : longer[i] = q[i]
           /\ longer[Len(q) + 1] = x /\ Last(longer) = x
  <1> DEFINE one == <<x>>
  <1>1. one \in Seq(S) /\ Len(one) = 1 /\ one[1] = x /\ Len(q) \in Nat
    OBVIOUS
  <1> HIDE DEF one
  <1>2. longer = q \o one
    BY DEF one
  <1>3. longer \in Seq(S) /\ Len(longer) = Len(q) + 1
    BY <1>1, <1>2
  <1>4. \A i \in 1 .. Len(q) : longer[i] = q[i]
    BY <1>1, <1>2
  <1>5. longer[Len(q) + 1] = x
    BY <1>1, <1>2
  <1>6. longer # <<>>
    BY <1>1, <1>3
  <1> QED  BY <1>1, <1>3, <1>4, <1>5, <1>6 DEF Last

LEMMA NotEmpty ==
    ASSUME NEW x
    PROVE  <<x>> # <<>>
  OBVIOUS

\* What has been listed by offset is how every sorted sequence begins.
Begins(listed, key, order) ==
    /\ listed \in Seq(DOMAIN key)
    /\ \A s \in Sorted(key, order) :
          Len(listed) <= Len(s) /\ \A i \in 1 .. Len(listed) : listed[i] = s[i]

\* The next page by offset: the walk is through, or goes on with a new entry.
LEMMA OffsetNext ==
    ASSUME NEW D, IsFiniteSet(D), NEW key \in [D -> Int], Untied(key), NEW order,
           NEW listed, Begins(listed, key, order), NEW s \in Sorted(key, order),
           NEW page, page = OffsetPage(s, Len(listed), 1)
    PROVE  /\ page = <<>> => listed = s
           /\ page # <<>> => /\ Len(listed) + 1 <= Cardinality(D)
                             /\ Len(listed \o page) = Len(listed) + 1
                             /\ Begins(listed \o page, key, order)
  <1> DEFINE n == Len(listed)
  <1>1. /\ s \in Seq(D) /\ Len(s) = Cardinality(D) /\ Len(s) \in Nat
    BY SortedRows
  <1>2. /\ listed \in Seq(D) /\ n \in Nat /\ n <= Len(s) /\ \A i \in 1 .. n : listed[i] = s[i]
    BY DEF Begins
  <1>3. page = IF n + 1 <= Len(s) THEN <<s[n + 1]>> ELSE <<>>
    <2>1. n + 1 \in Nat \ {0}
      BY <1>2
    <2> HIDE DEF n
    <2>2. page = Upto(s, n + 1, 1)
      BY DEF OffsetPage, n
    <2> QED  BY <1>1, <2>1, <2>2, UptoOne
  <1>4. ASSUME page = <<>>
        PROVE  listed = s
    <2> HIDE DEF n
    <2>1. n = Len(s)
      <3>1. ~(n + 1 <= Len(s))
        BY <1>3, <1>4, NotEmpty, Zenon
      <3> QED  BY <1>1, <1>2, <3>1
    <2> QED  BY <1>1, <1>2, <2>1 DEF n
  <1>5. ASSUME page # <<>>
        PROVE  /\ Len(listed) + 1 <= Cardinality(D)
               /\ Len(listed \o page) = Len(listed) + 1
               /\ Begins(listed \o page, key, order)
    <2>1. n + 1 <= Len(s) /\ page = <<s[n + 1]>> /\ s[n + 1] \in D
      BY <1>1, <1>2, <1>3, <1>5
    <2> DEFINE longer == listed \o page
    <2>2. /\ longer \in Seq(D) /\ Len(longer) = n + 1
          /\ \A i \in 1 .. n : longer[i] = listed[i]
          /\ longer[n + 1] = s[n + 1]
      <3> HIDE DEF longer
      <3> DEFINE x == s[n + 1]
      <3>1. x \in D /\ longer = listed \o <<x>>
        BY <2>1 DEF longer
      <3> HIDE DEF x
      <3>2. /\ longer \in Seq(D) /\ Len(longer) = n + 1
            /\ \A i \in 1 .. n : longer[i] = listed[i]
            /\ longer[n + 1] = x
        BY <1>2, <3>1, OneMore
      <3> QED  BY <3>2 DEF x
    <2> HIDE DEF longer
    <2>3. \A i \in 1 .. n + 1 : longer[i] = s[i]
      BY <1>2, <2>2
    <2>4. \A u \in Sorted(key, order) : u = s
      BY SortedOnce
    <2>5. Begins(longer, key, order)
      BY <2>1, <2>2, <2>3, <2>4 DEF Begins
    <2> QED  BY <1>1, <2>1, <2>2, <2>5 DEF longer
  <1> QED  BY <1>4, <1>5

\* What has been listed with a cursor is in order, and has left out none of S before its
\* last entry.
Follows(listed, key, order, S) ==
    /\ listed \in Seq(DOMAIN key)
    /\ \A i, j \in 1 .. Len(listed) :
          i < j => listed[i] # listed[j] /\ InOrder(order, key[listed[i]], key[listed[j]])
    /\ listed # <<>> =>
          \A x \in S : InOrder(order, key[x], key[Last(listed)]) =>
              \E i \in 1 .. Len(listed) : listed[i] = x

\* The entry that comes next with a cursor comes after all that were listed, and nothing
\* is between it and the last of these.
LEMMA CursorAfter ==
    ASSUME NEW D, IsFiniteSet(D), NEW key \in [D -> Int], Untied(key), NEW order,
           NEW S \in SUBSET D, NEW listed, Follows(listed, key, order, S), listed # <<>>,
           NEW s \in Sorted(key, order),
           NEW page, page = CursorPage(s, {Last(listed)}, 1)
    PROVE  /\ page = <<>> => \A x \in D : InOrder(order, key[x], key[Last(listed)])
           /\ page # <<>> => \E y \in D :
                 /\ page = <<y>> /\ y # Last(listed)
                 /\ InOrder(order, key[Last(listed)], key[y])
                 /\ \A x \in D : InOrder(order, key[x], key[y]) =>
                        x = y \/ InOrder(order, key[x], key[Last(listed)])
  <1> DEFINE l == Last(listed)
  <1>1. l \in D
    BY DEF Follows, Last
  <1>2. /\ s \in Seq(D) /\ Len(s) \in Nat
        /\ \A i, j \in 1 .. Len(s) : s[i] = s[j] => i = j
        /\ \A x \in D : \E i \in 1 .. Len(s) : s[i] = x
        /\ \A i, j \in 1 .. Len(s) : i < j => InOrder(order, key[s[i]], key[s[j]])
    BY SortedRows
  <1> HIDE DEF l
  <1>3. PICK i \in 1 .. Len(s) : s[i] = l
    BY <1>1, <1>2
  <1>4. page = IF i < Len(s) THEN <<s[i + 1]>> ELSE <<>>
    <2>1. CursorPage(s, {s[i]}, 1) = IF i < Len(s) THEN <<s[i + 1]>> ELSE <<>>
      BY <1>2, CursorOne
    <2>2. page = CursorPage(s, {l}, 1)
      BY DEF l
    <2> QED  BY <1>3, <2>1, <2>2
  <1>5. \A x \in D : InOrder(order, key[x], key[x])
    BY DEF InOrder
  <1>6. ASSUME page = <<>>, NEW x \in D
        PROVE  InOrder(order, key[x], key[l])
    <2>1. i = Len(s)
      <3>1. ~(i < Len(s))
        BY <1>4, <1>6, NotEmpty, Zenon
      <3> QED  BY <1>2, <3>1
    <2>2. PICK j \in 1 .. Len(s) : s[j] = x
      BY <1>2
    <2>3. j < i \/ j = i
      BY <1>2, <2>1, <2>2
    <2> QED  BY <1>2, <1>3, <1>5, <2>2, <2>3
  <1>7. ASSUME page # <<>>
        PROVE  \E y \in D : /\ page = <<y>> /\ y # l /\ InOrder(order, key[l], key[y])
                            /\ \A x \in D : InOrder(order, key[x], key[y]) =>
                                   x = y \/ InOrder(order, key[x], key[l])
    <2> DEFINE y == s[i + 1]
    <2>1. i + 1 \in 1 .. Len(s) /\ i < i + 1 /\ page = <<y>> /\ y \in D
      <3>1. i < Len(s)
        BY <1>4, <1>7
      <3>2. i + 1 \in 1 .. Len(s) /\ i < i + 1
        BY <1>2, <3>1
      <3>3. s[i + 1] \in D
        BY <1>2, <3>2
      <3> QED  BY <1>4, <3>1, <3>2, <3>3
    <2> HIDE DEF y
    <2>2. y # l /\ InOrder(order, key[l], key[y])
      <3>1. y = s[i + 1]
        BY DEF y
      <3>2. s[i] # s[i + 1]
        BY <1>2, <2>1
      <3> QED  BY <1>2, <1>3, <2>1, <3>1, <3>2
    <2>3. ASSUME NEW x \in D, InOrder(order, key[x], key[y]), x # y
          PROVE  InOrder(order, key[x], key[l])
      <3>1. PICK j \in 1 .. Len(s) : s[j] = x
        BY <1>2
      <3>2. ~(i + 1 < j)
        <4>1. SUFFICES ASSUME i + 1 < j PROVE FALSE
          OBVIOUS
        <4>2. InOrder(order, key[y], key[x])
          BY <1>2, <2>1, <3>1, <4>1 DEF y
        <4>3. key[x] \in Int /\ key[y] \in Int
          BY <2>1
        <4>4. key[x] = key[y]
          BY <2>3, <4>2, <4>3 DEF InOrder
        <4> QED  BY <2>1, <2>3, <4>4 DEF Untied
      <3>3. j # i + 1
        BY <2>3, <3>1 DEF y
      <3>4. j = i \/ j < i
        BY <1>2, <3>1, <3>2, <3>3
      <3> QED  BY <1>2, <1>3, <1>5, <3>1, <3>4
    <2> QED  BY <2>1, <2>2, <2>3
  <1> QED  BY <1>6, <1>7 DEF l


\* Entries in order are as many as positions.
LEMMA ListedFits ==
    ASSUME NEW D, IsFiniteSet(D), NEW listed \in Seq(D),
           \A i, j \in 1 .. Len(listed) : i < j => listed[i] # listed[j]
    PROVE  /\ Len(listed) \in Nat /\ Cardinality(D) \in Nat /\ Len(listed) <= Cardinality(D)
           /\ \A i, j \in 1 .. Len(listed) : listed[i] = listed[j] => i = j
  <1> DEFINE n == Len(listed)
  <1>1. n \in Nat /\ listed \in [1 .. n -> D]
    OBVIOUS
  <1>2. \A i, j \in 1 .. n : listed[i] = listed[j] => i = j
    <2> SUFFICES ASSUME NEW i \in 1 .. n, NEW j \in 1 .. n, listed[i] = listed[j], i # j
                 PROVE  FALSE
      OBVIOUS
    <2>1. i < j \/ j < i
      BY <1>1
    <2> QED  BY <2>1
  <1> HIDE DEF n
  <1>3. listed \in Injection(1 .. n, D)
    BY <1>1, <1>2 DEF Injection, IsInjective
  <1>4. Cardinality(1 .. n) = n
    BY <1>1, FS_Interval
  <1>5. Cardinality(1 .. n) <= Cardinality(D)
    BY <1>3, FS_Injection
  <1>6. Cardinality(D) \in Nat
    BY FS_CardinalityType
  <1> QED  BY <1>1, <1>2, <1>4, <1>5, <1>6 DEF n

\* The first page of a walk with a cursor: the first entry of all.
LEMMA CursorFirst ==
    ASSUME NEW D, IsFiniteSet(D), NEW key \in [D -> Int], Untied(key), NEW order,
           NEW s \in Sorted(key, order), NEW page, page = OffsetPage(s, 0, 1)
    PROVE  /\ page = <<>> => D = {}
           /\ page # <<>> => \E y \in D :
                 page = <<y>> /\ \A x \in D : InOrder(order, key[x], key[y]) => x = y
  <1>1. /\ s \in Seq(D) /\ Len(s) \in Nat
        /\ \A x \in D : \E i \in 1 .. Len(s) : s[i] = x
        /\ \A i, j \in 1 .. Len(s) : i < j => InOrder(order, key[s[i]], key[s[j]])
    BY SortedRows
  <1>2. page = IF 1 <= Len(s) THEN <<s[1]>> ELSE <<>>
    <2>1. page = Upto(s, 0 + 1, 1) /\ 0 + 1 = 1
      BY DEF OffsetPage
    <2>2. Upto(s, 1, 1) = IF 1 <= Len(s) THEN <<s[1]>> ELSE <<>>
      BY <1>1, UptoOne
    <2> QED  BY <2>1, <2>2
  <1>3. ASSUME page = <<>>
        PROVE  D = {}
    <2>1. ~(1 <= Len(s))
      BY <1>2, <1>3, NotEmpty, Zenon
    <2>2. 1 .. Len(s) = {}
      BY <1>1, <2>1
    <2> QED  BY <1>1, <2>2
  <1>4. ASSUME page # <<>>
        PROVE  \E y \in D : page = <<y>> /\ \A x \in D : InOrder(order, key[x], key[y]) => x = y
    <2> DEFINE y == s[1]
    <2>1. 1 \in 1 .. Len(s)
      BY <1>1, <1>2, <1>4
    <2>2. page = <<y>> /\ y \in D
      BY <1>1, <1>2, <1>4, <2>1
    <2> HIDE DEF y
    <2>3. ASSUME NEW x \in D, InOrder(order, key[x], key[y])
          PROVE  x = y
      <3>1. PICK j \in 1 .. Len(s) : s[j] = x
        BY <1>1
      <3>2. CASE j = 1
        BY <3>1, <3>2 DEF y
      <3>3. CASE j # 1
        <4>1. 1 < j
          BY <1>1, <3>1, <3>3
        <4>2. InOrder(order, key[y], key[x])
          BY <1>1, <2>1, <3>1, <4>1 DEF y
        <4>3. key[x] \in Int /\ key[y] \in Int
          BY <2>2
        <4>4. key[x] = key[y]
          BY <2>3, <4>2, <4>3 DEF InOrder
        <4> QED  BY <2>2, <2>3, <4>4 DEF Untied
      <3> QED  BY <3>2, <3>3
    <2> QED  BY <2>2, <2>3
  <1> QED  BY <1>3, <1>4

\* The next page with a cursor: the walk has been through all of S, or goes on with a new
\* entry.
GoesOn(D, key, order, S, listed, page) ==
    /\ page = <<>> => \A x \in S : \E i \in 1 .. Len(listed) : listed[i] = x
    /\ page # <<>> => /\ Len(listed) + 1 <= Cardinality(D)
                      /\ Len(listed \o page) = Len(listed) + 1
                      /\ \A i \in 1 .. Len(listed) : (listed \o page)[i] = listed[i]
                      /\ Follows(listed \o page, key, order, S)

\* The page that a client of the memory back end gets which has been given listed.
CursorPageAfter(s, listed) ==
    IF listed = <<>> THEN OffsetPage(s, 0, 1) ELSE CursorPage(s, {Last(listed)}, 1)

LEMMA CursorNext ==
    ASSUME NEW D, IsFiniteSet(D), NEW key \in [D -> Int], Untied(key), NEW order,
           NEW S \in SUBSET D, NEW listed, Follows(listed, key, order, S),
           NEW s \in Sorted(key, order), NEW page, page = CursorPageAfter(s, listed)
    PROVE  GoesOn(D, key, order, S, listed, page)
  <1> DEFINE l == Last(listed)
             n == Len(listed)
  <1>0. DOMAIN key = D
    OBVIOUS
  <1>1. /\ listed \in Seq(D) /\ n \in Nat
        /\ \A i, j \in 1 .. n :
              i < j => listed[i] # listed[j] /\ InOrder(order, key[listed[i]], key[listed[j]])
        /\ listed # <<>> =>
              \A x \in S : InOrder(order, key[x], key[l]) => \E i \in 1 .. n : listed[i] = x
    BY <1>0 DEF Follows
  <1>2. listed # <<>> => l = listed[n] /\ n \in 1 .. n /\ l \in D
    BY <1>1 DEF Last
  <1>3. /\ listed = <<>> /\ page = <<>> => S = {}
        /\ listed # <<>> /\ page = <<>> => \A x \in D : InOrder(order, key[x], key[l])
    BY CursorFirst, CursorAfter DEF CursorPageAfter
  <1>4. ASSUME page = <<>>, NEW x \in S
        PROVE  \E i \in 1 .. n : listed[i] = x
    BY <1>1, <1>3, <1>4
  <1>5. ASSUME page # <<>>
        PROVE  /\ n + 1 <= Cardinality(D)
               /\ Len(listed \o page) = n + 1
               /\ \A i \in 1 .. n : (listed \o page)[i] = listed[i]
               /\ Follows(listed \o page, key, order, S)
    <2>1. \E y \in D :
             /\ page = <<y>>
             /\ listed # <<>> => y # l /\ InOrder(order, key[l], key[y])
             /\ \A x \in D : InOrder(order, key[x], key[y]) =>
                    x = y \/ (listed # <<>> /\ InOrder(order, key[x], key[l]))
      <3>1. CASE listed = <<>>
        BY <1>5, <3>1, CursorFirst DEF CursorPageAfter
      <3>2. CASE listed # <<>>
        BY <1>5, <3>2, CursorAfter DEF CursorPageAfter
      <3> QED  BY <3>1, <3>2
    <2>2. PICK y \in D :
             /\ page = <<y>>
             /\ listed # <<>> => y # l /\ InOrder(order, key[l], key[y])
             /\ \A x \in D : InOrder(order, key[x], key[y]) =>
                    x = y \/ (listed # <<>> /\ InOrder(order, key[x], key[l]))
      BY <2>1
    <2> DEFINE longer == listed \o page
    <2>3. /\ longer \in Seq(D) /\ Len(longer) = n + 1 /\ longer # <<>>
          /\ \A i \in 1 .. n : longer[i] = listed[i]
          /\ longer[n + 1] = y /\ Last(longer) = y
      <3> HIDE DEF n
      <3> HIDE DEF longer
      <3>1. y \in D /\ longer = listed \o <<y>>
        BY <2>2 DEF longer
      <3>2. /\ longer \in Seq(D) /\ Len(longer) = Len(listed) + 1 /\ Len(listed) \in Nat
            /\ \A i \in 1 .. Len(listed) : longer[i] = listed[i]
            /\ longer[Len(listed) + 1] = y
        BY <1>1, <3>1, OneMore
      <3>3. longer # <<>> /\ Last(longer) = y
        BY <3>2 DEF Last
      <3> QED  BY <3>2, <3>3 DEF n
    <2> HIDE DEF longer
    <2>4. ASSUME NEW i \in 1 .. n
          PROVE  listed[i] # y /\ InOrder(order, key[listed[i]], key[y])
      <3>1. listed # <<>> /\ n \in 1 .. n
        BY <1>1, <2>4
      <3>2. /\ y # l /\ InOrder(order, key[l], key[y]) /\ l = listed[n]
            /\ key[l] \in Int /\ key[y] \in Int /\ listed[i] \in D /\ key[listed[i]] \in Int
        BY <1>1, <1>2, <2>2, <2>4, <3>1
      <3>3. i = n \/ InOrder(order, key[listed[i]], key[l])
        <4>1. i = n \/ i < n
          BY <1>1, <2>4
        <4> QED  BY <1>1, <2>4, <3>1, <3>2, <4>1
      <3>4. InOrder(order, key[listed[i]], key[y])
        BY <3>2, <3>3 DEF InOrder
      <3>5. listed[i] # y
        <4>1. SUFFICES ASSUME listed[i] = y, i # n PROVE FALSE
          BY <3>2
        <4>2. key[y] = key[l]
          BY <3>2, <3>3, <4>1 DEF InOrder
        <4> QED  BY <1>0, <1>2, <3>1, <3>2, <4>2 DEF Untied
      <3> QED  BY <3>4, <3>5
    <2>5. \A i, j \in 1 .. n + 1 :
             i < j => longer[i] # longer[j] /\ InOrder(order, key[longer[i]], key[longer[j]])
      <3> SUFFICES ASSUME NEW i \in 1 .. n + 1, NEW j \in 1 .. n + 1, i < j
                   PROVE  longer[i] # longer[j] /\ InOrder(order, key[longer[i]], key[longer[j]])
        OBVIOUS
      <3>1. i \in 1 .. n /\ (j \in 1 .. n \/ j = n + 1)
        BY <1>1
      <3> QED  BY <1>1, <2>3, <2>4, <3>1, ZenonT(60)
    <2>6. ASSUME NEW x \in S, InOrder(order, key[x], key[y])
          PROVE  \E i \in 1 .. n + 1 : longer[i] = x
      <3>1. n + 1 \in 1 .. n + 1 /\ \A i \in 1 .. n : i \in 1 .. n + 1
        BY <1>1
      <3>2. x = y \/ (listed # <<>> /\ InOrder(order, key[x], key[l]))
        BY <2>2, <2>6
      <3>3. CASE x = y
        BY <2>3, <3>1, <3>3
      <3>4. CASE listed # <<>> /\ InOrder(order, key[x], key[l])
        <4>1. PICK i \in 1 .. n : listed[i] = x
          BY <1>1, <3>4
        <4> QED  BY <2>3, <3>1, <4>1
      <3> QED  BY <3>2, <3>3, <3>4
    <2>7. Follows(longer, key, order, S)
      BY <1>0, <2>3, <2>5, <2>6 DEF Follows
    <2>8. n + 1 <= Cardinality(D)
      BY <2>3, <2>5, ListedFits
    <2> QED  BY <2>3, <2>7, <2>8 DEF longer
  <1> QED  BY <1>4, <1>5 DEF GoesOn


\* A walk that has got nothing yet.
LEMMA NothingYet ==
    ASSUME NEW key, NEW order, NEW S, \A s \in Sorted(key, order) : Len(s) \in Nat
    PROVE  Begins(<<>>, key, order) /\ Follows(<<>>, key, order, S)
  <1> DEFINE e == <<>>
  <1>1. e \in Seq(DOMAIN key) /\ Len(e) = 0
    OBVIOUS
  <1>2. 1 .. Len(e) = {}
    BY <1>1
  <1> QED  BY <1>1, <1>2 DEF Begins, Follows

\* Other entries may change while the walk with a cursor is under way: it is still in
\* order, and has left out none of those that did not change.
LEMMA FollowsKept ==
    ASSUME NEW key, NEW new, NEW order, NEW S, NEW T \in SUBSET S, NEW listed,
           Follows(listed, key, order, S),
           \A i \in 1 .. Len(listed) : listed[i] \in DOMAIN new /\ new[listed[i]] = key[listed[i]],
           \A x \in T : new[x] = key[x]
    PROVE  Follows(listed, new, order, T)
  <1>1. /\ listed \in Seq(DOMAIN key) /\ Len(listed) \in Nat
        /\ \A i, j \in 1 .. Len(listed) :
              i < j => listed[i] # listed[j] /\ InOrder(order, key[listed[i]], key[listed[j]])
        /\ listed # <<>> =>
              \A x \in S : InOrder(order, key[x], key[Last(listed)]) =>
                  \E i \in 1 .. Len(listed) : listed[i] = x
    BY DEF Follows
  <1>2. listed \in Seq(DOMAIN new)
    BY <1>1
  <1>3. listed # <<>> => new[Last(listed)] = key[Last(listed)]
    BY <1>1 DEF Last
  <1>4. \A i, j \in 1 .. Len(listed) :
           i < j => listed[i] # listed[j] /\ InOrder(order, new[listed[i]], new[listed[j]])
    BY <1>1
  <1>5. listed # <<>> =>
           \A x \in T : InOrder(order, new[x], new[Last(listed)]) =>
               \E i \in 1 .. Len(listed) : listed[i] = x
    BY <1>1, <1>3
  <1> QED  BY <1>2, <1>4, <1>5 DEF Follows

\* How often an entry is in a list.
Times(listed, x) == Cardinality({i \in DOMAIN listed : listed[i] = x})

LEMMA TimesListed ==
    ASSUME NEW D, NEW listed \in Seq(D), NEW x,
           \A i, j \in 1 .. Len(listed) : listed[i] = listed[j] => i = j
    PROVE  Times(listed, x) = IF \E i \in 1 .. Len(listed) : listed[i] = x THEN 1 ELSE 0
  <1> DEFINE P == {i \in DOMAIN listed : listed[i] = x}
  <1>1. DOMAIN listed = 1 .. Len(listed)
    OBVIOUS
  <1>2. CASE \E i \in 1 .. Len(listed) : listed[i] = x
    <2>1. PICK i \in 1 .. Len(listed) : listed[i] = x
      BY <1>2
    <2>2. P = {i}
      BY <1>1, <2>1
    <2> HIDE DEF P
    <2>3. Cardinality(P) = 1
      BY <2>2, FS_Singleton
    <2> QED  BY <1>2, <2>3 DEF P, Times
  <1>3. CASE ~\E i \in 1 .. Len(listed) : listed[i] = x
    <2>1. P = {}
      BY <1>1, <1>3
    <2> HIDE DEF P
    <2>2. Cardinality(P) = 0
      BY <2>1, FS_EmptySet
    <2> QED  BY <1>3, <2>2 DEF P, Times
  <1> QED  BY <1>2, <1>3


=============================================================================
