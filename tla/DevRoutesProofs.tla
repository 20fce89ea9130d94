--------------------------- MODULE DevRoutesProofs ---------------------------
(***************************************************************************)
(* Proofs about the list of routes: what the sort and the imports make of  *)
(* it, that the search finds the most specific route, and that importing   *)
(* pages on demand answers as importing all of them does.                  *)
(***************************************************************************)
EXTENDS DevRoutes, FiniteSetTheorems, WellFoundedInduction, TLAPS

-----------------------------------------------------------------------------
(* Lists.                                                                  *)

LEMMA TupleIs ==
    ASSUME NEW n \in Nat, NEW S, NEW f \in [1..n -> S]
    PROVE  f \in Seq(S) /\ Len(f) = n /\ Tuple(f) = f
<1>1. f \in Seq(S) /\ Len(f) = n
  OBVIOUS
<1>2. Tuple(f) \in Seq(S) /\ Len(Tuple(f)) = n
  BY <1>1 DEF Tuple
<1>3. \A i \in 1..n : Tuple(f)[i] = f[i]
  BY <1>1 DEF Tuple
<1> QED
  BY <1>1, <1>2, <1>3

LEMMA LeastNat ==
    ASSUME NEW S \in SUBSET Nat, S # {}
    PROVE  Min(S) \in S /\ \A y \in S : Min(S) <= y
<1>1. PICK x \in S : \A y \in S : ~(<<y, x>> \in OpToRel(<, Nat))
  BY NatLessThanWellFounded, WFMin
<1>2. ASSUME NEW y \in S PROVE x <= y
  <2>1. ~(y < x)
    BY <1>1 DEF OpToRel
  <2> QED
    BY <2>1
<1> QED
  BY <1>1, <1>2 DEF Min

LEMMA GreatestNat ==
    ASSUME NEW S \in SUBSET Nat, S # {}, NEW n \in Nat, \A y \in S : y <= n
    PROVE  Max(S) \in S /\ \A y \in S : Max(S) >= y
<1> DEFINE T == {n - y : y \in S}
<1>1. T \in SUBSET Nat /\ T # {}
  <2>1. \A y \in S : n - y \in Nat
    OBVIOUS
  <2> QED
    BY <2>1
<1>2. Min(T) \in T /\ \A y \in T : Min(T) <= y
  BY <1>1, LeastNat
<1>3. PICK x \in S : Min(T) = n - x
  BY <1>2
<1>4. ASSUME NEW y \in S PROVE x >= y
  <2>1. n - x <= n - y
    BY <1>2, <1>3
  <2> QED
    BY <2>1
<1> QED
  BY <1>3, <1>4 DEF Max

\* A strict total order on a set.
Orders(S, less) ==
    /\ \A x \in S : <<x, x>> \notin less
    /\ \A x, y \in S : x = y \/ <<x, y>> \in less \/ <<y, x>> \in less
    /\ \A x, y, z \in S : <<x, y>> \in less /\ <<y, z>> \in less => <<x, z>> \in less

\* The list has every element of the set once, in the order of the relation: the
\* number of the elements before one is a different number for each of them.
LEMMA ListedIs ==
    ASSUME NEW S, IsFiniteSet(S), NEW less, Orders(S, less)
    PROVE  LET list == Listed(S, less) IN
           /\ list \in Seq(S) /\ Len(list) = Cardinality(S)
           /\ \A x \in S : \E k \in DOMAIN list : list[k] = x
           /\ \A i, j \in DOMAIN list : i < j => <<list[i], list[j]>> \in less
<1> DEFINE n == Cardinality(S)
           before(x) == {y \in S : <<y, x>> \in less}
           rank == [x \in S |-> Cardinality(before(x))]
           ranked == {<<x, Cardinality(before(x))>> : x \in S}
           list == [k \in 1..n |-> CHOOSE x \in S : <<x, k - 1>> \in ranked]
<1>1. n \in Nat
  BY FS_CardinalityType
<1>2. ASSUME NEW x \in S PROVE IsFiniteSet(before(x)) /\ rank[x] \in 0..(n - 1)
  <2>1. before(x) \in SUBSET S /\ before(x) # S
    BY DEF Orders
  <2>2. IsFiniteSet(before(x)) /\ Cardinality(before(x)) <= n /\ Cardinality(before(x)) # n
    BY <2>1, FS_Subset
  <2>3. Cardinality(before(x)) \in Nat
    BY <2>2, FS_CardinalityType
  <2> QED
    BY <1>1, <2>2, <2>3
<1>3. ASSUME NEW x \in S, NEW y \in S, <<x, y>> \in less PROVE rank[x] < rank[y]
  <2>1. before(x) \in SUBSET before(y) /\ x \in before(y) /\ x \notin before(x)
    BY <1>3 DEF Orders
  <2>2. IsFiniteSet(before(y))
    BY <1>2
  <2>3. Cardinality(before(x)) <= Cardinality(before(y))
        /\ Cardinality(before(x)) # Cardinality(before(y))
    BY <2>1, <2>2, FS_Subset
  <2>4. rank[x] = Cardinality(before(x)) /\ rank[y] = Cardinality(before(y))
    OBVIOUS
  <2> QED
    BY <1>2, <2>3, <2>4
<1>4. \A x, y \in S : rank[x] = rank[y] => x = y
  <2> SUFFICES ASSUME NEW x \in S, NEW y \in S, rank[x] = rank[y], x # y PROVE FALSE
    OBVIOUS
  <2>1. rank[x] < rank[y] \/ rank[y] < rank[x]
    BY <1>3 DEF Orders
  <2>2. rank[x] \in 0..(n-1) /\ rank[y] \in 0..(n-1)
    BY <1>2
  <2> HIDE DEF rank, n
  <2> QED
    BY <1>1, <2>1, <2>2
<1>5. \A k \in 0..(n - 1) : \E x \in S : rank[x] = k
  <2>1. rank \in [S -> 0..(n - 1)]
    BY <1>2
  <2>2. rank \in Injection(S, 0..(n - 1))
    BY <1>4, <2>1 DEF Injection, IsInjective
  <2>3. IsFiniteSet(0..(n - 1)) /\ Cardinality(0..(n - 1)) = n
    BY <1>1, FS_Interval
  <2>4. rank \in Surjection(S, 0..(n - 1))
    BY <2>2, <2>3, FS_Injection
  <2> QED
    BY <2>4 DEF Surjection
<1>6. ASSUME NEW k \in 1..n PROVE list[k] \in S /\ rank[list[k]] = k - 1
  <2>1. PICK x \in S : rank[x] = k - 1
    BY <1>1, <1>5
  <2>2. <<x, k - 1>> \in ranked
    BY <2>1
  <2>3. list[k] \in S /\ <<list[k], k - 1>> \in ranked
    BY <2>2
  <2> QED
    BY <2>3
<1>7. list \in [1..n -> S]
  BY <1>6
<1>a. Listed(S, less) = Tuple(list)
  BY DEF Listed
<1> HIDE DEF list
<1>8. Listed(S, less) = list /\ list \in Seq(S) /\ Len(list) = n
  <2> HIDE DEF n
  <2> QED
    BY <1>1, <1>7, <1>a, TupleIs
<1>9. DOMAIN list = 1..n
  BY <1>7
<1>10. ASSUME NEW x \in S PROVE \E k \in 1..n : list[k] = x
  <2>1. rank[x] + 1 \in 1..n /\ rank[x] \in Nat
    <3>1. rank[x] \in 0..(n - 1)
      BY <1>2
    <3> HIDE DEF rank, n
    <3> QED
      BY <1>1, <3>1
  <2>2. list[rank[x] + 1] \in S /\ rank[list[rank[x] + 1]] = (rank[x] + 1) - 1
    BY <1>6, <2>1
  <2>3. (rank[x] + 1) - 1 = rank[x]
    BY <2>1
  <2> HIDE DEF rank
  <2> QED
    BY <1>4, <2>1, <2>2, <2>3
<1>11. ASSUME NEW i \in 1..n, NEW j \in 1..n, i < j PROVE <<list[i], list[j]>> \in less
  <2>1. list[i] \in S /\ list[j] \in S /\ rank[list[i]] = i - 1 /\ rank[list[j]] = j - 1
    BY <1>6
  <2> HIDE DEF rank
  <2>2. rank[list[i]] < rank[list[j]]
    BY <1>1, <1>11, <2>1
  <2>3. ~(rank[list[j]] < rank[list[i]]) /\ list[i] # list[j]
    BY <1>1, <2>1, <2>2
  <2> QED
    BY <1>3, <2>1, <2>3 DEF Orders
<1> QED
  BY <1>8, <1>9, <1>10, <1>11

\* The positions of a subsequence, and what it holds.
Order(positions) == Listed(positions, {x \in positions \X positions : x[1] < x[2]})

LEMMA OrderIs ==
    ASSUME NEW n \in Nat, NEW positions \in SUBSET (1..n)
    PROVE  /\ Order(positions) \in Seq(positions)
           /\ \A x \in positions : \E k \in DOMAIN Order(positions) : Order(positions)[k] = x
           /\ \A i, j \in DOMAIN Order(positions) :
                 i < j => Order(positions)[i] < Order(positions)[j]
<1> DEFINE less == {x \in positions \X positions : x[1] < x[2]}
<1>1. IsFiniteSet(positions)
  <2>1. IsFiniteSet(1..n)
    BY n \in Int, 1 \in Int, FS_Interval
  <2> QED
    BY <2>1, FS_Subset
<1>2. \A x, y \in positions : <<x, y>> \in less <=> x < y
  OBVIOUS
<1> HIDE DEF less
<1>3. Orders(positions, less)
  BY <1>2 DEF Orders
<1>4. Order(positions) = Listed(positions, less)
  BY DEF Order, less
<1>5. /\ Order(positions) \in Seq(positions)
      /\ \A x \in positions : \E k \in DOMAIN Order(positions) : Order(positions)[k] = x
      /\ \A i, j \in DOMAIN Order(positions) :
            i < j => <<Order(positions)[i], Order(positions)[j]>> \in less
  BY <1>1, <1>3, <1>4, ListedIs
<1>6. \A i \in DOMAIN Order(positions) : Order(positions)[i] \in positions
  BY <1>5
<1> QED
  BY <1>2, <1>5, <1>6

LEMMA AtIs ==
    ASSUME NEW X, NEW list \in Seq(X), NEW positions \in SUBSET DOMAIN list
    PROVE  /\ At(list, positions) \in Seq(X)
           /\ At(list, positions) = [k \in DOMAIN Order(positions) |-> list[Order(positions)[k]]]
           /\ \A k \in DOMAIN At(list, positions) :
                 \E i \in positions : At(list, positions)[k] = list[i]
           /\ \A i \in positions :
                 \E k \in DOMAIN At(list, positions) : At(list, positions)[k] = list[i]
<1> DEFINE order == Order(positions)
           at == [k \in DOMAIN order |-> list[order[k]]]
<1>1. Len(list) \in Nat /\ DOMAIN list = 1..Len(list)
  OBVIOUS
<1>2. order \in Seq(positions) /\ \A x \in positions : \E k \in DOMAIN order : order[k] = x
  BY <1>1, OrderIs
<1>3. At(list, positions) = Tuple(at)
  BY DEF At, Order
<1> HIDE DEF order
<1>4. Len(order) \in Nat /\ DOMAIN order = 1..Len(order) /\ \A k \in DOMAIN order : order[k] \in positions
  BY <1>2
<1>5. \A k \in 1..Len(order) : at[k] \in X
  BY <1>1, <1>4
<1>6. at \in [1..Len(order) -> X]
  BY <1>4, <1>5
<1>7. Tuple(at) = at /\ at \in Seq(X)
  <2> HIDE DEF at
  <2> QED
    BY <1>4, <1>6, TupleIs
<1>8. DOMAIN at = DOMAIN order /\ \A k \in DOMAIN order : at[k] = list[order[k]]
  OBVIOUS
<1> HIDE DEF at
<1>9. \A k \in DOMAIN at : \E i \in positions : at[k] = list[i]
  BY <1>4, <1>8
<1>10. \A i \in positions : \E k \in DOMAIN at : at[k] = list[i]
  BY <1>2, <1>8
<1>11. At(list, positions) = at
  BY <1>3, <1>7
<1>12. At(list, positions) = [k \in DOMAIN Order(positions) |-> list[Order(positions)[k]]]
  BY <1>11 DEF at, order
<1> QED
  BY <1>7, <1>9, <1>10, <1>11, <1>12

-----------------------------------------------------------------------------
(* The sort keys.                                                          *)

Keys == [class : {1, 3}, len : Nat, flags : {<<>>}]
        \cup UNION {[class : {2}, len : {n}, flags : [1..n -> BOOLEAN]] : n \in Nat}

\* f comes before g: at the first place where they differ, g has a parameter.
FlagsLess(f, g, n) ==
    \E i \in 1..n : ~f[i] /\ g[i] /\ \A j \in 1..n : j < i => f[j] = g[j]

LEMMA KeyShape ==
    ASSUME NEW k \in Keys
    PROVE  /\ k.class \in 1..3 /\ k.len \in Nat
           /\ k.class = 2 => k.flags \in [1..k.len -> BOOLEAN]
           /\ k.class # 2 => k.flags = <<>>
           /\ k = [class |-> k.class, len |-> k.len, flags |-> k.flags]
<1>1. CASE k \in [class : {1, 3}, len : Nat, flags : {<<>>}]
  BY <1>1
<1>2. CASE \E n \in Nat : k \in [class : {2}, len : {n}, flags : [1..n -> BOOLEAN]]
  BY <1>2
<1> QED
  BY <1>1, <1>2 DEF Keys

LEMMA FirstDifference ==
    ASSUME NEW n \in Nat, NEW f \in [1..n -> BOOLEAN], NEW g \in [1..n -> BOOLEAN]
    PROVE  LET differ == {i \in DOMAIN f : f[i] # g[i]}
           IN differ # {} /\ ~f[Min(differ)] <=> FlagsLess(f, g, n)
<1> DEFINE differ == {i \in DOMAIN f : f[i] # g[i]}
<1>1. differ \in SUBSET (1..n) /\ differ \in SUBSET Nat
  OBVIOUS
<1>2. ASSUME differ # {}, ~f[Min(differ)] PROVE FlagsLess(f, g, n)
  <2>1. Min(differ) \in differ /\ \A y \in differ : Min(differ) <= y
    BY <1>1, <1>2, LeastNat
  <2>2. \A j \in 1..n : j < Min(differ) => f[j] = g[j]
    BY <1>1, <2>1
  <2>3. Min(differ) \in 1..n /\ g[Min(differ)]
    BY <1>2, <2>1
  <2> QED
    BY <1>2, <2>2, <2>3 DEF FlagsLess
<1>3. ASSUME FlagsLess(f, g, n) PROVE differ # {} /\ ~f[Min(differ)]
  <2>1. PICK i \in 1..n : ~f[i] /\ g[i] /\ \A j \in 1..n : j < i => f[j] = g[j]
    BY <1>3 DEF FlagsLess
  <2>2. i \in differ
    BY <2>1
  <2>3. Min(differ) \in differ /\ Min(differ) <= i
    BY <1>1, <2>2, LeastNat
  <2>4. ~(Min(differ) < i)
    BY <1>1, <2>1, <2>3
  <2>5. Min(differ) = i
    BY <1>1, <2>3, <2>4
  <2> QED
    BY <2>1, <2>2, <2>5
<1> QED
  BY <1>2, <1>3

LEMMA KeyLessIs ==
    ASSUME NEW k \in Keys, NEW l \in Keys
    PROVE  KeyLess(k, l) <=>
              \/ k.class < l.class
              \/ k.class = l.class /\ k.len > l.len
              \/ /\ k.class = 2 /\ l.class = 2 /\ k.len = l.len
                 /\ FlagsLess(k.flags, l.flags, k.len)
<1>1. CASE k.class = 2 /\ l.class = 2 /\ k.len = l.len
  <2>1. /\ k.class = 2 /\ l.class = 2 /\ k.len = l.len /\ k.len \in Nat
        /\ k.flags \in [1..k.len -> BOOLEAN] /\ l.flags \in [1..k.len -> BOOLEAN]
    BY <1>1, KeyShape
  <2> DEFINE differ == {i \in DOMAIN k.flags : k.flags[i] # l.flags[i]}
  <2>2. differ # {} /\ ~k.flags[Min(differ)] <=> FlagsLess(k.flags, l.flags, k.len)
    BY <2>1, FirstDifference
  <2>3. KeyLess(k, l) <=>
           \/ k.class < l.class
           \/ k.class = l.class /\ k.len > l.len
           \/ k.class = l.class /\ k.len = l.len /\ differ # {} /\ ~k.flags[Min(differ)]
    BY DEF KeyLess
  <2> HIDE DEF differ
  <2> QED
    BY <2>1, <2>2, <2>3
<1>2. CASE k.class # 2
  <2>1. k.flags = <<>> /\ DOMAIN k.flags = {}
    BY <1>2, KeyShape
  <2> QED
    BY <1>2, <2>1 DEF KeyLess
<1>3. CASE k.class = 2 /\ ~(l.class = 2 /\ k.len = l.len)
  BY <1>3 DEF KeyLess
<1> QED
  BY <1>1, <1>2, <1>3

\* The keys are totally ordered.
LEMMA KeysOrdered ==
    ASSUME NEW k \in Keys, NEW l \in Keys, NEW m \in Keys
    PROVE  /\ ~KeyLess(k, k)
           /\ k = l \/ KeyLess(k, l) \/ KeyLess(l, k)
           /\ KeyLess(k, l) /\ KeyLess(l, m) => KeyLess(k, m)
<1>1. ~KeyLess(k, k)
  BY KeyLessIs, KeyShape DEF FlagsLess
<1>2. k = l \/ KeyLess(k, l) \/ KeyLess(l, k)
  <2>1. CASE k.class # l.class \/ k.len # l.len
    BY <2>1, KeyLessIs, KeyShape
  <2>2. CASE k.class = l.class /\ k.len = l.len /\ k.class # 2
    BY <2>2, KeyShape
  <2>3. CASE k.class = l.class /\ k.len = l.len /\ k.class = 2
    <3> DEFINE differ == {i \in 1..k.len : k.flags[i] # l.flags[i]}
    <3>1. k.flags \in [1..k.len -> BOOLEAN] /\ l.flags \in [1..k.len -> BOOLEAN] /\ k.len \in Nat
      BY <2>3, KeyShape
    <3>2. CASE differ = {}
      <4>1. k.flags = l.flags
        BY <3>1, <3>2
      <4> QED
        BY <2>3, <4>1, KeyShape
    <3>3. CASE differ # {}
      <4>1. differ \in SUBSET Nat
        BY <3>1
      <4>2. Min(differ) \in differ /\ \A y \in differ : Min(differ) <= y
        BY <3>3, <4>1, LeastNat
      <4>3. \A j \in 1..k.len : j < Min(differ) => k.flags[j] = l.flags[j]
        BY <4>1, <4>2
      <4>4. FlagsLess(k.flags, l.flags, k.len) \/ FlagsLess(l.flags, k.flags, k.len)
        BY <3>1, <4>2, <4>3 DEF FlagsLess
      <4> QED
        BY <2>3, <4>4, KeyLessIs
    <3> QED
      BY <3>2, <3>3
  <2> QED
    BY <2>1, <2>2, <2>3
<1>3. ASSUME KeyLess(k, l), KeyLess(l, m) PROVE KeyLess(k, m)
  <2>1. CASE /\ k.class = 2 /\ l.class = 2 /\ k.len = l.len /\ m.class = 2 /\ l.len = m.len
             /\ FlagsLess(k.flags, l.flags, k.len) /\ FlagsLess(l.flags, m.flags, l.len)
    <3>1. k.len \in Nat
      BY KeyShape
    <3>2. PICK i \in 1..k.len : ~k.flags[i] /\ l.flags[i]
                                /\ \A j \in 1..k.len : j < i => k.flags[j] = l.flags[j]
      BY <2>1 DEF FlagsLess
    <3>3. PICK j \in 1..k.len : ~l.flags[j] /\ m.flags[j]
                                /\ \A h \in 1..k.len : h < j => l.flags[h] = m.flags[h]
      BY <2>1 DEF FlagsLess
    <3>4. CASE i < j
      <4>1. ~k.flags[i] /\ m.flags[i] /\ \A h \in 1..k.len : h < i => k.flags[h] = m.flags[h]
        BY <3>1, <3>2, <3>3, <3>4
      <4> QED
        BY <2>1, <4>1, KeyLessIs DEF FlagsLess
    <3>5. CASE j < i
      <4>1. ~k.flags[j] /\ m.flags[j] /\ \A h \in 1..k.len : h < j => k.flags[h] = m.flags[h]
        BY <3>1, <3>2, <3>3, <3>5
      <4> QED
        BY <2>1, <4>1, KeyLessIs DEF FlagsLess
    <3> QED
      BY <3>1, <3>2, <3>3, <3>4, <3>5
  <2>2. CASE ~(/\ k.class = 2 /\ l.class = 2 /\ k.len = l.len /\ m.class = 2 /\ l.len = m.len
               /\ FlagsLess(k.flags, l.flags, k.len) /\ FlagsLess(l.flags, m.flags, l.len))
    BY <1>3, <2>2, KeyLessIs, KeyShape
  <2> QED
    BY <2>1, <2>2
<1> QED
  BY <1>1, <1>2, <1>3
-----------------------------------------------------------------------------
(* The sort.                                                               *)

\* The places of the segments of a path, in order, and which are parameters.
Places(path) == Order({i \in DOMAIN path : path[i] # ""})
Flags(path) == [k \in DOMAIN Places(path) |-> is_param_segment(path[Places(path)[k]])]

LEMMA PlacesAre ==
    ASSUME NEW path \in Seq(STRING)
    PROVE  /\ Places(path) \in Seq(DOMAIN path)
           /\ DOMAIN Places(path) = 1..Len(Places(path)) /\ Len(Places(path)) \in Nat
           /\ \A k \in DOMAIN Places(path) :
                 Places(path)[k] \in DOMAIN path /\ path[Places(path)[k]] # ""
           /\ \A i \in DOMAIN path : path[i] # "" =>
                 \E k \in DOMAIN Places(path) : Places(path)[k] = i
           /\ \A i, j \in DOMAIN Places(path) : i < j => Places(path)[i] < Places(path)[j]
<1> DEFINE N == {i \in DOMAIN path : path[i] # ""}
<1>1. Len(path) \in Nat /\ DOMAIN path = 1..Len(path)
  OBVIOUS
<1>2. N \in SUBSET (1..Len(path))
  BY <1>1
<1> DEFINE P == Places(path)
<1>3. P = Order(N)
  BY DEF Places
<1>4. /\ Order(N) \in Seq(N)
      /\ \A x \in N : \E k \in DOMAIN Order(N) : Order(N)[k] = x
      /\ \A i, j \in DOMAIN Order(N) : i < j => Order(N)[i] < Order(N)[j]
  <2> HIDE DEF N
  <2> QED
    BY <1>1, <1>2, OrderIs
<1> HIDE DEF P
<1>5. /\ P \in Seq(N)
      /\ \A x \in N : \E k \in DOMAIN P : P[k] = x
      /\ \A i, j \in DOMAIN P : i < j => P[i] < P[j]
  BY <1>3, <1>4
<1>6. DOMAIN P = 1..Len(P) /\ Len(P) \in Nat /\ \A k \in DOMAIN P : P[k] \in N
  <2> HIDE DEF N
  <2> QED
    BY <1>5
<1>7. P \in Seq(DOMAIN path)
  <2>1. \A k \in 1..Len(P) : P[k] \in DOMAIN path
    BY <1>6
  <2>2. P = [k \in 1..Len(P) |-> P[k]]
    <3> HIDE DEF N
    <3> QED
      BY <1>5
  <2>3. P \in [1..Len(P) -> DOMAIN path]
    BY <2>1, <2>2
  <2> QED
    BY <1>6, <2>3, TupleIs
<1> QED
  BY <1>5, <1>6, <1>7 DEF P

LEMMA SortKeyIs ==
    ASSUME NEW r, r.path \in Seq(STRING)
    PROVE  /\ r.kind # "api" =>
                 get_route_sort_key(r) = [class |-> 3, len |-> 0, flags |-> <<>>]
           /\ r.kind = "api" /\ (\E k \in DOMAIN Flags(r.path) : Flags(r.path)[k]) =>
                 get_route_sort_key(r) = [class |-> 2, len |-> Len(Places(r.path)),
                                          flags |-> Flags(r.path)]
           /\ r.kind = "api" /\ ~(\E k \in DOMAIN Flags(r.path) : Flags(r.path)[k]) =>
                 get_route_sort_key(r) = [class |-> 1, len |-> Len(Places(r.path)),
                                          flags |-> <<>>]
           /\ get_route_sort_key(r) \in Keys
<1> DEFINE path == r.path
           segments == Segments(path)
           P == Places(path)
           flags == [i \in DOMAIN segments |-> is_param_segment(segments[i])]
<1>1. segments = [k \in DOMAIN P |-> path[P[k]]]
  <2> DEFINE N == {i \in DOMAIN path : path[i] # ""}
  <2>1. N \in SUBSET DOMAIN path /\ path \in Seq(STRING)
    OBVIOUS
  <2>2. segments = At(path, N) /\ P = Order(N)
    BY DEF Segments, Places
  <2> HIDE DEF N, path, segments, P
  <2> QED
    BY <2>1, <2>2, AtIs
<1>2. P \in Seq(DOMAIN path) /\ DOMAIN P = 1..Len(P) /\ Len(P) \in Nat
  BY PlacesAre
<1> HIDE DEF segments, P
<1>3. DOMAIN segments = DOMAIN P /\ \A k \in DOMAIN P : segments[k] = path[P[k]]
  BY <1>1
<1>4. Len(segments) = Len(P)
  <2>1. \A k \in 1..Len(P) : segments[k] \in STRING
    BY <1>2, <1>3
  <2>2. segments \in [1..Len(P) -> STRING]
    BY <1>1, <1>2, <2>1
  <2> QED
    BY <1>2, <2>2
<1>5. flags = Flags(path)
  BY <1>3 DEF Flags, P
<1> HIDE DEF flags
<1>6. get_route_sort_key(r) =
         IF r.kind # "api" THEN [class |-> 3, len |-> 0, flags |-> <<>>]
         ELSE IF TRUE \in {flags[i] : i \in DOMAIN flags}
         THEN [class |-> 2, len |-> Len(segments), flags |-> flags]
         ELSE [class |-> 1, len |-> Len(segments), flags |-> <<>>]
  BY DEF get_route_sort_key, flags, segments
<1>7. flags \in [1..Len(P) -> BOOLEAN]
  BY <1>2, <1>5 DEF Flags, P, is_param_segment
<1>8. (TRUE \in {flags[i] : i \in DOMAIN flags}) <=> \E k \in DOMAIN flags : flags[k]
  BY <1>7
<1>9. [class |-> 3, len |-> 0, flags |-> <<>>] \in Keys
  BY DEF Keys
<1>10. [class |-> 1, len |-> Len(P), flags |-> <<>>] \in Keys
  BY <1>2 DEF Keys
<1>11. [class |-> 2, len |-> Len(P), flags |-> flags] \in Keys
  <2>1. [class |-> 2, len |-> Len(P), flags |-> flags]
           \in [class : {2}, len : {Len(P)}, flags : [1..Len(P) -> BOOLEAN]]
    BY <1>7
  <2> QED
    BY <1>2, <2>1 DEF Keys
<1>12. r.kind # "api" => get_route_sort_key(r) = [class |-> 3, len |-> 0, flags |-> <<>>]
  BY <1>6
<1>13. r.kind = "api" /\ (\E k \in DOMAIN flags : flags[k]) =>
          get_route_sort_key(r) = [class |-> 2, len |-> Len(P), flags |-> flags]
  BY <1>4, <1>6, <1>8
<1>14. r.kind = "api" /\ ~(\E k \in DOMAIN flags : flags[k]) =>
          get_route_sort_key(r) = [class |-> 1, len |-> Len(P), flags |-> <<>>]
  BY <1>4, <1>6, <1>8
<1> QED
  BY <1>5, <1>9, <1>10, <1>11, <1>12, <1>13, <1>14 DEF P

KeyOf(r) == get_route_sort_key(r)

\* No route comes after one with a greater key.
InKeyOrder(list) ==
    \A i, j \in DOMAIN list : i < j => ~KeyLess(KeyOf(list[j]), KeyOf(list[i]))

LEMMA SortedIs ==
    ASSUME NEW X, \A x \in X : x.path \in Seq(STRING), NEW list \in Seq(X)
    PROVE  /\ Sorted(list) \in Seq(X)
           /\ InKeyOrder(Sorted(list))
           /\ \A k \in DOMAIN Sorted(list) : \E i \in DOMAIN list : Sorted(list)[k] = list[i]
           /\ \A i \in DOMAIN list : \E k \in DOMAIN Sorted(list) : Sorted(list)[k] = list[i]
<1> DEFINE D == DOMAIN list
           key == [i \in D |-> KeyOf(list[i])]
           before(i, j) == \/ KeyLess(key[i], key[j])
                           \/ ~KeyLess(key[j], key[i]) /\ i < j
           less == {x \in D \X D : before(x[1], x[2])}
           order == Listed(D, less)
           sorted == [k \in DOMAIN order |-> list[order[k]]]
<1>1. Len(list) \in Nat /\ D = 1..Len(list)
  OBVIOUS
<1>2. \A i \in D : key[i] \in Keys
  <2>1. \A i \in D : list[i].path \in Seq(STRING)
    OBVIOUS
  <2> QED
    BY <2>1, SortKeyIs DEF KeyOf
<1>3. Tuple(key) = key
  <2>1. key \in [1..Len(list) -> Keys]
    BY <1>1, <1>2
  <2> HIDE DEF key
  <2> QED
    BY <1>1, <2>1, TupleIs
<1>4. Sorted(list) = Tuple(sorted)
  BY <1>3 DEF Sorted, KeyOf
<1>5. \A i, j \in D : <<i, j>> \in less <=> before(i, j)
  OBVIOUS
<1> HIDE DEF less, key
<1>6. Orders(D, less)
  <2>1. ASSUME NEW i \in D PROVE <<i, i>> \notin less
    <3>1. ~KeyLess(key[i], key[i]) /\ ~(i < i)
      BY <1>1, <1>2, KeysOrdered
    <3> QED
      BY <1>5, <3>1
  <2>2. ASSUME NEW i \in D, NEW j \in D PROVE i = j \/ <<i, j>> \in less \/ <<j, i>> \in less
    <3>1. i = j \/ i < j \/ j < i
      BY <1>1
    <3>2. i = j \/ before(i, j) \/ before(j, i)
      BY <3>1
    <3> QED
      BY <1>5, <3>2
  <2>3. ASSUME NEW i \in D, NEW j \in D, NEW k \in D, <<i, j>> \in less, <<j, k>> \in less
        PROVE  <<i, k>> \in less
    <3>1. before(i, j) /\ before(j, k)
      BY <1>5, <2>3
    <3>2. key[i] \in Keys /\ key[j] \in Keys /\ key[k] \in Keys
      BY <1>2
    <3>3. CASE KeyLess(key[i], key[j])
      <4>1. KeyLess(key[j], key[k]) \/ key[j] = key[k]
        BY <3>1, <3>2, KeysOrdered
      <4>2. KeyLess(key[i], key[k])
        BY <3>2, <3>3, <4>1, KeysOrdered
      <4> QED
        BY <1>5, <4>2
    <3>4. CASE key[i] = key[j] /\ i < j
      <4>1. CASE KeyLess(key[j], key[k])
        BY <1>5, <3>4, <4>1
      <4>2. CASE key[j] = key[k] /\ j < k
        <5>1. i < k /\ ~KeyLess(key[k], key[i])
          BY <1>1, <3>2, <3>4, <4>2, KeysOrdered
        <5> QED
          BY <1>5, <5>1
      <4> QED
        BY <3>1, <3>2, <4>1, <4>2, KeysOrdered
    <3> QED
      BY <3>1, <3>2, <3>3, <3>4, KeysOrdered
  <2> QED
    BY <2>1, <2>2, <2>3 DEF Orders
<1>7. IsFiniteSet(D)
  BY <1>1, 1 \in Int, Len(list) \in Int, FS_Interval
<1>8. /\ order \in Seq(D)
      /\ \A x \in D : \E k \in DOMAIN order : order[k] = x
      /\ \A i, j \in DOMAIN order : i < j => <<order[i], order[j]>> \in less
  BY <1>6, <1>7, ListedIs
<1> HIDE DEF order
<1>9. Len(order) \in Nat /\ DOMAIN order = 1..Len(order) /\ \A k \in DOMAIN order : order[k] \in D
  BY <1>8
<1>10. sorted \in [1..Len(order) -> X]
  <2>1. \A k \in 1..Len(order) : list[order[k]] \in X
    BY <1>9
  <2> QED
    BY <1>9, <2>1
<1>11. DOMAIN sorted = DOMAIN order /\ \A k \in DOMAIN order : sorted[k] = list[order[k]]
  OBVIOUS
<1> HIDE DEF sorted
<1>12. Sorted(list) = sorted /\ sorted \in Seq(X)
  BY <1>4, <1>9, <1>10, TupleIs
<1>13. ASSUME NEW i \in DOMAIN sorted, NEW j \in DOMAIN sorted, i < j
       PROVE  ~KeyLess(KeyOf(sorted[j]), KeyOf(sorted[i]))
  <2>1. before(order[i], order[j]) /\ order[i] \in D /\ order[j] \in D
    BY <1>5, <1>8, <1>9, <1>11, <1>13
  <2>2. key[order[i]] = KeyOf(sorted[i]) /\ key[order[j]] = KeyOf(sorted[j])
    BY <1>11, <2>1 DEF key
  <2>3. ~KeyLess(key[order[j]], key[order[i]])
    BY <1>2, <2>1, KeysOrdered
  <2> QED
    BY <2>2, <2>3
<1>14. \A k \in DOMAIN sorted : \E i \in DOMAIN list : sorted[k] = list[i]
  BY <1>9, <1>11
<1>15. \A i \in DOMAIN list : \E k \in DOMAIN sorted : sorted[k] = list[i]
  BY <1>8, <1>11
<1> QED
  BY <1>12, <1>13, <1>14, <1>15 DEF InKeyOrder

-----------------------------------------------------------------------------
(* What matches a path.                                                    *)

\* Routes that match the same path have their segments at the same places.
LEMMA SamePlaces ==
    ASSUME NEW q, NEW r, NEW p \in Seq(STRING),
           q.kind = "api", q.path \in Seq(STRING), Matches(q, p),
           r.kind = "api", r.path \in Seq(STRING), Matches(r, p)
    PROVE  /\ DOMAIN q.path = DOMAIN p /\ DOMAIN r.path = DOMAIN p
           /\ Places(q.path) = Places(p) /\ Places(r.path) = Places(p)
<1>1. ASSUME NEW s, s.kind = "api", s.path \in Seq(STRING), Matches(s, p)
      PROVE  DOMAIN s.path = DOMAIN p /\ Places(s.path) = Places(p)
  <2>1. Len(p) = Len(s.path) /\ DOMAIN s.path = DOMAIN p
    <3>1. Len(p) = Len(s.path)
      BY <1>1 DEF Matches
    <3>2. DOMAIN s.path = 1..Len(s.path) /\ DOMAIN p = 1..Len(p)
      BY <1>1
    <3> QED
      BY <3>1, <3>2
  <2>2. \A i \in DOMAIN p : s.path[i] = "" <=> p[i] = ""
    BY <1>1, <2>1 DEF Matches, is_param_segment
  <2>3. {i \in DOMAIN s.path : s.path[i] # ""} = {i \in DOMAIN p : p[i] # ""}
    BY <2>1, <2>2
  <2> QED
    BY <2>1, <2>3 DEF Places
<1> QED
  BY <1>1

\* Of two routes that match a path, one that does not come after the other in the
\* order of the keys is at least as specific.
LEMMA NotAfterIsSpecific ==
    ASSUME NEW q, NEW r, NEW p \in Seq(STRING),
           q.kind = "api", q.path \in Seq(STRING), Matches(q, p),
           r.kind = "api", r.path \in Seq(STRING), Matches(r, p),
           ~KeyLess(KeyOf(r), KeyOf(q))
    PROVE  AtLeastAsSpecific(q, r)
<1> DEFINE differ == {i \in DOMAIN q.path : q.path[i] # r.path[i]}
           P == Places(p)
<1>1. /\ DOMAIN q.path = DOMAIN p /\ DOMAIN r.path = DOMAIN p
      /\ Places(q.path) = P /\ Places(r.path) = P
  BY SamePlaces
<1>2. SUFFICES ASSUME differ # {}, is_param_segment(q.path[Min(differ)]) PROVE FALSE
  BY DEF AtLeastAsSpecific
<1> DEFINE i == Min(differ)
<1>3. i \in differ /\ \A j \in differ : i <= j
  <2>1. differ \in SUBSET Nat
    OBVIOUS
  <2> QED
    BY <1>2, <2>1, LeastNat
<1> HIDE DEF i
<1>4. i \in DOMAIN p /\ q.path[i] = "{}" /\ r.path[i] # "{}" /\ p[i] # "" /\ r.path[i] = p[i]
  <2>1. i \in DOMAIN p /\ q.path[i] = "{}" /\ r.path[i] # "{}"
    BY <1>1, <1>2, <1>3 DEF is_param_segment, i
  <2>2. r.path[i] = p[i]
    BY <1>1, <2>1 DEF Matches, is_param_segment
  <2>3. p[i] # ""
    BY <1>1, <2>1 DEF Matches, is_param_segment
  <2> QED
    BY <2>1, <2>2, <2>3
<1>5. \A j \in DOMAIN p : j < i => q.path[j] = r.path[j]
  <2>1. i \in Nat
    BY <1>3
  <2> QED
    BY <1>1, <1>3, <2>1
<1>6. PICK k \in DOMAIN P : P[k] = i
  BY <1>4, PlacesAre
<1>7. /\ DOMAIN P = 1..Len(P) /\ Len(P) \in Nat
      /\ \A h \in DOMAIN P : P[h] \in DOMAIN p
      /\ \A h \in DOMAIN P : h < k => P[h] < i
  BY <1>6, PlacesAre
<1> HIDE DEF P
<1>8. /\ DOMAIN Flags(q.path) = 1..Len(P) /\ DOMAIN Flags(r.path) = 1..Len(P)
      /\ \A h \in 1..Len(P) : /\ Flags(q.path)[h] = (q.path[P[h]] = "{}")
                              /\ Flags(r.path)[h] = (r.path[P[h]] = "{}")
  BY <1>1, <1>7 DEF Flags, is_param_segment
<1>9. k \in 1..Len(P) /\ Flags(q.path)[k] /\ ~Flags(r.path)[k]
  BY <1>4, <1>6, <1>7, <1>8
<1>10. ASSUME NEW h \in 1..Len(P), h < k
       PROVE  Flags(r.path)[h] = Flags(q.path)[h]
  <2>1. P[h] \in DOMAIN p /\ P[h] < i
    BY <1>7, <1>10
  <2>2. q.path[P[h]] = r.path[P[h]]
    BY <1>5, <2>1
  <2> QED
    BY <1>8, <2>2
<1>11. KeyOf(q) = [class |-> 2, len |-> Len(P), flags |-> Flags(q.path)] /\ KeyOf(q) \in Keys
  <2>1. \E h \in DOMAIN Flags(q.path) : Flags(q.path)[h]
    BY <1>8, <1>9
  <2> QED
    BY <1>1, <2>1, SortKeyIs DEF KeyOf
<1>12. KeyOf(r) \in Keys
  BY SortKeyIs DEF KeyOf
<1>13. CASE \E h \in DOMAIN Flags(r.path) : Flags(r.path)[h]
  <2>1. KeyOf(r) = [class |-> 2, len |-> Len(P), flags |-> Flags(r.path)]
    BY <1>1, <1>13, SortKeyIs DEF KeyOf
  <2>2. FlagsLess(Flags(r.path), Flags(q.path), Len(P))
    BY <1>9, <1>10 DEF FlagsLess
  <2>3. KeyLess(KeyOf(r), KeyOf(q))
    BY <1>11, <1>12, <2>1, <2>2, KeyLessIs
  <2> QED
    BY <2>3
<1>14. CASE ~\E h \in DOMAIN Flags(r.path) : Flags(r.path)[h]
  <2>1. KeyOf(r).class = 1
    BY <1>14, SortKeyIs DEF KeyOf
  <2>2. KeyLess(KeyOf(r), KeyOf(q))
    BY <1>11, <1>12, <2>1, KeyLessIs
  <2> QED
    BY <2>2
<1> QED
  BY <1>13, <1>14

\* Neither comes after the other only if they are written the same.
LEMMA SameKeySamePath ==
    ASSUME NEW q, NEW r, NEW p \in Seq(STRING),
           q.kind = "api", q.path \in Seq(STRING), Matches(q, p),
           r.kind = "api", r.path \in Seq(STRING), Matches(r, p),
           ~KeyLess(KeyOf(r), KeyOf(q)), ~KeyLess(KeyOf(q), KeyOf(r))
    PROVE  q.path = r.path
<1> DEFINE differ == {i \in DOMAIN q.path : q.path[i] # r.path[i]}
           redif == {i \in DOMAIN r.path : r.path[i] # q.path[i]}
<1>1. DOMAIN q.path = DOMAIN p /\ DOMAIN r.path = DOMAIN p
  BY SamePlaces
<1>2. differ = redif
  BY <1>1
<1>3. /\ differ = {} \/ ~is_param_segment(q.path[Min(differ)])
      /\ redif = {} \/ ~is_param_segment(r.path[Min(redif)])
  BY NotAfterIsSpecific DEF AtLeastAsSpecific
<1>4. differ = {}
  <2> SUFFICES ASSUME differ # {} PROVE FALSE
    OBVIOUS
  <2>1. Min(differ) \in differ
    <3>1. differ \in SUBSET Nat
      OBVIOUS
    <3> QED
      BY <3>1, LeastNat
  <2>2. /\ ~is_param_segment(q.path[Min(differ)])
        /\ ~is_param_segment(r.path[Min(differ)])
    BY <1>2, <1>3
  <2> DEFINE i == Min(differ)
  <2> HIDE DEF i
  <2>3. i \in DOMAIN p /\ q.path[i] # r.path[i]
    BY <1>1, <2>1 DEF i
  <2>4. q.path[i] = p[i] /\ r.path[i] = p[i]
    BY <1>1, <2>2, <2>3 DEF Matches, i
  <2> QED
    BY <2>3, <2>4
<1>5. \A i \in DOMAIN p : q.path[i] = r.path[i]
  BY <1>1, <1>4
<1> QED
  BY <1>1, <1>5

-----------------------------------------------------------------------------
(* Registration and imports.                                               *)

Elems(list) == {list[i] : i \in DOMAIN list}

LEMMA StripIs ==
    ASSUME NEW path \in Seq(STRING)
    PROVE  Strip(path) \in Seq(STRING)
<1> DEFINE S == {0} \cup {i \in DOMAIN path : path[i] # ""}
<1>1. Len(path) \in Nat /\ DOMAIN path = 1..Len(path)
  OBVIOUS
<1>2. S \subseteq 0..Len(path) /\ 0 \in S
  <2>1. DOMAIN path \subseteq 0..Len(path) /\ 0 \in 0..Len(path)
    BY <1>1
  <2> QED
    BY <2>1
<1> HIDE DEF S
<1>3. Max(S) \in 0..Len(path)
  <2>1. S \in SUBSET Nat /\ S # {} /\ \A y \in S : y <= Len(path)
    BY <1>1, <1>2
  <2>2. Max(S) \in S
    BY <1>1, <2>1, GreatestNat
  <2> QED
    BY <1>2, <2>2
<1>4. SubSeq(path, 1, Max(S)) \in Seq(STRING)
  BY <1>3
<1> QED
  BY <1>4 DEF Strip, S

LEMMA DeclaredIs ==
    ASSUME NEW page \in PageSet \cup {"app"}, NEW decls \in Seq(Declarations)
    PROVE  /\ Declared(page, decls) \in Seq(Routes)
           /\ DOMAIN Declared(page, decls) = DOMAIN decls
           /\ \A i \in DOMAIN decls : Declared(page, decls)[i].page = page
<1>1. DOMAIN decls = 1..Len(decls) /\ Len(decls) \in Nat
  OBVIOUS
<1>2. ASSUME NEW i \in DOMAIN decls
      PROVE  Declared(page, decls)[i] \in Routes /\ Declared(page, decls)[i].page = page
  <2>1. decls[i] \in Declarations
    OBVIOUS
  <2>2. /\ decls[i].kind \in {"api", "mount"} /\ decls[i].path \in Seq(STRING)
        /\ decls[i].methods \in SUBSET Methods
    BY <2>1 DEF Declarations
  <2>3. Strip(decls[i].path) \in Seq(STRING)
    BY <2>2, StripIs
  <2> QED
    BY <2>2, <2>3 DEF Declared, Routes
<1>3. Declared(page, decls) \in [1..Len(decls) -> Routes]
  BY <1>1, <1>2 DEF Declared
<1> QED
  BY <1>1, <1>2, <1>3, TupleIs

\* Every page that is there has one of its variants.
FilesOK == fs \in [PageSet -> Nat] /\ \A p \in PageSet : fs[p] <= Len(Decls[p])

LEMMA RoutesOfIs ==
    ASSUME FilesOK, NEW p \in Existing
    PROVE  /\ p \in PageSet
           /\ fs[p] \in DOMAIN Decls[p] /\ Decls[p][fs[p]] \in Seq(Declarations)
           /\ RoutesOf(p) \in Seq(Routes)
           /\ \A i \in DOMAIN RoutesOf(p) : RoutesOf(p)[i].page = p
<1>1. p \in PageSet /\ fs[p] \in Nat /\ fs[p] # 0 /\ fs[p] <= Len(Decls[p])
  BY DEF Existing, FilesOK
<1>2. Decls[p] \in Seq(Seq(Declarations))
  BY <1>1, RoutesAssumption
<1>3. fs[p] \in DOMAIN Decls[p]
  BY <1>1, <1>2
<1>4. Decls[p][fs[p]] \in Seq(Declarations)
  BY <1>2, <1>3
<1> QED
  BY <1>1, <1>3, <1>4, DeclaredIs DEF RoutesOf

LEMMA BuiltinIs ==
    /\ BuiltinRoutes \in Seq(Routes)
    /\ \A i \in DOMAIN BuiltinRoutes : BuiltinRoutes[i].page = "app"
BY RoutesAssumption, DeclaredIs DEF BuiltinRoutes

LEMMA ConcatIs ==
    ASSUME NEW X, NEW s \in Seq(X), NEW t \in Seq(X)
    PROVE  /\ s \o t \in Seq(X)
           /\ DOMAIN s \subseteq DOMAIN (s \o t)
           /\ \A i \in DOMAIN s : (s \o t)[i] = s[i]
           /\ \A i \in DOMAIN (s \o t) : i \notin DOMAIN s =>
                 i > Len(s) /\ \E j \in DOMAIN t : (s \o t)[i] = t[j]
           /\ Elems(s \o t) = Elems(s) \cup Elems(t)
<1>1. /\ s \o t \in Seq(X) /\ Len(s \o t) = Len(s) + Len(t)
      /\ Len(s) \in Nat /\ Len(t) \in Nat
      /\ DOMAIN s = 1..Len(s) /\ DOMAIN t = 1..Len(t) /\ DOMAIN (s \o t) = 1..(Len(s) + Len(t))
  OBVIOUS
<1>2. \A i \in DOMAIN s : i \in DOMAIN (s \o t) /\ (s \o t)[i] = s[i]
  BY <1>1
<1>3. \A j \in DOMAIN t : Len(s) + j \in DOMAIN (s \o t) /\ (s \o t)[Len(s) + j] = t[j]
  <2>1. \A j \in DOMAIN t : Len(s) + j \in DOMAIN (s \o t)
    BY <1>1
  <2>2. \A j \in DOMAIN t : (s \o t)[Len(s) + j] = t[j]
    BY <1>1
  <2> QED
    BY <2>1, <2>2
<1>4. ASSUME NEW i \in DOMAIN (s \o t), i \notin DOMAIN s
      PROVE  i > Len(s) /\ \E j \in DOMAIN t : (s \o t)[i] = t[j]
  <2>1. i > Len(s) /\ i - Len(s) \in DOMAIN t /\ Len(s) + (i - Len(s)) = i
    BY <1>1, <1>4
  <2> QED
    BY <1>3, <2>1
<1>5. Elems(s \o t) \subseteq Elems(s) \cup Elems(t)
  BY <1>2, <1>4 DEF Elems
<1>6. Elems(s) \cup Elems(t) \subseteq Elems(s \o t)
  BY <1>2, <1>3 DEF Elems
<1> QED
  BY <1>1, <1>2, <1>4, <1>5, <1>6

\* An import adds the routes of its pages, and nothing else, behind the list.
LEMMA ImportIs ==
    ASSUME FilesOK, NEW list \in Seq(Routes), NEW done, NEW pages,
           (pages \ done) \cap PageSet \subseteq Existing
    PROVE  /\ Import(list, done, pages) \in Seq(Routes)
           /\ Elems(Import(list, done, pages)) = Elems(list) \cup
                 UNION {Elems(RoutesOf(p)) : p \in (pages \ done) \cap PageSet}
<1> DEFINE new == {i \in DOMAIN Pages : Pages[i] \in pages \ done}
           places == UNION {{<<i, j>> : j \in DOMAIN RoutesOf(Pages[i])} : i \in new}
           before(x, y) == x[1] < y[1] \/ (x[1] = y[1] /\ x[2] < y[2])
           less == {z \in places \X places : before(z[1], z[2])}
           order == Listed(places, less)
           more == [k \in DOMAIN order |-> RoutesOf(Pages[order[k][1]])[order[k][2]]]
<1>1. Import(list, done, pages) = list \o more
  BY DEF Import
<1>2. Pages \in Seq(STRING) /\ DOMAIN Pages = 1..Len(Pages) /\ Len(Pages) \in Nat
  BY RoutesAssumption
<1>3. \A i \in new : i \in Nat /\ Pages[i] \in Existing /\ Pages[i] \in (pages \ done) \cap PageSet
  BY <1>2 DEF PageSet
<1>4. \A p \in (pages \ done) \cap PageSet : \E i \in new : Pages[i] = p
  BY DEF PageSet
<1> HIDE DEF new
<1>5. \A x : x \in places <=> \E i \in new : \E j \in DOMAIN RoutesOf(Pages[i]) : x = <<i, j>>
  OBVIOUS
<1>6. ASSUME NEW i \in new
      PROVE  /\ RoutesOf(Pages[i]) \in Seq(Routes)
             /\ DOMAIN RoutesOf(Pages[i]) = 1..Len(RoutesOf(Pages[i]))
             /\ Len(RoutesOf(Pages[i])) \in Nat
  <2>1. RoutesOf(Pages[i]) \in Seq(Routes)
    BY <1>3, RoutesOfIs
  <2> QED
    BY <2>1
<1>7. \A x \in places : x[1] \in new /\ x[1] \in Nat /\ x[2] \in Nat
                        /\ x[2] \in DOMAIN RoutesOf(Pages[x[1]]) /\ x = <<x[1], x[2]>>
  BY <1>3, <1>5, <1>6
<1>8. IsFiniteSet(places)
  <2> DEFINE row(i) == {<<i, j>> : j \in DOMAIN RoutesOf(Pages[i])}
             rows == {row(i) : i \in new}
  <2>1. ASSUME NEW i \in new PROVE IsFiniteSet(row(i))
    <3> DEFINE D == DOMAIN RoutesOf(Pages[i])
               f == [j \in D |-> <<i, j>>]
    <3>1. IsFiniteSet(D)
      <4>1. Len(RoutesOf(Pages[i])) \in Int /\ 1 \in Int
        BY <1>6
      <4>2. IsFiniteSet(1..Len(RoutesOf(Pages[i])))
        BY <4>1, FS_Interval
      <4> QED
        BY <1>6, <4>2
    <3>2. f \in Surjection(D, row(i))
      BY DEF Surjection
    <3> HIDE DEF f, D, row
    <3> QED
      BY <3>1, <3>2, FS_Surjection
  <2>2. IsFiniteSet(new)
    <3>1. IsFiniteSet(1..Len(Pages))
      BY <1>2, 1 \in Int, Len(Pages) \in Int, FS_Interval
    <3>2. new \in SUBSET (1..Len(Pages))
      BY <1>2 DEF new
    <3> QED
      BY <3>1, <3>2, FS_Subset
  <2> DEFINE g == [i \in new |-> row(i)]
  <2>3. g \in Surjection(new, rows)
    BY DEF Surjection
  <2>4. IsFiniteSet(rows)
    <3> HIDE DEF g, rows
    <3> QED
      BY <2>2, <2>3, FS_Surjection
  <2>5. \A T \in rows : IsFiniteSet(T)
    BY <2>1
  <2>6. places = UNION rows
    OBVIOUS
  <2> HIDE DEF rows, places
  <2> QED
    BY <2>4, <2>5, <2>6, FS_UNION
<1>9. \A x, y \in places : <<x, y>> \in less <=> before(x, y)
  OBVIOUS
<1> HIDE DEF places, less
<1>10. Orders(places, less)
  <2>1. \A x \in places : ~before(x, x)
    BY <1>7
  <2>2. \A x, y \in places : x = y \/ before(x, y) \/ before(y, x)
    BY <1>7
  <2>3. \A x, y, z \in places : before(x, y) /\ before(y, z) => before(x, z)
    BY <1>7
  <2> HIDE DEF before
  <2> QED
    BY <1>9, <2>1, <2>2, <2>3 DEF Orders
<1>11. order \in Seq(places) /\ \A x \in places : \E k \in DOMAIN order : order[k] = x
  BY <1>8, <1>10, ListedIs
<1> HIDE DEF order
<1>12. /\ Len(order) \in Nat /\ DOMAIN order = 1..Len(order)
       /\ \A k \in DOMAIN order : order[k] \in places
  BY <1>11
<1>13. ASSUME NEW k \in DOMAIN order
       PROVE  \E p \in (pages \ done) \cap PageSet : more[k] \in Routes /\ more[k] \in Elems(RoutesOf(p))
  <2> DEFINE i == order[k][1]
             j == order[k][2]
  <2>1. i \in new /\ j \in DOMAIN RoutesOf(Pages[i])
    BY <1>7, <1>12
  <2>2. more[k] = RoutesOf(Pages[i])[j]
    OBVIOUS
  <2> HIDE DEF more, i, j
  <2>3. more[k] \in Routes
    BY <1>6, <2>1, <2>2
  <2>4. more[k] \in Elems(RoutesOf(Pages[i]))
    BY <2>1, <2>2 DEF Elems
  <2> QED
    BY <1>3, <2>1, <2>3, <2>4
<1>14. more \in Seq(Routes)
  <2>1. more \in [1..Len(order) -> Routes]
    BY <1>12, <1>13
  <2> HIDE DEF more
  <2> QED
    BY <1>12, <2>1, TupleIs
<1>15. ASSUME NEW p \in (pages \ done) \cap PageSet, NEW r \in Elems(RoutesOf(p))
       PROVE  r \in Elems(more)
  <2>1. PICK i \in new : Pages[i] = p
    BY <1>4
  <2>2. PICK j \in DOMAIN RoutesOf(p) : r = RoutesOf(p)[j]
    BY <1>15 DEF Elems
  <2>3. <<i, j>> \in places
    BY <1>5, <2>1, <2>2
  <2>4. PICK k \in DOMAIN order : order[k] = <<i, j>>
    BY <1>11, <2>3
  <2>5. k \in DOMAIN more /\ more[k] = r
    BY <2>1, <2>2, <2>4
  <2> HIDE DEF more
  <2> QED
    BY <2>5 DEF Elems
<1>16. Elems(more) = UNION {Elems(RoutesOf(p)) : p \in (pages \ done) \cap PageSet}
  <2>1. DOMAIN more = DOMAIN order
    OBVIOUS
  <2>2. Elems(more) \subseteq UNION {Elems(RoutesOf(p)) : p \in (pages \ done) \cap PageSet}
    <3> SUFFICES ASSUME NEW k \in DOMAIN more
                 PROVE  more[k] \in UNION {Elems(RoutesOf(p)) : p \in (pages \ done) \cap PageSet}
      BY DEF Elems
    <3>1. k \in DOMAIN order
      BY <2>1
    <3> HIDE DEF more
    <3> QED
      BY <1>13, <3>1
  <2> HIDE DEF more
  <2> QED
    BY <1>15, <2>2
<1> HIDE DEF more
<1> QED
  BY <1>1, <1>14, <1>16, ConcatIs

-----------------------------------------------------------------------------
(* The invariants.                                                         *)

\* Every route has one with its path, and with its methods, that no route with
\* a greater key precedes: itself where the list is sorted, the one that was
\* included once more where it is not.
Covers(list, h, i) ==
    /\ h <= i
    /\ list[h].kind = list[i].kind /\ list[h].path = list[i].path
    /\ list[i].methods \subseteq list[h].methods
    /\ \A j \in DOMAIN list : j < h => ~KeyLess(KeyOf(list[h]), KeyOf(list[j]))

Covered(list) == \A i \in DOMAIN list : \E h \in DOMAIN list : Covers(list, h, i)

CoverInv == Covered(routes)

\* An entry was made of this route; a route of the list is this one, to which a
\* search may have added HEAD.
Stands(e, r) == e.path = r.path /\ e.method \in EntryMethods(r)

Like(x, r) ==
    /\ x.kind = r.kind /\ x.page = r.page /\ x.path = r.path
    /\ r.methods \subseteq x.methods /\ x.methods \subseteq r.methods \cup {"HEAD"}

\* An entry with the time its page still has was made of one of its routes.
Sound(e) ==
    /\ e.page \in PageSet /\ e.mtime = mtime[e.page] =>
          e.page \in Existing /\ \E r \in Elems(RoutesOf(e.page)) : Stands(e, r)
    /\ e.page = "app" => \E r \in Elems(BuiltinRoutes) : Stands(e, r)

\* There is such an entry for every route of the page.
Complete(entries, p) ==
    \A r \in Elems(RoutesOf(p)) :
        \E e \in entries : e.page = p /\ e.mtime = mtime[p] /\ Stands(e, r)

TimeInv ==
    /\ \A p \in PageSet : mtime[p] <= clock
    /\ \A p \in DOMAIN files : files[p] <= clock
    /\ \A e \in fake \cup cache.entries : e.mtime <= clock

EntryInv == \A e \in fake \cup cache.entries : Sound(e)

\* The map has all routes of a page or none that is up to date.
MapInv ==
    Distinct => \A p \in PageSet :
        (\E e \in cache.entries : e.page = p /\ e.mtime = mtime[p]) =>
            Complete(cache.entries, p)

\* What the process knows of a page that was not edited since it started.
PageInv(p) ==
    /\ p \in Existing
    /\ \A r \in Elems(RoutesOf(p)) : r.kind = "api"
    /\ \A x \in Elems(routes) : x.page = p => \E r \in Elems(RoutesOf(p)) : Like(x, r)
    /\ p \in imported => \A r \in Elems(RoutesOf(p)) : \E x \in Elems(routes) : Like(x, r)
    /\ Distinct /\ p \notin imported => p \in cache.exclude \/ Complete(fake, p)

AppInv ==
    /\ \A x \in Elems(routes) : x.page = "app" => \E r \in Elems(BuiltinRoutes) : Like(x, r)
    /\ \A r \in Elems(BuiltinRoutes) : \E x \in Elems(routes) : Like(x, r)

RunInv ==
    dev /\ up = "up" =>
        /\ imported \subseteq DOMAIN files
        /\ \A e \in fake : e.page \in PageSet =>
              e.page \in DOMAIN files /\ e.mtime = files[e.page]
        /\ \A p \in DOMAIN files : files[p] = mtime[p] => PageInv(p)
        /\ AppInv

DevInv == TimeInv /\ EntryInv /\ MapInv /\ RunInv

-----------------------------------------------------------------------------
(* The search and the registration, on lists of routes.                    *)

LEMMA SortedRoutes ==
    ASSUME NEW list \in Seq(Routes)
    PROVE  /\ Sorted(list) \in Seq(Routes)
           /\ InKeyOrder(Sorted(list))
           /\ Elems(Sorted(list)) = Elems(list)
<1>1. \A x \in Routes : x.path \in Seq(STRING)
  BY DEF Routes
<1>2. /\ Sorted(list) \in Seq(Routes) /\ InKeyOrder(Sorted(list))
      /\ \A k \in DOMAIN Sorted(list) : \E i \in DOMAIN list : Sorted(list)[k] = list[i]
      /\ \A i \in DOMAIN list : \E k \in DOMAIN Sorted(list) : Sorted(list)[k] = list[i]
  BY <1>1, SortedIs
<1>3. ASSUME NEW s, NEW t, \A k \in DOMAIN s : \E i \in DOMAIN t : s[k] = t[i]
      PROVE  Elems(s) \subseteq Elems(t)
  BY <1>3 DEF Elems
<1>4. Elems(Sorted(list)) \subseteq Elems(list)
  BY <1>2, <1>3
<1>5. Elems(list) \subseteq Elems(Sorted(list))
  <2>1. \A i \in DOMAIN list : \E k \in DOMAIN Sorted(list) : list[i] = Sorted(list)[k]
    BY <1>2
  <2> QED
    BY <1>3, <2>1
<1> QED
  BY <1>2, <1>4, <1>5

\* A sorted list is still searched in order when routers are included once more.
LEMMA IncludedIs ==
    ASSUME NEW list \in Seq(Routes), InKeyOrder(list)
    PROVE  /\ IncludeRouters(list) \in Seq(Routes)
           /\ Elems(IncludeRouters(list)) = Elems(list)
           /\ Covered(IncludeRouters(list))
<1> DEFINE P == {i \in DOMAIN list : list[i].page \in OwnRouter /\ list[i].kind = "api"}
           tail == At(list, P)
           all == IncludeRouters(list)
<1>1. /\ tail \in Seq(Routes)
      /\ \A k \in DOMAIN tail : \E i \in P : tail[k] = list[i]
  <2>1. P \in SUBSET DOMAIN list
    OBVIOUS
  <2> HIDE DEF P
  <2> QED
    BY <2>1, AtIs
<1>2. all = list \o tail
  BY DEF IncludeRouters
<1> HIDE DEF tail, all
<1>3. /\ all \in Seq(Routes)
      /\ DOMAIN list \subseteq DOMAIN all
      /\ \A i \in DOMAIN list : all[i] = list[i]
      /\ \A i \in DOMAIN all : i \notin DOMAIN list =>
            i > Len(list) /\ \E j \in DOMAIN tail : all[i] = tail[j]
      /\ Elems(all) = Elems(list) \cup Elems(tail)
  <2>1. tail \in Seq(Routes)
    BY <1>1
  <2> QED
    BY <1>2, <2>1, ConcatIs
<1>4. Elems(tail) \subseteq Elems(list)
  <2>1. \A k \in DOMAIN tail : \E i \in DOMAIN list : tail[k] = list[i]
    BY <1>1
  <2> QED
    BY <2>1 DEF Elems
<1>5. DOMAIN list = 1..Len(list) /\ Len(list) \in Nat /\ DOMAIN all = 1..Len(all) /\ Len(all) \in Nat
  BY <1>3
<1>6. ASSUME NEW i \in DOMAIN all
      PROVE  \E h \in DOMAIN all : Covers(all, h, i)
  <2>1. ASSUME NEW h \in DOMAIN list, h <= i, all[i] = list[h]
        PROVE  Covers(all, h, i)
    <3>1. all[h] = list[h]
      BY <1>3, <2>1
    <3>2. ASSUME NEW j \in DOMAIN all, j < h
          PROVE  ~KeyLess(KeyOf(all[h]), KeyOf(all[j]))
      <4>1. j \in DOMAIN list
        BY <1>5, <3>2
      <4>2. all[j] = list[j]
        BY <1>3, <4>1
      <4> QED
        BY <3>1, <3>2, <4>1, <4>2 DEF InKeyOrder
    <3> QED
      BY <2>1, <3>1, <3>2 DEF Covers
  <2>2. CASE i \in DOMAIN list
    <3>1. i <= i
      BY <1>5
    <3> QED
      BY <1>3, <2>1, <2>2, <3>1
  <2>3. CASE i \notin DOMAIN list
    <3>1. PICK h \in DOMAIN list : all[i] = list[h]
      BY <1>1, <1>3, <2>3 DEF P
    <3>2. h <= i
      BY <1>3, <1>5, <2>3
    <3> QED
      BY <1>3, <2>1, <3>1, <3>2
  <2> QED
    BY <2>2, <2>3
<1>7. Elems(all) = Elems(list)
  BY <1>3, <1>4
<1> QED
  BY <1>3, <1>6, <1>7 DEF Covered, all

\* The routes the search looks for.
Hit(r, path, method) == (r.kind = "api" => method \in r.methods) /\ Matches(r, path)

LEMMA FindExactIs ==
    ASSUME NEW X, NEW list \in Seq(X), NEW path, NEW method
    PROVE  LET found == FindExact(list, path, method) IN
           /\ found \in Nat
           /\ found = 0 => \A i \in DOMAIN list : ~Hit(list[i], path, method)
           /\ found # 0 => /\ found \in DOMAIN list /\ Hit(list[found], path, method)
                           /\ \A i \in DOMAIN list : Hit(list[i], path, method) => found <= i
<1> DEFINE hits == {i \in DOMAIN list : /\ list[i].kind = "api" => method \in list[i].methods
                                        /\ Matches(list[i], path)}
<1>1. hits = {i \in DOMAIN list : Hit(list[i], path, method)}
  BY DEF Hit
<1>2. DOMAIN list = 1..Len(list) /\ Len(list) \in Nat
  OBVIOUS
<1>3. hits \in SUBSET Nat /\ 0 \notin hits
  BY <1>2
<1>4. FindExact(list, path, method) = IF hits = {} THEN 0 ELSE Min(hits)
  BY DEF FindExact
<1> HIDE DEF hits
<1>5. CASE hits = {}
  BY <1>1, <1>4, <1>5
<1>6. CASE hits # {}
  <2>1. Min(hits) \in hits /\ \A y \in hits : Min(hits) <= y
    BY <1>3, <1>6, LeastNat
  <2>2. Min(hits) \in Nat /\ Min(hits) # 0
    BY <1>3, <2>1
  <2> QED
    BY <1>1, <1>4, <1>6, <2>1, <2>2
<1> QED
  BY <1>5, <1>6

LEMMA ChoiceIs ==
    ASSUME NEW list \in Seq(Routes), NEW path, NEW method
    PROVE  LET c == Choice(list, path, method)
               p == Strip(path)
           IN \/ /\ c.place = 0 /\ c.fallback \in Fallbacks
                 /\ \A i \in DOMAIN list : ~Hit(list[i], p, method)
              \/ /\ c.fallback = "none" /\ c.place \in DOMAIN list /\ c.place # 0
                 /\ \/ /\ Hit(list[c.place], p, method)
                       /\ \A i \in DOMAIN list : Hit(list[i], p, method) => c.place <= i
                    \/ /\ method = "HEAD" /\ Hit(list[c.place], p, "GET")
                       /\ \A i \in DOMAIN list : Hit(list[i], p, "GET") => c.place <= i
                       /\ \A i \in DOMAIN list : ~Hit(list[i], p, method)
<1> DEFINE p == Strip(path)
           c == Choice(list, path, method)
           exact == FindExact(list, p, method)
           get == FindExact(list, p, "GET")
           place == IF exact = 0 /\ method = "HEAD" THEN get ELSE exact
           fall == IF method = "OPTIONS" THEN "preflight"
                   ELSE IF get_allowed_methods(list, p) # {} THEN "not_allowed" ELSE "not_found"
<1>1. c = IF place # 0 THEN [place |-> place, fallback |-> "none"]
          ELSE [place |-> 0, fallback |-> fall]
  BY DEF Choice
<1>2. fall \in Fallbacks
  BY DEF Fallbacks
<1>3. /\ exact = 0 => \A i \in DOMAIN list : ~Hit(list[i], p, method)
      /\ exact # 0 => /\ exact \in DOMAIN list /\ Hit(list[exact], p, method)
                      /\ \A i \in DOMAIN list : Hit(list[i], p, method) => exact <= i
  BY FindExactIs
<1>4. get # 0 => /\ get \in DOMAIN list /\ Hit(list[get], p, "GET")
                 /\ \A i \in DOMAIN list : Hit(list[i], p, "GET") => get <= i
  BY FindExactIs
<1> HIDE DEF p, c, exact, get, fall
<1>5. CASE exact # 0
  <2>1. c = [place |-> exact, fallback |-> "none"]
    BY <1>1, <1>5
  <2> QED
    BY <1>3, <1>5, <2>1 DEF c, p
<1>6. CASE exact = 0 /\ method = "HEAD" /\ get # 0
  <2>1. c = [place |-> get, fallback |-> "none"]
    BY <1>1, <1>6
  <2> QED
    BY <1>3, <1>4, <1>6, <2>1 DEF c, p
<1>7. CASE exact = 0 /\ ~(method = "HEAD" /\ get # 0)
  <2>1. c = [place |-> 0, fallback |-> fall]
    BY <1>1, <1>7
  <2> QED
    BY <1>2, <1>3, <1>7, <2>1 DEF c, p
<1> QED
  BY <1>5, <1>6, <1>7

\* The key and the match of a route depend on its kind and its path only.
LEMMA KindAndPath ==
    ASSUME NEW q, NEW r, q.kind = r.kind, q.path = r.path
    PROVE  /\ KeyOf(q) = KeyOf(r)
           /\ \A path : Matches(q, path) <=> Matches(r, path)
           /\ \A path, m : Hit(r, path, m) /\ r.methods \subseteq q.methods => Hit(q, path, m)
<1>1. KeyOf(q) = KeyOf(r)
  BY DEF KeyOf, get_route_sort_key
<1>2. \A path : Matches(q, path) <=> Matches(r, path)
  BY DEF Matches
<1>3. \A path, m : Hit(r, path, m) /\ r.methods \subseteq q.methods => Hit(q, path, m)
  BY <1>2 DEF Hit
<1> QED
  BY <1>1, <1>2, <1>3

LEMMA WidenIs ==
    ASSUME NEW list \in Seq(Routes), NEW path, NEW method \in Methods,
           fallback \in [Fallbacks -> SUBSET Methods],
           Widen(list, Choice(list, path, method), method)
    PROVE  LET c == Choice(list, path, method) IN
           /\ routes' \in Seq(Routes)
           /\ DOMAIN routes' = DOMAIN list
           /\ \A i \in DOMAIN list : Like(routes'[i], list[i])
           /\ fallback' \in [Fallbacks -> SUBSET Methods]
           /\ c.place = 0 => method \in fallback'[c.fallback]
           /\ c.place # 0 /\ list[c.place].kind = "api" => method \in routes'[c.place].methods
           /\ Covered(list) => Covered(routes')
<1> DEFINE c == Choice(list, path, method)
           p == Strip(path)
           wide == c.place # 0 /\ list[c.place].kind = "api" /\ method = "HEAD"
<1>0. /\ routes' = IF wide THEN [list EXCEPT ![c.place].methods = @ \cup {"HEAD"}] ELSE list
      /\ fallback' = IF c.fallback = "none" THEN fallback
                     ELSE [fallback EXCEPT ![c.fallback] =
                             @ \cup {method} \cup (IF method = "HEAD" THEN {"GET"} ELSE {})]
  BY DEF Widen
<1>1. \/ /\ c.place = 0 /\ c.fallback \in Fallbacks
      \/ /\ c.fallback = "none" /\ c.place \in DOMAIN list /\ c.place # 0
         /\ \E m \in {method, "GET"} :
               /\ Hit(list[c.place], p, m)
               /\ \A i \in DOMAIN list : Hit(list[i], p, m) => c.place <= i
         /\ method # "HEAD" => Hit(list[c.place], p, method)
  BY ChoiceIs DEF Fallbacks
<1> HIDE DEF c, p
<1>2. "none" \notin Fallbacks /\ {"GET", "HEAD"} \subseteq Methods
  BY RoutesAssumption DEF Fallbacks
<1>3. DOMAIN list = 1..Len(list) /\ Len(list) \in Nat /\ \A i \in DOMAIN list : list[i] \in Routes
  OBVIOUS
<1>4. fallback' \in [Fallbacks -> SUBSET Methods]
  BY <1>0, <1>1, <1>2
<1>5. c.place = 0 => method \in fallback'[c.fallback]
  BY <1>0, <1>1, <1>2
<1>6. ASSUME NEW r \in Routes
      PROVE  /\ Like(r, r) /\ [r EXCEPT !.methods = @ \cup {"HEAD"}] \in Routes
             /\ Like([r EXCEPT !.methods = @ \cup {"HEAD"}], r)
  BY <1>2 DEF Routes, Like
<1>7. CASE wide
  <2>1. c.place \in DOMAIN list
    BY <1>1, <1>7
  <2>2. routes' = [list EXCEPT ![c.place] = [list[c.place] EXCEPT !.methods = @ \cup {"HEAD"}]]
    BY <1>0, <1>7
  <2>3. routes' \in Seq(Routes) /\ DOMAIN routes' = DOMAIN list
    <3>1. list \in [1..Len(list) -> Routes]
      BY <1>3
    <3>2. [list[c.place] EXCEPT !.methods = @ \cup {"HEAD"}] \in Routes
      BY <1>3, <1>6, <2>1
    <3> HIDE DEF wide
    <3>3. routes' \in [1..Len(list) -> Routes]
      BY <2>2, <3>1, <3>2
    <3> QED
      BY <1>3, <3>3, TupleIs
  <2>4. \A i \in DOMAIN list : i # c.place => routes'[i] = list[i]
    BY <1>3, <2>2
  <2>5. routes'[c.place] = [list[c.place] EXCEPT !.methods = @ \cup {"HEAD"}]
    BY <1>3, <2>1, <2>2
  <2>6. \A i \in DOMAIN list : Like(routes'[i], list[i])
    BY <1>3, <1>6, <2>1, <2>4, <2>5
  <2>7. method \in routes'[c.place].methods
    BY <1>3, <1>7, <2>1, <2>5 DEF Routes
  <2>8. ASSUME Covered(list)
        PROVE  Covered(routes')
    <3>1. \A i \in DOMAIN list : KeyOf(routes'[i]) = KeyOf(list[i])
      BY <2>6, KindAndPath DEF Like
    <3>2. ASSUME NEW i \in DOMAIN list, NEW h \in DOMAIN list, Covers(list, h, i),
                 i = c.place => h = i
          PROVE  Covers(routes', h, i)
      <4>1. routes'[h].kind = routes'[i].kind /\ routes'[h].path = routes'[i].path
        BY <2>6, <3>2 DEF Covers, Like
      <4>2. routes'[i].methods \subseteq routes'[h].methods
        <5>1. CASE i = c.place
          BY <3>2, <5>1
        <5>2. CASE i # c.place
          BY <2>4, <2>6, <3>2, <5>2 DEF Covers, Like
        <5> QED
          BY <5>1, <5>2
      <4>3. \A j \in DOMAIN routes' : j < h => ~KeyLess(KeyOf(routes'[h]), KeyOf(routes'[j]))
        BY <2>3, <3>1, <3>2 DEF Covers
      <4> QED
        BY <3>2, <4>1, <4>2, <4>3 DEF Covers
    <3>3. ASSUME NEW h \in DOMAIN list, Covers(list, h, c.place)
          PROVE  h = c.place
      <4>1. PICK m \in {method, "GET"} :
               /\ Hit(list[c.place], p, m)
               /\ \A i \in DOMAIN list : Hit(list[i], p, m) => c.place <= i
        BY <1>1, <1>7
      <4>2. Hit(list[h], p, m)
        BY <3>3, <4>1, KindAndPath DEF Covers
      <4> QED
        BY <1>3, <2>1, <3>3, <4>1, <4>2 DEF Covers
    <3>4. ASSUME NEW i \in DOMAIN routes'
          PROVE  \E h \in DOMAIN routes' : Covers(routes', h, i)
      <4>1. PICK h \in DOMAIN list : Covers(list, h, i)
        BY <2>3, <2>8 DEF Covered
      <4> QED
        BY <2>3, <3>2, <3>3, <4>1
    <3> QED
      BY <3>4 DEF Covered
  <2> QED
    BY <1>4, <1>5, <2>3, <2>6, <2>7, <2>8 DEF c
<1>8. CASE ~wide
  <2>1. routes' = list
    BY <1>0, <1>8
  <2>2. \A i \in DOMAIN list : Like(routes'[i], list[i])
    BY <1>3, <1>6, <2>1
  <2>3. c.place # 0 /\ list[c.place].kind = "api" => method \in routes'[c.place].methods
    BY <1>1, <1>8, <2>1 DEF Hit
  <2> QED
    BY <1>4, <1>5, <2>1, <2>2, <2>3 DEF c
<1> QED
  BY <1>7, <1>8

-----------------------------------------------------------------------------
(* The entries of the routes map.                                          *)

Times == UNION {[S -> 0..MaxEdits] : S \in SUBSET PageSet}

LEMMA EntryIs ==
    ASSUME NEW r \in Routes, NEW pref \in Methods, NEW times \in Times
    PROVE  LET e == Entry(r, pref, times) IN
           /\ e \in Entries /\ e.page = r.page /\ Stands(e, r)
           /\ e.mtime = IF r.page \in DOMAIN times THEN times[r.page] ELSE 0
<1> DEFINE e == Entry(r, pref, times)
           m == IF pref \in EntryMethods(r) THEN pref ELSE CHOOSE x \in EntryMethods(r) : TRUE
           t == IF r.page \in DOMAIN times THEN times[r.page] ELSE 0
<1>1. /\ r.page \in PageSet \cup {"app"} /\ r.path \in Seq(STRING)
      /\ r.methods \subseteq Methods
  BY DEF Routes
<1>2. EntryMethods(r) # {} /\ EntryMethods(r) \subseteq Methods
  BY <1>1, RoutesAssumption DEF EntryMethods
<1>3. m \in EntryMethods(r) /\ m \in Methods
  <2>1. PICK x \in EntryMethods(r) : TRUE
    BY <1>2
  <2>2. (CHOOSE y \in EntryMethods(r) : TRUE) \in EntryMethods(r)
    BY <2>1
  <2> QED
    BY <1>2, <2>2
<1>4. t \in 0..MaxEdits
  <2>1. PICK S \in SUBSET PageSet : times \in [S -> 0..MaxEdits]
    BY DEF Times
  <2>2. 0 \in 0..MaxEdits
    BY RoutesAssumption
  <2> QED
    BY <2>1, <2>2
<1>5. e = [method |-> m, path |-> r.path, page |-> r.page, mtime |-> t]
  BY DEF Entry
<1> HIDE DEF m, t, e
<1>6. /\ e \in Entries /\ e.page = r.page /\ e.mtime = t
      /\ e.path = r.path /\ e.method = m
  BY <1>1, <1>3, <1>4, <1>5 DEF Entries
<1> QED
  BY <1>3, <1>6 DEF Stands, e, t

LEMMA EntriesOfAre ==
    ASSUME NEW list \in Seq(Routes), NEW pref \in Methods, NEW times \in Times
    PROVE  /\ EntriesOf(list, pref, times) \in Seq(Entries)
           /\ \A e \in Elems(EntriesOf(list, pref, times)) :
                 \E r \in Elems(list) : e = Entry(r, pref, times)
           /\ \A r \in Elems(list) : Entry(r, pref, times) \in Elems(EntriesOf(list, pref, times))
<1> DEFINE f == [i \in DOMAIN list |-> Entry(list[i], pref, times)]
<1>1. DOMAIN list = 1..Len(list) /\ Len(list) \in Nat /\ \A i \in DOMAIN list : list[i] \in Routes
  OBVIOUS
<1>2. \A i \in DOMAIN list : Entry(list[i], pref, times) \in Entries
  BY <1>1, EntryIs
<1>3. f \in [1..Len(list) -> Entries]
  BY <1>1, <1>2
<1>4. f \in Seq(Entries) /\ EntriesOf(list, pref, times) = f
  <2> HIDE DEF f
  <2>1. f \in Seq(Entries) /\ Tuple(f) = f
    BY <1>1, <1>3, TupleIs
  <2> QED
    BY <2>1 DEF EntriesOf, f
<1>5. DOMAIN f = DOMAIN list /\ \A i \in DOMAIN list : f[i] = Entry(list[i], pref, times)
  OBVIOUS
<1> HIDE DEF f
<1> QED
  BY <1>4, <1>5 DEF Elems

\* An update replaces entries by new ones with their keys, and drops no key.
LEMMA MergeIs ==
    ASSUME NEW old, NEW new \in Seq(Entries)
    PROVE  /\ Merge(old, new) \subseteq old \cup Elems(new)
           /\ \A e \in old \cup Elems(new) :
                 \E d \in Merge(old, new) : SameKey(d, e) /\ (d = e \/ d \in Elems(new))
           /\ (\A d, e \in old : SameKey(d, e) => d = e) =>
                 \A d, e \in Merge(old, new) : SameKey(d, e) => d = e
<1> DEFINE last == {j \in DOMAIN new : \A k \in DOMAIN new : k > j => ~SameKey(new[j], new[k])}
           kept == {e \in old : \A i \in DOMAIN new : ~SameKey(e, new[i])}
<1>1. Merge(old, new) = kept \cup {new[i] : i \in last}
  BY DEF Merge
<1>2. DOMAIN new = 1..Len(new) /\ Len(new) \in Nat
  OBVIOUS
<1>3. Merge(old, new) \subseteq old \cup Elems(new)
  BY <1>1 DEF Elems
<1>4. ASSUME NEW e, NEW i \in DOMAIN new, SameKey(e, new[i])
      PROVE  \E j \in last : SameKey(new[j], e)
  <2> DEFINE S == {j \in DOMAIN new : SameKey(e, new[j])}
  <2>1. S \in SUBSET Nat /\ S # {} /\ \A y \in S : y <= Len(new)
    BY <1>2, <1>4
  <2>2. Max(S) \in S /\ \A y \in S : Max(S) >= y
    <3> HIDE DEF S
    <3> QED
      BY <1>2, <2>1, GreatestNat
  <2>3. PICK j \in S : \A y \in S : j >= y
    BY <2>2
  <2>4. ASSUME NEW k \in DOMAIN new, k > j, SameKey(new[j], new[k])
        PROVE  FALSE
    <3>1. k \in S
      BY <2>3, <2>4 DEF SameKey
    <3> QED
      BY <1>2, <2>3, <2>4, <3>1
  <2>5. j \in last /\ SameKey(new[j], e)
    BY <2>3, <2>4 DEF SameKey
  <2> QED
    BY <2>5
<1>5. ASSUME NEW e \in old \cup Elems(new)
      PROVE  \E d \in Merge(old, new) : SameKey(d, e) /\ (d = e \/ d \in Elems(new))
  <2>1. SameKey(e, e)
    BY DEF SameKey
  <2>2. CASE \E i \in DOMAIN new : SameKey(e, new[i])
    <3>1. PICK j \in last : SameKey(new[j], e)
      BY <1>4, <2>2
    <3>2. new[j] \in Merge(old, new) /\ new[j] \in Elems(new)
      BY <1>1, <3>1 DEF Elems
    <3> QED
      BY <3>1, <3>2
  <2>3. CASE ~\E i \in DOMAIN new : SameKey(e, new[i])
    <3>1. e \in kept
      BY <2>1, <2>3 DEF Elems
    <3> QED
      BY <1>1, <2>1, <3>1
  <2> QED
    BY <2>2, <2>3
<1>6. ASSUME \A d, e \in old : SameKey(d, e) => d = e,
             NEW d \in Merge(old, new), NEW e \in Merge(old, new), SameKey(d, e)
      PROVE  d = e
  <2>0. SameKey(e, d)
    BY <1>6 DEF SameKey
  <2>1. CASE d \in kept /\ e \in kept
    BY <1>6, <2>1
  <2>2. CASE d \in kept /\ e \in {new[i] : i \in last}
    BY <1>6, <2>2
  <2>3. CASE e \in kept /\ d \in {new[i] : i \in last}
    BY <2>0, <2>3
  <2>4. ASSUME NEW i \in last, NEW j \in last, d = new[i], e = new[j]
        PROVE  d = e
    <3>1. ~(i > j) /\ ~(j > i)
      BY <1>6, <2>0, <2>4
    <3>2. i = j
      BY <1>2, <3>1
    <3> QED
      BY <2>4, <3>2
  <2> QED
    BY <1>1, <2>1, <2>2, <2>3, <2>4
<1> QED
  BY <1>3, <1>5, <1>6

-----------------------------------------------------------------------------
(* What the steps do.                                                      *)

\* The routes of the application and of some of its pages.
Those(pages) == Elems(BuiltinRoutes) \cup UNION {Elems(RoutesOf(p)) : p \in pages}

LEMMA ThoseAre ==
    ASSUME FilesOK, NEW pages \in SUBSET Existing
    PROVE  /\ pages \subseteq PageSet
           /\ Those(pages) \subseteq Routes
           /\ \A r \in Those(pages) :
                 \/ r.page = "app" /\ r \in Elems(BuiltinRoutes)
                 \/ r.page \in pages /\ r \in Elems(RoutesOf(r.page))
<1>1. pages \subseteq PageSet
  BY DEF Existing
<1>2. ASSUME NEW r \in Elems(BuiltinRoutes)
      PROVE  r \in Routes /\ r.page = "app"
  BY BuiltinIs DEF Elems
<1>3. ASSUME NEW p \in pages, NEW r \in Elems(RoutesOf(p))
      PROVE  r \in Routes /\ r.page = p
  <2>1. RoutesOf(p) \in Seq(Routes) /\ \A i \in DOMAIN RoutesOf(p) : RoutesOf(p)[i].page = p
    BY RoutesOfIs
  <2>2. PICK i \in DOMAIN RoutesOf(p) : r = RoutesOf(p)[i]
    BY DEF Elems
  <2> QED
    BY <2>1, <2>2
<1> QED
  BY <1>1, <1>2, <1>3 DEF Those

\* The list of a process that starts with some pages imported.
LEMMA ListIs ==
    ASSUME FilesOK, NEW pages \in SUBSET Existing
    PROVE  LET list == Import(BuiltinRoutes, {}, pages) IN
           /\ list \in Seq(Routes) /\ Elems(list) = Those(pages)
           /\ Sorted(list) \in Seq(Routes) /\ Elems(Sorted(list)) = Those(pages)
           /\ InKeyOrder(Sorted(list))
           /\ IncludeRouters(Sorted(list)) \in Seq(Routes)
           /\ Elems(IncludeRouters(Sorted(list))) = Those(pages)
           /\ Covered(IncludeRouters(Sorted(list)))
<1> DEFINE list == Import(BuiltinRoutes, {}, pages)
<1>1. pages \subseteq PageSet
  BY DEF Existing
<1>2. (pages \ {}) \cap PageSet = pages
  BY <1>1
<1>3. list \in Seq(Routes) /\ Elems(list) = Those(pages)
  BY <1>2, BuiltinIs, ImportIs DEF Those
<1> HIDE DEF list
<1>4. Sorted(list) \in Seq(Routes) /\ Elems(Sorted(list)) = Those(pages) /\ InKeyOrder(Sorted(list))
  BY <1>3, SortedRoutes
<1>5. /\ IncludeRouters(Sorted(list)) \in Seq(Routes)
      /\ Elems(IncludeRouters(Sorted(list))) = Those(pages)
      /\ Covered(IncludeRouters(Sorted(list)))
  BY <1>4, IncludedIs
<1> QED
  BY <1>3, <1>4, <1>5 DEF list

LEMMA FilesNowIs ==
    ASSUME TypeOK
    PROVE  /\ FilesOK /\ Existing \subseteq PageSet
           /\ FilesNow \in [Existing -> 0..MaxEdits] /\ FilesNow \in Times
           /\ DOMAIN FilesNow = Existing /\ \A p \in Existing : FilesNow[p] = mtime[p]
<1>1. FilesOK /\ Existing \subseteq PageSet /\ mtime \in [PageSet -> 0..MaxEdits]
  BY DEF TypeOK, FilesOK, Existing
<1>2. FilesNow \in [Existing -> 0..MaxEdits] /\ \A p \in Existing : FilesNow[p] = mtime[p]
  BY <1>1 DEF FilesNow
<1>3. FilesNow \in Times
  BY <1>1, <1>2 DEF Times
<1> QED
  BY <1>1, <1>2, <1>3

\* Entries that were made of the routes of these pages.
MadeOf(new, pages, pref) ==
    /\ new \in Seq(Entries)
    /\ \A e \in Elems(new) : \E r \in Those(pages) : e = Entry(r, pref, FilesNow)
    /\ \A r \in Those(pages) : Entry(r, pref, FilesNow) \in Elems(new)

\* Entries of the map that are up to date.
Current == {e \in cache.entries : e.page \in Existing => e.mtime = mtime[e.page]}

\* A process in the development mode keeps some entries of the map, imports some
\* pages and makes entries of their routes.
Started(kept, pages, new, pref) ==
    /\ pages \in SUBSET Existing /\ pref \in Methods
    /\ \/ kept = {} /\ pages = Existing
       \/ /\ kept = {e \in Current : e.page \in Existing \cup {"app"}}
          /\ \/ pages = Existing
             \/ /\ cache'.exclude = cache.exclude
                /\ \A p \in Existing \ pages : p \in cache.exclude \/ \E e \in kept : e.page = p
    /\ new = <<>> \/ MadeOf(new, pages, pref)
    /\ imported' = pages
    /\ routes' = IncludeRouters(Sorted(Import(BuiltinRoutes, {}, pages)))
    /\ fake' = kept \cup Elems(new)
    /\ cache'.entries = Merge(kept, new)
    /\ cache' \in [exists : BOOLEAN, entries : {Merge(kept, new)}, exclude : SUBSET PageSet]

LEMMA CreateIs ==
    ASSUME TypeOK, NEW entries, NEW pref \in Methods, CreateRouteMap(entries, pref),
           \/ entries = {}
           \/ entries = {e \in Current : e.page \in Existing \cup {"app"}}
    PROVE  \E new : Started(entries, Existing, new, pref)
<1> DEFINE all == Sorted(Import(BuiltinRoutes, {}, Existing))
           new == EntriesOf(all, pref, FilesNow)
           made == Merge(entries, new)
<1>1. /\ routes' = IncludeRouters(all)
      /\ imported' = Existing
      /\ fake' = entries \cup {new[i] : i \in DOMAIN new}
      /\ cache' = [exists |-> TRUE, entries |-> made, exclude |-> NeedAdd(made, FilesNow, {})]
  BY DEF CreateRouteMap
<1>2. all \in Seq(Routes) /\ Elems(all) = Those(Existing)
  BY FilesNowIs, ListIs
<1>3. MadeOf(new, Existing, pref)
  <2> HIDE DEF all
  <2> QED
    BY <1>2, FilesNowIs, EntriesOfAre DEF MadeOf
<1>4. NeedAdd(made, FilesNow, {}) \in SUBSET PageSet
  BY FilesNowIs DEF NeedAdd
<1> HIDE DEF new, made
<1>5. Started(entries, Existing, new, pref)
  BY <1>1, <1>3, <1>4 DEF Started, Elems, made
<1> QED
  BY <1>5

LEMMA FromCacheIs ==
    ASSUME TypeOK, NEW pref \in Methods, StartFromCache(pref)
    PROVE  \E kept, pages, new : Started(kept, pages, new, pref)
<1> DEFINE times == FilesNow
           kept == {e \in cache.entries \ Changed(times) :
                      e.page \notin NeedDelete(cache.entries, times)}
           new == NeedAdd(cache.entries, times, cache.exclude)
           add == new \cup {e.page : e \in Changed(times)}
           count == Cardinality(new) + Cardinality(Changed(times))
           list == Import(BuiltinRoutes, {}, add)
           made == IF count = 0 THEN <<>> ELSE EntriesOf(list, pref, times)
<1>1. IF count > MaxChanged THEN CreateRouteMap(kept, pref)
      ELSE /\ routes' = IncludeRouters(Sorted(list))
           /\ imported' = add
           /\ fake' = kept \cup {made[i] : i \in DOMAIN made}
           /\ cache' = [cache EXCEPT !.entries = Merge(kept, made)]
  BY DEF StartFromCache
<1>2. /\ times \in Times /\ DOMAIN times = Existing /\ FilesOK
      /\ \A p \in Existing : times[p] = mtime[p]
  BY FilesNowIs
<1>3. kept = {e \in Current : e.page \in Existing \cup {"app"}}
  BY <1>2 DEF Changed, NeedDelete, Current
<1>4. add \in SUBSET Existing
  BY <1>2 DEF NeedAdd, Changed
<1>5. \A p \in Existing \ add : p \in cache.exclude \/ \E e \in kept : e.page = p
  BY <1>2 DEF NeedAdd, NeedDelete
<1>6. list \in Seq(Routes) /\ Elems(list) = Those(add)
  <2> HIDE DEF add
  <2> QED
    BY <1>2, <1>4, ListIs
<1>7. made = <<>> \/ MadeOf(made, add, pref)
  <2> HIDE DEF add, list, count
  <2> QED
    BY <1>2, <1>6, EntriesOfAre DEF MadeOf
<1> HIDE DEF times, kept, new, add, count, made, list
<1>8. CASE count > MaxChanged
  BY <1>1, <1>3, <1>8, CreateIs
<1>9. CASE ~(count > MaxChanged)
  <2>1. /\ routes' = IncludeRouters(Sorted(list))
        /\ imported' = add
        /\ fake' = kept \cup {made[i] : i \in DOMAIN made}
        /\ cache' = [cache EXCEPT !.entries = Merge(kept, made)]
    BY <1>1, <1>9
  <2>2. cache \in [exists : BOOLEAN, entries : SUBSET Entries, exclude : SUBSET PageSet]
    BY DEF TypeOK
  <2>3. /\ cache'.exclude = cache.exclude /\ cache'.entries = Merge(kept, made)
        /\ cache' \in [exists : BOOLEAN, entries : {Merge(kept, made)}, exclude : SUBSET PageSet]
    BY <2>1, <2>2
  <2>4. Started(kept, add, made, pref)
    BY <1>3, <1>4, <1>5, <1>7, <2>1, <2>3 DEF Started, Elems, list
  <2> QED
    BY <2>4
<1> QED
  BY <1>8, <1>9

LEMMA StartedTypes ==
    ASSUME TypeOK, NEW kept, NEW pages, NEW new, NEW pref, Started(kept, pages, new, pref)
    PROVE  /\ kept \subseteq cache.entries /\ new \in Seq(Entries)
           /\ kept \cup Elems(new) \subseteq Entries
           /\ routes' \in Seq(Routes) /\ Elems(routes') = Those(pages) /\ Covered(routes')
           /\ fake' \subseteq Entries
           /\ cache' \in [exists : BOOLEAN, entries : SUBSET Entries, exclude : SUBSET PageSet]
           /\ \A d, e \in cache'.entries : SameKey(d, e) => d = e
<1>1. kept \subseteq cache.entries
  BY DEF Started, Current
<1>2. cache.entries \subseteq Entries /\ \A d, e \in cache.entries : SameKey(d, e) => d = e
  BY DEF TypeOK, SameKey
<1>3. new \in Seq(Entries)
  <2>1. <<>> \in Seq(Entries)
    OBVIOUS
  <2> QED
    BY <2>1 DEF Started, MadeOf
<1>4. Elems(new) \subseteq Entries
  BY <1>3 DEF Elems
<1>5. routes' \in Seq(Routes) /\ Elems(routes') = Those(pages) /\ Covered(routes')
  <2>1. FilesOK /\ pages \in SUBSET Existing
    BY FilesNowIs DEF Started
  <2>2. routes' = IncludeRouters(Sorted(Import(BuiltinRoutes, {}, pages)))
    BY DEF Started
  <2> QED
    BY <2>1, <2>2, ListIs
<1>6. Merge(kept, new) \subseteq kept \cup Elems(new)
  BY <1>3, MergeIs
<1>7. \A d, e \in kept : SameKey(d, e) => d = e
  BY <1>1, <1>2
<1>8. \A d, e \in Merge(kept, new) : SameKey(d, e) => d = e
  BY <1>3, <1>7, MergeIs
<1>9. fake' \subseteq Entries
  BY <1>1, <1>2, <1>4 DEF Started
<1>10. /\ cache' \in [exists : BOOLEAN, entries : {Merge(kept, new)}, exclude : SUBSET PageSet]
       /\ cache'.entries = Merge(kept, new)
  BY DEF Started
<1>11. Merge(kept, new) \subseteq Entries
  BY <1>1, <1>2, <1>4, <1>6
<1>12. cache' \in [exists : BOOLEAN, entries : SUBSET Entries, exclude : SUBSET PageSet]
  BY <1>10, <1>11
<1> QED
  BY <1>1, <1>2, <1>3, <1>4, <1>5, <1>8, <1>9, <1>10, <1>12

\* A start fails, imports all pages, or is one of the development mode.
LEMMA StartIs ==
    ASSUME TypeOK, Start
    PROVE  /\ files' = FilesNow /\ dev' = dev /\ fs' = fs /\ mtime' = mtime /\ clock' = clock
           /\ accepted' = TRUE /\ fallback' \in [Fallbacks -> SUBSET Methods]
           /\ \/ up' = "failed" /\ UNCHANGED <<routes, imported, fake, cache>>
              \/ /\ up' = "up" /\ ~dev /\ imported' = Existing /\ UNCHANGED <<fake, cache>>
                 /\ routes' = IncludeRouters(Sorted(Import(BuiltinRoutes, {}, Existing)))
              \/ /\ up' = "up" /\ dev /\ ~HasMount(Existing)
                 /\ \E kept, pages, new, pref : Started(kept, pages, new, pref)
<1>1. fallback' \in [Fallbacks -> SUBSET Methods]
  <2>1. fallback' = [f \in Fallbacks |-> {IF f = "preflight" THEN "OPTIONS" ELSE "GET"}]
    BY DEF Start
  <2> QED
    BY <2>1, RoutesAssumption
<1>2. files' = FilesNow /\ dev' = dev /\ fs' = fs /\ mtime' = mtime /\ clock' = clock
      /\ accepted' = TRUE
  BY DEF Start, fsVars
<1>3. up' = IF dev /\ HasMount(Existing) THEN "failed" ELSE "up"
  BY DEF Start
<1>4. CASE dev /\ HasMount(Existing)
  <2>1. UNCHANGED <<routes, imported, fake, cache>>
    BY <1>3, <1>4 DEF Start
  <2> QED
    BY <1>1, <1>2, <1>3, <1>4, <2>1
<1>5. CASE ~dev
  <2>1. StartAll
    BY <1>3, <1>5 DEF Start
  <2> QED
    BY <1>1, <1>2, <1>3, <1>5, <2>1 DEF StartAll
<1>6. CASE dev /\ ~HasMount(Existing)
  <2>1. PICK pref \in Methods : IF cache.exists THEN StartFromCache(pref)
                                ELSE CreateRouteMap({}, pref)
    BY <1>3, <1>6 DEF Start
  <2>2. \E kept, pages, new : Started(kept, pages, new, pref)
    BY <2>1, FromCacheIs, CreateIs
  <2> QED
    BY <1>1, <1>2, <1>3, <1>6, <2>2
<1> QED
  BY <1>4, <1>5, <1>6

LEMMA TargetsAre ==
    ASSUME TypeOK, NEW path, NEW method, NEW page \in Targets(path, method)
    PROVE  /\ page \in PageSet \cup {"app"}
           /\ page # "app" => dev /\ \E e \in fake : e.page = page
<1>1. fake \subseteq Entries
  BY DEF TypeOK
<1>2. page = "app" \/ (dev /\ page \in FakeHit(path, method))
  BY DEF Targets
<1>3. page \in FakeHit(path, method) => \E e \in fake : e.page = page
  BY DEF FakeHit
<1> QED
  BY <1>1, <1>2, <1>3 DEF Entries

\* The list after the import that a request may need.
LEMMA OnDemandIs ==
    ASSUME TypeOK, NEW path, NEW method, NEW page \in Targets(path, method),
           Needed(page) \subseteq Existing
    PROVE  LET list == OnDemand(page) IN
           /\ list \in Seq(Routes)
           /\ Elems(list) = Elems(routes) \cup UNION {Elems(RoutesOf(p)) : p \in Needed(page)}
           /\ dev => InKeyOrder(list)
           /\ ~dev => list = routes
<1>1. routes \in Seq(Routes) /\ FilesOK /\ Existing \subseteq PageSet
  BY FilesNowIs DEF TypeOK
<1>2. page \in PageSet \cup {"app"} /\ (~dev => page = "app") /\ "app" \notin PageSet
  BY TargetsAre, RoutesAssumption
<1>3. ({page} \ imported) \cap PageSet = Needed(page)
  BY <1>1, <1>2 DEF Needed
<1>4. CASE dev
  <2>1. /\ Import(routes, imported, {page}) \in Seq(Routes)
        /\ Elems(Import(routes, imported, {page})) =
              Elems(routes) \cup UNION {Elems(RoutesOf(p)) : p \in Needed(page)}
    BY <1>1, <1>3, ImportIs
  <2>2. OnDemand(page) = Sorted(Import(routes, imported, {page}))
    BY <1>4 DEF OnDemand
  <2> QED
    BY <1>4, <2>1, <2>2, SortedRoutes
<1>5. CASE ~dev
  <2>1. OnDemand(page) = routes /\ Needed(page) = {}
    BY <1>2, <1>5 DEF OnDemand, Needed
  <2> QED
    BY <1>1, <1>5, <2>1
<1> QED
  BY <1>4, <1>5

\* A request imports the page it needs and answers with a route of the list, or
\* with a fallback, that has its method.
LEMMA RequestIs ==
    ASSUME TypeOK, NEW path, NEW method \in Methods, Request(path, method)
    PROVE  \E page \in Targets(path, method) :
           /\ up = "up" /\ up' = up /\ dev' = dev /\ fs' = fs /\ mtime' = mtime
           /\ clock' = clock /\ files' = files /\ fake' = fake /\ cache' = cache
           /\ Needed(page) \subseteq Existing
           /\ imported' = imported \cup Needed(page)
           /\ routes' \in Seq(Routes)
           /\ fallback' \in [Fallbacks -> SUBSET Methods]
           /\ DOMAIN routes' = DOMAIN OnDemand(page)
           /\ \A i \in DOMAIN routes' : Like(routes'[i], OnDemand(page)[i])
           /\ Covered(OnDemand(page)) => Covered(routes')
           /\ accepted' = TRUE
<1>1. PICK page \in Targets(path, method) :
        LET list == OnDemand(page)
            c == Choice(list, path, method)
        IN /\ up = "up"
           /\ Needed(page) \subseteq Existing
           /\ Widen(list, c, method)
           /\ imported' = imported \cup Needed(page)
           /\ accepted' = IF c.place = 0 THEN method \in fallback'[c.fallback]
                          ELSE list[c.place].kind = "api" => method \in routes'[c.place].methods
           /\ UNCHANGED <<dev, fsVars, up, files, fake, cache>>
  BY DEF Request
<1> DEFINE list == OnDemand(page)
           c == Choice(list, path, method)
<1>2. list \in Seq(Routes)
  BY <1>1, OnDemandIs
<1>3. fallback \in [Fallbacks -> SUBSET Methods]
  BY DEF TypeOK
<1>4. /\ routes' \in Seq(Routes)
      /\ DOMAIN routes' = DOMAIN list
      /\ \A i \in DOMAIN list : Like(routes'[i], list[i])
      /\ fallback' \in [Fallbacks -> SUBSET Methods]
      /\ c.place = 0 => method \in fallback'[c.fallback]
      /\ c.place # 0 /\ list[c.place].kind = "api" => method \in routes'[c.place].methods
      /\ Covered(list) => Covered(routes')
  <2>1. Widen(list, c, method)
    BY <1>1
  <2> HIDE DEF list
  <2> QED
    BY <1>2, <1>3, <2>1, WidenIs DEF c
<1>5. accepted' = TRUE
  BY <1>1, <1>4
<1>6. /\ up' = up /\ dev' = dev /\ fs' = fs /\ mtime' = mtime
      /\ clock' = clock /\ files' = files /\ fake' = fake /\ cache' = cache
  BY <1>1 DEF fsVars
<1> QED
  BY <1>1, <1>4, <1>5, <1>6

-----------------------------------------------------------------------------
(* Types, and the handler that accepts.                                    *)

LEMMA TypeInit == Init => TypeOK
<1> SUFFICES ASSUME Init PROVE TypeOK
  OBVIOUS
<1>1. /\ MaxEdits \in Nat /\ {"GET", "OPTIONS"} \subseteq Methods
      /\ Decls \in [PageSet -> Seq(Seq(Declarations)) \ {<<>>}]
  BY RoutesAssumption
<1>2. fs \in [PageSet -> {0, 1}]
  BY DEF Init
<1>3. fs \in [PageSet -> Nat] /\ \A p \in PageSet : fs[p] <= Len(Decls[p])
  <2>1. fs \in [PageSet -> Nat]
    BY <1>2
  <2>2. ASSUME NEW p \in PageSet
        PROVE  fs[p] <= Len(Decls[p])
    <3>1. Decls[p] \in Seq(Seq(Declarations)) /\ Decls[p] # <<>>
      BY <1>1
    <3>2. Len(Decls[p]) \in Nat /\ Len(Decls[p]) # 0
      BY <3>1
    <3>3. fs[p] \in {0, 1}
      BY <1>2
    <3> QED
      BY <3>2, <3>3
  <2> QED
    BY <2>1, <2>2
<1>4. mtime \in [PageSet -> 0..MaxEdits] /\ clock \in 0..MaxEdits
  BY <1>1 DEF Init
<1>5. routes = <<>> /\ routes \in Seq(Routes) /\ DOMAIN routes = {}
  BY DEF Init
<1>6. fallback \in [Fallbacks -> SUBSET Methods]
  BY <1>1 DEF Init
<1>7. files \in UNION {[S -> 0..MaxEdits] : S \in SUBSET PageSet}
  <2>1. files = <<>>
    BY DEF Init
  <2>2. files \in [{} -> 0..MaxEdits]
    BY <2>1
  <2> QED
    BY <2>2
<1>8. /\ cache \in [exists : BOOLEAN, entries : SUBSET Entries, exclude : SUBSET PageSet]
      /\ cache.entries = {}
  BY DEF Init, NoCache
<1> QED
  BY <1>3, <1>4, <1>5, <1>6, <1>7, <1>8 DEF Init, TypeOK

LEMMA TypeStep == TypeOK /\ [Next]_vars => TypeOK'
<1> SUFFICES ASSUME TypeOK, [Next]_vars PROVE TypeOK'
  OBVIOUS
<1>1. ASSUME NEW pages \in SUBSET Existing, routes' \in Seq(Routes), Elems(routes') = Those(pages)
      PROVE  \A i \in DOMAIN routes' : routes'[i].page \in pages \cup {"app"}
  <2>1. \A r \in Those(pages) : r.page \in pages \cup {"app"}
    BY FilesNowIs, ThoseAre
  <2> QED
    BY <1>1, <2>1 DEF Elems
<1>2. CASE Start
  <2>1. /\ files' = FilesNow /\ dev' = dev /\ fs' = fs /\ mtime' = mtime /\ clock' = clock
        /\ accepted' = TRUE /\ fallback' \in [Fallbacks -> SUBSET Methods]
    BY <1>2, StartIs
  <2>2. files' \in UNION {[S -> 0..MaxEdits] : S \in SUBSET PageSet}
    BY <2>1, FilesNowIs DEF Times
  <2>3. CASE up' = "failed" /\ UNCHANGED <<routes, imported, fake, cache>>
    BY <2>1, <2>2, <2>3 DEF TypeOK
  <2>4. CASE /\ up' = "up" /\ ~dev /\ imported' = Existing /\ UNCHANGED <<fake, cache>>
             /\ routes' = IncludeRouters(Sorted(Import(BuiltinRoutes, {}, Existing)))
    <3>1. FilesOK /\ Existing \subseteq PageSet
      BY FilesNowIs
    <3>2. routes' \in Seq(Routes) /\ Elems(routes') = Those(Existing)
      BY <2>4, <3>1, ListIs
    <3>3. \A i \in DOMAIN routes' : routes'[i].page \in imported' \cup {"app"}
      BY <1>1, <2>4, <3>2
    <3> QED
      BY <2>1, <2>2, <2>4, <3>1, <3>2, <3>3 DEF TypeOK
  <2>5. CASE /\ up' = "up"
             /\ \E kept, pages, new, pref : Started(kept, pages, new, pref)
    <3>1. PICK kept, pages, new, pref : Started(kept, pages, new, pref)
      BY <2>5
    <3>2. /\ routes' \in Seq(Routes) /\ Elems(routes') = Those(pages)
          /\ fake' \subseteq Entries
          /\ cache' \in [exists : BOOLEAN, entries : SUBSET Entries, exclude : SUBSET PageSet]
          /\ \A d, e \in cache'.entries : SameKey(d, e) => d = e
      BY <3>1, StartedTypes
    <3>3. imported' = pages /\ pages \in SUBSET Existing /\ Existing \subseteq PageSet
      BY <3>1, FilesNowIs DEF Started
    <3>4. \A i \in DOMAIN routes' : routes'[i].page \in imported' \cup {"app"}
      BY <1>1, <3>2, <3>3
    <3> QED
      BY <2>1, <2>2, <2>5, <3>2, <3>3, <3>4 DEF TypeOK, SameKey
  <2> QED
    BY <1>2, <2>3, <2>4, <2>5, StartIs
<1>3. CASE Stop
  <2>1. <<>> \in [{} -> 0..MaxEdits] /\ <<>> \in Seq(Routes)
    OBVIOUS
  <2>2. files' \in UNION {[S -> 0..MaxEdits] : S \in SUBSET PageSet}
    BY <1>3, <2>1 DEF Stop
  <2> QED
    BY <1>3, <2>1, <2>2 DEF Stop, TypeOK, fsVars
<1>4. ASSUME NEW p \in PageSet, Edit(p)
      PROVE  TypeOK'
  <2>1. clock' \in 0..MaxEdits /\ clock + 1 \in 0..MaxEdits
    BY <1>4, RoutesAssumption DEF Edit, TypeOK
  <2>2. mtime' \in [PageSet -> 0..MaxEdits]
    BY <1>4, <2>1 DEF Edit, TypeOK
  <2>3. fs' \in [PageSet -> Nat] /\ \A q \in PageSet : fs'[q] <= Len(Decls[q])
    <3>1. fs' = [fs EXCEPT ![p] = IF fs[p] = Len(Decls[p]) THEN 0 ELSE fs[p] + 1]
      BY <1>4 DEF Edit
    <3>2. fs \in [PageSet -> Nat] /\ \A q \in PageSet : fs[q] <= Len(Decls[q])
      BY DEF TypeOK
    <3>3. \A q \in PageSet : Len(Decls[q]) \in Nat
      BY RoutesAssumption
    <3> QED
      BY <3>1, <3>2, <3>3
  <2>4. UNCHANGED <<dev, procVars, cache, accepted>>
    BY <1>4 DEF Edit
  <2> QED
    BY <2>1, <2>2, <2>3, <2>4 DEF TypeOK, procVars
<1>5. ASSUME NEW path \in Paths, NEW method \in Methods, Request(path, method)
      PROVE  TypeOK'
  <2>1. PICK page \in Targets(path, method) :
           /\ up' = up /\ dev' = dev /\ fs' = fs /\ mtime' = mtime
           /\ clock' = clock /\ files' = files /\ fake' = fake /\ cache' = cache
           /\ Needed(page) \subseteq Existing
           /\ imported' = imported \cup Needed(page)
           /\ routes' \in Seq(Routes)
           /\ fallback' \in [Fallbacks -> SUBSET Methods]
           /\ DOMAIN routes' = DOMAIN OnDemand(page)
           /\ \A i \in DOMAIN routes' : Like(routes'[i], OnDemand(page)[i])
           /\ accepted' = TRUE
    BY <1>5, RequestIs
  <2>2. Elems(OnDemand(page)) =
           Elems(routes) \cup UNION {Elems(RoutesOf(p)) : p \in Needed(page)}
    BY <2>1, OnDemandIs
  <2>3. \A x \in Elems(routes) : x.page \in imported \cup {"app"}
    BY DEF TypeOK, Elems
  <2>4. ASSUME NEW p \in Needed(page), NEW x \in Elems(RoutesOf(p))
        PROVE  x.page = p
    <3>1. \A i \in DOMAIN RoutesOf(p) : RoutesOf(p)[i].page = p
      BY <2>1, FilesNowIs, RoutesOfIs
    <3> QED
      BY <3>1 DEF Elems
  <2>5. \A x \in Elems(OnDemand(page)) : x.page \in imported' \cup {"app"}
    BY <2>1, <2>2, <2>3, <2>4
  <2>6. \A i \in DOMAIN routes' : routes'[i].page \in imported' \cup {"app"}
    BY <2>1, <2>5 DEF Like, Elems
  <2>7. imported' \subseteq PageSet
    BY <2>1, FilesNowIs DEF TypeOK
  <2> QED
    BY <2>1, <2>6, <2>7 DEF TypeOK
<1>6. CASE UNCHANGED vars
  BY <1>6 DEF TypeOK, vars, fsVars, procVars
<1>7. ASSUME NEW path \in Paths, NEW method \in Methods, RequestFails(path, method)
      PROVE  TypeOK'
  BY <1>6, <1>7 DEF RequestFails
<1> QED
  BY <1>2, <1>3, <1>4, <1>5, <1>6, <1>7 DEF Next

\* In every state the list holds routes of pages that are imported and of the
\* application itself, and the routes map one entry for a method and a path.
THEOREM RoutesTypes == Spec => []TypeOK
BY TypeInit, TypeStep, PTL DEF Spec

LEMMA AcceptStep == TypeOK /\ HandlerAccepts /\ [Next]_vars => HandlerAccepts'
<1> SUFFICES ASSUME TypeOK, accepted, [Next]_vars PROVE accepted'
  BY DEF HandlerAccepts
<1>1. CASE Start
  BY <1>1, StartIs
<1>2. CASE Stop
  BY <1>2 DEF Stop
<1>3. ASSUME NEW p \in PageSet, Edit(p)
      PROVE  accepted'
  BY <1>3 DEF Edit
<1>4. ASSUME NEW path \in Paths, NEW method \in Methods, Request(path, method)
      PROVE  accepted'
  BY <1>4, RequestIs
<1>5. CASE UNCHANGED vars
  BY <1>5 DEF vars
<1>6. ASSUME NEW path \in Paths, NEW method \in Methods, RequestFails(path, method)
      PROVE  accepted'
  BY <1>5, <1>6 DEF RequestFails
<1> QED
  BY <1>1, <1>2, <1>3, <1>4, <1>5, <1>6 DEF Next

\* Whatever the routes, the handler never refuses the method its route was found
\* for: the search adds HEAD to a GET route and any method to a fallback before
\* Route.handle looks at the methods once more.
THEOREM HandlersAccept == Spec => []HandlerAccepts
<1>1. Init => HandlerAccepts
  BY DEF Init, HandlerAccepts
<1> QED
  BY <1>1, AcceptStep, RoutesTypes, PTL DEF Spec

-----------------------------------------------------------------------------
(* The first match is the most specific one.                               *)

LEMMA SortedCovered ==
    ASSUME NEW list \in Seq(Routes), InKeyOrder(list)
    PROVE  Covered(list)
<1>1. ASSUME NEW i \in DOMAIN list
      PROVE  Covers(list, i, i)
  <2>1. i <= i
    OBVIOUS
  <2> QED
    BY <2>1 DEF Covers, InKeyOrder
<1> QED
  BY <1>1 DEF Covered

LEMMA CoverStep == TypeOK /\ CoverInv /\ [Next]_vars => CoverInv'
<1> SUFFICES ASSUME TypeOK, Covered(routes), [Next]_vars PROVE Covered(routes')
  BY DEF CoverInv
<1>1. CASE Start
  <2>1. CASE UNCHANGED routes
    BY <2>1
  <2>2. CASE routes' = IncludeRouters(Sorted(Import(BuiltinRoutes, {}, Existing)))
    BY <2>2, FilesNowIs, ListIs
  <2>3. CASE \E kept, pages, new, pref : Started(kept, pages, new, pref)
    BY <2>3, StartedTypes
  <2> QED
    BY <1>1, <2>1, <2>2, <2>3, StartIs
<1>2. CASE Stop
  <2>1. routes' = <<>> /\ DOMAIN routes' = {}
    BY <1>2 DEF Stop
  <2> QED
    BY <2>1 DEF Covered
<1>3. ASSUME NEW p \in PageSet, Edit(p)
      PROVE  Covered(routes')
  BY <1>3 DEF Edit, procVars
<1>4. ASSUME NEW path \in Paths, NEW method \in Methods, Request(path, method)
      PROVE  Covered(routes')
  <2>1. PICK page \in Targets(path, method) :
           /\ Needed(page) \subseteq Existing
           /\ Covered(OnDemand(page)) => Covered(routes')
    BY <1>4, RequestIs
  <2>2. /\ OnDemand(page) \in Seq(Routes)
        /\ InKeyOrder(OnDemand(page)) \/ OnDemand(page) = routes
    BY <2>1, OnDemandIs
  <2> QED
    BY <2>1, <2>2, SortedCovered
<1>5. CASE UNCHANGED vars
  BY <1>5 DEF vars, procVars
<1>6. ASSUME NEW path \in Paths, NEW method \in Methods, RequestFails(path, method)
      PROVE  Covered(routes')
  BY <1>5, <1>6 DEF RequestFails
<1> QED
  BY <1>1, <1>2, <1>3, <1>4, <1>5, <1>6 DEF Next

LEMMA FoundIsMostSpecific ==
    ASSUME NEW list \in Seq(Routes), Covered(list), NEW p \in Seq(STRING), NEW m,
           FindExact(list, p, m) # 0,
           NEW i \in DOMAIN list, list[i].kind = "api", m \in list[i].methods, Matches(list[i], p)
    PROVE  /\ list[FindExact(list, p, m)].kind = "api"
           /\ AtLeastAsSpecific(list[FindExact(list, p, m)], list[i])
<1> DEFINE f == FindExact(list, p, m)
<1>1. /\ f \in DOMAIN list /\ Hit(list[f], p, m)
      /\ \A j \in DOMAIN list : Hit(list[j], p, m) => f <= j
  BY FindExactIs
<1> HIDE DEF f
<1>2. PICK h \in DOMAIN list : Covers(list, h, i)
  BY DEF Covered
<1>3. /\ list[h].kind = "api" /\ list[h].path = list[i].path
      /\ \A j \in DOMAIN list : j < h => ~KeyLess(KeyOf(list[h]), KeyOf(list[j]))
  BY <1>2 DEF Covers
<1>4. Hit(list[i], p, m) /\ Hit(list[h], p, m)
  BY <1>2, KindAndPath DEF Hit, Covers
<1>5. f <= h
  BY <1>1, <1>4
<1>6. CASE f = h
  BY <1>3, <1>6 DEF AtLeastAsSpecific, f
<1>7. CASE f # h
  <2>1. ~KeyLess(KeyOf(list[h]), KeyOf(list[f]))
    <3>1. DOMAIN list = 1..Len(list) /\ Len(list) \in Nat
      OBVIOUS
    <3> QED
      BY <1>1, <1>3, <1>5, <1>7, <3>1
  <2>2. list[h] \in Routes /\ list[f] \in Routes
    BY <1>1
  <2>3. list[h].path \in Seq(STRING) /\ list[f].path \in Seq(STRING)
    BY <2>2 DEF Routes
  <2>4. list[f].kind = "api"
    <3> SUFFICES ASSUME list[f].kind # "api" PROVE FALSE
      OBVIOUS
    <3>1. KeyOf(list[f]) = [class |-> 3, len |-> 0, flags |-> <<>>]
      BY <2>3, SortKeyIs DEF KeyOf
    <3>2. KeyOf(list[h]).class \in {1, 2}
      <4> DEFINE r == list[h]
                 flagged == \E k \in DOMAIN Flags(r.path) : Flags(r.path)[k]
      <4>1. r.kind = "api" /\ r.path \in Seq(STRING)
        BY <1>3, <2>3
      <4> HIDE DEF r
      <4>2. /\ flagged => get_route_sort_key(r) = [class |-> 2, len |-> Len(Places(r.path)),
                                                   flags |-> Flags(r.path)]
            /\ ~flagged => get_route_sort_key(r) = [class |-> 1, len |-> Len(Places(r.path)),
                                                    flags |-> <<>>]
        BY <4>1, SortKeyIs
      <4> HIDE DEF flagged
      <4>3. get_route_sort_key(r).class \in {1, 2}
        BY <4>2
      <4> QED
        BY <4>3 DEF r, KeyOf
    <3>3. KeyLess(KeyOf(list[h]), KeyOf(list[f]))
      BY <3>1, <3>2 DEF KeyLess
    <3> QED
      BY <2>1, <3>3
  <2>5. Matches(list[f], p) /\ Matches(list[h], p)
    BY <1>1, <1>4 DEF Hit
  <2>6. AtLeastAsSpecific(list[f], list[h])
    BY <1>3, <2>1, <2>3, <2>4, <2>5, NotAfterIsSpecific
  <2>7. AtLeastAsSpecific(list[f], list[i])
    BY <1>3, <2>6 DEF AtLeastAsSpecific
  <2> QED
    BY <2>4, <2>7 DEF f
<1> QED
  BY <1>6, <1>7

LEMMA CoveredIsSpecific == TypeOK /\ CoverInv => FirstIsMostSpecific
<1> SUFFICES ASSUME TypeOK, CoverInv, NEW path \in Paths, NEW m \in Methods,
                    FindExact(routes, Strip(path), m) # 0, NEW i \in DOMAIN routes,
                    routes[i].kind = "api", m \in routes[i].methods,
                    Matches(routes[i], Strip(path))
             PROVE  /\ routes[FindExact(routes, Strip(path), m)].kind = "api"
                    /\ AtLeastAsSpecific(routes[FindExact(routes, Strip(path), m)], routes[i])
  BY DEF FirstIsMostSpecific
<1>1. routes \in Seq(Routes) /\ Covered(routes)
  BY DEF TypeOK, CoverInv
<1>2. Strip(path) \in Seq(STRING)
  BY RoutesAssumption, StripIs
<1> QED
  BY <1>1, <1>2, FoundIsMostSpecific

\* Whatever pages there are and in whatever order they are imported, the route
\* the search finds is the most specific of those that match, and never a mount
\* where a route matches.
THEOREM MostSpecificFirst == Spec => []FirstIsMostSpecific
<1>1. Init => CoverInv
  <2>1. ASSUME routes = <<>>
        PROVE  DOMAIN routes = {}
    BY <2>1
  <2> QED
    BY <2>1 DEF Init, CoverInv, Covered
<1> QED
  BY <1>1, CoverStep, CoveredIsSpecific, RoutesTypes, PTL DEF Spec

-----------------------------------------------------------------------------
(* On demand the same page answers.                                        *)

LEMMA EverDeclaredAre ==
    ASSUME FilesOK, NEW r \in Those(Existing)
    PROVE  r \in EverDeclared
<1>1. CASE r \in Elems(BuiltinRoutes)
  BY <1>1 DEF EverDeclared, Elems
<1>2. ASSUME NEW p \in Existing, r \in Elems(RoutesOf(p))
      PROVE  r \in EverDeclared
  <2>1. p \in PageSet /\ fs[p] \in DOMAIN Decls[p]
    BY RoutesOfIs
  <2>2. Decls[p][fs[p]] \in Seq(Declarations)
    BY RoutesOfIs
  <2>3. DOMAIN RoutesOf(p) = DOMAIN Decls[p][fs[p]]
    BY <2>1, <2>2, DeclaredIs DEF RoutesOf
  <2>4. r \in {Declared(p, Decls[p][fs[p]])[i] : i \in DOMAIN Decls[p][fs[p]]}
    BY <1>2, <2>3 DEF Elems, RoutesOf
  <2>5. r \in DeclaredBy(p)
    BY <2>1, <2>4 DEF DeclaredBy
  <2> QED
    BY <2>1, <2>5 DEF EverDeclared
<1> QED
  BY <1>1, <1>2 DEF Those

LEMMA DevInit == Init => DevInv
<1> SUFFICES ASSUME Init PROVE DevInv
  OBVIOUS
<1>1. /\ files = <<>> /\ fake = {} /\ cache.entries = {} /\ up = "down"
      /\ clock = 0 /\ \A p \in PageSet : mtime[p] = 0
  BY DEF Init, NoCache
<1>2. DOMAIN files = {}
  BY <1>1
<1> QED
  BY <1>1, <1>2 DEF DevInv, TimeInv, EntryInv, MapInv, RunInv

\* What a start gathers: entries as old as the files, made of routes of theirs.
LEMMA GatheredAre ==
    ASSUME TypeOK, DevInv, NEW kept, NEW pages, NEW new, NEW pref,
           Started(kept, pages, new, pref), NEW e \in kept \cup Elems(new)
    PROVE  /\ e.mtime \in Nat /\ e.mtime <= clock /\ Sound(e)
           /\ e.page \in PageSet => e.page \in Existing /\ e.mtime = mtime[e.page]
<1>1. clock \in Nat /\ \A p \in PageSet : mtime[p] \in Nat /\ mtime[p] <= clock
  BY RoutesAssumption DEF TypeOK, DevInv, TimeInv
<1>2. "app" \notin PageSet /\ FilesOK /\ Existing \subseteq PageSet
  BY FilesNowIs, RoutesAssumption
<1>3. CASE e \in kept
  <2>1. kept \subseteq {d \in Current : d.page \in Existing \cup {"app"}}
    BY DEF Started
  <2>2. e \in cache.entries /\ e.page \in Existing \cup {"app"}
        /\ (e.page \in Existing => e.mtime = mtime[e.page])
    BY <1>3, <2>1 DEF Current
  <2>3. Sound(e) /\ e.mtime <= clock
    BY <2>2 DEF DevInv, EntryInv, TimeInv
  <2>4. e.mtime \in Nat
    <3>1. e \in Entries
      BY <2>2 DEF TypeOK
    <3> QED
      BY <3>1, RoutesAssumption DEF Entries
  <2> QED
    BY <1>2, <2>2, <2>3, <2>4
<1>4. CASE e \in Elems(new)
  <2>1. MadeOf(new, pages, pref) /\ pages \in SUBSET Existing /\ pref \in Methods
    <3>1. new # <<>>
      BY <1>4 DEF Elems
    <3> QED
      BY <3>1 DEF Started
  <2>2. PICK r \in Those(pages) : e = Entry(r, pref, FilesNow)
    BY <1>4, <2>1 DEF MadeOf
  <2>3. /\ r \in Routes
        /\ \/ r.page = "app" /\ r \in Elems(BuiltinRoutes)
           \/ r.page \in pages /\ r \in Elems(RoutesOf(r.page))
    BY <1>2, <2>1, ThoseAre
  <2>4. /\ e.page = r.page /\ Stands(e, r)
        /\ e.mtime = IF r.page \in Existing THEN FilesNow[r.page] ELSE 0
    BY <2>1, <2>2, <2>3, FilesNowIs, EntryIs
  <2>5. CASE r.page = "app" /\ r \in Elems(BuiltinRoutes)
    <3>1. e.page = "app" /\ e.mtime = 0
      BY <1>2, <2>4, <2>5
    <3> QED
      BY <1>1, <1>2, <2>4, <2>5, <3>1 DEF Sound
  <2>6. CASE r.page \in pages /\ r \in Elems(RoutesOf(r.page))
    <3>1. e.page \in Existing /\ e.mtime = mtime[e.page]
      BY <2>1, <2>4, <2>6, FilesNowIs
    <3> QED
      BY <1>1, <1>2, <2>4, <2>6, <3>1 DEF Sound
  <2> QED
    BY <2>3, <2>5, <2>6
<1> QED
  BY <1>3, <1>4

\* The update drops no route of a page, unless pages declare the same ones.
LEMMA MergedStands ==
    ASSUME TypeOK, DevInv, Distinct, NEW kept, NEW pages, NEW new, NEW pref,
           Started(kept, pages, new, pref),
           NEW p \in Existing, NEW r \in Elems(RoutesOf(p)), NEW e \in kept \cup Elems(new),
           e.page = p, Stands(e, r)
    PROVE  \E d \in Merge(kept, new) : d.page = p /\ d.mtime = mtime[p] /\ Stands(d, r)
<1>1. FilesOK /\ Existing \subseteq PageSet /\ "app" \notin PageSet
  BY FilesNowIs, RoutesAssumption
<1>2. PICK d \in Merge(kept, new) : SameKey(d, e) /\ (d = e \/ d \in Elems(new))
  <2>1. new \in Seq(Entries)
    BY StartedTypes
  <2> QED
    BY <2>1, MergeIs
<1>3. Stands(d, r)
  BY <1>2 DEF SameKey, Stands
<1>4. d \in kept \cup Elems(new)
  BY <1>2
<1>5. r \in EverDeclared /\ r.page = p
  <2>1. r \in Those(Existing)
    BY DEF Those
  <2>2. r.page = p
    BY RoutesOfIs, <1>1 DEF Elems
  <2> QED
    BY <1>1, <2>1, <2>2, EverDeclaredAre
<1>6. d.page = p
  <2>1. CASE d = e
    BY <2>1
  <2>2. CASE d \in Elems(new)
    <3>1. MadeOf(new, pages, pref) /\ pages \in SUBSET Existing /\ pref \in Methods
      <4>1. new # <<>>
        BY <2>2 DEF Elems
      <4> QED
        BY <4>1 DEF Started
    <3>2. PICK s \in Those(pages) : d = Entry(s, pref, FilesNow)
      BY <2>2, <3>1 DEF MadeOf
    <3>3. s \in Routes /\ s \in Those(Existing)
      BY <1>1, <3>1, ThoseAre DEF Those
    <3>4. d.page = s.page /\ Stands(d, s)
      BY <3>1, <3>2, <3>3, FilesNowIs, EntryIs
    <3>5. s \in EverDeclared
      BY <1>1, <3>3, EverDeclaredAre
    <3>6. r.path = s.path /\ EntryMethods(r) \cap EntryMethods(s) # {}
      BY <1>3, <3>4 DEF Stands
    <3> QED
      BY <1>5, <3>4, <3>5, <3>6 DEF Distinct
  <2> QED
    BY <1>2, <2>1, <2>2
<1>7. d.mtime = mtime[p]
  BY <1>1, <1>4, <1>6, GatheredAre
<1> QED
  BY <1>3, <1>6, <1>7

LEMMA SameFiles ==
    ASSUME fs' = fs, mtime' = mtime
    PROVE  /\ Existing' = Existing
           /\ \A p : RoutesOf(p)' = RoutesOf(p)
           /\ \A e : Sound(e)' <=> Sound(e)
           /\ \A entries, p : Complete(entries, p)' <=> Complete(entries, p)
<1>1. Existing' = Existing
  BY DEF Existing
<1>2. \A p : RoutesOf(p)' = RoutesOf(p)
  BY DEF RoutesOf
<1>3. \A e : Sound(e)' <=> Sound(e)
  BY <1>1, <1>2 DEF Sound
<1>4. \A entries, p : Complete(entries, p)' <=> Complete(entries, p)
  BY <1>2 DEF Complete
<1> QED
  BY <1>1, <1>2, <1>3, <1>4

\* The map stays complete for the pages it has an entry of.
LEMMA MapStart ==
    ASSUME TypeOK, DevInv, Distinct, NEW kept, NEW pages, NEW new, NEW pref,
           Started(kept, pages, new, pref),
           NEW e \in Merge(kept, new), e.page \in PageSet
    PROVE  Complete(Merge(kept, new), e.page)
<1> DEFINE p == e.page
<1>1. e \in kept \cup Elems(new)
  BY StartedTypes, MergeIs
<1>2. p \in Existing /\ e.mtime = mtime[p]
  BY <1>1, GatheredAre
<1>3. FilesOK /\ Existing \subseteq PageSet /\ "app" \notin PageSet
  BY FilesNowIs, RoutesAssumption
<1> SUFFICES ASSUME NEW r \in Elems(RoutesOf(p))
             PROVE  \E d \in Merge(kept, new) : d.page = p /\ d.mtime = mtime[p] /\ Stands(d, r)
  BY DEF Complete
<1>4. \E d \in kept \cup Elems(new) : d.page = p /\ Stands(d, r)
  <2>1. CASE e \in kept
    <3>1. kept = {d \in Current : d.page \in Existing \cup {"app"}}
      BY <2>1 DEF Started
    <3>2. e \in cache.entries
      BY <2>1, <3>1 DEF Current
    <3>3. Complete(cache.entries, p)
      BY <1>2, <3>2 DEF DevInv, MapInv
    <3>4. PICK d \in cache.entries : d.page = p /\ d.mtime = mtime[p] /\ Stands(d, r)
      BY <3>3 DEF Complete
    <3>5. d \in kept
      BY <1>2, <3>1, <3>4 DEF Current
    <3> QED
      BY <3>4, <3>5
  <2>2. CASE e \in Elems(new)
    <3>1. MadeOf(new, pages, pref) /\ pages \in SUBSET Existing /\ pref \in Methods
      <4>1. new # <<>>
        BY <2>2 DEF Elems
      <4> QED
        BY <4>1 DEF Started
    <3>2. PICK s \in Those(pages) : e = Entry(s, pref, FilesNow)
      BY <2>2, <3>1 DEF MadeOf
    <3>3. s \in Routes /\ s.page \in pages \cup {"app"}
      BY <1>3, <3>1, ThoseAre
    <3>4. s.page = p
      BY <3>1, <3>2, <3>3, FilesNowIs, EntryIs
    <3>5. p \in pages
      BY <1>3, <3>3, <3>4
    <3>6. r \in Those(pages)
      BY <3>5 DEF Those
    <3>7. Entry(r, pref, FilesNow) \in Elems(new)
      BY <3>1, <3>6 DEF MadeOf
    <3>8. r \in Routes /\ r.page = p
      <4>1. RoutesOf(p) \in Seq(Routes) /\ \A i \in DOMAIN RoutesOf(p) : RoutesOf(p)[i].page = p
        BY <1>2, <1>3, RoutesOfIs
      <4> QED
        BY <4>1 DEF Elems
    <3>9. Entry(r, pref, FilesNow).page = p /\ Stands(Entry(r, pref, FilesNow), r)
      BY <3>1, <3>8, FilesNowIs, EntryIs
    <3> QED
      BY <3>7, <3>9
  <2> QED
    BY <1>1, <2>1, <2>2
<1> QED
  BY <1>2, <1>4, MergedStands

\* A process that just started knows all its pages.
LEMMA PageStart ==
    ASSUME TypeOK, DevInv, ~HasMount(Existing), NEW kept, NEW pages, NEW new, NEW pref,
           Started(kept, pages, new, pref), fs' = fs, mtime' = mtime,
           NEW p \in Existing
    PROVE  PageInv(p)'
<1>1. FilesOK /\ Existing \subseteq PageSet /\ "app" \notin PageSet
  BY FilesNowIs, RoutesAssumption
<1>2. Existing' = Existing /\ RoutesOf(p)' = RoutesOf(p)
  BY SameFiles
<1>3. \A r \in Elems(RoutesOf(p)) : r.kind = "api"
  BY DEF HasMount, Elems
<1>4. /\ Elems(routes') = Those(pages) /\ imported' = pages /\ pages \in SUBSET Existing
      /\ fake' = kept \cup Elems(new)
  BY StartedTypes DEF Started
<1>5. \A x : Like(x, x)
  BY DEF Like
<1>6. ASSUME NEW x \in Elems(routes'), x.page = p
      PROVE  \E r \in Elems(RoutesOf(p)) : Like(x, r)
  <2>1. x \in Elems(RoutesOf(p))
    BY <1>1, <1>4, <1>6, ThoseAre
  <2> QED
    BY <1>5, <2>1
<1>7. ASSUME p \in imported', NEW r \in Elems(RoutesOf(p))
      PROVE  \E x \in Elems(routes') : Like(x, r)
  <2>1. r \in Those(pages)
    BY <1>4, <1>7 DEF Those
  <2> QED
    BY <1>4, <1>5, <2>1
<1>8. ASSUME Distinct, p \notin imported'
      PROVE  p \in cache'.exclude \/ Complete(fake', p)
  <2>1. /\ kept = {e \in Current : e.page \in Existing \cup {"app"}}
        /\ cache'.exclude = cache.exclude
        /\ p \in cache.exclude \/ \E e \in kept : e.page = p
    BY <1>4, <1>8 DEF Started
  <2>2. ASSUME NEW e \in kept, e.page = p
        PROVE  Complete(fake', p)
    <3>1. e \in cache.entries /\ e.mtime = mtime[p]
      BY <2>1, <2>2 DEF Current
    <3>2. Complete(cache.entries, p)
      BY <1>1, <1>8, <2>2, <3>1 DEF DevInv, MapInv
    <3>3. ASSUME NEW r \in Elems(RoutesOf(p))
          PROVE  \E d \in fake' : d.page = p /\ d.mtime = mtime[p] /\ Stands(d, r)
      <4>1. PICK d \in cache.entries : d.page = p /\ d.mtime = mtime[p] /\ Stands(d, r)
        BY <3>2 DEF Complete
      <4>2. d \in kept
        BY <2>1, <4>1 DEF Current
      <4> QED
        BY <1>4, <4>1, <4>2
    <3> QED
      BY <3>3 DEF Complete
  <2> QED
    BY <2>1, <2>2
<1>9. Distinct' <=> Distinct
  BY DEF Distinct, EverDeclared, DeclaredBy, BuiltinRoutes, EntryMethods
<1>10. Complete(fake', p) => Complete(fake, p)'
  BY <1>2 DEF Complete
<1> QED
  BY <1>2, <1>3, <1>6, <1>7, <1>8, <1>9, <1>10 DEF PageInv

LEMMA SameDistinct == Distinct' <=> Distinct
BY DEF Distinct, EverDeclared, DeclaredBy, BuiltinRoutes, EntryMethods

LEMMA DevStart ==
    ASSUME TypeOK, DevInv, Start
    PROVE  DevInv'
<1>1. files' = FilesNow /\ dev' = dev /\ fs' = fs /\ mtime' = mtime /\ clock' = clock
  BY StartIs
<1>2. /\ Existing' = Existing /\ \A p : RoutesOf(p)' = RoutesOf(p)
      /\ \A e : Sound(e)' <=> Sound(e)
      /\ \A entries, p : Complete(entries, p)' <=> Complete(entries, p)
  BY <1>1, SameFiles
<1>3. /\ DOMAIN files' = Existing /\ Existing \subseteq PageSet /\ FilesOK
      /\ \A p \in Existing : files'[p] = mtime[p]
  BY <1>1, FilesNowIs
<1>4. (\A p \in PageSet : mtime'[p] <= clock') /\ (\A p \in DOMAIN files' : files'[p] <= clock')
  BY <1>1, <1>3 DEF DevInv, TimeInv
<1>5. ASSUME UNCHANGED <<fake, cache>>, ~(dev' /\ up' = "up")
      PROVE  DevInv'
  <2>1. TimeInv'
    BY <1>1, <1>4, <1>5 DEF DevInv, TimeInv
  <2>2. EntryInv'
    BY <1>2, <1>5 DEF DevInv, EntryInv
  <2>3. MapInv'
    <3>1. ASSUME Distinct, NEW p \in PageSet, NEW e \in cache'.entries,
                 e.page = p, e.mtime = mtime'[p]
          PROVE  Complete(cache.entries, p)'
      <4>1. Complete(cache.entries, p)
        BY <1>1, <1>5, <3>1 DEF DevInv, MapInv
      <4> QED
        BY <1>1, <1>2, <1>5, <4>1 DEF Complete
    <3> QED
      BY <3>1, SameDistinct DEF MapInv
  <2>4. RunInv'
    BY <1>5 DEF RunInv
  <2> QED
    BY <2>1, <2>2, <2>3, <2>4 DEF DevInv
<1>6. CASE /\ up' = "up" /\ dev /\ ~HasMount(Existing)
           /\ \E kept, pages, new, pref : Started(kept, pages, new, pref)
  <2>1. PICK kept, pages, new, pref : Started(kept, pages, new, pref)
    BY <1>6
  <2>2. /\ fake' = kept \cup Elems(new) /\ cache'.entries = Merge(kept, new)
        /\ imported' = pages /\ pages \in SUBSET Existing
    BY <2>1 DEF Started
  <2>3. Merge(kept, new) \subseteq kept \cup Elems(new)
    BY <2>1, StartedTypes, MergeIs
  <2>4. \A e \in fake' \cup cache'.entries : e.mtime <= clock' /\ Sound(e)
    BY <1>1, <2>1, <2>2, <2>3, GatheredAre
  <2>5. TimeInv'
    BY <1>4, <2>4 DEF TimeInv
  <2>6. EntryInv'
    BY <1>2, <2>4 DEF EntryInv
  <2>7. MapInv'
    <3>1. ASSUME Distinct, NEW p \in PageSet, NEW e \in cache'.entries, e.page = p
          PROVE  Complete(cache.entries, p)'
      <4>1. Complete(Merge(kept, new), p)
        BY <2>1, <2>2, <3>1, MapStart
      <4>2. \A r \in Elems(RoutesOf(p)) :
               \E d \in cache'.entries : d.page = p /\ d.mtime = mtime[p] /\ Stands(d, r)
        BY <2>2, <4>1 DEF Complete
      <4> QED
        BY <1>1, <1>2, <4>2 DEF Complete
    <3> QED
      BY <3>1, SameDistinct DEF MapInv
  <2>8. RunInv'
    <3>1. imported' \subseteq DOMAIN files'
      BY <1>3, <2>2
    <3>2. \A e \in fake' : e.page \in PageSet =>
             e.page \in DOMAIN files' /\ e.mtime = files'[e.page]
      BY <1>3, <2>1, <2>2, GatheredAre
    <3>3. \A p \in DOMAIN files' : PageInv(p)'
      BY <1>1, <1>3, <1>6, <2>1, PageStart
    <3>4. AppInv'
      <4>1. Elems(routes') = Those(pages)
        BY <2>1, StartedTypes
      <4>2. \A x \in Elems(routes') : x.page = "app" => x \in Elems(BuiltinRoutes)
        BY <1>3, <2>2, <4>1, ThoseAre, RoutesAssumption
      <4>3. Elems(BuiltinRoutes) \subseteq Elems(routes')
        BY <4>1 DEF Those
      <4>4. \A x : Like(x, x)
        BY DEF Like
      <4> QED
        BY <4>2, <4>3, <4>4 DEF AppInv, BuiltinRoutes
    <3> QED
      BY <3>1, <3>2, <3>3, <3>4 DEF RunInv
  <2> QED
    BY <2>5, <2>6, <2>7, <2>8 DEF DevInv
<1> QED
  BY <1>1, <1>5, <1>6, StartIs

LEMMA DevStop ==
    ASSUME TypeOK, DevInv, Stop
    PROVE  DevInv'
<1>1. /\ up' = "down" /\ fake' = {} /\ files' = <<>> /\ fs' = fs /\ mtime' = mtime
      /\ clock' = clock /\ cache' = cache
  BY DEF Stop, fsVars
<1>2. /\ \A e : Sound(e)' <=> Sound(e)
      /\ \A p : RoutesOf(p)' = RoutesOf(p)
  BY <1>1, SameFiles
<1>3. TimeInv'
  <2>1. DOMAIN files' = {}
    BY <1>1
  <2> QED
    BY <1>1, <2>1 DEF DevInv, TimeInv
<1>4. EntryInv'
  BY <1>1, <1>2 DEF DevInv, EntryInv
<1>5. MapInv'
  BY <1>1, <1>2, SameDistinct DEF DevInv, MapInv, Complete
<1>6. RunInv'
  BY <1>1 DEF RunInv
<1> QED
  BY <1>3, <1>4, <1>5, <1>6 DEF DevInv

\* What is known of a page that is edited is as old as it was, and no longer
\* claims anything.
LEMMA DevEdit ==
    ASSUME TypeOK, DevInv, NEW p \in PageSet, Edit(p)
    PROVE  DevInv'
<1>1. /\ clock' = clock + 1 /\ clock \in Nat
      /\ mtime' = [mtime EXCEPT ![p] = clock + 1]
      /\ mtime \in [PageSet -> Nat]
      /\ \A q \in PageSet : q # p => fs'[q] = fs[q]
      /\ UNCHANGED <<dev, routes, up, files, imported, fake, cache>>
  BY RoutesAssumption DEF Edit, TypeOK, procVars
<1>2. mtime'[p] = clock + 1 /\ \A q \in PageSet : q # p => mtime'[q] = mtime[q]
  BY <1>1
<1>3. \A e \in fake \cup cache.entries : e.mtime \in Nat /\ e.mtime <= clock
  BY RoutesAssumption DEF TypeOK, Entries, DevInv, TimeInv
<1>4. \A q \in DOMAIN files : files[q] \in Nat /\ files[q] <= clock /\ q \in PageSet
  <2>1. PICK S \in SUBSET PageSet : files \in [S -> 0..MaxEdits]
    BY DEF TypeOK
  <2> QED
    BY <2>1, RoutesAssumption DEF DevInv, TimeInv
<1>5. \A q \in PageSet : q # p => RoutesOf(q)' = RoutesOf(q) /\ (q \in Existing' <=> q \in Existing)
  BY <1>1 DEF RoutesOf, Existing
<1>6. TimeInv'
  <2>1. \A q \in PageSet : mtime'[q] <= clock'
    <3>1. \A q \in PageSet : mtime[q] <= clock
      BY DEF DevInv, TimeInv
    <3> QED
      BY <1>1, <1>2, <3>1
  <2> QED
    BY <1>1, <1>3, <1>4, <2>1 DEF TimeInv
<1>7. EntryInv'
  <2>1. ASSUME NEW e \in fake \cup cache.entries
        PROVE  Sound(e)'
    <3>1. Sound(e)
      BY DEF DevInv, EntryInv
    <3>2. e.page = p => e.mtime # mtime'[p]
      BY <1>1, <1>2, <1>3
    <3>3. e.page \in PageSet /\ e.mtime = mtime'[e.page] =>
             e.page \in Existing' /\ \E r \in Elems(RoutesOf(e.page)') : Stands(e, r)
      BY <1>2, <1>5, <3>1, <3>2 DEF Sound
    <3>4. e.page = "app" => \E r \in Elems(BuiltinRoutes) : Stands(e, r)
      BY <3>1 DEF Sound
    <3> QED
      BY <3>3, <3>4 DEF Sound, BuiltinRoutes
  <2> QED
    BY <1>1, <2>1 DEF EntryInv
<1>8. MapInv'
  <2>1. ASSUME Distinct, NEW q \in PageSet, NEW e \in cache.entries, e.page = q, e.mtime = mtime'[q]
        PROVE  Complete(cache.entries, q)'
    <3>1. q # p
      BY <1>1, <1>2, <1>3, <2>1
    <3>2. Complete(cache.entries, q)
      BY <1>2, <2>1, <3>1 DEF DevInv, MapInv
    <3> QED
      BY <1>1, <1>2, <1>5, <3>1, <3>2 DEF Complete
  <2> QED
    BY <1>1, <2>1, SameDistinct DEF MapInv
<1>9. RunInv'
  <2> SUFFICES ASSUME dev, up = "up" PROVE RunInv'
    BY <1>1 DEF RunInv
  <2>1. /\ imported \subseteq DOMAIN files
        /\ \A e \in fake : e.page \in PageSet =>
              e.page \in DOMAIN files /\ e.mtime = files[e.page]
        /\ \A q \in DOMAIN files : files[q] = mtime[q] => PageInv(q)
        /\ AppInv
    BY DEF DevInv, RunInv
  <2>2. ASSUME NEW q \in DOMAIN files, files[q] = mtime'[q]
        PROVE  PageInv(q)'
    <3>1. q # p /\ q \in PageSet
      BY <1>1, <1>2, <1>4, <2>2
    <3>2. PageInv(q)
      BY <1>2, <2>1, <2>2, <3>1
    <3>3. RoutesOf(q)' = RoutesOf(q) /\ (q \in Existing' <=> q \in Existing) /\ mtime'[q] = mtime[q]
      BY <1>2, <1>5, <3>1
    <3>4. Complete(fake, q) => Complete(fake, q)'
      BY <1>1, <3>3 DEF Complete
    <3> QED
      BY <1>1, <3>2, <3>3, <3>4, SameDistinct DEF PageInv
  <2>3. AppInv'
    BY <1>1, <2>1 DEF AppInv, BuiltinRoutes
  <2> QED
    BY <1>1, <2>1, <2>2, <2>3 DEF RunInv
<1> QED
  BY <1>6, <1>7, <1>8, <1>9 DEF DevInv

\* A request leaves the map as it is: what it imports is known from then on.
LEMMA DevRequest ==
    ASSUME TypeOK, DevInv, NEW path \in Paths, NEW method \in Methods, Request(path, method)
    PROVE  DevInv'
<1>1. PICK page \in Targets(path, method) :
         /\ up = "up" /\ up' = up /\ dev' = dev /\ fs' = fs /\ mtime' = mtime
         /\ clock' = clock /\ files' = files /\ fake' = fake /\ cache' = cache
         /\ Needed(page) \subseteq Existing
         /\ imported' = imported \cup Needed(page)
         /\ routes' \in Seq(Routes)
         /\ DOMAIN routes' = DOMAIN OnDemand(page)
         /\ \A i \in DOMAIN routes' : Like(routes'[i], OnDemand(page)[i])
  BY RequestIs
<1> DEFINE list == OnDemand(page)
<1>2. Elems(list) = Elems(routes) \cup UNION {Elems(RoutesOf(p)) : p \in Needed(page)}
  BY <1>1, OnDemandIs
<1>3. /\ \A x \in Elems(routes') : \E y \in Elems(list) : Like(x, y)
      /\ \A y \in Elems(list) : \E x \in Elems(routes') : Like(x, y)
  <2> HIDE DEF list
  <2>1. DOMAIN routes' = DOMAIN list /\ \A i \in DOMAIN routes' : Like(routes'[i], list[i])
    BY <1>1 DEF list
  <2> QED
    BY <2>1 DEF Elems
<1> HIDE DEF list
<1>4. /\ Existing' = Existing /\ \A p : RoutesOf(p)' = RoutesOf(p)
      /\ \A e : Sound(e)' <=> Sound(e)
  BY <1>1, SameFiles
<1>5. TimeInv' /\ EntryInv'
  BY <1>1, <1>4 DEF DevInv, TimeInv, EntryInv
<1>6. MapInv'
  BY <1>1, <1>4, SameDistinct DEF DevInv, MapInv, Complete
<1>7. \A x, y, r : Like(x, y) /\ Like(y, r) => Like(x, r)
  BY DEF Like
<1>8. FilesOK /\ Existing \subseteq PageSet /\ "app" \notin PageSet
  BY FilesNowIs, RoutesAssumption
<1>9. ASSUME NEW p \in Needed(page), NEW r \in Elems(RoutesOf(p))
      PROVE  r.page = p /\ r \in Elems(list) /\ Like(r, r)
  <2>1. \A i \in DOMAIN RoutesOf(p) : RoutesOf(p)[i].page = p
    BY <1>1, <1>8, RoutesOfIs
  <2>2. r.page = p
    BY <2>1 DEF Elems
  <2> QED
    BY <1>2, <2>2 DEF Like
<1>10. RunInv'
  <2> SUFFICES ASSUME dev PROVE RunInv'
    BY <1>1 DEF RunInv
  <2>1. /\ imported \subseteq DOMAIN files
        /\ \A e \in fake : e.page \in PageSet =>
              e.page \in DOMAIN files /\ e.mtime = files[e.page]
        /\ \A p \in DOMAIN files : files[p] = mtime[p] => PageInv(p)
        /\ AppInv
    BY <1>1 DEF DevInv, RunInv
  <2>2. imported' \subseteq DOMAIN files'
    <3>1. page \in PageSet => page \in DOMAIN files
      BY <1>8, <2>1, TargetsAre
    <3>2. Needed(page) \subseteq DOMAIN files
      BY <1>1, <1>8, <3>1 DEF Needed
    <3> QED
      BY <1>1, <2>1, <3>2
  <2>3. ASSUME NEW p \in DOMAIN files, files[p] = mtime[p]
        PROVE  PageInv(p)'
    <3>1. PageInv(p)
      BY <2>1, <2>3
    <3>2. ASSUME NEW x \in Elems(routes'), x.page = p
          PROVE  \E r \in Elems(RoutesOf(p)) : Like(x, r)
      <4>1. PICK y \in Elems(list) : Like(x, y)
        BY <1>3
      <4>2. y.page = p
        BY <3>2, <4>1 DEF Like
      <4>3. CASE y \in Elems(routes)
        BY <1>7, <3>1, <4>1, <4>2, <4>3 DEF PageInv
      <4>4. ASSUME NEW q \in Needed(page), y \in Elems(RoutesOf(q))
            PROVE  \E r \in Elems(RoutesOf(p)) : Like(x, r)
        <5>1. q = p
          BY <1>9, <4>2, <4>4
        <5> QED
          BY <4>1, <4>4, <5>1
      <4> QED
        BY <1>2, <4>3, <4>4
    <3>3. ASSUME p \in imported', NEW r \in Elems(RoutesOf(p))
          PROVE  \E x \in Elems(routes') : Like(x, r)
      <4>1. CASE p \in imported
        <5>1. PICK y \in Elems(routes) : Like(y, r)
          BY <3>1, <3>3, <4>1 DEF PageInv
        <5>2. y \in Elems(list)
          BY <1>2
        <5> QED
          BY <1>3, <1>7, <5>1, <5>2
      <4>2. CASE p \in Needed(page)
        BY <1>3, <1>9, <3>3, <4>2
      <4> QED
        BY <1>1, <3>3, <4>1, <4>2
    <3>4. p \notin imported' => p \notin imported
      BY <1>1
    <3>5. Complete(fake, p) => Complete(fake, p)'
      BY <1>1, <1>4 DEF Complete
    <3> QED
      BY <1>1, <1>4, <3>1, <3>2, <3>3, <3>4, <3>5, SameDistinct DEF PageInv
  <2>4. AppInv'
    <3>1. ASSUME NEW x \in Elems(routes'), x.page = "app"
          PROVE  \E r \in Elems(BuiltinRoutes) : Like(x, r)
      <4>1. PICK y \in Elems(list) : Like(x, y)
        BY <1>3
      <4>2. y.page = "app"
        BY <3>1, <4>1 DEF Like
      <4>3. y \in Elems(routes)
        BY <1>1, <1>2, <1>8, <1>9, <4>2
      <4> QED
        BY <1>7, <2>1, <4>1, <4>2, <4>3 DEF AppInv
    <3>2. ASSUME NEW r \in Elems(BuiltinRoutes)
          PROVE  \E x \in Elems(routes') : Like(x, r)
      <4>1. PICK y \in Elems(routes) : Like(y, r)
        BY <2>1 DEF AppInv
      <4>2. y \in Elems(list)
        BY <1>2
      <4> QED
        BY <1>3, <1>7, <4>1, <4>2
    <3> QED
      BY <3>1, <3>2 DEF AppInv, BuiltinRoutes
  <2> QED
    BY <1>1, <2>1, <2>2, <2>3, <2>4 DEF RunInv
<1> QED
  BY <1>5, <1>6, <1>10 DEF DevInv

LEMMA DevStep == TypeOK /\ DevInv /\ [Next]_vars => DevInv'
<1> SUFFICES ASSUME TypeOK, DevInv, [Next]_vars PROVE DevInv'
  OBVIOUS
<1>1. CASE UNCHANGED vars
  <2>1. UNCHANGED <<dev, fs, mtime, clock, routes, up, files, imported, fake, cache>>
    BY <1>1 DEF vars, fsVars, procVars
  <2>2. /\ Existing' = Existing /\ \A p : RoutesOf(p)' = RoutesOf(p)
        /\ \A e : Sound(e)' <=> Sound(e)
    BY <2>1, SameFiles
  <2>3. TimeInv' /\ EntryInv'
    BY <2>1, <2>2 DEF DevInv, TimeInv, EntryInv
  <2>4. MapInv'
    BY <2>1, <2>2, SameDistinct DEF DevInv, MapInv, Complete
  <2>5. AppInv' <=> AppInv
    BY <2>1 DEF AppInv, BuiltinRoutes
  <2>6. \A p : PageInv(p) => PageInv(p)'
    BY <2>1, <2>2, SameDistinct DEF PageInv, Complete
  <2>7. RunInv'
    BY <2>1, <2>5, <2>6 DEF DevInv, RunInv
  <2> QED
    BY <2>3, <2>4, <2>7 DEF DevInv
<1>2. ASSUME NEW path \in Paths, NEW method \in Methods, RequestFails(path, method)
      PROVE  DevInv'
  BY <1>1, <1>2 DEF RequestFails
<1> QED
  BY <1>1, <1>2, DevStart, DevStop, DevEdit, DevRequest DEF Next

\* The route a search chooses is one that no other match precedes.
LEMMA ChosenIs ==
    ASSUME NEW list \in Seq(Routes), InKeyOrder(list), NEW path, NEW m, m # "HEAD"
    PROVE  LET c == Choice(list, path, m)
               p == Strip(path)
           IN /\ (\E r \in Elems(list) : Hit(r, p, m)) => c.place # 0
              /\ c.place # 0 =>
                    /\ list[c.place] \in Elems(list) /\ Hit(list[c.place], p, m)
                    /\ \A r \in Elems(list) : Hit(r, p, m) =>
                          ~KeyLess(KeyOf(r), KeyOf(list[c.place]))
<1> DEFINE c == Choice(list, path, m)
           p == Strip(path)
<1>1. \/ /\ c.place = 0
         /\ \A i \in DOMAIN list : ~Hit(list[i], p, m)
      \/ /\ c.place \in DOMAIN list /\ c.place # 0
         /\ Hit(list[c.place], p, m)
         /\ \A i \in DOMAIN list : Hit(list[i], p, m) => c.place <= i
  BY ChoiceIs
<1> HIDE DEF c, p
<1>2. (\E r \in Elems(list) : Hit(r, p, m)) => c.place # 0
  BY <1>1 DEF Elems
<1>3. ASSUME c.place # 0, NEW i \in DOMAIN list, Hit(list[i], p, m)
      PROVE  ~KeyLess(KeyOf(list[i]), KeyOf(list[c.place]))
  <2>1. c.place \in DOMAIN list /\ c.place <= i
    BY <1>1, <1>3
  <2>2. CASE c.place = i
    <3>1. list[i] \in Routes
      OBVIOUS
    <3>2. list[i].path \in Seq(STRING)
      BY <3>1 DEF Routes
    <3>3. KeyOf(list[i]) \in Keys
      BY <3>2, SortKeyIs DEF KeyOf
    <3> QED
      BY <2>2, <3>3, KeysOrdered
  <2>3. CASE c.place # i
    <3>1. DOMAIN list = 1..Len(list) /\ Len(list) \in Nat
      OBVIOUS
    <3>2. c.place < i
      BY <2>1, <2>3, <3>1
    <3> QED
      BY <2>1, <3>2 DEF InKeyOrder
  <2> QED
    BY <2>2, <2>3
<1>4. c.place # 0 => /\ list[c.place] \in Elems(list) /\ Hit(list[c.place], p, m)
                     /\ \A r \in Elems(list) : Hit(r, p, m) =>
                           ~KeyLess(KeyOf(r), KeyOf(list[c.place]))
  BY <1>1, <1>3 DEF Elems
<1> QED
  BY <1>2, <1>4 DEF c, p

\* Two routes of which neither precedes the other are of one page, unless pages
\* declare the same ones.
LEMMA SamePage ==
    ASSUME Distinct, NEW r \in Routes, NEW s \in Routes, r \in EverDeclared, s \in EverDeclared,
           r.kind = "api", s.kind = "api", NEW p \in Seq(STRING), NEW m,
           Hit(r, p, m), Hit(s, p, m),
           ~KeyLess(KeyOf(r), KeyOf(s)), ~KeyLess(KeyOf(s), KeyOf(r))
    PROVE  r.page = s.page
<1>1. r.path \in Seq(STRING) /\ s.path \in Seq(STRING)
  BY DEF Routes
<1>2. Matches(r, p) /\ Matches(s, p) /\ m \in r.methods /\ m \in s.methods
  BY DEF Hit
<1>3. r.path = s.path
  BY <1>1, <1>2, SameKeySamePath
<1>4. m \in EntryMethods(r) \cap EntryMethods(s)
  BY <1>2 DEF EntryMethods
<1> QED
  BY <1>3, <1>4 DEF Distinct

\* In a process whose pages were not edited, with routes of one method.
Quiet ==
    /\ up = "up" /\ dev /\ Settled /\ Distinct
    /\ \A i \in DOMAIN FullList : \E x \in Methods : FullList[i].methods = {x}

LEMMA FullListIs ==
    ASSUME TypeOK, DevInv, Quiet
    PROVE  /\ FullList \in Seq(Routes) /\ InKeyOrder(FullList)
           /\ Elems(FullList) = Those(Existing)
           /\ \A r \in Those(Existing) :
                 /\ r \in Routes /\ r \in EverDeclared /\ r.kind = "api"
                 /\ \E x : r.methods = {x} /\ EntryMethods(r) = {x}
           /\ DOMAIN files = Existing /\ \A p \in Existing : PageInv(p)
<1>1. FilesOK /\ Existing \subseteq PageSet
  BY FilesNowIs
<1>2. FullList \in Seq(Routes) /\ InKeyOrder(FullList) /\ Elems(FullList) = Those(Existing)
  BY <1>1, ListIs DEF FullList
<1>3. DOMAIN files = Existing /\ \A p \in Existing : files[p] = mtime[p]
  BY FilesNowIs DEF Quiet, Settled
<1>4. \A p \in Existing : PageInv(p)
  BY <1>3 DEF DevInv, RunInv, Quiet
<1>5. ASSUME NEW r \in Those(Existing)
      PROVE  /\ r \in Routes /\ r \in EverDeclared /\ r.kind = "api"
             /\ \E x : r.methods = {x} /\ EntryMethods(r) = {x}
  <2>1. /\ r \in Routes
        /\ \/ r.page = "app" /\ r \in Elems(BuiltinRoutes)
           \/ r.page \in Existing /\ r \in Elems(RoutesOf(r.page))
    BY <1>1, ThoseAre
  <2>2. r \in EverDeclared
    BY <1>1, EverDeclaredAre
  <2>3. \A s \in Elems(BuiltinRoutes) : s.kind = "api"
    <3>1. DOMAIN BuiltinRoutes = DOMAIN Builtin
      BY RoutesAssumption, DeclaredIs DEF BuiltinRoutes
    <3>2. \A i \in DOMAIN Builtin : BuiltinRoutes[i].kind = "api"
      BY RoutesAssumption DEF BuiltinRoutes, Declared
    <3> QED
      BY <3>1, <3>2 DEF Elems
  <2>4. r.kind = "api"
    BY <1>4, <2>1, <2>3 DEF PageInv
  <2>5. PICK i \in DOMAIN FullList : r = FullList[i]
    BY <1>2 DEF Elems
  <2>6. PICK x \in Methods : r.methods = {x}
    BY <2>5 DEF Quiet
  <2>7. EntryMethods(r) = {x}
    BY <2>6 DEF EntryMethods
  <2> QED
    BY <2>1, <2>2, <2>4, <2>6, <2>7
<1> QED
  BY <1>2, <1>3, <1>4, <1>5

\* A fake route that matches was made of a route that matches.
LEMMA FakeStands ==
    ASSUME TypeOK, DevInv, Quiet, NEW p \in Seq(STRING), NEW d \in fake,
           Matches([kind |-> "api", path |-> d.path], p)
    PROVE  \E r \in Those(Existing) :
              /\ r.page = d.page /\ r.path = d.path /\ Hit(r, p, d.method)
              /\ KeyOf(r) = get_route_sort_key([kind |-> "api", path |-> d.path])
<1> DEFINE q == [kind |-> "api", path |-> d.path]
<1>1. d \in Entries /\ Sound(d)
  BY DEF TypeOK, DevInv, EntryInv
<1>2. d.page \in PageSet \cup {"app"}
  BY <1>1 DEF Entries
<1>3. d.page \in PageSet => d.page \in Existing /\ d.mtime = mtime[d.page]
  <2>1. d.page \in PageSet => d.page \in DOMAIN files /\ d.mtime = files[d.page]
    BY DEF DevInv, RunInv, Quiet
  <2>2. files = FilesNow
    BY DEF Quiet, Settled
  <2> QED
    BY <2>1, <2>2, FilesNowIs
<1>4. FilesOK
  BY FilesNowIs
<1>5. PICK r \in Those(Existing) : r.page = d.page /\ Stands(d, r)
  <2>1. CASE d.page \in PageSet
    <3>1. PICK r \in Elems(RoutesOf(d.page)) : Stands(d, r)
      BY <1>1, <1>3, <2>1 DEF Sound
    <3>2. r.page = d.page
      <4>1. \A i \in DOMAIN RoutesOf(d.page) : RoutesOf(d.page)[i].page = d.page
        BY <1>3, <1>4, <2>1, RoutesOfIs
      <4> QED
        BY <4>1 DEF Elems
    <3>3. r \in Those(Existing)
      BY <1>3, <2>1 DEF Those
    <3> QED
      BY <3>1, <3>2, <3>3
  <2>2. CASE d.page = "app"
    <3>1. PICK r \in Elems(BuiltinRoutes) : Stands(d, r)
      BY <1>1, <2>2 DEF Sound
    <3>2. r.page = "app"
      BY BuiltinIs DEF Elems
    <3> QED
      BY <2>2, <3>1, <3>2 DEF Those
  <2> QED
    BY <1>2, <2>1, <2>2
<1>6. r.kind = "api" /\ r.methods = EntryMethods(r)
  BY FullListIs
<1>7. r.kind = q.kind /\ r.path = q.path /\ r.path = d.path /\ d.method \in r.methods
  BY <1>5, <1>6 DEF Stands
<1>8. Matches(q, p)
  OBVIOUS
<1> HIDE DEF q
<1>9. KeyOf(r) = KeyOf(q) /\ Matches(r, p)
  BY <1>7, <1>8, KindAndPath
<1> QED
  BY <1>5, <1>7, <1>9 DEF Hit, KeyOf, q

\* The route that would answer if all pages were imported is in the list.
LEMMA ImportedOnDemand ==
    ASSUME TypeOK, DevInv, Quiet, NEW path \in Paths, NEW m,
           NEW page \in Targets(path, m), Needed(page) \subseteq Existing,
           NEW f \in Those(Existing), Hit(f, Strip(path), m),
           \A r \in Those(Existing) : Hit(r, Strip(path), m) => ~KeyLess(KeyOf(r), KeyOf(f))
    PROVE  \E x \in Elems(OnDemand(page)) : Like(x, f)
<1> DEFINE p == Strip(path)
<1>1. p \in Seq(STRING)
  BY RoutesAssumption, StripIs
<1> HIDE DEF p
<1>2. /\ f \in Routes /\ f \in EverDeclared /\ f.kind = "api"
      /\ f.methods = EntryMethods(f)
      /\ \A x, y \in f.methods : x = y
  BY FullListIs
<1>3. FilesOK /\ Existing \subseteq PageSet /\ "app" \notin PageSet
  BY FilesNowIs, RoutesAssumption
<1>4. Elems(OnDemand(page)) = Elems(routes) \cup UNION {Elems(RoutesOf(q)) : q \in Needed(page)}
  BY OnDemandIs
<1>5. CASE f \in Elems(BuiltinRoutes)
  BY <1>4, <1>5 DEF DevInv, RunInv, AppInv, Quiet
<1>6. ASSUME f.page \in Existing, f \in Elems(RoutesOf(f.page)), f.page \in imported
      PROVE  \E x \in Elems(OnDemand(page)) : Like(x, f)
  <2>1. PageInv(f.page)
    BY <1>6, FullListIs
  <2> QED
    BY <1>4, <1>6, <2>1 DEF PageInv
<1>7. ASSUME f.page \in Existing, f \in Elems(RoutesOf(f.page)), f.page \notin imported
      PROVE  \E x \in Elems(OnDemand(page)) : Like(x, f)
  <2>1. PageInv(f.page)
    BY <1>7, FullListIs
  <2>2. f.page \notin cache.exclude
    <3>1. RoutesOf(f.page) # <<>>
      BY <1>7 DEF Elems
    <3> QED
      BY <1>7, <3>1 DEF Quiet, Settled
  <2>3. Complete(fake, f.page)
    BY <1>7, <2>1, <2>2 DEF PageInv, Quiet
  <2>4. PICK e \in fake : e.page = f.page /\ Stands(e, f)
    BY <1>7, <2>3 DEF Complete
  <2>5. e.path = f.path /\ e.method = m
    <3>1. m \in f.methods
      BY <1>2 DEF Hit
    <3> QED
      BY <1>2, <2>4, <3>1 DEF Stands
  <2> DEFINE key(d) == get_route_sort_key([kind |-> "api", path |-> d.path])
             hits == {d \in fake : d.method = m /\ Matches([kind |-> "api", path |-> d.path], p)}
             best == {h \in hits : \A d \in hits : ~KeyLess(key(d), key(h))}
  <2>6. FakeHit(path, m) = {d.page : d \in best}
    BY DEF FakeHit, p
  <2>7. key(e) = KeyOf(f) /\ e \in hits
    <3> DEFINE q == [kind |-> "api", path |-> e.path]
    <3>1. f.kind = q.kind /\ f.path = q.path
      BY <1>2, <2>5
    <3>2. Matches(f, p)
      BY DEF Hit, p
    <3> HIDE DEF q
    <3>3. KeyOf(q) = KeyOf(f) /\ Matches(q, p)
      BY <3>1, <3>2, KindAndPath
    <3> QED
      BY <2>5, <3>3 DEF q, KeyOf
  <2>8. ASSUME NEW d \in hits
        PROVE  \E r \in Those(Existing) : r.page = d.page /\ Hit(r, p, m) /\ KeyOf(r) = key(d)
    BY <1>1, FakeStands
  <2>9. \A d \in hits : ~KeyLess(key(d), key(e))
    BY <2>7, <2>8 DEF p
  <2>10. e \in best
    BY <2>7, <2>9
  <2> HIDE DEF key, hits
  <2>11. ASSUME NEW d \in best
         PROVE  d.page = f.page
    <3>1. d \in hits /\ ~KeyLess(key(e), key(d))
      BY <2>7, <2>11
    <3>2. PICK r \in Those(Existing) : r.page = d.page /\ Hit(r, p, m) /\ KeyOf(r) = key(d)
      BY <2>8, <3>1
    <3>3. r \in Routes /\ r \in EverDeclared /\ r.kind = "api"
      BY FullListIs
    <3>4. ~KeyLess(KeyOf(r), KeyOf(f)) /\ ~KeyLess(KeyOf(f), KeyOf(r))
      BY <2>7, <3>1, <3>2 DEF p
    <3>5. r.page = f.page
      BY <1>1, <1>2, <3>2, <3>3, <3>4, SamePage DEF Quiet, p
    <3> QED
      BY <3>2, <3>5
  <2> HIDE DEF best
  <2>12. page = f.page
    <3>1. FakeHit(path, m) # {} /\ \A x \in FakeHit(path, m) : x = f.page
      BY <2>6, <2>10, <2>11
    <3> QED
      BY <3>1 DEF Targets, Quiet
  <2>13. f.page \in Needed(page)
    BY <1>3, <1>7, <2>12 DEF Needed
  <2>14. f \in Elems(OnDemand(page)) /\ Like(f, f)
    BY <1>4, <1>7, <2>13 DEF Like
  <2> QED
    BY <2>14
<1>8. f \in Elems(BuiltinRoutes) \/ (f.page \in Existing /\ f \in Elems(RoutesOf(f.page)))
  BY <1>3, ThoseAre
<1> QED
  BY <1>5, <1>6, <1>7, <1>8

LEMMA DevAgrees == TypeOK /\ DevInv => OnDemandAgrees
<1> SUFFICES ASSUME TypeOK, DevInv, Quiet, NEW path \in Paths, NEW m \in Methods \ {"HEAD"},
                    Choice(FullList, path, m).place # 0, NEW page \in Targets(path, m)
             PROVE  PageOf(OnDemand(page), Choice(OnDemand(page), path, m))
                    = PageOf(FullList, Choice(FullList, path, m))
  BY DEF OnDemandAgrees, Quiet
<1> DEFINE p == Strip(path)
           full == Choice(FullList, path, m)
           f == FullList[full.place]
           list == OnDemand(page)
           c == Choice(list, path, m)
           g == list[c.place]
<1>1. p \in Seq(STRING)
  BY RoutesAssumption, StripIs
<1>2. FilesOK /\ Existing \subseteq PageSet /\ "app" \notin PageSet
  BY FilesNowIs, RoutesAssumption
<1>3. /\ f \in Those(Existing) /\ Hit(f, p, m)
      /\ \A r \in Those(Existing) : Hit(r, p, m) => ~KeyLess(KeyOf(r), KeyOf(f))
  <2>1. FullList \in Seq(Routes) /\ InKeyOrder(FullList) /\ Elems(FullList) = Those(Existing)
    BY FullListIs
  <2> QED
    BY <2>1, ChosenIs
<1>4. Needed(page) \subseteq Existing
  <2>1. page \in PageSet => page \in DOMAIN files
    BY <1>2, TargetsAre DEF DevInv, RunInv, Quiet
  <2>2. page \in PageSet \cup {"app"} /\ DOMAIN files = Existing
    BY TargetsAre, FullListIs
  <2> QED
    BY <2>1, <2>2 DEF Needed
<1>5. /\ list \in Seq(Routes) /\ InKeyOrder(list)
      /\ Elems(list) = Elems(routes) \cup UNION {Elems(RoutesOf(q)) : q \in Needed(page)}
  BY <1>4, OnDemandIs DEF Quiet
<1>6. PICK x \in Elems(list) : Like(x, f)
  BY <1>3, <1>4, ImportedOnDemand
<1> HIDE DEF p, full, f, list
<1>7. Hit(x, p, m)
  BY <1>3, <1>6, KindAndPath DEF Like
<1>8. /\ c.place # 0 /\ g \in Elems(list) /\ Hit(g, p, m)
      /\ ~KeyLess(KeyOf(x), KeyOf(g))
  BY <1>5, <1>6, <1>7, ChosenIs DEF p
<1> HIDE DEF c, g
<1>9. PICK r \in Those(Existing) : Like(g, r)
  <2>1. CASE g \in Elems(routes)
    <3>1. g.page \in imported \cup {"app"}
      BY <2>1 DEF TypeOK, Elems
    <3>2. CASE g.page = "app"
      BY <2>1, <3>2 DEF DevInv, RunInv, AppInv, Quiet, Those
    <3>3. CASE g.page \in imported
      <4>1. g.page \in Existing
        BY <3>3, FullListIs DEF DevInv, RunInv, Quiet
      <4>2. PageInv(g.page)
        BY <4>1, FullListIs
      <4>3. PICK r \in Elems(RoutesOf(g.page)) : Like(g, r)
        BY <2>1, <4>2 DEF PageInv
      <4> QED
        BY <4>1, <4>3 DEF Those
    <3> QED
      BY <3>1, <3>2, <3>3
  <2>2. ASSUME NEW q \in Needed(page), g \in Elems(RoutesOf(q))
        PROVE  \E r \in Those(Existing) : Like(g, r)
    BY <1>4, <2>2 DEF Like, Those
  <2> QED
    BY <1>5, <1>8, <2>1, <2>2
<1>10. r \in Routes /\ r \in EverDeclared /\ r.kind = "api" /\ f \in Routes /\ f \in EverDeclared
       /\ f.kind = "api"
  BY <1>3, FullListIs
<1>11. KeyOf(g) = KeyOf(r) /\ KeyOf(x) = KeyOf(f) /\ Matches(r, p)
  BY <1>6, <1>8, <1>9, KindAndPath DEF Like, Hit
<1>12. Hit(r, p, m)
  BY <1>8, <1>9, <1>10, <1>11 DEF Like, Hit
<1>13. r.page = f.page
  <2>1. ~KeyLess(KeyOf(r), KeyOf(f)) /\ ~KeyLess(KeyOf(f), KeyOf(r))
    BY <1>3, <1>8, <1>11, <1>12
  <2> QED
    BY <1>1, <1>3, <1>10, <1>12, <2>1, SamePage DEF Quiet
<1>14. g.page = f.page
  BY <1>9, <1>13 DEF Like
<1> QED
  BY <1>8, <1>14 DEF PageOf, c, g, f, full, list

\* However pages were edited between and during earlier runs, and whatever the
\* routes map file still says of them, a process that imports on demand answers
\* with the page that would answer if all were imported: as long as pages do not
\* change under it and no two of them declare the same method and path.
THEOREM OnDemandIsTheSame == Spec => []OnDemandAgrees
BY DevInit, DevStep, DevAgrees, RoutesTypes, PTL DEF Spec

=============================================================================
