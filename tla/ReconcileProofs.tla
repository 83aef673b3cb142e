--------------------------- MODULE ReconcileProofs ---------------------------
(***************************************************************************)
(* The whole loop, for every cluster, every router and every kind of       *)
(* trouble: its types; that no plan jams on a record that cannot be        *)
(* written; and that what is proved of ApplyDNSRecords in OpenWrtProofs    *)
(* holds of the change sets the loop makes up.  And for the translation    *)
(* in provider.go: that one plan is enough.                                *)
(*                                                                         *)
(* The records of a plan are lists made of lists, so the first part is     *)
(* about lists; the second is about what the provider makes of them.       *)
(***************************************************************************)
EXTENDS Reconcile, OpenWrtProofs, SequenceTheorems, FiniteSetTheorems, WellFoundedInduction

-----------------------------------------------------------------------------
(* Lists.  What FlattenSeq makes of a list of lists is defined by          *)
(* recursion along it; what is said of it here is shown of the first       *)
(* place where it would fail.                                              *)

LEMMA Smallest ==
    ASSUME NEW T \in SUBSET Nat, NEW t \in T
    PROVE  \E n \in T : \A m \in T : n <= m
<1> DEFINE below == {0 .. n : n \in {m \in T : m <= t}}
<1>1. IsFiniteSet(0 .. t)
  BY FS_Interval
<1>2. IsWellFoundedOn(StrictSubsetOrdering(0 .. t), SUBSET (0 .. t))
  BY <1>1, FS_StrictSubsetOrderingWellFounded, FS_FiniteSubsetsOfFinite
<1>3. below \subseteq SUBSET (0 .. t) /\ 0 .. t \in below
  OBVIOUS
<1>4. PICK B \in below : \A C \in below : <<C, B>> \notin StrictSubsetOrdering(0 .. t)
  <2> HIDE DEF below
  <2> QED BY <1>2, <1>3, WFMin
<1>5. PICK n \in T : n <= t /\ B = 0 .. n
  BY <1>4
<1>6. ASSUME NEW m \in T, m < n PROVE FALSE
  <2>1. 0 .. m \in below /\ 0 .. m \subseteq 0 .. n /\ n \in (0 .. n) \ (0 .. m)
    BY <1>5, <1>6
  <2>2. 0 .. m \in SUBSET (0 .. t) /\ 0 .. n \in SUBSET (0 .. t)
    BY <1>5, <1>6
  <2>3. QED
    BY <1>4, <1>5, <2>1, <2>2 DEF StrictSubsetOrdering
<1>7. QED
  BY <1>5, <1>6

\* Numbers that hold 0, and the next of each they hold, are all numbers.
LEMMA Numbers ==
    ASSUME NEW T, 0 \in T, \A n \in Nat : n \in T => n + 1 \in T
    PROVE  Nat \subseteq T
<1> DEFINE without == {n \in Nat : n \notin T}
<1> SUFFICES ASSUME NEW t \in without PROVE FALSE
  OBVIOUS
<1>1. PICK m \in without : \A n \in without : m <= n
  <2> HIDE DEF without
  <2>1. without \in SUBSET Nat /\ t \in without
    BY DEF without
  <2>2. QED
    BY <2>1, Smallest
<1>2. m \in Nat /\ m # 0
  BY <1>1
<1>3. m - 1 \in Nat /\ m - 1 \notin without
  BY <1>1, <1>2
<1>4. QED
  BY <1>1, <1>2, <1>3

\* Lists flattened one after another.
Flattens(g, lists, n) ==
    g = [i \in 1 .. n |-> IF i = 1 THEN lists[i] ELSE g[i - 1] \o lists[i]]

LEMMA FlattenStarts ==
    ASSUME NEW lists
    PROVE  \A n \in Nat : \E g : Flattens(g, lists, n)
<1> DEFINE T == {n \in Nat : \E g : Flattens(g, lists, n)}
<1>1. 0 \in T
  BY Flattens(<<>>, lists, 0) DEF Flattens
<1>2. ASSUME NEW n \in Nat, n \in T PROVE n + 1 \in T
  <2>1. PICK g : g = [i \in 1 .. n |-> IF i = 1 THEN lists[i] ELSE g[i - 1] \o lists[i]]
    BY <1>2 DEF Flattens
  <2> DEFINE h == [i \in 1 .. n + 1 |-> IF i = 1 THEN lists[i] ELSE g[i - 1] \o lists[i]]
  <2>2. \A i \in 1 .. n : h[i] = g[i]
    <3> SUFFICES ASSUME NEW i \in 1 .. n PROVE h[i] = g[i]
      OBVIOUS
    <3>1. i \in 1 .. n + 1
      OBVIOUS
    <3>2. h[i] = IF i = 1 THEN lists[i] ELSE g[i - 1] \o lists[i]
      BY <3>1
    <3>3. g[i] = IF i = 1 THEN lists[i] ELSE g[i - 1] \o lists[i]
      BY <2>1
    <3>4. QED
      BY <3>2, <3>3
  <2>3. \A i \in 1 .. n + 1 : i # 1 => i - 1 \in 1 .. n
    OBVIOUS
  <2>4. h = [i \in 1 .. n + 1 |-> IF i = 1 THEN lists[i] ELSE h[i - 1] \o lists[i]]
    <3> HIDE DEF h
    <3>1. \A i \in 1 .. n + 1 : i # 1 => h[i - 1] = g[i - 1]
      BY <2>2, <2>3
    <3>2. QED
      BY <3>1 DEF h
  <2>5. Flattens(h, lists, n + 1)
    BY <2>4 DEF Flattens
  <2>6. QED
    BY <2>5
<1> HIDE DEF T
<1>3. Nat \subseteq T
  BY <1>1, <1>2, Numbers
<1>4. QED
  BY <1>3 DEF T

LEMMA FlattenSteps ==
    ASSUME NEW lists, NEW n \in Nat, Len(lists) = n, n # 0
    PROVE  \E g : Flattens(g, lists, n) /\ FlattenSeq(lists) = g[n]
<1> DEFINE flatten ==
        CHOOSE g : g = [i \in 1 .. n |-> IF i = 1 THEN lists[i] ELSE g[i - 1] \o lists[i]]
<1>1. Flattens(flatten, lists, n)
  BY FlattenStarts DEF Flattens
<1>2. FlattenSeq(lists) = flatten[n]
  BY DEF FlattenSeq
<1>3. QED
  BY <1>1, <1>2

\* The places of a list of lists, up to its n-th.
Places(lists, n) == {p \in (1 .. n) \X Nat : p[2] \in DOMAIN lists[p[1]]}

\* f takes each place of the lists to one of its own in the list.
Spreads(f, lists, n, list) ==
    /\ f \in [Places(lists, n) -> DOMAIN list]
    /\ \A p, q \in Places(lists, n) : f[p] = f[q] => p = q
    /\ \A d \in DOMAIN list : \E p \in Places(lists, n) : f[p] = d
    /\ \A p \in Places(lists, n) : list[f[p]] = lists[p[1]][p[2]]

LEMMA SpreadsOn ==
    ASSUME NEW S, NEW lists, NEW n \in Nat, NEW list \in Seq(S), lists[n + 1] \in Seq(S),
           NEW f, Spreads(f, lists, n, list)
    PROVE  \E h : Spreads(h, lists, n + 1, list \o lists[n + 1])
<1> DEFINE next == lists[n + 1]
           h == [p \in Places(lists, n + 1) |-> IF p[1] = n + 1 THEN Len(list) + p[2] ELSE f[p]]
<1>1. /\ next \in Seq(S) /\ Len(next) \in Nat /\ DOMAIN next = 1 .. Len(next)
      /\ Len(list) \in Nat /\ DOMAIN list = 1 .. Len(list)
      /\ Len(list \o next) = Len(list) + Len(next)
      /\ DOMAIN (list \o next) = 1 .. Len(list) + Len(next)
      /\ \A d \in 1 .. Len(list) : (list \o next)[d] = list[d]
      /\ \A d \in 1 .. Len(next) : (list \o next)[Len(list) + d] = next[d]
  OBVIOUS
<1>2. \A p \in Places(lists, n + 1) :
          \/ p[1] = n + 1 /\ p[2] \in DOMAIN next /\ p = <<n + 1, p[2]>>
          \/ p[1] # n + 1 /\ p \in Places(lists, n)
  BY DEF Places
<1>3. \A p \in Places(lists, n) : p \in Places(lists, n + 1) /\ p[1] # n + 1
  BY DEF Places
<1>4. \A d \in DOMAIN next : <<n + 1, d>> \in Places(lists, n + 1)
  BY <1>1 DEF Places
<1>5. \A p \in Places(lists, n) : f[p] \in 1 .. Len(list)
  BY <1>1 DEF Spreads
<1>6. \A p \in Places(lists, n) : h[p] = f[p]
  BY <1>3
<1>7. \A p \in Places(lists, n + 1) : p[1] = n + 1 => h[p] = Len(list) + p[2]
  OBVIOUS
<1>8. h \in [Places(lists, n + 1) -> DOMAIN (list \o next)]
  <2>1. ASSUME NEW p \in Places(lists, n + 1) PROVE h[p] \in 1 .. Len(list) + Len(next)
    <3> HIDE DEF h, next
    <3>1. CASE p[1] = n + 1
      BY <1>1, <1>2, <1>7, <3>1
    <3>2. CASE p[1] # n + 1
      BY <1>1, <1>2, <1>5, <1>6, <3>2
    <3>3. QED
      BY <3>1, <3>2
  <2>2. QED
    BY <1>1, <2>1
<1>9. \A p, q \in Places(lists, n + 1) : h[p] = h[q] => p = q
  <2> SUFFICES ASSUME NEW p \in Places(lists, n + 1), NEW q \in Places(lists, n + 1), h[p] = h[q]
               PROVE  p = q
    OBVIOUS
  <2> HIDE DEF h, next
  <2>1. CASE p[1] = n + 1 /\ q[1] = n + 1
    BY <1>1, <1>2, <1>7, <2>1
  <2>2. CASE p[1] # n + 1 /\ q[1] # n + 1
    BY <1>2, <1>6, <2>2 DEF Spreads
  <2>3. CASE p[1] = n + 1 /\ q[1] # n + 1
    BY <1>1, <1>2, <1>5, <1>6, <1>7, <2>3
  <2>4. CASE p[1] # n + 1 /\ q[1] = n + 1
    BY <1>1, <1>2, <1>5, <1>6, <1>7, <2>4
  <2>5. QED
    BY <2>1, <2>2, <2>3, <2>4
<1>10. ASSUME NEW d \in DOMAIN (list \o next) PROVE \E p \in Places(lists, n + 1) : h[p] = d
  <2> HIDE DEF h, next
  <2>1. CASE d \in 1 .. Len(list)
    <3>1. PICK p \in Places(lists, n) : f[p] = d
      BY <1>1, <2>1 DEF Spreads
    <3>2. QED
      BY <1>3, <1>6, <3>1
  <2>2. CASE d \notin 1 .. Len(list)
    <3>1. d - Len(list) \in DOMAIN next
      BY <1>1, <2>2
    <3>2. <<n + 1, d - Len(list)>> \in Places(lists, n + 1)
      BY <1>4, <3>1
    <3>3. h[<<n + 1, d - Len(list)>>] = Len(list) + (d - Len(list))
      BY <1>7, <3>2
    <3>4. Len(list) + (d - Len(list)) = d
      BY <1>1
    <3>5. QED
      BY <3>2, <3>3, <3>4
  <2>3. QED
    BY <2>1, <2>2
<1>11. ASSUME NEW p \in Places(lists, n + 1) PROVE (list \o next)[h[p]] = lists[p[1]][p[2]]
  <2> HIDE DEF h
  <2>1. CASE p[1] = n + 1
    BY <1>1, <1>2, <1>7, <2>1
  <2>2. CASE p[1] # n + 1
    <3>1. p \in Places(lists, n) /\ h[p] = f[p] /\ f[p] \in 1 .. Len(list)
      BY <1>2, <1>5, <1>6, <2>2
    <3>2. list[f[p]] = lists[p[1]][p[2]]
      BY <3>1 DEF Spreads
    <3>3. QED
      BY <1>1, <3>1, <3>2
  <2>3. QED
    BY <2>1, <2>2
<1>12. QED
  <2> HIDE DEF h
  <2>1. Spreads(h, lists, n + 1, list \o next)
    BY <1>8, <1>9, <1>10, <1>11 DEF Spreads
  <2>2. QED
    BY <2>1

\* What is flattened is the elements of the lists, each as often as in them.
LEMMA FlattenPlaces ==
    ASSUME NEW S, NEW lists \in Seq(Seq(S))
    PROVE  /\ FlattenSeq(lists) \in Seq(S)
           /\ \E f : Spreads(f, lists, Len(lists), FlattenSeq(lists))
<1> DEFINE last == Len(lists)
<1>1. last \in Nat /\ DOMAIN lists = 1 .. last /\ \A i \in 1 .. last : lists[i] \in Seq(S)
  OBVIOUS
<1>2. CASE last = 0
  <2>1. lists = <<>> /\ FlattenSeq(lists) = <<>>
    BY <1>2 DEF FlattenSeq
  <2>2. Places(lists, 0) = {} /\ DOMAIN <<>> = {}
    BY DEF Places
  <2>3. Spreads([p \in {} |-> p], lists, 0, <<>>)
    BY <2>2 DEF Spreads
  <2>4. <<>> \in Seq(S)
    OBVIOUS
  <2>5. Spreads([p \in {} |-> p], lists, Len(lists), FlattenSeq(lists))
    BY <1>2, <2>1, <2>3
  <2>6. QED
    BY <2>1, <2>4, <2>5
<1>3. CASE last # 0
  <2>1. PICK g : Flattens(g, lists, last) /\ FlattenSeq(lists) = g[last]
    BY <1>1, <1>3, FlattenSteps
  <2> DEFINE Good(n) == g[n] \in Seq(S) /\ \E f : Spreads(f, lists, n, g[n])
             T == {n \in Nat : n + 1 \in 1 .. last => Good(n + 1)}
  <2> HIDE DEF last
  <2>2. ASSUME NEW i \in 1 .. last
        PROVE  g[i] = IF i = 1 THEN lists[i] ELSE g[i - 1] \o lists[i]
    BY <2>1 DEF Flattens
  <2>3. g[1] = lists[1]
    BY <1>1, <1>3, <2>2
  <2>4. 0 \in T
    <3> DEFINE f == [p \in Places(lists, 1) |-> p[2]]
    <3>1. g[1] \in Seq(S)
      BY <1>1, <1>3, <2>3
    <3>2. \A p \in Places(lists, 1) : p = <<1, p[2]>> /\ p[2] \in DOMAIN g[1] /\ p[1] = 1
      BY <2>3 DEF Places
    <3>3. \A d \in DOMAIN g[1] : <<1, d>> \in Places(lists, 1)
      BY <2>3, <3>1 DEF Places
    <3>4. f \in [Places(lists, 1) -> DOMAIN g[1]]
      BY <3>2
    <3>5. \A p, q \in Places(lists, 1) : f[p] = f[q] => p = q
      BY <3>2
    <3>6. \A d \in DOMAIN g[1] : f[<<1, d>>] = d
      BY <3>3
    <3>7. \A p \in Places(lists, 1) : g[1][f[p]] = lists[p[1]][p[2]]
      BY <2>3, <3>2
    <3> HIDE DEF f
    <3>8. \A d \in DOMAIN g[1] : \E p \in Places(lists, 1) : f[p] = d
      BY <3>3, <3>6
    <3>9. Spreads(f, lists, 1, g[1])
      BY <3>4, <3>5, <3>7, <3>8 DEF Spreads
    <3>10. Good(1)
      BY <3>1, <3>9
    <3>11. QED
      BY <3>10
  <2>5. ASSUME NEW n \in Nat, n \in T PROVE n + 1 \in T
    <3> DEFINE m == n + 1
    <3> SUFFICES ASSUME m + 1 \in 1 .. last PROVE Good(m + 1)
      OBVIOUS
    <3>1. m \in Nat /\ m \in 1 .. last /\ m + 1 # 1 /\ (m + 1) - 1 = m
      BY <1>1
    <3>2. Good(m)
      BY <2>5, <3>1
    <3> HIDE DEF m, T
    <3>3. g[m + 1] = g[m] \o lists[m + 1] /\ lists[m + 1] \in Seq(S)
      BY <1>1, <2>2, <3>1
    <3>4. PICK f : Spreads(f, lists, m, g[m])
      BY <3>2
    <3>5. g[m] \in Seq(S)
      BY <3>2
    <3>6. \E h : Spreads(h, lists, m + 1, g[m] \o lists[m + 1])
      BY <3>1, <3>3, <3>4, <3>5, SpreadsOn
    <3>7. g[m] \o lists[m + 1] \in Seq(S)
      BY <3>3, <3>5
    <3>8. QED
      BY <3>3, <3>6, <3>7
  <2> HIDE DEF T
  <2>6. Nat \subseteq T
    BY <2>4, <2>5, Numbers
  <2>7. last - 1 \in Nat /\ (last - 1) + 1 = last /\ last \in 1 .. last
    BY <1>1, <1>3
  <2>8. last - 1 \in T
    BY <2>6, <2>7
  <2>9. Good(last)
    BY <2>7, <2>8 DEF T
  <2>10. QED
    BY <2>1, <2>9 DEF last
<1>4. QED
  BY <1>2, <1>3

LEMMA FlattenElements ==
    ASSUME NEW S, NEW lists \in Seq(Seq(S))
    PROVE  /\ \A d \in DOMAIN FlattenSeq(lists) :
                  \E i \in DOMAIN lists : \E j \in DOMAIN lists[i] : FlattenSeq(lists)[d] = lists[i][j]
           /\ \A i \in DOMAIN lists : \A j \in DOMAIN lists[i] :
                  \E d \in DOMAIN FlattenSeq(lists) : FlattenSeq(lists)[d] = lists[i][j]
<1> DEFINE flat == FlattenSeq(lists)
           all == Places(lists, Len(lists))
<1>1. PICK f : Spreads(f, lists, Len(lists), flat)
  BY FlattenPlaces
<1>2. /\ DOMAIN lists = 1 .. Len(lists)
      /\ \A i \in DOMAIN lists : lists[i] \in Seq(S) /\ DOMAIN lists[i] \subseteq Nat
  OBVIOUS
<1>3. \A i \in DOMAIN lists : \A j \in DOMAIN lists[i] : <<i, j>> \in all
  BY <1>2 DEF Places
<1>4. \A p \in all : p[1] \in DOMAIN lists /\ p[2] \in DOMAIN lists[p[1]]
  BY <1>2 DEF Places
<1> HIDE DEF all, flat
<1>5. /\ \A d \in DOMAIN flat : \E p \in all : f[p] = d
      /\ \A p \in all : f[p] \in DOMAIN flat /\ flat[f[p]] = lists[p[1]][p[2]]
  BY <1>1 DEF Spreads, all
<1>6. ASSUME NEW d \in DOMAIN flat
      PROVE  \E i \in DOMAIN lists : \E j \in DOMAIN lists[i] : flat[d] = lists[i][j]
  BY <1>4, <1>5
<1>7. ASSUME NEW i \in DOMAIN lists, NEW j \in DOMAIN lists[i]
      PROVE  \E d \in DOMAIN flat : flat[d] = lists[i][j]
  BY <1>3, <1>5
<1>8. QED
  BY <1>6, <1>7 DEF flat

\* One-to-one means as many.
LEMMA AsMany ==
    ASSUME NEW A, NEW B, IsFiniteSet(A), NEW f \in [A -> B],
           \A a, b \in A : f[a] = f[b] => a = b,
           \A b \in B : \E a \in A : f[a] = b
    PROVE  IsFiniteSet(B) /\ Cardinality(A) = Cardinality(B)
<1>1. ExistsBijection(A, B)
  BY DEF ExistsBijection, Bijection, Injection, Surjection, IsInjective
<1>2. QED
  BY <1>1, FS_Bijection

LEMMA FinitePlaces ==
    ASSUME NEW S, NEW list \in Seq(S)
    PROVE  IsFiniteSet(DOMAIN list)
BY FS_Interval

LEMMA CountType ==
    ASSUME NEW S, NEW list \in Seq(S), NEW key
    PROVE  /\ Count(key, list) \in Nat
           /\ Count(key, list) = 0 <=> \A d \in DOMAIN list : Key(list[d]) # key
<1>1. IsFiniteSet({d \in DOMAIN list : Key(list[d]) = key})
  BY FinitePlaces, FS_Subset
<1>2. QED
  BY <1>1, FS_CardinalityType, FS_EmptySet DEF Count

\* A key that only one of the lists has is there as often as in that one.
LEMMA CountOfOne ==
    ASSUME NEW S, NEW lists \in Seq(Seq(S)), NEW key, NEW i \in DOMAIN lists,
           \A n \in DOMAIN lists : \A j \in DOMAIN lists[n] : Key(lists[n][j]) = key => n = i
    PROVE  Count(key, FlattenSeq(lists)) = Count(key, lists[i])
<1> DEFINE flat == FlattenSeq(lists)
           all == Places(lists, Len(lists))
           here == {j \in DOMAIN lists[i] : Key(lists[i][j]) = key}
           there == {d \in DOMAIN flat : Key(flat[d]) = key}
<1>1. PICK f : Spreads(f, lists, Len(lists), flat)
  BY FlattenPlaces
<1> DEFINE h == [j \in here |-> f[<<i, j>>]]
<1>2. /\ DOMAIN lists = 1 .. Len(lists)
      /\ \A n \in DOMAIN lists : lists[n] \in Seq(S) /\ DOMAIN lists[n] \subseteq Nat
  OBVIOUS
<1>3. \A j \in DOMAIN lists[i] : <<i, j>> \in all
  BY <1>2 DEF Places
<1>4. \A p \in all : p[1] \in DOMAIN lists /\ p[2] \in DOMAIN lists[p[1]] /\ p = <<p[1], p[2]>>
  BY <1>2 DEF Places
<1>5. /\ \A d \in DOMAIN flat : \E p \in all : f[p] = d
      /\ \A p \in all : f[p] \in DOMAIN flat /\ flat[f[p]] = lists[p[1]][p[2]]
      /\ \A p, q \in all : f[p] = f[q] => p = q
  <2> HIDE DEF flat
  <2>1. QED
    BY <1>1 DEF Spreads
<1>6. IsFiniteSet(here)
  BY <1>2, FinitePlaces, FS_Subset
<1> HIDE DEF all, flat
<1>7. h \in [here -> there]
  BY <1>3, <1>5
<1>8. ASSUME NEW a \in here, NEW b \in here, h[a] = h[b] PROVE a = b
  BY <1>3, <1>5, <1>8
<1>9. ASSUME NEW d \in there PROVE \E a \in here : h[a] = d
  <2>1. PICK p \in all : f[p] = d
    BY <1>5
  <2>2. Key(lists[p[1]][p[2]]) = key
    BY <1>5, <2>1
  <2>3. p[1] = i /\ p[2] \in here /\ p = <<i, p[2]>>
    BY <1>4, <2>2
  <2>4. QED
    BY <2>1, <2>3
<1> HIDE DEF h
<1>10. Cardinality(here) = Cardinality(there)
  <2> HIDE DEF here, there
  <2>1. QED
    BY <1>6, <1>7, <1>8, <1>9, AsMany
<1>11. QED
  BY <1>10 DEF Count, flat

\* A list without the elements at some of its places: T has the places of the others.
Without(list, T) == FlattenSeq([i \in DOMAIN list |-> IF i \in T THEN <<list[i]>> ELSE <<>>])

LEMMA WhatPasses ==
    ASSUME NEW S, NEW list \in Seq(S), NEW T \in SUBSET DOMAIN list
    PROVE  /\ Without(list, T) \in Seq(S)
           /\ \E e \in [T -> DOMAIN Without(list, T)] :
                  /\ \A i, j \in T : e[i] = e[j] => i = j
                  /\ \A d \in DOMAIN Without(list, T) : \E i \in T : e[i] = d
                  /\ \A i \in T : Without(list, T)[e[i]] = list[i]
<1> DEFINE lists == [i \in DOMAIN list |-> IF i \in T THEN <<list[i]>> ELSE <<>>]
           kept == FlattenSeq(lists)
           all == Places(lists, Len(lists))
<1>1. /\ DOMAIN list = 1 .. Len(list) /\ Len(list) \in Nat
      /\ \A i \in DOMAIN list : list[i] \in S
  OBVIOUS
<1>2. lists \in Seq(Seq(S)) /\ Len(lists) = Len(list)
  <2>1. \A i \in 1 .. Len(list) : lists[i] \in Seq(S)
    BY <1>1
  <2>2. lists = [i \in 1 .. Len(list) |-> lists[i]]
    BY <1>1
  <2> HIDE DEF lists
  <2>3. QED
    BY <1>1, <2>1, <2>2
<1>3. /\ \A i \in T : i \in 1 .. Len(list) /\ lists[i] = <<list[i]>>
      /\ \A i \in 1 .. Len(list) : i \notin T => lists[i] = <<>>
  BY <1>1
<1> HIDE DEF lists
<1>4. \A i \in T : <<i, 1>> \in all
  BY <1>2, <1>3 DEF Places
<1>5. ASSUME NEW p \in all PROVE p[1] \in T /\ p = <<p[1], 1>>
  <2>1. p[1] \in 1 .. Len(list) /\ p[2] \in DOMAIN lists[p[1]] /\ p = <<p[1], p[2]>>
    BY <1>2 DEF Places
  <2>2. p[1] \in T
    BY <1>3, <2>1
  <2>3. DOMAIN lists[p[1]] = {1}
    BY <1>3, <2>2
  <2>4. QED
    BY <2>1, <2>2, <2>3
<1>6. kept \in Seq(S) /\ \E f : Spreads(f, lists, Len(lists), kept)
  BY <1>2, FlattenPlaces
<1>7. PICK f : Spreads(f, lists, Len(lists), kept)
  BY <1>6
<1> HIDE DEF kept
<1>8. /\ \A d \in DOMAIN kept : \E p \in all : f[p] = d
      /\ \A p \in all : f[p] \in DOMAIN kept /\ kept[f[p]] = lists[p[1]][p[2]]
      /\ \A p, q \in all : f[p] = f[q] => p = q
  BY <1>7 DEF Spreads
<1> HIDE DEF all
<1> DEFINE e == [i \in T |-> f[<<i, 1>>]]
<1>9. e \in [T -> DOMAIN kept]
  BY <1>4, <1>8
<1>10. \A i, j \in T : e[i] = e[j] => i = j
  BY <1>4, <1>8
<1>11. \A d \in DOMAIN kept : \E i \in T : e[i] = d
  <2> SUFFICES ASSUME NEW d \in DOMAIN kept PROVE \E i \in T : e[i] = d
    OBVIOUS
  <2>1. PICK p \in all : f[p] = d
    BY <1>8
  <2>2. QED
    BY <1>5, <2>1
<1>12. \A i \in T : kept[e[i]] = list[i]
  <2> SUFFICES ASSUME NEW i \in T PROVE kept[f[<<i, 1>>]] = list[i]
    OBVIOUS
  <2>1. kept[f[<<i, 1>>]] = lists[i][1]
    BY <1>4, <1>8
  <2>2. QED
    BY <1>3, <2>1
<1> HIDE DEF e
<1>13. Without(list, T) = kept
  BY DEF Without, lists, kept
<1>14. QED
  BY <1>6, <1>9, <1>10, <1>11, <1>12, <1>13

LEMMA WithoutElements ==
    ASSUME NEW S, NEW list \in Seq(S), NEW T \in SUBSET DOMAIN list
    PROVE  /\ \A d \in DOMAIN Without(list, T) : \E i \in T : Without(list, T)[d] = list[i]
           /\ \A i \in T : \E d \in DOMAIN Without(list, T) : Without(list, T)[d] = list[i]
<1> DEFINE kept == Without(list, T)
<1>1. PICK e \in [T -> DOMAIN kept] :
          /\ \A i, j \in T : e[i] = e[j] => i = j
          /\ \A d \in DOMAIN kept : \E i \in T : e[i] = d
          /\ \A i \in T : kept[e[i]] = list[i]
  BY WhatPasses
<1> HIDE DEF kept
<1>2. ASSUME NEW d \in DOMAIN kept PROVE \E i \in T : kept[d] = list[i]
  BY <1>1
<1>3. ASSUME NEW i \in T PROVE \E d \in DOMAIN kept : kept[d] = list[i]
  <2>1. e[i] \in DOMAIN kept /\ kept[e[i]] = list[i]
    BY <1>1
  <2>2. QED
    BY <2>1
<1>4. QED
  BY <1>2, <1>3 DEF kept

\* What is in a list once stays so.
LEMMA WithoutOnce ==
    ASSUME NEW S, NEW list \in Seq(S), NEW T \in SUBSET DOMAIN list,
           \A i, j \in T : list[i] = list[j] => i = j
    PROVE  \A c, d \in DOMAIN Without(list, T) : Without(list, T)[c] = Without(list, T)[d] => c = d
<1> DEFINE kept == Without(list, T)
<1>1. PICK e \in [T -> DOMAIN kept] :
          /\ \A i, j \in T : e[i] = e[j] => i = j
          /\ \A d \in DOMAIN kept : \E i \in T : e[i] = d
          /\ \A i \in T : kept[e[i]] = list[i]
  BY WhatPasses
<1> HIDE DEF kept
<1>2. ASSUME NEW c \in DOMAIN kept, NEW d \in DOMAIN kept, kept[c] = kept[d] PROVE c = d
  <2>1. PICK i \in T : e[i] = c
    BY <1>1
  <2>2. PICK j \in T : e[j] = d
    BY <1>1
  <2>3. list[i] = list[j]
    BY <1>1, <1>2, <2>1, <2>2
  <2>4. QED
    BY <2>1, <2>2, <2>3
<1>3. QED
  BY <1>2 DEF kept

LEMMA ElementType ==
    ASSUME NEW S, NEW list \in Seq(S), NEW i \in DOMAIN list
    PROVE  list[i] \in S
OBVIOUS

LEMMA Appended ==
    ASSUME NEW S, NEW a \in Seq(S), NEW b \in Seq(S)
    PROVE  /\ a \o b \in Seq(S)
           /\ \A d \in DOMAIN a : d \in DOMAIN (a \o b) /\ (a \o b)[d] = a[d]
           /\ \A d \in DOMAIN b : Len(a) + d \in DOMAIN (a \o b) /\ (a \o b)[Len(a) + d] = b[d]
           /\ \A d \in DOMAIN (a \o b) :
                  \/ d \in DOMAIN a /\ (a \o b)[d] = a[d]
                  \/ d - Len(a) \in DOMAIN b /\ (a \o b)[d] = b[d - Len(a)]
<1>1. /\ Len(a) \in Nat /\ DOMAIN a = 1 .. Len(a) /\ Len(b) \in Nat /\ DOMAIN b = 1 .. Len(b)
      /\ a \o b \in Seq(S) /\ DOMAIN (a \o b) = 1 .. Len(a) + Len(b)
      /\ \A d \in 1 .. Len(a) : (a \o b)[d] = a[d]
      /\ \A d \in 1 .. Len(b) : (a \o b)[Len(a) + d] = b[d]
  OBVIOUS
<1> DEFINE both == a \o b
<1> HIDE DEF both
<1>2. \A d \in 1 .. Len(a) : d \in 1 .. Len(a) + Len(b)
  BY <1>1
<1>3. \A d \in 1 .. Len(b) : Len(a) + d \in 1 .. Len(a) + Len(b)
  BY <1>1
<1>4. ASSUME NEW d \in 1 .. Len(a) + Len(b), d \notin 1 .. Len(a)
      PROVE  d - Len(a) \in 1 .. Len(b) /\ Len(a) + (d - Len(a)) = d
  BY <1>1, <1>4
<1>5. QED
  BY <1>1, <1>2, <1>3, <1>4

LEMMA AppendedOnce ==
    ASSUME NEW S, NEW a \in Seq(S), NEW b \in Seq(S),
           \A i, j \in DOMAIN a : a[i] = a[j] => i = j,
           \A i, j \in DOMAIN b : b[i] = b[j] => i = j,
           \A i \in DOMAIN a, j \in DOMAIN b : a[i] # b[j]
    PROVE  \A c, d \in DOMAIN (a \o b) : (a \o b)[c] = (a \o b)[d] => c = d
<1> DEFINE both == a \o b
<1>1. /\ \A d \in DOMAIN both :
             \/ d \in DOMAIN a /\ both[d] = a[d]
             \/ d - Len(a) \in DOMAIN b /\ both[d] = b[d - Len(a)]
      /\ Len(a) \in Nat /\ DOMAIN both \subseteq Nat
  BY Appended
<1> HIDE DEF both
<1>2. ASSUME NEW c \in DOMAIN both, NEW d \in DOMAIN both, both[c] = both[d] PROVE c = d
  <2>1. CASE c \in DOMAIN a /\ both[c] = a[c] /\ d \in DOMAIN a /\ both[d] = a[d]
    BY <1>2, <2>1
  <2>2. CASE /\ c - Len(a) \in DOMAIN b /\ both[c] = b[c - Len(a)]
             /\ d - Len(a) \in DOMAIN b /\ both[d] = b[d - Len(a)]
    <3>1. c - Len(a) = d - Len(a)
      BY <1>2, <2>2
    <3>2. QED
      BY <1>1, <3>1
  <2>3. QED
    BY <1>1, <1>2, <2>1, <2>2
<1>3. QED
  BY <1>2 DEF both

\* A finite set as a list has each of its elements once.
LEMMA SetAsList ==
    ASSUME NEW S, IsFiniteSet(S)
    PROVE  /\ SetToSeq(S) \in Seq(S)
           /\ \A i, j \in DOMAIN SetToSeq(S) : SetToSeq(S)[i] = SetToSeq(S)[j] => i = j
           /\ \A x \in S : \E i \in DOMAIN SetToSeq(S) : SetToSeq(S)[i] = x
<1> DEFINE n == Cardinality(S)
           order == SetToSeq(S)
<1>1. n \in Nat /\ ExistsBijection(1 .. n, S)
  BY FS_CardinalityType
<1>2. \E f \in [1 .. n -> S] : IsInjective(f)
  BY <1>1 DEF ExistsBijection, Bijection, Injection
<1>3. order \in [1 .. n -> S] /\ IsInjective(order)
  BY <1>2 DEF SetToSeq
<1>4. order \in Surjection(1 .. n, S)
  <2>1. Cardinality(1 .. n) = n
    BY <1>1, FS_Interval
  <2>2. order \in Injection(1 .. n, S)
    BY <1>3 DEF Injection
  <2> HIDE DEF order
  <2>3. QED
    BY <2>1, <2>2, FS_Injection
<1> HIDE DEF order, n
<1>5. order \in Seq(S) /\ DOMAIN order = 1 .. n
  BY <1>1, <1>3
<1>6. \A x \in S : \E i \in DOMAIN order : order[i] = x
  BY <1>4, <1>5 DEF Surjection
<1>7. \A i, j \in DOMAIN order : order[i] = order[j] => i = j
  BY <1>3 DEF IsInjective
<1>8. QED
  BY <1>5, <1>6, <1>7 DEF order

-----------------------------------------------------------------------------
(* What the webhook makes of what ExternalDNS sends.                       *)

\* One record for each target, and what a record is it takes from its endpoint
\* (provider.go:259-261).
LEMMA RecordsOf ==
    ASSUME NEW ep \in Endpoint, Supported(ep)
    PROVE  /\ records(ep) \in Seq(DNSRecord)
           /\ DOMAIN records(ep) = DOMAIN ep.Targets
           /\ \A j \in DOMAIN ep.Targets :
                  /\ records(ep)[j].Type = ep.RecordType
                  /\ records(ep)[j].Name = ep.DNSName
                  /\ records(ep)[j].Value = ep.Targets[j]
<1> DEFINE n == Len(ep.Targets)
<1>1. /\ ep.Targets \in Seq(Value) \cup Seq(Name) /\ n \in Nat /\ DOMAIN ep.Targets = 1 .. n
      /\ ep.DNSName \in Name
      /\ \/ ep.RecordType = "A" /\ \A j \in 1 .. n : ep.Targets[j] \in Value
         \/ ep.RecordType = "CNAME" /\ \A j \in 1 .. n : ep.Targets[j] \in Name
  <2>1. CASE ep \in [DNSName : Name, RecordType : {"A"} \cup OtherType, Targets : Seq(Value),
                     Extra : SUBSET Extra]
    BY <2>1, OtherTypeAssumption DEF Supported
  <2>2. CASE ep \in [DNSName : Name, RecordType : {"CNAME"}, Targets : Seq(Name),
                     Extra : SUBSET Extra]
    BY <2>2
  <2>3. QED
    BY <2>1, <2>2 DEF Endpoint
<1> HIDE DEF n
<1>2. records(ep) = [j \in 1 .. n |-> [Type |-> ep.RecordType, Name |-> ep.DNSName,
                                       Value |-> ep.Targets[j], Owner |-> NoOwner]]
  BY <1>1 DEF records
<1>3. ASSUME NEW j \in 1 .. n PROVE records(ep)[j] \in DNSRecord
  BY <1>1, <1>2, OwnerAssumption DEF DNSRecord
<1>4. records(ep) \in Seq(DNSRecord)
  <2>1. records(ep) \in [1 .. n -> DNSRecord]
    BY <1>2, <1>3
  <2>2. QED
    BY <1>1, <2>1
<1>5. QED
  BY <1>1, <1>2, <1>4

RecordLists(endpoints) ==
    [i \in DOMAIN endpoints |-> IF Supported(endpoints[i]) THEN records(endpoints[i]) ELSE <<>>]

LEMMA RecordListsType ==
    ASSUME NEW endpoints \in Seq(Endpoint)
    PROVE  /\ RecordLists(endpoints) \in Seq(Seq(DNSRecord))
           /\ DOMAIN RecordLists(endpoints) = DOMAIN endpoints
           /\ endpoints2DNSRecords(endpoints) = FlattenSeq(RecordLists(endpoints))
<1> DEFINE n == Len(endpoints)
<1>1. n \in Nat /\ DOMAIN endpoints = 1 .. n /\ \A i \in 1 .. n : endpoints[i] \in Endpoint
  OBVIOUS
<1> HIDE DEF n
<1>2. \A i \in 1 .. n : RecordLists(endpoints)[i] \in Seq(DNSRecord)
  <2>1. <<>> \in Seq(DNSRecord)
    OBVIOUS
  <2>2. QED
    BY <1>1, <2>1, RecordsOf DEF RecordLists
<1>3. RecordLists(endpoints) \in [1 .. n -> Seq(DNSRecord)]
  BY <1>1, <1>2 DEF RecordLists
<1>4. RecordLists(endpoints) \in Seq(Seq(DNSRecord))
  BY <1>1, <1>3
<1>5. QED
  BY <1>1, <1>3, <1>4 DEF endpoints2DNSRecords, RecordLists

\* Every record is one of an endpoint's, and every one of those is there.
LEMMA RecordsPlanned ==
    ASSUME NEW endpoints \in Seq(Endpoint)
    PROVE  /\ endpoints2DNSRecords(endpoints) \in Seq(DNSRecord)
           /\ \A d \in DOMAIN endpoints2DNSRecords(endpoints) :
                  \E i \in DOMAIN endpoints : \E j \in DOMAIN endpoints[i].Targets :
                      /\ Supported(endpoints[i])
                      /\ endpoints2DNSRecords(endpoints)[d] = records(endpoints[i])[j]
           /\ \A i \in DOMAIN endpoints : \A j \in DOMAIN endpoints[i].Targets :
                  Supported(endpoints[i]) =>
                      \E d \in DOMAIN endpoints2DNSRecords(endpoints) :
                          endpoints2DNSRecords(endpoints)[d] = records(endpoints[i])[j]
<1> DEFINE flat == endpoints2DNSRecords(endpoints)
           lists == RecordLists(endpoints)
<1>1. /\ lists \in Seq(Seq(DNSRecord)) /\ DOMAIN lists = DOMAIN endpoints
      /\ flat = FlattenSeq(lists)
  BY RecordListsType
<1>2. \A i \in DOMAIN endpoints :
          /\ endpoints[i] \in Endpoint
          /\ lists[i] = IF Supported(endpoints[i]) THEN records(endpoints[i]) ELSE <<>>
  BY DEF RecordLists
<1> HIDE DEF flat, lists
<1>3. flat \in Seq(DNSRecord)
  BY <1>1, FlattenPlaces
<1>4. ASSUME NEW d \in DOMAIN flat
      PROVE  \E i \in DOMAIN endpoints : \E j \in DOMAIN endpoints[i].Targets :
                 Supported(endpoints[i]) /\ flat[d] = records(endpoints[i])[j]
  <2>1. PICK i \in DOMAIN endpoints : \E j \in DOMAIN lists[i] : flat[d] = lists[i][j]
    BY <1>1, FlattenElements
  <2>2. PICK j \in DOMAIN lists[i] : flat[d] = lists[i][j]
    BY <2>1
  <2>3. Supported(endpoints[i]) /\ lists[i] = records(endpoints[i])
    <3>1. CASE ~ Supported(endpoints[i])
      BY <1>2, <3>1
    <3>2. QED
      BY <1>2, <3>1
  <2>4. QED
    BY <1>2, <2>2, <2>3, RecordsOf
<1>5. ASSUME NEW i \in DOMAIN endpoints, NEW j \in DOMAIN endpoints[i].Targets,
             Supported(endpoints[i])
      PROVE  \E d \in DOMAIN flat : flat[d] = records(endpoints[i])[j]
  <2>1. lists[i] = records(endpoints[i]) /\ j \in DOMAIN lists[i]
    BY <1>2, <1>5, RecordsOf
  <2>2. QED
    BY <1>1, <2>1, FlattenElements
<1>6. QED
  BY <1>3, <1>4, <1>5 DEF flat

\* What passes a test comes from the list, and is there once for each time it was.
LEMMA PassingIsWithout ==
    ASSUME NEW Test(_), NEW list
    PROVE  Passing(list, Test) = Without(list, {i \in DOMAIN list : Test(list[i])})
<1>1. [i \in DOMAIN list |-> IF Test(list[i]) THEN <<list[i]>> ELSE <<>>]
          = [i \in DOMAIN list |->
                IF i \in {j \in DOMAIN list : Test(list[j])} THEN <<list[i]>> ELSE <<>>]
  OBVIOUS
<1>2. QED
  BY <1>1 DEF Passing, Without

LEMMA StrippedType ==
    ASSUME NEW endpoints \in Seq(Endpoint)
    PROVE  /\ Stripped(endpoints) \in Seq(Endpoint)
           /\ DOMAIN Stripped(endpoints) = DOMAIN endpoints
           /\ \A i \in DOMAIN endpoints :
                  /\ Stripped(endpoints)[i].DNSName = endpoints[i].DNSName
                  /\ Stripped(endpoints)[i].Targets = endpoints[i].Targets
                  /\ Stripped(endpoints)[i].Extra = {}
<1> DEFINE n == Len(endpoints)
<1>1. n \in Nat /\ DOMAIN endpoints = 1 .. n /\ \A i \in 1 .. n : endpoints[i] \in Endpoint
  OBVIOUS
<1> HIDE DEF n
<1>2. ASSUME NEW ep \in Endpoint
      PROVE  /\ [ep EXCEPT !.Extra = {}] \in Endpoint
             /\ [ep EXCEPT !.Extra = {}].DNSName = ep.DNSName
             /\ [ep EXCEPT !.Extra = {}].Targets = ep.Targets
             /\ [ep EXCEPT !.Extra = {}].Extra = {}
  BY DEF Endpoint
<1>3. Stripped(endpoints) = [i \in 1 .. n |-> [endpoints[i] EXCEPT !.Extra = {}]]
  BY <1>1 DEF Stripped
<1>4. Stripped(endpoints) \in [1 .. n -> Endpoint]
  BY <1>1, <1>2, <1>3
<1>5. /\ Stripped(endpoints) \in Seq(Endpoint)
      /\ DOMAIN Stripped(endpoints) = DOMAIN endpoints
  BY <1>1, <1>4
<1>6. ASSUME NEW i \in DOMAIN endpoints
      PROVE  /\ Stripped(endpoints)[i].DNSName = endpoints[i].DNSName
             /\ Stripped(endpoints)[i].Targets = endpoints[i].Targets
             /\ Stripped(endpoints)[i].Extra = {}
  <2>1. Stripped(endpoints)[i] = [endpoints[i] EXCEPT !.Extra = {}] /\ endpoints[i] \in Endpoint
    BY <1>1, <1>3
  <2>2. QED
    BY <1>2, <2>1
<1>7. QED
  BY <1>5, <1>6

\* What AdjustEndpoints leaves is what can be written, and no two of it have a name
\* in common if none have before (provider.go:93-142).
LEMMA AdjustLeaves ==
    ASSUME NEW endpoints \in Seq(Endpoint)
    PROVE  /\ AdjustEndpoints(endpoints) \in Seq(Endpoint)
           /\ \A i \in DOMAIN AdjustEndpoints(endpoints) :
                  LET ep == AdjustEndpoints(endpoints)[i] IN
                      /\ Supported(ep) /\ ~ Rejected(ep) /\ ep.Extra = {}
                      /\ \E n \in DOMAIN endpoints : ep.Targets = endpoints[n].Targets
           /\ (\A i, j \in DOMAIN endpoints :
                   Canon[endpoints[i].DNSName] = Canon[endpoints[j].DNSName] => i = j)
              => \A i, j \in DOMAIN AdjustEndpoints(endpoints) :
                     Canon[AdjustEndpoints(endpoints)[i].DNSName]
                         = Canon[AdjustEndpoints(endpoints)[j].DNSName] => i = j
<1> DEFINE list == Stripped(endpoints)
           left == AdjustEndpoints(endpoints)
           T == {i \in DOMAIN list : Supported(list[i]) /\ ~ Rejected(list[i])}
<1>1. left = Without(list, T)
  BY PassingIsWithout DEF AdjustEndpoints
<1>2. /\ list \in Seq(Endpoint) /\ DOMAIN list = DOMAIN endpoints
      /\ \A i \in DOMAIN endpoints :
             /\ list[i].DNSName = endpoints[i].DNSName
             /\ list[i].Targets = endpoints[i].Targets
             /\ list[i].Extra = {}
  BY StrippedType
<1>3. /\ T \subseteq DOMAIN endpoints
      /\ \A i \in T : Supported(list[i]) /\ ~ Rejected(list[i])
  BY <1>2
<1> HIDE DEF left, list, T
<1>4. /\ left \in Seq(Endpoint)
      /\ \E e \in [T -> DOMAIN left] :
             /\ \A i, j \in T : e[i] = e[j] => i = j
             /\ \A d \in DOMAIN left : \E i \in T : e[i] = d
             /\ \A i \in T : left[e[i]] = list[i]
  BY <1>1, <1>2, <1>3, WhatPasses
<1>5. PICK e \in [T -> DOMAIN left] :
             /\ \A i, j \in T : e[i] = e[j] => i = j
             /\ \A d \in DOMAIN left : \E i \in T : e[i] = d
             /\ \A i \in T : left[e[i]] = list[i]
  BY <1>4
<1>6. ASSUME NEW d \in DOMAIN left
      PROVE  /\ Supported(left[d]) /\ ~ Rejected(left[d]) /\ left[d].Extra = {}
             /\ \E n \in DOMAIN endpoints : left[d].Targets = endpoints[n].Targets
  <2>1. PICK i \in T : left[d] = list[i]
    BY <1>5
  <2>2. QED
    BY <1>2, <1>3, <2>1
<1>7. ASSUME \A i, j \in DOMAIN endpoints :
                 Canon[endpoints[i].DNSName] = Canon[endpoints[j].DNSName] => i = j,
             NEW c \in DOMAIN left, NEW d \in DOMAIN left,
             Canon[left[c].DNSName] = Canon[left[d].DNSName]
      PROVE  c = d
  <2>1. PICK i \in T : e[i] = c
    BY <1>5
  <2>2. PICK j \in T : e[j] = d
    BY <1>5
  <2>3. Canon[endpoints[i].DNSName] = Canon[endpoints[j].DNSName]
    BY <1>2, <1>3, <1>5, <1>7, <2>1, <2>2
  <2>4. QED
    BY <1>3, <1>7, <2>1, <2>2, <2>3
<1>8. QED
  BY <1>4, <1>6, <1>7 DEF left

\* The records of an endpoint that is not rejected are valid.
LEMMA NotRejected ==
    ASSUME NEW endpoints \in Seq(Endpoint),
           \A i \in DOMAIN endpoints : Supported(endpoints[i]) => ~ Rejected(endpoints[i])
    PROVE  \A d \in DOMAIN endpoints2DNSRecords(endpoints) :
               Validate(endpoints2DNSRecords(endpoints)[d])
<1> SUFFICES ASSUME NEW d \in DOMAIN endpoints2DNSRecords(endpoints)
             PROVE  Validate(endpoints2DNSRecords(endpoints)[d])
  OBVIOUS
<1>1. PICK i \in DOMAIN endpoints : \E j \in DOMAIN endpoints[i].Targets :
          /\ Supported(endpoints[i])
          /\ endpoints2DNSRecords(endpoints)[d] = records(endpoints[i])[j]
  BY RecordsPlanned
<1>2. QED
  BY <1>1 DEF Rejected

\* What stays of two lists when they cancel out is of those lists.
LEMMA CancelOutType ==
    ASSUME NEW remove \in Seq(DNSRecord), NEW added \in Seq(DNSRecord)
    PROVE  /\ cancelOut(remove, added) \in [remove : Seq(DNSRecord), add : Seq(DNSRecord)]
           /\ \A d \in DOMAIN cancelOut(remove, added).add :
                  \E i \in DOMAIN added : cancelOut(remove, added).add[d] = added[i]
<1> DEFINE T(list) == {i \in DOMAIN list : Count(Key(list[i]), remove) # Count(Key(list[i]), added)}
<1>1. cancelOut(remove, added) = [remove |-> Without(remove, T(remove)),
                                  add |-> Without(added, T(added))]
  BY PassingIsWithout DEF cancelOut
<1>2. T(remove) \in SUBSET DOMAIN remove /\ T(added) \in SUBSET DOMAIN added
  OBVIOUS
<1> HIDE DEF T
<1>3. /\ Without(remove, T(remove)) \in Seq(DNSRecord)
      /\ Without(added, T(added)) \in Seq(DNSRecord)
  BY <1>2, WhatPasses
<1>4. \A d \in DOMAIN Without(added, T(added)) :
          \E i \in DOMAIN added : Without(added, T(added))[d] = added[i]
  BY <1>2, WithoutElements
<1>5. QED
  BY <1>1, <1>3, <1>4

-----------------------------------------------------------------------------
(* What ExternalDNS plans.                                                 *)

\* The sections of the same name and type as s, and the endpoint they are reported as.
Alike(config, s) ==
    {t \in Managed(config) :
        /\ newSectionIndex(config)[t].Type = newSectionIndex(config)[s].Type
        /\ newSectionIndex(config)[t].Name = newSectionIndex(config)[s].Name}
Answer(config, s) ==
    LET group == Alike(config, s)
        one == newSectionIndex(config)[CHOOSE t \in group : TRUE]
    IN  [DNSName |-> one.Name, RecordType |-> one.Type,
         Targets |-> [i \in DOMAIN SetToSeq(group) |->
                         newSectionIndex(config)[SetToSeq(group)[i]].Value],
         Extra |-> {}]

LEMMA RecordsAre ==
    ASSUME NEW config \in Config
    PROVE  Records(config) = {Answer(config, s) : s \in Managed(config)}
<1> DEFINE idx == newSectionIndex(config)
           managed == Managed(config)
           group(s) == {t \in managed : idx[t].Type = idx[s].Type /\ idx[t].Name = idx[s].Name}
           one(g) == idx[CHOOSE s \in g : TRUE]
           ep(g) == [DNSName |-> one(g).Name, RecordType |-> one(g).Type,
                     Targets |-> [i \in DOMAIN SetToSeq(g) |-> idx[SetToSeq(g)[i]].Value],
                     Extra |-> {}]
<1>1. Records(config) = {ep(g) : g \in {group(s) : s \in managed}}
  BY DEF Records
<1>2. \A s : ep(group(s)) = Answer(config, s)
  BY DEF Answer, Alike
<1> HIDE DEF ep, group, managed
<1>3. Records(config) = {ep(group(s)) : s \in managed}
  BY <1>1
<1>4. QED
  BY <1>2, <1>3 DEF managed

\* What Records says of a section is what the section holds (provider.go:205-225).
LEMMA AnswerType ==
    ASSUME NEW config \in Config, NEW s \in Managed(config)
    PROVE  /\ Answer(config, s) \in Endpoint
           /\ Answer(config, s).RecordType = newSectionIndex(config)[s].Type
           /\ Answer(config, s).DNSName = newSectionIndex(config)[s].Name
           /\ Answer(config, s).Targets =
                  [i \in DOMAIN SetToSeq(Alike(config, s)) |->
                      newSectionIndex(config)[SetToSeq(Alike(config, s))[i]].Value]
           /\ IsFiniteSet(Alike(config, s)) /\ s \in Alike(config, s)
           /\ newSectionIndex(config)[s] \in DNSRecord
<1> DEFINE idx == newSectionIndex(config)
           g == Alike(config, s)
           order == SetToSeq(g)
           one == idx[CHOOSE t \in g : TRUE]
           values == [i \in DOMAIN order |-> idx[order[i]].Value]
<1>1. /\ idx \in Config /\ Managed(config) \subseteq Section
      /\ \A t \in Managed(config) : idx[t] \in DNSRecord
  BY NewIndexType DEF Managed, Config
<1>2. /\ s \in g /\ g \in SUBSET Managed(config)
      /\ \A t \in g : /\ t \in Managed(config) /\ idx[t] \in DNSRecord
                      /\ idx[t].Type = idx[s].Type /\ idx[t].Name = idx[s].Name
  BY <1>1 DEF Alike
<1>3. IsFiniteSet(g)
  BY <1>1, <1>2, FiniteAssumption, FS_Subset
<1>4. order \in Seq(g)
  BY <1>3, SetAsList
<1>5. Answer(config, s) = [DNSName |-> one.Name, RecordType |-> one.Type, Targets |-> values,
                           Extra |-> {}]
  BY DEF Answer
<1> DEFINE n == Len(order)
<1> HIDE DEF idx, order
<1>6. n \in Nat /\ DOMAIN order = 1 .. n /\ \A i \in 1 .. n : order[i] \in g
  BY <1>4
<1>7. one.Name = idx[s].Name /\ one.Type = idx[s].Type
  <2>1. (CHOOSE t \in g : TRUE) \in g
    BY <1>2
  <2>2. QED
    BY <1>2, <2>1
<1>8. idx[s] \in DNSRecord /\ idx[s].Name \in Name
  BY <1>2 DEF DNSRecord
<1> HIDE DEF n, g, one
<1>9. values \in [1 .. n -> Value] /\ (idx[s].Type = "CNAME" => values \in [1 .. n -> Name])
  <2>1. \A t \in g : idx[t].Value \in Value /\ (idx[s].Type = "CNAME" => idx[t].Value \in Name)
    BY <1>2 DEF DNSRecord, Value
  <2>2. QED
    BY <1>6, <2>1
<1>10. values \in Seq(Value) /\ (idx[s].Type = "CNAME" => values \in Seq(Name))
  <2> HIDE DEF values
  <2>1. \A S : [1 .. n -> S] \subseteq Seq(S)
    BY <1>6
  <2>2. QED
    BY <1>9, <2>1
<1> HIDE DEF values
<1>11. Answer(config, s) \in Endpoint
  <2>1. CASE idx[s].Type = "A"
    BY <1>5, <1>7, <1>8, <1>10, <2>1 DEF Endpoint
  <2>2. CASE idx[s].Type = "CNAME"
    BY <1>5, <1>7, <1>8, <1>10, <2>2 DEF Endpoint
  <2>3. QED
    BY <1>8, <2>1, <2>2 DEF DNSRecord
<1>12. QED
  BY <1>2, <1>3, <1>5, <1>7, <1>8, <1>11 DEF values, order, g, idx

LEMMA RecordsType ==
    ASSUME NEW config \in Config
    PROVE  IsFiniteSet(Records(config)) /\ \A ep \in Records(config) : ep \in Endpoint
<1> DEFINE managed == Managed(config)
           f == [s \in managed |-> Answer(config, s)]
           answer == {Answer(config, s) : s \in managed}
<1>1. IsFiniteSet(managed)
  BY FiniteAssumption, FS_Subset DEF Managed
<1> HIDE DEF managed
<1>2. f \in Surjection(managed, answer)
  BY DEF Surjection
<1> HIDE DEF f, answer
<1>3. IsFiniteSet(answer)
  BY <1>1, <1>2, FS_Surjection
<1>4. Records(config) = answer
  BY RecordsAre DEF answer, managed
<1>5. \A ep \in Records(config) : \E s \in Managed(config) : ep = Answer(config, s)
  BY RecordsAre
<1>6. QED
  BY <1>3, <1>4, <1>5, AnswerType

\* Of what the router holds and what is asked for: the endpoints in the row of one asked
\* for and the one of them the plan keeps, the places of those that have none and of
\* those it differs from, and what nobody asks for.
InRow(there, wanted) == {ep \in there : SameRow(ep, wanted)}
KeptIn(there, wanted) == CHOOSE ep \in InRow(there, wanted) : TRUE
Missing(there, asked) == {i \in DOMAIN asked : InRow(there, asked[i]) = {}}
Outdated(there, asked) ==
    {i \in DOMAIN asked :
        \E ep \in InRow(there, asked[i]) : ep = KeptIn(there, asked[i]) /\ Differ(ep, asked[i])}
Unasked(there, asked) == {ep \in there : \A i \in DOMAIN asked : ~ SameRow(ep, asked[i])}

LEMMA PlanIs ==
    ASSUME NEW there, NEW asked, NEW missing, NEW outdated,
           missing = Missing(there, asked), outdated = Outdated(there, asked)
    PROVE  Plan(there, asked) =
               [Create |-> Without(asked, missing),
                UpdateOld |-> [i \in DOMAIN Without(asked, outdated) |->
                                  KeptIn(there, Without(asked, outdated)[i])],
                UpdateNew |-> Without(asked, outdated),
                Delete |-> SetToSeq(Unasked(there, asked))]
<1> DEFINE row(wanted) == {ep \in there : SameRow(ep, wanted)}
           kept(wanted) == CHOOSE ep \in row(wanted) : TRUE
           differs(wanted) == \E ep \in row(wanted) : ep = kept(wanted) /\ Differ(ep, wanted)
           made == Passing(asked, LAMBDA wanted : row(wanted) = {})
           renewed == Passing(asked, differs)
           gone == SetToSeq({ep \in there : \A i \in DOMAIN asked : ~ SameRow(ep, asked[i])})
<1>1. Plan(there, asked) =
          [Create |-> made, UpdateOld |-> [i \in DOMAIN renewed |-> kept(renewed[i])],
           UpdateNew |-> renewed, Delete |-> gone]
  BY DEF Plan
<1>2. made = Without(asked, missing) /\ renewed = Without(asked, outdated)
  <2>1. made = Without(asked, {i \in DOMAIN asked : row(asked[i]) = {}})
    BY PassingIsWithout
  <2>2. renewed = Without(asked, {i \in DOMAIN asked : differs(asked[i])})
    BY PassingIsWithout
  <2>3. QED
    BY <2>1, <2>2 DEF Missing, Outdated, InRow, KeptIn
<1>3. gone = SetToSeq(Unasked(there, asked))
  BY DEF Unasked
<1>4. \A wanted : kept(wanted) = KeptIn(there, wanted)
  BY DEF KeptIn, InRow
<1> HIDE DEF made, renewed, gone, kept
<1>5. [i \in DOMAIN renewed |-> kept(renewed[i])]
          = [i \in DOMAIN renewed |-> KeptIn(there, renewed[i])]
  BY <1>4
<1>6. QED
  BY <1>1, <1>2, <1>3, <1>5

LEMMA PlanType ==
    ASSUME NEW there, IsFiniteSet(there), \A ep \in there : ep \in Endpoint,
           NEW asked \in Seq(Endpoint)
    PROVE  LET plan == Plan(there, asked) IN
               /\ plan.Create \in Seq(Endpoint) /\ plan.UpdateNew \in Seq(Endpoint)
               /\ plan.Delete \in Seq(Endpoint) /\ plan.UpdateOld \in Seq(Endpoint)
               /\ \A d \in DOMAIN plan.Create : \E i \in DOMAIN asked : plan.Create[d] = asked[i]
               /\ \A d \in DOMAIN plan.UpdateNew : \E i \in DOMAIN asked : plan.UpdateNew[d] = asked[i]
<1> DEFINE C == Missing(there, asked)
           U == Outdated(there, asked)
           update == Without(asked, U)
           gone == Unasked(there, asked)
<1>1. Plan(there, asked) =
          [Create |-> Without(asked, C),
           UpdateOld |-> [i \in DOMAIN update |-> KeptIn(there, update[i])],
           UpdateNew |-> update,
           Delete |-> SetToSeq(gone)]
  BY PlanIs
<1>2. C \in SUBSET DOMAIN asked /\ U \in SUBSET DOMAIN asked
  BY DEF Missing, Outdated
<1>3. \A i \in U : KeptIn(there, asked[i]) \in there
  BY DEF Outdated, InRow
<1>4. gone \in SUBSET there
  BY DEF Unasked
<1> HIDE DEF C, U, gone
<1>5. Without(asked, C) \in Seq(Endpoint) /\ update \in Seq(Endpoint)
  BY <1>2, WhatPasses
<1>6. /\ \A d \in DOMAIN Without(asked, C) : \E i \in C : Without(asked, C)[d] = asked[i]
      /\ \A d \in DOMAIN update : \E i \in U : update[d] = asked[i]
  BY <1>2, WithoutElements
<1>7. SetToSeq(gone) \in Seq(Endpoint)
  <2>1. IsFiniteSet(gone)
    BY <1>4, FS_Subset
  <2>2. SetToSeq(gone) \in Seq(gone)
    BY <2>1, SetAsList
  <2>3. gone \subseteq Endpoint
    BY <1>4
  <2>4. QED
    BY <2>2, <2>3
<1> HIDE DEF update
<1>8. [i \in DOMAIN update |-> KeptIn(there, update[i])] \in Seq(Endpoint)
  <2>1. Len(update) \in Nat /\ DOMAIN update = 1 .. Len(update)
    BY <1>5
  <2>2. \A d \in DOMAIN update : KeptIn(there, update[d]) \in Endpoint
    BY <1>3, <1>6
  <2>3. [i \in DOMAIN update |-> KeptIn(there, update[i])] \in [1 .. Len(update) -> Endpoint]
    BY <2>1, <2>2
  <2>4. QED
    BY <2>1, <2>3
<1>9. QED
  BY <1>1, <1>2, <1>5, <1>6, <1>7, <1>8

-----------------------------------------------------------------------------
(* The loop takes no step on the router but those of OpenWrt, whatever     *)
(* change sets it makes up.                                                *)

LEMMA WorkIsStep == Work \/ Trouble => Step /\ pc # "idle"
<1>1. Work => Step /\ pc # "idle"
  BY DEF Work, Step, Login, Denied, Read, RemoveRecord, NextRemoval, Deleted, RemovalsDone,
         InvalidRecord, AlreadyPresent, AdoptRecord, SkipRecord, CreateSection, Adopted, Created,
         NothingChanged, StartApply, Applied, SectionGone, CallFails, Calling, Adding
<1>2. Trouble => Step /\ pc # "idle"
  BY DEF Trouble, Step, LoginFails, CallFails, AnswerLost, Denied, Calling
<1>3. QED
  BY <1>1, <1>2

LEMMA LockReceives ==
    ASSUME LoopTypeOK, Lock
    PROVE  AnyReceive
<1>1. PICK i \in DOMAIN waiting :
          IF waiting[i].changes = NoChanges
          THEN Return("ok") /\ UNCHANGED <<routerVars, clientVars>>
          ELSE ApplyDNSRecords(waiting[i].changes)
  BY DEF Lock
<1>2. waiting[i].changes \in [remove : Seq(DNSRecord), add : Seq(DNSRecord)]
  <2>1. waiting[i] \in [changes : [remove : Seq(DNSRecord), add : Seq(DNSRecord)], poster : Poster]
    BY ElementType DEF LoopTypeOK
  <2>2. QED
    BY <2>1
<1>3. pc = "idle"
  BY DEF Lock, LoopTypeOK
<1>4. QED
  BY <1>1, <1>2, <1>3 DEF AnyReceive

LEMMA LoopIsAny ==
    ASSUME LoopTypeOK, [LoopNext]_allVars
    PROVE  [AnyNext]_vars
<1>1. CASE GetRecords \/ Post \/ UNCHANGED allVars
  BY <1>1 DEF GetRecords, Post, allVars
<1>2. CASE Lock
  BY <1>2, LockReceives DEF SoleNext, AnyNext
<1>3. CASE Apply \/ ApplyFails
  BY <1>3, WorkIsStep DEF Apply, ApplyFails, SoleNext, AnyNext
<1>4. CASE AbandonedEnds \/ SessionEnds
  BY <1>4 DEF AbandonedEnds, SessionEnds, SoleNext, AnyNext
<1>5. CASE GiveUp \/ DesiredChanges
  BY <1>5 DEF GiveUp, DesiredChanges
<1>6. CASE WebhookRestarts
  BY <1>6 DEF WebhookRestarts, SoleNext, AnyNext
<1>7. CASE RouterEdited
  BY <1>7 DEF RouterEdited, SoleNext, AnyNext
<1>8. QED
  BY <1>1, <1>2, <1>3, <1>4, <1>5, <1>6, <1>7 DEF LoopNext, Disturb

-----------------------------------------------------------------------------
(* What is planned can be written.  NeverJams is not inductive: every      *)
(* change set that waits has to be as good as the one that runs, and what  *)
(* Records answered has to be a finite set for the plan to be a list.      *)

AllValid(list) == \A d \in DOMAIN list : Validate(list[d])

PlannedInv ==
    /\ TypeInv /\ LoopTypeOK
    /\ IsFiniteSet(current)
    /\ \A i \in DOMAIN waiting : AllValid(waiting[i].changes.add)
    /\ AllValid(toAdd)

\* The change set that is posted.
LEMMA PlannedChanges ==
    ASSUME NEW there, IsFiniteSet(there), \A ep \in there : ep \in Endpoint,
           NEW asked \in Desired,
           NEW plan, plan = Plan(there, AdjustEndpoints(asked)),
           NEW posted, posted = cancelOut(PlanRemoves(plan), PlanAdds(plan))
    PROVE  /\ posted \in [remove : Seq(DNSRecord), add : Seq(DNSRecord)]
           /\ AllValid(posted.add)
<1> DEFINE left == AdjustEndpoints(asked)
           created == plan.Create \o plan.UpdateNew
           removed == plan.Delete \o plan.UpdateOld
<1>1. /\ left \in Seq(Endpoint)
      /\ \A i \in DOMAIN left : ~ Rejected(left[i])
  BY DesiredAssumption, AdjustLeaves
<1> HIDE DEF left
<1>2. /\ plan.Create \in Seq(Endpoint) /\ plan.UpdateNew \in Seq(Endpoint)
      /\ plan.Delete \in Seq(Endpoint) /\ plan.UpdateOld \in Seq(Endpoint)
      /\ \A d \in DOMAIN plan.Create : \E i \in DOMAIN left : plan.Create[d] = left[i]
      /\ \A d \in DOMAIN plan.UpdateNew : \E i \in DOMAIN left : plan.UpdateNew[d] = left[i]
  BY <1>1, PlanType DEF left
<1>3. /\ created \in Seq(Endpoint) /\ removed \in Seq(Endpoint)
      /\ \A d \in DOMAIN created :
             \/ d \in DOMAIN plan.Create /\ created[d] = plan.Create[d]
             \/ /\ d - Len(plan.Create) \in DOMAIN plan.UpdateNew
                /\ created[d] = plan.UpdateNew[d - Len(plan.Create)]
  <2>1. removed \in Seq(Endpoint)
    BY <1>2, Appended
  <2> DEFINE c == plan.Create
             u == plan.UpdateNew
  <2>2. c \in Seq(Endpoint) /\ u \in Seq(Endpoint)
    BY <1>2
  <2> HIDE DEF c, u, removed
  <2>3. /\ c \o u \in Seq(Endpoint)
        /\ \A d \in DOMAIN (c \o u) :
               \/ d \in DOMAIN c /\ (c \o u)[d] = c[d]
               \/ d - Len(c) \in DOMAIN u /\ (c \o u)[d] = u[d - Len(c)]
    BY <2>2, Appended
  <2>4. QED
    BY <2>1, <2>3 DEF c, u
<1> HIDE DEF created, removed
<1>4. \A d \in DOMAIN created : ~ Rejected(created[d])
  <2> SUFFICES ASSUME NEW d \in DOMAIN created PROVE \E i \in DOMAIN left : created[d] = left[i]
    BY <1>1
  <2>1. QED
    BY <1>2, <1>3
<1>5. /\ PlanRemoves(plan) \in Seq(DNSRecord)
      /\ PlanAdds(plan) \in Seq(DNSRecord)
      /\ AllValid(PlanAdds(plan))
  <2>1. PlanRemoves(plan) = endpoints2DNSRecords(removed)
        /\ PlanAdds(plan) = endpoints2DNSRecords(created)
    BY DEF PlanRemoves, PlanAdds, created, removed
  <2>2. endpoints2DNSRecords(removed) \in Seq(DNSRecord)
        /\ endpoints2DNSRecords(created) \in Seq(DNSRecord)
    BY <1>3, RecordsPlanned
  <2>3. AllValid(endpoints2DNSRecords(created))
    BY <1>3, <1>4, NotRejected DEF AllValid
  <2>4. QED
    BY <2>1, <2>2, <2>3
<1>6. /\ posted \in [remove : Seq(DNSRecord), add : Seq(DNSRecord)]
      /\ \A d \in DOMAIN posted.add :
             \E i \in DOMAIN PlanAdds(plan) : posted.add[d] = PlanAdds(plan)[i]
  BY <1>5, CancelOutType
<1>7. QED
  BY <1>5, <1>6 DEF AllValid

LEMMA InitPlanned == LoopInit => PlannedInv
<1> SUFFICES ASSUME LoopInit PROVE PlannedInv
  OBVIOUS
<1>1. TypeInv /\ pc = "idle" /\ toAdd = <<>>
  BY InitType DEF LoopInit, Init
<1>2. LoopTypeOK
  BY <1>1, TroubleAssumption DEF LoopInit, LoopTypeOK, Poster
<1>3. IsFiniteSet(current)
  BY FS_EmptySet DEF LoopInit
<1>4. QED
  BY <1>1, <1>2, <1>3 DEF PlannedInv, AllValid, LoopInit

LEMMA TailElements ==
    ASSUME NEW S, NEW list \in Seq(S), list # <<>>
    PROVE  \A d \in DOMAIN Tail(list) : \E i \in DOMAIN list : Tail(list)[d] = list[i]
<1>1. /\ Len(list) \in Nat /\ Len(list) # 0 /\ DOMAIN list = 1 .. Len(list)
      /\ Len(Tail(list)) = Len(list) - 1 /\ DOMAIN Tail(list) = 1 .. Len(list) - 1
  OBVIOUS
<1>2. \A d \in 1 .. Len(list) - 1 : Tail(list)[d] = list[d + 1] /\ d + 1 \in 1 .. Len(list)
  BY <1>1
<1>3. QED
  BY <1>1, <1>2

\* The goroutine takes up no record but the ones it was sent.
LEMMA WorkKeepsValid ==
    ASSUME AllValid(toAdd), TypeInv, Work \/ Trouble
    PROVE  AllValid(toAdd')
<1>1. toAdd \in Seq(DNSRecord)
  BY DEF TypeInv, TypeOK
<1>2. AllValid(<<>>)
  BY DEF AllValid
<1>3. ASSUME toAdd # <<>> PROVE AllValid(Tail(toAdd))
  BY <1>1, <1>3, TailElements DEF AllValid
<1>4. \/ toAdd' = toAdd \/ toAdd' = <<>>
      \/ toAdd # <<>> /\ toAdd' = Tail(toAdd)
  <2>1. Login \/ Denied \/ Read \/ LoginFails \/ CallFails \/ AnswerLost
            => toAdd' = toAdd \/ toAdd' = <<>>
    BY DEF Login, Denied, Read, LoginFails, CallFails, AnswerLost, Fail, Return, localVars
  <2>2. RemoveRecord \/ NextRemoval \/ Deleted \/ RemovalsDone => toAdd' = toAdd
    BY DEF RemoveRecord, NextRemoval, Deleted, RemovalsDone, localVars
  <2>3. InvalidRecord \/ AlreadyPresent \/ AdoptRecord \/ SkipRecord \/ CreateSection
            => toAdd' = toAdd \/ toAdd' = <<>> \/ (toAdd # <<>> /\ toAdd' = Tail(toAdd))
    <3>1. InvalidRecord => toAdd' = <<>>
      BY DEF InvalidRecord, Fail, Return
    <3>2. AlreadyPresent \/ SkipRecord => toAdd # <<>> /\ toAdd' = Tail(toAdd)
      BY DEF AlreadyPresent, SkipRecord, Adding
    <3>3. AdoptRecord \/ CreateSection => toAdd' = toAdd
      BY DEF AdoptRecord, CreateSection, localVars
    <3>4. QED
      BY <3>1, <3>2, <3>3
  <2>4. Adopted \/ Created => toAdd # <<>> /\ toAdd' = Tail(toAdd)
    BY DEF Adopted, Created, TypeInv, Waiting
  <2>5. NothingChanged \/ StartApply \/ Applied => toAdd' = toAdd \/ toAdd' = <<>>
    BY DEF NothingChanged, StartApply, Applied, Return, localVars
  <2>6. QED
    BY <2>1, <2>2, <2>3, <2>4, <2>5 DEF Work, Trouble, SectionGone
<1>5. QED
  BY <1>2, <1>3, <1>4

\* A list one of whose elements is taken out has the others.
LEMMA RemovedAt ==
    ASSUME NEW S, NEW list \in Seq(S), NEW i \in DOMAIN list
    PROVE  /\ RemoveAt(list, i) \in Seq(S)
           /\ \A d \in DOMAIN RemoveAt(list, i) :
                  \E j \in DOMAIN list : RemoveAt(list, i)[d] = list[j]
<1>1. /\ Len(list) \in Nat /\ DOMAIN list = 1 .. Len(list) /\ i \in 1 .. Len(list)
  OBVIOUS
<1> DEFINE before == SubSeq(list, 1, i - 1)
           after == SubSeq(list, i + 1, Len(list))
<1>2. /\ before \in Seq(S) /\ DOMAIN before = 1 .. i - 1
      /\ \A d \in DOMAIN before : before[d] = list[d]
  BY <1>1
<1>3. /\ after \in Seq(S) /\ DOMAIN after = 1 .. Len(list) - i
      /\ \A d \in DOMAIN after : after[d] = list[d + i]
  BY <1>1
<1> HIDE DEF before, after
<1>4. /\ \A d \in DOMAIN before : \E j \in DOMAIN list : before[d] = list[j]
      /\ \A d \in DOMAIN after : \E j \in DOMAIN list : after[d] = list[j]
  <2>1. \A d \in 1 .. i - 1 : d \in 1 .. Len(list)
    BY <1>1
  <2>2. \A d \in 1 .. Len(list) - i : d + i \in 1 .. Len(list)
    BY <1>1
  <2>3. QED
    BY <1>1, <1>2, <1>3, <2>1, <2>2
<1>5. /\ before \o after \in Seq(S)
      /\ \A d \in DOMAIN (before \o after) :
             \/ d \in DOMAIN before /\ (before \o after)[d] = before[d]
             \/ d - Len(before) \in DOMAIN after /\ (before \o after)[d] = after[d - Len(before)]
  BY <1>2, <1>3, Appended
<1>6. \A d \in DOMAIN (before \o after) : \E j \in DOMAIN list : (before \o after)[d] = list[j]
  BY <1>4, <1>5
<1>7. QED
  BY <1>5, <1>6 DEF RemoveAt, before, after

LEMMA GetRecordsPlanned ==
    ASSUME PlannedInv, TypeInv', GetRecords
    PROVE  PlannedInv'
<1>1. dhcp \in Config
  BY DEF PlannedInv, TypeInv, TypeOK
<1>2. IsFiniteSet(current') /\ \A ep \in current' : ep \in Endpoint
  BY <1>1, RecordsType DEF GetRecords
<1>3. UNCHANGED <<pc, toAdd, desired, waiting, running, trouble>> /\ xdns' = "planning"
  BY DEF GetRecords, vars, localVars
<1>4. LoopTypeOK'
  BY <1>2, <1>3 DEF PlannedInv, LoopTypeOK
<1>5. QED
  BY <1>2, <1>3, <1>4 DEF PlannedInv, AllValid

LEMMA PostPlanned ==
    ASSUME PlannedInv, TypeInv', Post
    PROVE  PlannedInv'
<1> DEFINE Sent == [changes : [remove : Seq(DNSRecord), add : Seq(DNSRecord)], poster : Poster]
<1>1. UNCHANGED <<pc, toAdd, desired, running, trouble>> /\ current' = {}
  BY DEF Post, vars, localVars
<1>2. /\ waiting \in Seq(Sent) /\ desired \in Desired
      /\ IsFiniteSet(current) /\ \A ep \in current : ep \in Endpoint
  BY DEF PlannedInv, LoopTypeOK
<1>3. CASE xdns' = "idle" /\ UNCHANGED waiting
  <2>1. LoopTypeOK'
    BY <1>1, <1>3 DEF PlannedInv, LoopTypeOK
  <2>2. QED
    BY <1>1, <1>3, <2>1, FS_EmptySet DEF PlannedInv, AllValid
<1>4. ASSUME NEW changeSet, xdns' = "posted",
             waiting' = Append(waiting, [changes |-> changeSet, poster |-> "waits"]),
             changeSet \in [remove : Seq(DNSRecord), add : Seq(DNSRecord)],
             AllValid(changeSet.add)
      PROVE  PlannedInv'
  <2> DEFINE new == [changes |-> changeSet, poster |-> "waits"]
  <2>1. new \in Sent
    BY <1>4 DEF Poster
  <2> HIDE DEF Sent, new
  <2>2. /\ waiting' \in Seq(Sent)
        /\ \A i \in DOMAIN waiting' :
               (i \in DOMAIN waiting /\ waiting'[i] = waiting[i]) \/ waiting'[i] = new
    BY <1>2, <1>4, <2>1 DEF new
  <2>3. LoopTypeOK'
    BY <1>1, <1>4, <2>2 DEF PlannedInv, LoopTypeOK, Sent
  <2>4. \A i \in DOMAIN waiting' : AllValid(waiting'[i].changes.add)
    BY <1>4, <2>2 DEF PlannedInv, new
  <2>5. QED
    BY <1>1, <2>3, <2>4, FS_EmptySet DEF PlannedInv, AllValid
<1>5. PICK plan : /\ plan = Plan(current, AdjustEndpoints(desired))
                  /\ \/ xdns' = "idle" /\ UNCHANGED waiting
                     \/ /\ xdns' = "posted"
                        /\ waiting' = Append(waiting,
                               [changes |-> cancelOut(PlanRemoves(plan), PlanAdds(plan)),
                                poster |-> "waits"])
  BY DEF Post
<1>6. /\ cancelOut(PlanRemoves(plan), PlanAdds(plan))
             \in [remove : Seq(DNSRecord), add : Seq(DNSRecord)]
      /\ AllValid(cancelOut(PlanRemoves(plan), PlanAdds(plan)).add)
  BY <1>2, <1>5, PlannedChanges
<1>7. QED
  BY <1>3, <1>4, <1>5, <1>6

LEMMA LockPlanned ==
    ASSUME PlannedInv, TypeInv', Lock
    PROVE  PlannedInv'
<1> DEFINE Sent == [changes : [remove : Seq(DNSRecord), add : Seq(DNSRecord)], poster : Poster]
<1>1. /\ waiting \in Seq(Sent) /\ running = "nobody" /\ xdns \in {"idle", "planning", "posted"}
      /\ UNCHANGED <<desired, current, trouble>>
  BY DEF PlannedInv, LoopTypeOK, Lock
<1>2. PICK i \in DOMAIN waiting :
          /\ IF waiting[i].changes = NoChanges
             THEN Return("ok") /\ UNCHANGED <<routerVars, clientVars>>
             ELSE ApplyDNSRecords(waiting[i].changes)
          /\ waiting' = RemoveAt(waiting, i)
          /\ IF pc' = "idle"
             THEN /\ running' = "nobody"
                  /\ xdns' = IF waiting[i].poster = "waits" THEN "idle" ELSE xdns
             ELSE running' = waiting[i].poster /\ UNCHANGED xdns
  BY DEF Lock
<1>3. waiting[i].poster \in Poster
  <2> HIDE DEF Sent
  <2>1. waiting[i] \in Sent
    BY <1>1, ElementType
  <2>2. QED
    BY <2>1 DEF Sent
<1> HIDE DEF Sent
<1>4. /\ waiting' \in Seq(Sent)
      /\ \A d \in DOMAIN waiting' : \E j \in DOMAIN waiting : waiting'[d] = waiting[j]
  BY <1>1, <1>2, RemovedAt
<1>5. \A d \in DOMAIN waiting' : AllValid(waiting'[d].changes.add)
  BY <1>4 DEF PlannedInv
<1>6. AllValid(toAdd')
  <2>1. CASE waiting[i].changes = NoChanges
    BY <1>2, <2>1 DEF Return, AllValid
  <2>2. CASE waiting[i].changes # NoChanges
    BY <1>2, <2>2 DEF ApplyDNSRecords, PlannedInv, AllValid
  <2>3. QED
    BY <2>1, <2>2
<1>7. LoopTypeOK'
  <2>1. running' \in Poster \cup {"nobody"} /\ (running' = "nobody" <=> pc' = "idle")
    BY <1>2, <1>3 DEF Poster
  <2>2. xdns' \in {"idle", "planning", "posted"}
    BY <1>1, <1>2
  <2>3. /\ desired' \in Desired /\ trouble' \in 0 .. MaxTrouble
        /\ \A ep \in current' : ep \in Endpoint
    BY <1>1 DEF PlannedInv, LoopTypeOK
  <2>4. QED
    BY <1>4, <2>1, <2>2, <2>3 DEF LoopTypeOK, Sent
<1>8. QED
  BY <1>1, <1>5, <1>6, <1>7 DEF PlannedInv

LEMMA ApplyPlanned ==
    ASSUME PlannedInv, TypeInv', Work \/ Trouble, Answering,
           UNCHANGED <<desired, current, waiting>>, trouble' \in 0 .. MaxTrouble
    PROVE  PlannedInv'
<1>1. AllValid(toAdd')
  BY WorkKeepsValid DEF PlannedInv
<1>2. running \in Poster
  BY WorkIsStep DEF PlannedInv, LoopTypeOK
<1>3. /\ running' \in Poster \cup {"nobody"} /\ (running' = "nobody" <=> pc' = "idle")
      /\ xdns' \in {"idle", "planning", "posted"}
  BY <1>2 DEF Answering, PlannedInv, LoopTypeOK, Poster
<1>4. LoopTypeOK'
  BY <1>3 DEF PlannedInv, LoopTypeOK
<1>5. QED
  BY <1>1, <1>4 DEF PlannedInv, AllValid

\* ExternalDNS gives up, or the webhook is restarted.
LEMMA EndingPlanned ==
    ASSUME PlannedInv, TypeInv', GiveUp \/ WebhookRestarts, trouble' \in 0 .. MaxTrouble
    PROVE  PlannedInv'
<1> DEFINE Sent == [changes : [remove : Seq(DNSRecord), add : Seq(DNSRecord)], poster : Poster]
<1>1. waiting \in Seq(Sent)
  BY DEF PlannedInv, LoopTypeOK
<1>2. CASE GiveUp
  <2>1. UNCHANGED <<pc, toAdd, desired, current>> /\ xdns' = "idle"
        /\ running' = (IF running = "nobody" THEN "nobody" ELSE "gone")
        /\ waiting' = [i \in DOMAIN waiting |-> [waiting[i] EXCEPT !.poster = "gone"]]
    BY <1>2 DEF GiveUp, vars, localVars
  <2>2. ASSUME NEW p \in Sent
        PROVE  [p EXCEPT !.poster = "gone"] \in Sent
               /\ [p EXCEPT !.poster = "gone"].changes = p.changes
    BY DEF Poster
  <2> HIDE DEF Sent
  <2>3. /\ waiting' \in Seq(Sent)
        /\ \A i \in DOMAIN waiting' :
               i \in DOMAIN waiting /\ waiting'[i].changes = waiting[i].changes
    <3>1. /\ Len(waiting) \in Nat /\ DOMAIN waiting = 1 .. Len(waiting)
          /\ \A i \in DOMAIN waiting : waiting[i] \in Sent
      BY <1>1, ElementType
    <3>2. /\ waiting' \in [1 .. Len(waiting) -> Sent]
          /\ \A i \in 1 .. Len(waiting) : waiting'[i].changes = waiting[i].changes
      BY <2>1, <2>2, <3>1
    <3>3. QED
      BY <3>1, <3>2
  <2>4. LoopTypeOK'
    BY <2>1, <2>3 DEF PlannedInv, LoopTypeOK, Poster, Sent
  <2>5. QED
    BY <2>1, <2>3, <2>4 DEF PlannedInv, AllValid
<1>3. CASE WebhookRestarts
  <2>1. /\ UNCHANGED <<desired, current>> /\ waiting' = <<>> /\ running' = "nobody"
        /\ xdns' = (IF xdns = "posted" THEN "idle" ELSE xdns)
        /\ pc' = "idle" /\ toAdd' \in {toAdd, <<>>}
    BY <1>3 DEF WebhookRestarts, Restart, Return, localVars
  <2>2. <<>> \in Seq(Sent)
    OBVIOUS
  <2>3. LoopTypeOK'
    BY <2>1, <2>2 DEF PlannedInv, LoopTypeOK
  <2>4. QED
    BY <2>1, <2>3 DEF PlannedInv, AllValid
<1>4. QED
  BY <1>2, <1>3

LEMMA PlannedStep ==
    ASSUME PlannedInv, [LoopNext]_allVars
    PROVE  PlannedInv'
<1>1. TypeInv'
  BY LoopIsAny, TypeStep DEF PlannedInv
<1>2. ASSUME UNCHANGED <<pc, toAdd, current, waiting, running>>, desired' \in Desired,
             xdns' \in {"idle", "planning", "posted"}, trouble' \in 0 .. MaxTrouble
      PROVE  PlannedInv'
  <2>1. LoopTypeOK'
    BY <1>2 DEF PlannedInv, LoopTypeOK
  <2>2. QED
    BY <1>1, <1>2, <2>1 DEF PlannedInv, AllValid
<1>3. /\ desired \in Desired /\ xdns \in {"idle", "planning", "posted"}
      /\ trouble \in 0 .. MaxTrouble /\ MaxTrouble \in Nat
  BY TroubleAssumption DEF PlannedInv, LoopTypeOK
<1>4. CASE UNCHANGED allVars
  BY <1>2, <1>3, <1>4 DEF allVars, vars, localVars, loopVars
<1>5. CASE GetRecords
  BY <1>1, <1>5, GetRecordsPlanned
<1>6. CASE Post
  BY <1>1, <1>6, PostPlanned
<1>7. CASE Lock
  BY <1>1, <1>7, LockPlanned
<1>8. CASE Apply
  BY <1>1, <1>3, <1>8, ApplyPlanned DEF Apply
<1>9. CASE AbandonedEnds
  BY <1>2, <1>3, <1>9 DEF AbandonedEnds, Expire, loopVars, localVars
<1>10. CASE Disturb
  <2>1. trouble' \in 0 .. MaxTrouble
    BY <1>3, <1>10 DEF Disturb
  <2>2. CASE ApplyFails
    BY <1>1, <2>1, <2>2, ApplyPlanned DEF ApplyFails
  <2>3. CASE SessionEnds
    BY <1>2, <1>3, <2>1, <2>3 DEF SessionEnds, Expire, loopVars, localVars
  <2>4. CASE GiveUp \/ WebhookRestarts
    BY <1>1, <2>1, <2>4, EndingPlanned
  <2>5. CASE DesiredChanges
    BY <1>2, <1>3, <2>1, <2>5 DEF DesiredChanges, vars, localVars
  <2>6. CASE RouterEdited
    BY <1>2, <1>3, <2>1, <2>6 DEF RouterEdited, Edit, loopVars, localVars
  <2>7. QED
    BY <1>10, <2>2, <2>3, <2>4, <2>5, <2>6 DEF Disturb
<1>11. QED
  BY <1>4, <1>5, <1>6, <1>7, <1>8, <1>9, <1>10 DEF LoopNext

LEMMA PlannedInvariant == LoopSpec => []PlannedInv
BY InitPlanned, PlannedStep, PTL DEF LoopSpec

\* The loop keeps its types, and applyMu is held as long as a change set runs
\* (webhook.go:52-61).
THEOREM LoopTypeCorrect == LoopSpec => []LoopTypeOK
<1>1. PlannedInv => LoopTypeOK
  BY DEF PlannedInv
<1>2. QED
  BY <1>1, PlannedInvariant, PTL

\* Whatever the cluster asks for and whatever goes wrong, no change set that a plan
\* leads to holds a record that cannot be written (provider.go:68-83).
THEOREM NothingJams == LoopSpec => []NeverJams
<1>1. PlannedInv => NeverJams
  <2> SUFFICES ASSUME PlannedInv, Adding PROVE Validate(toAdd[1])
    BY DEF NeverJams, Wanted
  <2>1. toAdd \in Seq(DNSRecord) /\ toAdd # <<>>
    BY DEF PlannedInv, TypeInv, TypeOK, Adding
  <2>2. 1 \in DOMAIN toAdd
    BY <2>1
  <2>3. QED
    BY <2>2 DEF PlannedInv, AllValid
<1>2. QED
  BY <1>1, PlannedInvariant, PTL

\* What the goroutine relies on when it applies is there in the whole loop as well:
\* with change sets planned on a stale answer, posted by a process that is gone, and
\* somebody else at the router, an apply commits its own change set and no other
\* (openwrt.go:175-182).
THEOREM LoopStagesItsOwn == LoopSpec => []StagedIsIssued
<1>1. LoopInit => StagingInv
  BY InitStaging DEF LoopInit
<1>2. PlannedInv /\ StagingInv /\ [LoopNext]_allVars => StagingInv'
  <2> SUFFICES ASSUME PlannedInv, StagingInv, [LoopNext]_allVars PROVE StagingInv'
    OBVIOUS
  <2>1. TypeInv /\ [AnyNext]_vars /\ TypeInv'
    BY LoopIsAny, PlannedStep DEF PlannedInv
  <2>2. QED
    BY <2>1, StagingStep
<1>3. StagingInv => StagedIsIssued
  BY DEF StagingInv
<1>4. QED
  BY <1>1, <1>2, <1>3, PlannedInvariant, PTL DEF LoopSpec

\* In the whole loop, too, no section takes the place of another
\* (openwrt.go:356-359).
THEOREM LoopReplacesNothing == LoopSpec => AddsReplaceNothing
<1>1. LoopInit => AddInv
  BY DEF LoopInit, Init, AddInv, NothingStaged, Keep
<1>2. PlannedInv /\ AddInv /\ [LoopNext]_allVars => AddInv'
  BY LoopIsAny, AddStep DEF PlannedInv
<1>3. PlannedInv /\ AddInv /\ [LoopNext]_allVars =>
          [\A s \in Section :
              pc = "apply" /\ pc' = "idle" /\ dhcp[s] # Absent /\ dhcp'[s] # Absent
                  => dhcp'[s] = [dhcp[s] EXCEPT !.Owner = dhcp'[s].Owner]]_vars
  BY LoopIsAny, KeepsSections DEF PlannedInv
<1>4. QED
  BY <1>1, <1>2, <1>3, PlannedInvariant, PTL DEF LoopSpec, AddsReplaceNothing

-----------------------------------------------------------------------------
(* How often a key is planned.                                             *)

\* What a record of this key could be a target of.
OfRow(ep, key) == ep.RecordType = key[1] /\ Canon[ep.DNSName] = key[2]

AllSupported(endpoints) == \A i \in DOMAIN endpoints : Supported(endpoints[i])

LEMMA KeysOfEndpoint ==
    ASSUME NEW ep \in Endpoint, Supported(ep)
    PROVE  \A j \in DOMAIN ep.Targets :
               Key(records(ep)[j]) =
                   <<ep.RecordType, Canon[ep.DNSName],
                     IF ep.RecordType = "CNAME" THEN Canon[ep.Targets[j]] ELSE ep.Targets[j]>>
BY RecordsOf DEF Key

LEMMA KeysAreOfRow ==
    ASSUME NEW ep \in Endpoint, Supported(ep), NEW key, ~ OfRow(ep, key)
    PROVE  \A j \in DOMAIN records(ep) : Key(records(ep)[j]) # key
<1> SUFFICES ASSUME NEW j \in DOMAIN records(ep), Key(records(ep)[j]) = key PROVE FALSE
  OBVIOUS
<1>1. j \in DOMAIN ep.Targets
  BY RecordsOf
<1>2. Key(records(ep)[j])[1] = ep.RecordType /\ Key(records(ep)[j])[2] = Canon[ep.DNSName]
  BY <1>1, KeysOfEndpoint
<1>3. QED
  BY <1>2 DEF OfRow

\* A key is counted as often as the one endpoint of its row has it.
LEMMA CountInRow ==
    ASSUME NEW endpoints \in Seq(Endpoint), AllSupported(endpoints), NEW key,
           NEW i \in DOMAIN endpoints,
           \A n \in DOMAIN endpoints : OfRow(endpoints[n], key) => n = i
    PROVE  Count(key, endpoints2DNSRecords(endpoints)) = Count(key, records(endpoints[i]))
<1> DEFINE lists == RecordLists(endpoints)
<1>1. /\ lists \in Seq(Seq(DNSRecord)) /\ DOMAIN lists = DOMAIN endpoints
      /\ endpoints2DNSRecords(endpoints) = FlattenSeq(lists)
  BY RecordListsType
<1>2. \A n \in DOMAIN endpoints :
          endpoints[n] \in Endpoint /\ Supported(endpoints[n]) /\ lists[n] = records(endpoints[n])
  BY DEF RecordLists, AllSupported
<1> HIDE DEF lists
<1>3. \A n \in DOMAIN lists : \A j \in DOMAIN lists[n] : Key(lists[n][j]) = key => n = i
  BY <1>1, <1>2, KeysAreOfRow
<1>4. Count(key, FlattenSeq(lists)) = Count(key, lists[i])
  BY <1>1, <1>3, CountOfOne
<1>5. QED
  BY <1>1, <1>2, <1>4

LEMMA CountOffRow ==
    ASSUME NEW endpoints \in Seq(Endpoint), AllSupported(endpoints), NEW key,
           \A n \in DOMAIN endpoints : ~ OfRow(endpoints[n], key)
    PROVE  Count(key, endpoints2DNSRecords(endpoints)) = 0
<1> DEFINE flat == endpoints2DNSRecords(endpoints)
<1>1. flat \in Seq(DNSRecord)
  BY RecordsPlanned
<1>2. \A d \in DOMAIN flat :
          \E i \in DOMAIN endpoints : \E j \in DOMAIN endpoints[i].Targets :
              Supported(endpoints[i]) /\ flat[d] = records(endpoints[i])[j]
  BY RecordsPlanned
<1>3. ASSUME NEW i \in DOMAIN endpoints, NEW j \in DOMAIN endpoints[i].Targets
      PROVE  Key(records(endpoints[i])[j]) # key
  <2>1. endpoints[i] \in Endpoint /\ Supported(endpoints[i])
    BY DEF AllSupported
  <2>2. j \in DOMAIN records(endpoints[i])
    BY <2>1, RecordsOf
  <2>3. QED
    BY <2>1, <2>2, KeysAreOfRow
<1> HIDE DEF flat
<1>4. \A d \in DOMAIN flat : Key(flat[d]) # key
  BY <1>2, <1>3
<1>5. Count(key, flat) = 0
  BY <1>1, <1>4, CountType
<1>6. QED
  BY <1>5 DEF flat

\* What is asked for, once AdjustEndpoints has gone over it.
Representable(left) ==
    /\ left \in Seq(Endpoint) /\ AllSupported(left)
    /\ \A i \in DOMAIN left :
           ~ Rejected(left[i]) /\ left[i].Extra = {} /\ IsInjective(left[i].Targets)
    /\ \A i, j \in DOMAIN left :
           Canon[left[i].DNSName] = Canon[left[j].DNSName] => i = j

LEMMA AdjustedIsRepresentable ==
    ASSUME NEW asked \in Desired
    PROVE  Representable(AdjustEndpoints(asked))
<1> DEFINE left == AdjustEndpoints(asked)
<1>1. /\ asked \in Seq(Endpoint)
      /\ \A i \in DOMAIN asked : IsInjective(asked[i].Targets)
      /\ \A i, j \in DOMAIN asked : Canon[asked[i].DNSName] = Canon[asked[j].DNSName] => i = j
  BY DesiredAssumption
<1>2. /\ left \in Seq(Endpoint)
      /\ \A i \in DOMAIN left :
             /\ Supported(left[i]) /\ ~ Rejected(left[i]) /\ left[i].Extra = {}
             /\ \E n \in DOMAIN asked : left[i].Targets = asked[n].Targets
      /\ \A i, j \in DOMAIN left : Canon[left[i].DNSName] = Canon[left[j].DNSName] => i = j
  BY <1>1, AdjustLeaves
<1> HIDE DEF left
<1>3. \A i \in DOMAIN left : IsInjective(left[i].Targets)
  BY <1>1, <1>2
<1>4. Representable(left)
  BY <1>2, <1>3 DEF Representable, AllSupported
<1>5. QED
  BY <1>4 DEF left

\* Of what is asked for a record is there once at most.
LEMMA WantedOnce ==
    ASSUME NEW left, Representable(left), NEW key
    PROVE  Count(key, endpoints2DNSRecords(left)) \in {0, 1}
<1>1. left \in Seq(Endpoint) /\ AllSupported(left)
  BY DEF Representable
<1>2. CASE \A n \in DOMAIN left : ~ OfRow(left[n], key)
  BY <1>1, <1>2, CountOffRow
<1>3. ASSUME NEW i \in DOMAIN left, OfRow(left[i], key)
      PROVE  Count(key, endpoints2DNSRecords(left)) \in {0, 1}
  <2> DEFINE ep == left[i]
             places == {j \in DOMAIN records(ep) : Key(records(ep)[j]) = key}
  <2>1. \A n \in DOMAIN left : OfRow(left[n], key) => n = i
    BY <1>3 DEF OfRow, Representable
  <2>2. Count(key, endpoints2DNSRecords(left)) = Count(key, records(ep))
    BY <1>1, <2>1, CountInRow
  <2>3. ep \in Endpoint /\ Supported(ep) /\ ~ Rejected(ep) /\ IsInjective(ep.Targets)
    BY DEF Representable, AllSupported
  <2> HIDE DEF ep
  <2>4. records(ep) \in Seq(DNSRecord) /\ DOMAIN records(ep) = DOMAIN ep.Targets
    BY <2>3, RecordsOf
  <2>5. ASSUME NEW a \in places, NEW b \in places PROVE a = b
    <3>1. a \in DOMAIN ep.Targets /\ b \in DOMAIN ep.Targets
      BY <2>4
    <3>2. CASE ep.RecordType = "CNAME"
      <4>1. /\ ep.Targets \in Seq(Name) \cup Seq(Value)
            /\ ~ (Len(ep.Targets) > 1)
        BY <2>3, <3>2 DEF Rejected, Endpoint
      <4>2. DOMAIN ep.Targets = 1 .. Len(ep.Targets) /\ Len(ep.Targets) \in Nat
        BY <4>1
      <4>3. QED
        BY <3>1, <4>1, <4>2
    <3>3. CASE ep.RecordType # "CNAME"
      <4>1. \A j \in DOMAIN ep.Targets :
                Key(records(ep)[j]) = <<ep.RecordType, Canon[ep.DNSName], ep.Targets[j]>>
        BY <2>3, <3>3, KeysOfEndpoint
      <4>2. <<ep.RecordType, Canon[ep.DNSName], ep.Targets[a]>>
                = <<ep.RecordType, Canon[ep.DNSName], ep.Targets[b]>>
        BY <3>1, <4>1
      <4>3. ep.Targets[a] = ep.Targets[b]
        BY <4>2
      <4>4. QED
        BY <2>3, <3>1, <4>3 DEF IsInjective
    <3>4. QED
      BY <3>2, <3>3
  <2>6. IsFiniteSet(places)
    BY <2>4, FinitePlaces, FS_Subset
  <2> HIDE DEF places
  <2>7. Cardinality(places) \in {0, 1}
    <3>1. CASE places = {}
      BY <3>1, FS_EmptySet
    <3>2. ASSUME NEW a \in places PROVE Cardinality(places) = 1
      <4>1. places = {a}
        BY <2>5
      <4>2. QED
        BY <4>1, FS_Singleton
    <3>3. QED
      BY <3>1, <3>2
  <2>8. QED
    BY <2>2, <2>7 DEF Count, places
<1>4. QED
  BY <1>2, <1>3

\* What Records reports is in a row of its own, and counts a key as often as this
\* provider has a section for it (provider.go:186-198, 207-212).
LEMMA RecordsRows ==
    ASSUME NEW config \in Config
    PROVE  /\ \A ep \in Records(config) :
                  Supported(ep) /\ Canon[ep.DNSName] = ep.DNSName
           /\ \A a, b \in Records(config) :
                  a.RecordType = b.RecordType /\ a.DNSName = b.DNSName => a = b
           /\ \A ep \in Records(config) : \A key :
                  OfRow(ep, key) =>
                      Count(key, records(ep)) = Cardinality(owned(newSectionIndex(config), key))
           /\ \A key : owned(newSectionIndex(config), key) # {} =>
                  \E ep \in Records(config) : OfRow(ep, key)
<1> DEFINE idx == newSectionIndex(config)
<1>1. \A ep \in Records(config) : \E s \in Managed(config) : ep = Answer(config, s)
  BY RecordsAre
<1>2. \A s \in Managed(config) : Answer(config, s) \in Records(config)
  BY RecordsAre
<1>3. ASSUME NEW s \in Managed(config)
      PROVE  /\ Answer(config, s).RecordType = idx[s].Type
             /\ Answer(config, s).DNSName = idx[s].Name
             /\ idx[s] \in DNSRecord /\ Canon[idx[s].Name] = idx[s].Name
             /\ Key(idx[s]) = <<idx[s].Type, idx[s].Name, idx[s].Value>>
             /\ idx[s].Type \in {"A", "CNAME"}
  <2>1. /\ Answer(config, s).RecordType = idx[s].Type /\ Answer(config, s).DNSName = idx[s].Name
        /\ idx[s] \in DNSRecord /\ s \in Section /\ idx[s] # Absent
    BY AnswerType DEF Managed
  <2>2. config[s] \in DNSRecord \cup {Absent} /\ idx[s] = parseSection(config[s])
    BY <2>1 DEF Config, newSectionIndex
  <2>3. config[s] \in DNSRecord /\ idx[s] = Canonical(config[s])
    BY <2>1, <2>2, ParsedSection
  <2>4. /\ idx[s].Name = Canon[config[s].Name]
        /\ idx[s].Type = "CNAME" => Canon[idx[s].Value] = idx[s].Value
        /\ Canon[idx[s].Name] = idx[s].Name
        /\ idx[s].Type \in {"A", "CNAME"}
    BY <2>3, CanonicalRecord, NameAssumption DEF DNSRecord
  <2>5. QED
    BY <2>1, <2>4 DEF Key
<1>4. \A ep \in Records(config) : Supported(ep) /\ Canon[ep.DNSName] = ep.DNSName
  BY <1>1, <1>3 DEF Supported
<1>5. ASSUME NEW a \in Records(config), NEW b \in Records(config),
             a.RecordType = b.RecordType, a.DNSName = b.DNSName
      PROVE  a = b
  <2>1. PICK s \in Managed(config) : a = Answer(config, s)
    BY <1>1
  <2>2. PICK t \in Managed(config) : b = Answer(config, t)
    BY <1>1
  <2>3. idx[s].Type = idx[t].Type /\ idx[s].Name = idx[t].Name
    BY <1>3, <1>5, <2>1, <2>2
  <2>4. Alike(config, s) = Alike(config, t)
    BY <2>3 DEF Alike
  <2>5. Answer(config, s) = Answer(config, t)
    BY <2>4 DEF Answer
  <2>6. QED
    BY <2>1, <2>2, <2>5
<1>6. ASSUME NEW ep \in Records(config), NEW key, OfRow(ep, key)
      PROVE  Count(key, records(ep)) = Cardinality(owned(idx, key))
  <2>1. PICK s \in Managed(config) : ep = Answer(config, s)
    BY <1>1
  <2> DEFINE g == Alike(config, s)
             order == SetToSeq(g)
             places == {j \in DOMAIN records(ep) : Key(records(ep)[j]) = key}
  <2>2. /\ ep \in Endpoint /\ Supported(ep) /\ IsFiniteSet(g)
        /\ ep.Targets = [i \in DOMAIN order |-> idx[order[i]].Value]
    BY <1>4, <2>1, AnswerType
  <2>3. /\ order \in Seq(g)
        /\ \A i, j \in DOMAIN order : order[i] = order[j] => i = j
        /\ \A t \in g : \E i \in DOMAIN order : order[i] = t
    BY <2>2, SetAsList
  <2>4. records(ep) \in Seq(DNSRecord) /\ DOMAIN records(ep) = DOMAIN order
    BY <2>2, RecordsOf
  <2>5. \A t \in g : t \in Managed(config) /\ idx[t].Type = ep.RecordType /\ idx[t].Name = ep.DNSName
    BY <1>3, <2>1 DEF Alike
  <2> HIDE DEF order
  <2>6. ASSUME NEW j \in DOMAIN order
        PROVE  Key(records(ep)[j]) = Key(idx[order[j]]) /\ order[j] \in g
    <3>1. order[j] \in g /\ ep.Targets[j] = idx[order[j]].Value /\ j \in DOMAIN ep.Targets
      BY <2>2, <2>3
    <3> DEFINE t == order[j]
    <3> HIDE DEF t, g
    <3>2. /\ t \in Managed(config) /\ idx[t].Type = ep.RecordType /\ idx[t].Name = ep.DNSName
          /\ ep.Targets[j] = idx[t].Value
      BY <2>5, <3>1 DEF t
    <3>3. /\ records(ep)[j].Type = idx[t].Type /\ records(ep)[j].Name = idx[t].Name
          /\ records(ep)[j].Value = idx[t].Value
      BY <2>2, <3>1, <3>2, RecordsOf
    <3>4. Key(records(ep)[j]) = Key(idx[t])
      BY <3>3 DEF Key
    <3>5. QED
      BY <3>1, <3>4 DEF t
  <2>7. owned(idx, key) = {t \in g : Key(idx[t]) = key}
    <3>1. ASSUME NEW t \in owned(idx, key) PROVE t \in g
      <4>1. t \in Managed(config) /\ Key(idx[t]) = key
        BY DEF owned, Matching, Managed
      <4>2. Key(idx[t])[1] = idx[t].Type /\ Key(idx[t])[2] = idx[t].Name
        BY <1>3, <4>1
      <4>3. idx[t].Type = ep.RecordType /\ idx[t].Name = ep.DNSName
        BY <1>4, <1>6, <4>1, <4>2 DEF OfRow
      <4>4. QED
        BY <1>3, <2>1, <4>1, <4>3 DEF Alike
    <3>2. ASSUME NEW t \in g, Key(idx[t]) = key PROVE t \in owned(idx, key)
      BY <2>5, <3>2 DEF owned, Matching, Managed
    <3>3. \A t \in owned(idx, key) : Key(idx[t]) = key
      BY DEF owned, Matching
    <3>4. QED
      BY <3>1, <3>2, <3>3
  <2>8. IsFiniteSet(places)
    BY <2>4, FinitePlaces, FS_Subset
  <2> DEFINE h == [j \in places |-> order[j]]
             sections == {t \in g : Key(idx[t]) = key}
  <2>9. h \in [places -> sections]
    BY <2>4, <2>6
  <2>10. \A a, b \in places : h[a] = h[b] => a = b
    BY <2>3, <2>4
  <2>11. \A t \in sections : \E a \in places : h[a] = t
    <3> SUFFICES ASSUME NEW t \in sections PROVE \E a \in places : h[a] = t
      OBVIOUS
    <3>1. PICK j \in DOMAIN order : order[j] = t
      BY <2>3
    <3>2. j \in places
      BY <2>4, <2>6, <3>1
    <3>3. QED
      BY <3>1, <3>2
  <2> HIDE DEF h, places, sections
  <2>12. Cardinality(places) = Cardinality(sections)
    BY <2>8, <2>9, <2>10, <2>11, AsMany
  <2>13. QED
    BY <2>7, <2>12 DEF Count, places, sections
<1>7. ASSUME NEW key, owned(idx, key) # {}
      PROVE  \E ep \in Records(config) : OfRow(ep, key)
  <2>1. PICK s \in Managed(config) : Key(idx[s]) = key
    BY <1>7 DEF owned, Matching, Managed
  <2>2. Key(idx[s])[1] = idx[s].Type /\ Key(idx[s])[2] = idx[s].Name
    BY <1>3
  <2>3. OfRow(Answer(config, s), key)
    BY <1>3, <2>1, <2>2 DEF OfRow
  <2>4. QED
    BY <1>2, <2>3
<1>8. QED
  BY <1>4, <1>5, <1>6, <1>7

\* Between what Records reports and what is asked for, a row holds one of each.
LEMMA OneInRow ==
    ASSUME NEW config \in Config, NEW left, Representable(left), NEW i \in DOMAIN left
    PROVE  /\ \A a, b \in InRow(Records(config), left[i]) : a = b
           /\ \A ep \in Records(config) :
                  ep \in InRow(Records(config), left[i])
                      <=> /\ ep.RecordType = left[i].RecordType
                          /\ ep.DNSName = Canon[left[i].DNSName]
           /\ \A a \in InRow(Records(config), left[i]) : KeptIn(Records(config), left[i]) = a
<1>1. \A ep \in Records(config) :
          SameRow(ep, left[i]) <=> /\ ep.RecordType = left[i].RecordType
                                   /\ ep.DNSName = Canon[left[i].DNSName]
  BY RecordsRows DEF SameRow, Representable
<1>2. \A a, b \in InRow(Records(config), left[i]) : a = b
  BY <1>1, RecordsRows DEF InRow
<1>3. QED
  BY <1>1, <1>2 DEF InRow, KeptIn

\* The endpoints whose records a plan removes, and those whose records it adds.
TakenAway(there, left) == Plan(there, left).Delete \o Plan(there, left).UpdateOld
BroughtIn(there, left) == Plan(there, left).Create \o Plan(there, left).UpdateNew

\* A list holds, once each, what nobody asks for and what differs from what is asked for.
Removes(there, left, removed) ==
    /\ removed \in Seq(Endpoint)
    /\ \A n \in DOMAIN removed :
           /\ removed[n] \in there
           /\ \/ removed[n] \in Unasked(there, left)
              \/ \E i \in Outdated(there, left) : removed[n] \in InRow(there, left[i])
    /\ \A m, n \in DOMAIN removed : removed[m] = removed[n] => m = n
    /\ \A ep \in Unasked(there, left) : \E n \in DOMAIN removed : removed[n] = ep
    /\ \A i \in Outdated(there, left) : \A ep \in InRow(there, left[i]) :
           \E n \in DOMAIN removed : removed[n] = ep

\* What a plan takes away.
LEMMA PlannedRemovals ==
    ASSUME NEW config \in Config, NEW left, Representable(left),
           NEW there, there = Records(config), NEW removed, removed = TakenAway(there, left)
    PROVE  Removes(there, left, removed)
<1> DEFINE plan == Plan(there, left)
           gone == Unasked(there, left)
           U == Outdated(there, left)
           update == Without(left, U)
           a == SetToSeq(gone)
           b == [d \in DOMAIN update |-> KeptIn(there, update[d])]
<1>1. /\ left \in Seq(Endpoint)
      /\ \A i, j \in DOMAIN left : left[i] = left[j] => i = j
  BY DEF Representable
<1>2. IsFiniteSet(there) /\ \A ep \in there : ep \in Endpoint
  BY RecordsType
<1>3. plan.Delete = a /\ plan.UpdateOld = b
  BY PlanIs
<1>4. a \in Seq(Endpoint) /\ b \in Seq(Endpoint)
  BY <1>1, <1>2, <1>3, PlanType
<1>5. /\ \A d \in DOMAIN a : a[d] \in gone
      /\ \A c, d \in DOMAIN a : a[c] = a[d] => c = d
      /\ \A ep \in gone : \E d \in DOMAIN a : a[d] = ep
  <2>1. IsFiniteSet(gone)
    BY <1>2, FS_Subset DEF Unasked
  <2> HIDE DEF gone
  <2>2. QED
    BY <2>1, SetAsList, ElementType
<1>6. U \in SUBSET DOMAIN left
  BY DEF Outdated
<1>7. /\ \A d \in DOMAIN update : \E i \in U : update[d] = left[i]
      /\ \A i \in U : \E d \in DOMAIN update : update[d] = left[i]
      /\ \A c, d \in DOMAIN update : update[c] = update[d] => c = d
  <2> HIDE DEF U
  <2>1. \A i, j \in U : left[i] = left[j] => i = j
    BY <1>1, <1>6
  <2>2. QED
    BY <1>1, <1>6, <2>1, WithoutElements, WithoutOnce
<1>8. \A i \in U : /\ InRow(there, left[i]) # {}
                   /\ \A ep \in InRow(there, left[i]) : KeptIn(there, left[i]) = ep
  BY <1>6, OneInRow DEF Outdated
<1>9. /\ \A ep \in gone : ep \in there /\ \A i \in DOMAIN left : ep \notin InRow(there, left[i])
      /\ \A i \in DOMAIN left : InRow(there, left[i]) \subseteq there
  BY DEF Unasked, InRow
<1> HIDE DEF gone, U, update, a
<1>10. ASSUME NEW d \in DOMAIN b
       PROVE  \E i \in U : update[d] = left[i] /\ b[d] \in InRow(there, left[i])
  <2>1. PICK i \in U : update[d] = left[i]
    BY <1>7
  <2>2. QED
    BY <1>8, <2>1
<1>11. \A i \in U : \A ep \in InRow(there, left[i]) : \E d \in DOMAIN b : b[d] = ep
  <2> SUFFICES ASSUME NEW i \in U, NEW ep \in InRow(there, left[i])
               PROVE  \E d \in DOMAIN b : b[d] = ep
    OBVIOUS
  <2>1. PICK d \in DOMAIN update : update[d] = left[i]
    BY <1>7
  <2>2. b[d] = ep
    BY <1>8, <2>1
  <2>3. QED
    BY <2>1, <2>2
<1>12. \A c, d \in DOMAIN b : b[c] = b[d] => c = d
  <2> SUFFICES ASSUME NEW c \in DOMAIN b, NEW d \in DOMAIN b, b[c] = b[d] PROVE c = d
    OBVIOUS
  <2>1. PICK i \in U : update[c] = left[i] /\ b[c] \in InRow(there, left[i])
    BY <1>10
  <2>2. PICK j \in U : update[d] = left[j] /\ b[d] \in InRow(there, left[j])
    BY <1>10
  <2>3. Canon[left[i].DNSName] = Canon[left[j].DNSName]
    <3>1. b[c] \in there
      BY <1>6, <1>9, <2>1
    <3>2. b[c].DNSName = Canon[left[i].DNSName] /\ b[c].DNSName = Canon[left[j].DNSName]
      BY <1>6, <2>1, <2>2, <3>1, OneInRow
    <3>3. QED
      BY <3>2
  <2>4. i = j
    BY <1>6, <2>3 DEF Representable
  <2>5. QED
    BY <1>7, <2>1, <2>2, <2>4
<1>13. \A c \in DOMAIN a, d \in DOMAIN b : a[c] # b[d]
  BY <1>5, <1>6, <1>9, <1>10
<1> HIDE DEF b
<1>14. /\ a \o b \in Seq(Endpoint)
       /\ \A d \in DOMAIN a : d \in DOMAIN (a \o b) /\ (a \o b)[d] = a[d]
       /\ \A d \in DOMAIN b : Len(a) + d \in DOMAIN (a \o b) /\ (a \o b)[Len(a) + d] = b[d]
       /\ \A d \in DOMAIN (a \o b) :
              \/ d \in DOMAIN a /\ (a \o b)[d] = a[d]
              \/ d - Len(a) \in DOMAIN b /\ (a \o b)[d] = b[d - Len(a)]
  BY <1>4, Appended
<1>15. \A m, n \in DOMAIN (a \o b) : (a \o b)[m] = (a \o b)[n] => m = n
  BY <1>4, <1>5, <1>12, <1>13, AppendedOnce
<1>16. removed = a \o b
  BY <1>3 DEF TakenAway
<1>17. \A n \in DOMAIN removed :
           /\ removed[n] \in there
           /\ removed[n] \in gone \/ \E i \in U : removed[n] \in InRow(there, left[i])
  <2> SUFFICES ASSUME NEW n \in DOMAIN removed
               PROVE  \/ removed[n] \in gone
                      \/ \E i \in U : removed[n] \in InRow(there, left[i])
    BY <1>6, <1>9
  <2>1. CASE n \in DOMAIN a /\ removed[n] = a[n]
    BY <1>5, <2>1
  <2>2. CASE n - Len(a) \in DOMAIN b /\ removed[n] = b[n - Len(a)]
    BY <1>10, <2>2
  <2>3. QED
    BY <1>14, <1>16, <2>1, <2>2
<1>18. \A ep \in gone : \E n \in DOMAIN removed : removed[n] = ep
  BY <1>5, <1>14, <1>16
<1>19. \A i \in U : \A ep \in InRow(there, left[i]) : \E n \in DOMAIN removed : removed[n] = ep
  <2> SUFFICES ASSUME NEW i \in U, NEW ep \in InRow(there, left[i])
               PROVE  \E n \in DOMAIN removed : removed[n] = ep
    OBVIOUS
  <2>1. PICK d \in DOMAIN b : b[d] = ep
    BY <1>11
  <2>2. Len(a) + d \in DOMAIN removed /\ removed[Len(a) + d] = ep
    BY <1>14, <1>16, <2>1
  <2>3. QED
    BY <2>2
<1>20. QED
  BY <1>14, <1>15, <1>16, <1>17, <1>18, <1>19 DEF Removes, gone, U

\* What a plan adds: what has nothing in its row, and what differs from what has.
LEMMA PlannedAdditions ==
    ASSUME NEW config \in Config, NEW left, Representable(left),
           NEW there, there = Records(config), NEW added, added = BroughtIn(there, left)
    PROVE  /\ added \in Seq(Endpoint)
           /\ \A n \in DOMAIN added :
                  \E i \in Missing(there, left) \cup Outdated(there, left) : added[n] = left[i]
           /\ \A m, n \in DOMAIN added : added[m] = added[n] => m = n
           /\ \A i \in Missing(there, left) \cup Outdated(there, left) :
                  \E n \in DOMAIN added : added[n] = left[i]
<1> DEFINE C == Missing(there, left)
           U == Outdated(there, left)
           a == Without(left, C)
           b == Without(left, U)
<1>1. /\ left \in Seq(Endpoint)
      /\ \A i, j \in DOMAIN left : left[i] = left[j] => i = j
  BY DEF Representable
<1>2. added = a \o b
  <2>1. Plan(there, left) =
            [Create |-> a, UpdateOld |-> [d \in DOMAIN b |-> KeptIn(there, b[d])],
             UpdateNew |-> b, Delete |-> SetToSeq(Unasked(there, left))]
    BY PlanIs
  <2> HIDE DEF a, b
  <2>2. Plan(there, left).Create = a /\ Plan(there, left).UpdateNew = b
    BY <2>1
  <2>3. QED
    BY <2>2 DEF BroughtIn
<1>3. C \in SUBSET DOMAIN left /\ U \in SUBSET DOMAIN left /\ C \cap U = {}
  BY DEF Missing, Outdated
<1> HIDE DEF C, U
<1>4. /\ a \in Seq(Endpoint)
      /\ \A d \in DOMAIN a : \E i \in C : a[d] = left[i]
      /\ \A i \in C : \E d \in DOMAIN a : a[d] = left[i]
      /\ \A c, d \in DOMAIN a : a[c] = a[d] => c = d
  <2>1. \A i, j \in C : left[i] = left[j] => i = j
    BY <1>1, <1>3
  <2>2. QED
    BY <1>1, <1>3, <2>1, WhatPasses, WithoutElements, WithoutOnce
<1>5. /\ b \in Seq(Endpoint)
      /\ \A d \in DOMAIN b : \E i \in U : b[d] = left[i]
      /\ \A i \in U : \E d \in DOMAIN b : b[d] = left[i]
      /\ \A c, d \in DOMAIN b : b[c] = b[d] => c = d
  <2>1. \A i, j \in U : left[i] = left[j] => i = j
    BY <1>1, <1>3
  <2>2. QED
    BY <1>1, <1>3, <2>1, WhatPasses, WithoutElements, WithoutOnce
<1> HIDE DEF a, b
<1>6. \A c \in DOMAIN a, d \in DOMAIN b : a[c] # b[d]
  <2> SUFFICES ASSUME NEW c \in DOMAIN a, NEW d \in DOMAIN b, a[c] = b[d] PROVE FALSE
    OBVIOUS
  <2>1. PICK i \in C : a[c] = left[i]
    BY <1>4
  <2>2. PICK j \in U : b[d] = left[j]
    BY <1>5
  <2>3. i = j
    BY <1>1, <1>3, <2>1, <2>2
  <2>4. QED
    BY <1>3, <2>3
<1>7. /\ a \o b \in Seq(Endpoint)
      /\ \A d \in DOMAIN a : d \in DOMAIN (a \o b) /\ (a \o b)[d] = a[d]
      /\ \A d \in DOMAIN b : Len(a) + d \in DOMAIN (a \o b) /\ (a \o b)[Len(a) + d] = b[d]
      /\ \A d \in DOMAIN (a \o b) :
             \/ d \in DOMAIN a /\ (a \o b)[d] = a[d]
             \/ d - Len(a) \in DOMAIN b /\ (a \o b)[d] = b[d - Len(a)]
  BY <1>4, <1>5, Appended
<1>8. \A m, n \in DOMAIN (a \o b) : (a \o b)[m] = (a \o b)[n] => m = n
  BY <1>4, <1>5, <1>6, AppendedOnce
<1>9. \A n \in DOMAIN added : \E i \in C \cup U : added[n] = left[i]
  <2> SUFFICES ASSUME NEW n \in DOMAIN added PROVE \E i \in C \cup U : added[n] = left[i]
    OBVIOUS
  <2>1. CASE n \in DOMAIN a /\ added[n] = a[n]
    BY <1>4, <2>1
  <2>2. CASE n - Len(a) \in DOMAIN b /\ added[n] = b[n - Len(a)]
    <3>1. PICK d \in DOMAIN b : added[n] = b[d]
      BY <2>2
    <3>2. PICK i \in U : b[d] = left[i]
      BY <1>5
    <3>3. QED
      BY <3>1, <3>2
  <2>3. QED
    BY <1>2, <1>7, <2>1, <2>2
<1>10. ASSUME NEW i \in C \cup U PROVE \E n \in DOMAIN added : added[n] = left[i]
  <2>1. CASE i \in C
    <3>1. PICK d \in DOMAIN a : a[d] = left[i]
      BY <1>4, <2>1
    <3>2. QED
      BY <1>2, <1>7, <3>1
  <2>2. CASE i \in U
    <3>1. PICK d \in DOMAIN b : b[d] = left[i]
      BY <1>5, <2>2
    <3>2. Len(a) + d \in DOMAIN added /\ added[Len(a) + d] = left[i]
      BY <1>2, <1>7, <3>1
    <3>3. QED
      BY <3>2
  <2>3. QED
    BY <2>1, <2>2
<1>11. /\ added \in Seq(Endpoint)
       /\ \A m, n \in DOMAIN added : added[m] = added[n] => m = n
  BY <1>2, <1>7, <1>8
<1>12. \A i \in C \cup U : \E n \in DOMAIN added : added[n] = left[i]
  BY <1>10
<1>13. QED
  BY <1>9, <1>11, <1>12 DEF C, U

\* How often this provider has a section for a key, and how often it is asked for.
Own(config, key) == Cardinality(owned(newSectionIndex(config), key))
Want(left, key) == Count(key, endpoints2DNSRecords(left))

\* A plan that does not leave a key alone takes away all there is of it and adds all
\* that is wanted; one that does leaves as much as is wanted (provider.go:43-60).
LEMMA PlanOfKey ==
    ASSUME NEW config \in Config, NEW left, Representable(left),
           NEW plan, plan = Plan(Records(config), left), NEW key
    PROVE  \/ /\ Count(key, PlanRemoves(plan)) = Own(config, key)
              /\ Count(key, PlanAdds(plan)) = Want(left, key)
           \/ /\ Count(key, PlanRemoves(plan)) = 0 /\ Count(key, PlanAdds(plan)) = 0
              /\ Own(config, key) = Want(left, key)
<1> DEFINE there == Records(config)
           removed == TakenAway(there, left)
           added == BroughtIn(there, left)
           gone == Unasked(there, left)
           C == Missing(there, left)
           U == Outdated(there, left)
           R == Count(key, endpoints2DNSRecords(removed))
           A == Count(key, endpoints2DNSRecords(added))
<1>1. Count(key, PlanRemoves(plan)) = R /\ Count(key, PlanAdds(plan)) = A
  BY DEF PlanRemoves, PlanAdds, TakenAway, BroughtIn
<1>2. /\ removed \in Seq(Endpoint)
      /\ \A n \in DOMAIN removed :
             /\ removed[n] \in there
             /\ removed[n] \in gone \/ \E i \in U : removed[n] \in InRow(there, left[i])
      /\ \A m, n \in DOMAIN removed : removed[m] = removed[n] => m = n
      /\ \A ep \in gone : \E n \in DOMAIN removed : removed[n] = ep
      /\ \A i \in U : \A ep \in InRow(there, left[i]) : \E n \in DOMAIN removed : removed[n] = ep
  <2>1. removed = TakenAway(there, left) /\ there = Records(config)
    OBVIOUS
  <2> HIDE DEF removed, there, gone, U
  <2>2. Removes(there, left, removed)
    BY <2>1, PlannedRemovals
  <2>3. QED
    BY <2>2 DEF Removes, gone, U
<1>3. /\ added \in Seq(Endpoint)
      /\ \A n \in DOMAIN added : \E i \in C \cup U : added[n] = left[i]
      /\ \A m, n \in DOMAIN added : added[m] = added[n] => m = n
      /\ \A i \in C \cup U : \E n \in DOMAIN added : added[n] = left[i]
  <2>1. added = BroughtIn(there, left) /\ there = Records(config)
    OBVIOUS
  <2> HIDE DEF added, there, C, U
  <2>2. /\ added \in Seq(Endpoint)
        /\ \A m, n \in DOMAIN added : added[m] = added[n] => m = n
    BY <2>1, PlannedAdditions
  <2>3. /\ \A n \in DOMAIN added :
               \E i \in Missing(there, left) \cup Outdated(there, left) : added[n] = left[i]
        /\ \A i \in Missing(there, left) \cup Outdated(there, left) :
               \E n \in DOMAIN added : added[n] = left[i]
    BY <2>1, PlannedAdditions
  <2>4. QED
    BY <2>2, <2>3 DEF C, U
<1>4. /\ \A ep \in there : ep \in Endpoint /\ Supported(ep) /\ Canon[ep.DNSName] = ep.DNSName
      /\ \A a, b \in there : a.RecordType = b.RecordType /\ a.DNSName = b.DNSName => a = b
      /\ \A ep \in there : OfRow(ep, key) => Count(key, records(ep)) = Own(config, key)
      /\ owned(newSectionIndex(config), key) # {} => \E ep \in there : OfRow(ep, key)
  BY RecordsType, RecordsRows DEF Own
<1>5. /\ left \in Seq(Endpoint) /\ AllSupported(left)
      /\ \A i \in DOMAIN left : left[i] \in Endpoint /\ Supported(left[i])
      /\ \A i, j \in DOMAIN left : Canon[left[i].DNSName] = Canon[left[j].DNSName] => i = j
  BY DEF Representable, AllSupported
<1>6. \A i, j \in DOMAIN left : OfRow(left[i], key) /\ OfRow(left[j], key) => i = j
  BY <1>5 DEF OfRow
<1>7. \A i \in DOMAIN left : \A ep \in there :
          ep \in InRow(there, left[i])
              <=> ep.RecordType = left[i].RecordType /\ ep.DNSName = Canon[left[i].DNSName]
  BY OneInRow
<1>8. C \subseteq DOMAIN left /\ U \subseteq DOMAIN left
  BY DEF Missing, Outdated
<1>9. AllSupported(removed) /\ AllSupported(added)
  <2> HIDE DEF removed, added, there, C, U, gone
  <2>1. QED
    BY <1>2, <1>3, <1>4, <1>5, <1>8 DEF AllSupported
<1>10. \A i \in DOMAIN left : \A ep \in there :
           OfRow(ep, key) => (ep \in InRow(there, left[i]) <=> OfRow(left[i], key))
  BY <1>4, <1>7 DEF OfRow
<1>11. /\ C = {i \in DOMAIN left : InRow(there, left[i]) = {}}
       /\ gone = {ep \in there : \A i \in DOMAIN left : ep \notin InRow(there, left[i])}
       /\ \A i \in DOMAIN left : InRow(there, left[i]) \subseteq there
  BY DEF Missing, Unasked, InRow
<1> HIDE DEF removed, added, there, C, U, gone
<1>12. ASSUME NEW i \in DOMAIN left, OfRow(left[i], key)
       PROVE  Want(left, key) = Count(key, records(left[i]))
  BY <1>5, <1>6, <1>12, CountInRow DEF Want
<1>13. ASSUME \A i \in DOMAIN left : ~ OfRow(left[i], key)
       PROVE  Want(left, key) = 0 /\ A = 0
  <2>1. \A n \in DOMAIN added : ~ OfRow(added[n], key)
    BY <1>3, <1>8, <1>13
  <2>2. QED
    BY <1>3, <1>5, <1>9, <1>13, <2>1, CountOffRow DEF Want
<1>14. ASSUME NEW i \in C \cup U, OfRow(left[i], key)
       PROVE  A = Want(left, key)
  <2>1. PICK n \in DOMAIN added : added[n] = left[i]
    BY <1>3
  <2>2. \A m \in DOMAIN added : OfRow(added[m], key) => m = n
    <3> SUFFICES ASSUME NEW m \in DOMAIN added, OfRow(added[m], key) PROVE m = n
      OBVIOUS
    <3>1. PICK j \in C \cup U : added[m] = left[j]
      BY <1>3
    <3>2. i = j
      BY <1>6, <1>8, <1>14, <3>1
    <3>3. QED
      BY <1>3, <2>1, <3>1, <3>2
  <2>3. A = Count(key, records(left[i]))
    BY <1>3, <1>9, <2>1, <2>2, CountInRow
  <2>4. QED
    BY <1>8, <1>12, <1>14, <2>3
<1>15. ASSUME NEW ep \in there, OfRow(ep, key), NEW n \in DOMAIN removed, removed[n] = ep
       PROVE  R = Own(config, key)
  <2>1. \A m \in DOMAIN removed : OfRow(removed[m], key) => m = n
    <3> SUFFICES ASSUME NEW m \in DOMAIN removed, OfRow(removed[m], key) PROVE m = n
      OBVIOUS
    <3>1. removed[m] = ep
      BY <1>2, <1>4, <1>15 DEF OfRow
    <3>2. QED
      BY <1>2, <1>15, <3>1
  <2>2. R = Count(key, records(ep))
    BY <1>2, <1>9, <1>15, <2>1, CountInRow
  <2>3. QED
    BY <1>4, <1>15, <2>2
<1> HIDE DEF R, A
<1>16. CASE \A ep \in there : ~ OfRow(ep, key)
  <2>1. Own(config, key) = 0
    BY <1>4, <1>16, FS_EmptySet DEF Own
  <2>2. R = 0
    BY <1>2, <1>9, <1>16, CountOffRow DEF R
  <2>3. A = Want(left, key)
    <3>1. CASE \A i \in DOMAIN left : ~ OfRow(left[i], key)
      BY <1>13, <3>1
    <3>2. ASSUME NEW i \in DOMAIN left, OfRow(left[i], key) PROVE A = Want(left, key)
      <4>1. i \in C
        <5>1. \A ep \in there : ep \notin InRow(there, left[i])
          BY <1>4, <1>7, <1>16, <3>2 DEF OfRow
        <5>2. QED
          BY <1>11, <5>1
      <4>2. QED
        BY <1>14, <3>2, <4>1
    <3>3. QED
      BY <3>1, <3>2
  <2>4. QED
    BY <1>1, <2>1, <2>2, <2>3
<1>17. ASSUME NEW ep \in there, OfRow(ep, key)
       PROVE  \/ R = Own(config, key) /\ A = Want(left, key)
              \/ R = 0 /\ A = 0 /\ Own(config, key) = Want(left, key)
  <2>1. CASE \A i \in DOMAIN left : ~ OfRow(left[i], key)
    <3>1. ep \in gone
      BY <1>10, <1>11, <1>17, <2>1
    <3>2. PICK n \in DOMAIN removed : removed[n] = ep
      BY <1>2, <3>1
    <3>3. QED
      BY <1>13, <1>15, <1>17, <2>1, <3>2
  <2>2. ASSUME NEW i \in DOMAIN left, OfRow(left[i], key)
        PROVE  \/ R = Own(config, key) /\ A = Want(left, key)
               \/ R = 0 /\ A = 0 /\ Own(config, key) = Want(left, key)
    <3>1. ep \in InRow(there, left[i])
      BY <1>10, <1>17, <2>2
    <3>2. CASE i \in U
      <4>1. PICK n \in DOMAIN removed : removed[n] = ep
        BY <1>2, <3>1, <3>2
      <4>2. QED
        BY <1>14, <1>15, <1>17, <2>2, <3>2, <4>1
    <3>3. CASE i \notin U
      <4>1. ~ Differ(ep, left[i])
        BY <3>1, <3>3, OneInRow DEF U, Outdated, there
      <4>2. SameTargets(ep, left[i])
        BY <4>1 DEF Differ
      <4>3. Count(key, records(ep)) = Count(key, records(left[i]))
        <5>1. CASE \/ \E j \in DOMAIN ep.Targets : Key(records(ep)[j]) = key
                   \/ \E j \in DOMAIN left[i].Targets : Key(records(left[i])[j]) = key
          BY <4>2, <5>1 DEF SameTargets
        <5>2. CASE /\ \A j \in DOMAIN ep.Targets : Key(records(ep)[j]) # key
                   /\ \A j \in DOMAIN left[i].Targets : Key(records(left[i])[j]) # key
          <6>1. /\ records(ep) \in Seq(DNSRecord) /\ DOMAIN records(ep) = DOMAIN ep.Targets
                /\ records(left[i]) \in Seq(DNSRecord)
                /\ DOMAIN records(left[i]) = DOMAIN left[i].Targets
            BY <1>4, <1>5, RecordsOf
          <6>2. Count(key, records(ep)) = 0 /\ Count(key, records(left[i])) = 0
            BY <5>2, <6>1, CountType
          <6>3. QED
            BY <6>2
        <5>3. QED
          BY <5>1, <5>2
      <4>4. Own(config, key) = Want(left, key)
        BY <1>4, <1>12, <1>17, <2>2, <4>3
      <4>5. i \notin C
        BY <1>11, <3>1
      <4>6. \A n \in DOMAIN removed : ~ OfRow(removed[n], key)
        <5> SUFFICES ASSUME NEW n \in DOMAIN removed, OfRow(removed[n], key) PROVE FALSE
          OBVIOUS
        <5>1. removed[n] = ep
          BY <1>2, <1>4, <1>17 DEF OfRow
        <5>2. CASE removed[n] \in gone
          BY <1>11, <3>1, <5>1, <5>2
        <5>3. ASSUME NEW j \in U, removed[n] \in InRow(there, left[j]) PROVE FALSE
          <6>1. OfRow(left[j], key)
            BY <1>8, <1>10, <1>17, <5>1, <5>3
          <6>2. QED
            BY <1>6, <1>8, <2>2, <3>3, <6>1
        <5>4. QED
          BY <1>2, <5>2, <5>3
      <4>7. \A n \in DOMAIN added : ~ OfRow(added[n], key)
        <5> SUFFICES ASSUME NEW n \in DOMAIN added, OfRow(added[n], key) PROVE FALSE
          OBVIOUS
        <5>1. PICK j \in C \cup U : added[n] = left[j]
          BY <1>3
        <5>2. QED
          BY <1>6, <1>8, <2>2, <3>3, <4>5, <5>1
      <4>8. R = 0 /\ A = 0
        BY <1>2, <1>3, <1>9, <4>6, <4>7, CountOffRow DEF R, A
      <4>9. QED
        BY <4>4, <4>8
    <3>4. QED
      BY <3>2, <3>3
  <2>3. QED
    BY <2>1, <2>2
<1>18. QED
  BY <1>1, <1>16, <1>17

-----------------------------------------------------------------------------
(* One plan is enough.                                                     *)

\* What is posted for a plan: its records after cancelOut.
Posted(plan) == cancelOut(PlanRemoves(plan), PlanAdds(plan))

LEMMA PlannedRecordsType ==
    ASSUME NEW config \in Config, NEW left, Representable(left),
           NEW plan, plan = Plan(Records(config), left)
    PROVE  PlanRemoves(plan) \in Seq(DNSRecord) /\ PlanAdds(plan) \in Seq(DNSRecord)
<1>1. TakenAway(Records(config), left) \in Seq(Endpoint)
  BY PlannedRemovals DEF Removes
<1>2. BroughtIn(Records(config), left) \in Seq(Endpoint)
  BY PlannedAdditions
<1>3. /\ PlanRemoves(plan) = endpoints2DNSRecords(TakenAway(Records(config), left))
      /\ PlanAdds(plan) = endpoints2DNSRecords(BroughtIn(Records(config), left))
  BY DEF PlanRemoves, PlanAdds, TakenAway, BroughtIn
<1>4. QED
  BY <1>1, <1>2, <1>3, RecordsPlanned

\* The keys of a list that are counted differently in two others are those of what
\* passes (provider.go:174-184).
LEMMA KeysOfPassing ==
    ASSUME NEW list \in Seq(DNSRecord), NEW T \in SUBSET DOMAIN list, NEW key, NEW differs,
           \A i \in DOMAIN list : Key(list[i]) = key => (i \in T <=> differs)
    PROVE  key \in Contract!Keys(Contract!Elements(Without(list, T)))
               <=> differs /\ Count(key, list) # 0
<1> DEFINE kept == Without(list, T)
<1>1. /\ \A d \in DOMAIN kept : \E i \in T : kept[d] = list[i]
      /\ \A i \in T : \E d \in DOMAIN kept : kept[d] = list[i]
  BY WithoutElements
<1> HIDE DEF kept
<1>2. key \in Contract!Keys(Contract!Elements(kept)) <=> \E d \in DOMAIN kept : Key(kept[d]) = key
  BY KeysOf DEF Contract!Elements
<1>3. (\E d \in DOMAIN kept : Key(kept[d]) = key) <=> \E i \in T : Key(list[i]) = key
  BY <1>1
<1>4. Count(key, list) # 0 <=> \E i \in DOMAIN list : Key(list[i]) = key
  BY CountType
<1>5. (\E i \in T : Key(list[i]) = key) <=> differs /\ \E i \in DOMAIN list : Key(list[i]) = key
  OBVIOUS
<1>6. QED
  BY <1>2, <1>3, <1>4, <1>5 DEF kept

LEMMA KeysOfCancelOut ==
    ASSUME NEW remove \in Seq(DNSRecord), NEW added \in Seq(DNSRecord), NEW key
    PROVE  /\ key \in Contract!Keys(Contract!Removals(cancelOut(remove, added)))
                  <=> Count(key, remove) # Count(key, added) /\ Count(key, remove) # 0
           /\ key \in Contract!Keys(Contract!Additions(cancelOut(remove, added)))
                  <=> Count(key, remove) # Count(key, added) /\ Count(key, added) # 0
<1> DEFINE T(list) == {i \in DOMAIN list : Count(Key(list[i]), remove) # Count(Key(list[i]), added)}
           differs == Count(key, remove) # Count(key, added)
<1>1. cancelOut(remove, added) = [remove |-> Without(remove, T(remove)),
                                  add |-> Without(added, T(added))]
  BY PassingIsWithout DEF cancelOut
<1>2. /\ T(remove) \in SUBSET DOMAIN remove
      /\ \A i \in DOMAIN remove : Key(remove[i]) = key => (i \in T(remove) <=> differs)
  OBVIOUS
<1>3. /\ T(added) \in SUBSET DOMAIN added
      /\ \A i \in DOMAIN added : Key(added[i]) = key => (i \in T(added) <=> differs)
  OBVIOUS
<1> HIDE DEF T, differs
<1>4. key \in Contract!Keys(Contract!Elements(Without(remove, T(remove))))
          <=> differs /\ Count(key, remove) # 0
  BY <1>2, KeysOfPassing
<1>5. key \in Contract!Keys(Contract!Elements(Without(added, T(added))))
          <=> differs /\ Count(key, added) # 0
  BY <1>3, KeysOfPassing
<1>6. QED
  BY <1>1, <1>4, <1>5 DEF Contract!Removals, Contract!Additions, differs

\* A key is in what is posted if and only if it is there more or less often than it is
\* wanted: among what to remove if it is there, among what to add if it is wanted.
LEMMA PostedKeys ==
    ASSUME NEW config \in Config, NEW left, Representable(left),
           NEW plan, plan = Plan(Records(config), left), NEW key
    PROVE  /\ key \in Contract!Keys(Contract!Removals(Posted(plan)))
                  <=> Own(config, key) # Want(left, key) /\ Own(config, key) # 0
           /\ key \in Contract!Keys(Contract!Additions(Posted(plan)))
                  <=> Own(config, key) # Want(left, key) /\ Want(left, key) # 0
<1> DEFINE R == Count(key, PlanRemoves(plan))
           A == Count(key, PlanAdds(plan))
<1>1. PlanRemoves(plan) \in Seq(DNSRecord) /\ PlanAdds(plan) \in Seq(DNSRecord)
  BY PlannedRecordsType
<1>2. /\ key \in Contract!Keys(Contract!Removals(Posted(plan))) <=> R # A /\ R # 0
      /\ key \in Contract!Keys(Contract!Additions(Posted(plan))) <=> R # A /\ A # 0
  BY <1>1, KeysOfCancelOut DEF Posted
<1>3. \/ R = Own(config, key) /\ A = Want(left, key)
      \/ R = 0 /\ A = 0 /\ Own(config, key) = Want(left, key)
  BY PlanOfKey
<1> HIDE DEF R, A
<1>4. QED
  BY <1>2, <1>3

\* What nobody asked to add is there only if it was, and what nobody asked to remove
\* still is.
LEMMA UntouchedKeys ==
    ASSUME NEW before \in Config, NEW after \in Config, NEW cs, NEW key, NEW s,
           \A t \in Section : after[t] # before[t] => Contract!Touched(before, after, cs, t)
    PROVE  /\ /\ key \notin Contract!Keys(Contract!Additions(cs))
              /\ s \in owned(newSectionIndex(after), key)
              => s \in owned(newSectionIndex(before), key)
           /\ /\ key \notin Contract!Keys(Contract!Removals(cs))
              /\ s \in owned(newSectionIndex(before), key)
              => s \in owned(newSectionIndex(after), key)
<1> DEFINE was == parseSection(before[s])
           is == parseSection(after[s])
<1>1. \A config : \A t \in Section : newSectionIndex(config)[t] = parseSection(config[t])
  BY DEF newSectionIndex
<1>2. /\ s \in owned(newSectionIndex(before), key)
             <=> /\ s \in Section /\ was # Absent /\ Key(was) = key
                 /\ OwnershipEnabled => was.Owner = OwnershipID
      /\ s \in owned(newSectionIndex(after), key)
             <=> /\ s \in Section /\ is # Absent /\ Key(is) = key
                 /\ OwnershipEnabled => is.Owner = OwnershipID
  BY <1>1 DEF owned, Matching
<1>3. ASSUME s \in Section, after[s] # before[s]
      PROVE  \/ /\ after[s] = Absent /\ was # Absent
                /\ Key(was) \in Contract!Keys(Contract!Removals(cs))
             \/ /\ was # Absent /\ was.Owner = NoOwner /\ OwnershipEnabled
                /\ Key(was) \in Contract!Keys(Contract!Additions(cs))
                /\ after[s] = [before[s] EXCEPT !.Owner = OwnershipID]
             \/ /\ before[s] = Absent /\ is # Absent
                /\ Key(is) \in Contract!Keys(Contract!Additions(cs))
  BY <1>3, ContractOperators DEF Contract!Touched
<1>4. /\ after[s] = Absent => is = Absent
      /\ before[s] = Absent => was = Absent
      /\ after[s] = before[s] => is = was
  BY DEF parseSection
<1>5. ASSUME s \in Section, was # Absent, after[s] = [before[s] EXCEPT !.Owner = OwnershipID]
      PROVE  is # Absent => Key(is) = Key(was)
  <2>1. before[s] \in DNSRecord /\ was = Canonical(before[s])
    BY <1>5, ParsedSection DEF Config
  <2>2. after[s] \in DNSRecord
    BY <1>5, <2>1, OwnerKeepsCanonical, OwnershipAssumption
  <2>3. is # Absent => is = Canonical(after[s])
    BY <2>2, ParsedSection
  <2>4. Key(was) = Key(before[s]) /\ Key(Canonical(after[s])) = Key(after[s])
        /\ Key(after[s]) = Key(before[s])
    BY <1>5, <2>1, <2>2, KeyOfCanonical, OwnerAssumption, OwnershipAssumption
  <2>5. QED
    BY <2>3, <2>4
<1> HIDE DEF was, is
<1>6. OwnershipEnabled => OwnershipID # NoOwner
  BY DEF OwnershipEnabled
<1>7. ASSUME key \notin Contract!Keys(Contract!Additions(cs)),
             s \in owned(newSectionIndex(after), key)
      PROVE  s \in owned(newSectionIndex(before), key)
  <2>1. after[s] = before[s]
    BY <1>2, <1>3, <1>4, <1>5, <1>7
  <2>2. QED
    BY <1>2, <1>4, <1>7, <2>1
<1>8. ASSUME key \notin Contract!Keys(Contract!Removals(cs)),
             s \in owned(newSectionIndex(before), key)
      PROVE  s \in owned(newSectionIndex(after), key)
  <2>1. after[s] = before[s]
    BY <1>2, <1>3, <1>4, <1>6, <1>8
  <2>2. QED
    BY <1>2, <1>4, <1>8, <2>1
<1>9. QED
  BY <1>7, <1>8

\* A change set that takes effect leaves every key of a plan there as often as it is
\* wanted, or nowhere with something in the way of every record of it.
LEMMA KeyAfterPlan ==
    ASSUME NEW before \in Config, NEW after \in Config, NEW left, Representable(left),
           NEW plan, plan = Plan(Records(before), left),
           Contract!TakesEffect(before, after, Posted(plan)), NEW key
    PROVE  \/ Own(after, key) = Want(left, key)
           \/ /\ owned(newSectionIndex(after), key) = {}
              /\ \E r \in DNSRecord : Key(r) = key /\ Contract!InTheWay(newSectionIndex(after), r)
<1> DEFINE cs == Posted(plan)
           was == owned(newSectionIndex(before), key)
           is == owned(newSectionIndex(after), key)
           removed == key \in Contract!Keys(Contract!Removals(cs))
           added == key \in Contract!Keys(Contract!Additions(cs))
<1>1. /\ removed <=> Own(before, key) # Want(left, key) /\ Own(before, key) # 0
      /\ added <=> Own(before, key) # Want(left, key) /\ Want(left, key) # 0
  BY PostedKeys
<1>2. Want(left, key) \in {0, 1}
  BY WantedOnce DEF Want
<1>3. IsFiniteSet(was) /\ IsFiniteSet(is)
  BY FiniteAssumption, FS_Subset DEF owned, Matching
<1>4. /\ Own(before, key) = 0 <=> was = {}
      /\ Own(after, key) = 0 <=> is = {}
      /\ Own(before, key) = Cardinality(was) /\ Own(after, key) = Cardinality(is)
  BY <1>3, FS_EmptySet DEF Own
<1>5. /\ \A s \in Section : after[s] # before[s] => Contract!Touched(before, after, cs, s)
      /\ Contract!NoSecondSection(before, after)
  BY DEF Contract!TakesEffect
<1>6. removed /\ ~ added => is = {}
  <2>1. ASSUME removed PROVE \E r \in Contract!Removals(cs) : Key(r) = key
    BY <2>1, KeysOf
  <2>2. \A r \in Contract!Removals(cs) :
            Key(r) \notin Contract!Keys(Contract!Additions(cs))
                => owned(newSectionIndex(after), Key(r)) = {}
    BY ContractOperators DEF Contract!TakesEffect, Contract!Removed
  <2>3. QED
    BY <2>1, <2>2
<1>7. ASSUME added
      PROVE  /\ is = {} => \E r \in DNSRecord :
                               Key(r) = key /\ Contract!InTheWay(newSectionIndex(after), r)
             /\ removed => \A s, t \in is : s = t
  <2>1. PICK r \in Contract!Additions(cs) : Key(r) = key
    BY <1>7, KeysOf
  <2>2. r \in DNSRecord
    <3>1. cs.add \in Seq(DNSRecord)
      BY PlannedRecordsType, CancelOutType DEF Posted
    <3> HIDE DEF cs
    <3>2. QED
      BY <3>1, ElementType DEF Contract!Additions, Contract!Elements
  <2>3. /\ \/ owned(newSectionIndex(after), Key(r)) # {}
           \/ Contract!InTheWay(newSectionIndex(after), r)
        /\ Key(r) \in Contract!Keys(Contract!Removals(cs)) =>
               \A s, t \in owned(newSectionIndex(after), Key(r)) : s = t
    BY ContractOperators DEF Contract!TakesEffect, Contract!Added
  <2>4. QED
    BY <2>1, <2>2, <2>3
<1>8. \A s : /\ ~ added /\ s \in is => s \in was
             /\ ~ removed /\ s \in was => s \in is
  BY <1>5, UntouchedKeys
<1>9. ASSUME was = {}, NEW s \in is, NEW t \in is PROVE s = t
  <2>1. s \in Section /\ newSectionIndex(after)[s] # Absent /\ Key(newSectionIndex(after)[s]) = key
    BY DEF owned, Matching
  <2>2. after[s] # before[s]
    <3>1. ASSUME after[s] = before[s] PROVE s \in was
      BY <2>1, <3>1 DEF owned, Matching, newSectionIndex
    <3>2. QED
      BY <1>9, <3>1
  <2>3. after[s] \in DNSRecord /\ Key(after[s]) = key
    <3>1. /\ after[s] \in DNSRecord \cup {Absent}
          /\ newSectionIndex(after)[s] = parseSection(after[s])
      BY <2>1 DEF Config, newSectionIndex
    <3>2. after[s] \in DNSRecord /\ newSectionIndex(after)[s] = Canonical(after[s])
      BY <2>1, <3>1, ParsedSection
    <3>3. Key(Canonical(after[s])) = Key(after[s])
      BY <3>2, KeyOfCanonical, OwnerAssumption
    <3>4. QED
      BY <2>1, <3>2, <3>3
  <2>4. \A u \in owned(newSectionIndex(after), Key(after[s])) : s = u
    BY <1>5, <2>1, <2>2, <2>3, SectionAssumption, ContractOperators DEF Contract!NoSecondSection
  <2>5. QED
    BY <2>3, <2>4
<1> HIDE DEF cs, was, is, removed, added
<1>10. ASSUME \A s, t \in is : s = t, is # {} PROVE Own(after, key) = 1
  <2>1. PICK s \in is : TRUE
    BY <1>10
  <2>2. is = {s}
    BY <1>10, <2>1
  <2>3. QED
    BY <1>4, <2>2, FS_Singleton
<1>11. CASE Own(before, key) = Want(left, key)
  <2>1. is = was
    BY <1>1, <1>8, <1>11
  <2>2. QED
    BY <1>4, <1>11, <2>1
<1>12. CASE Own(before, key) # Want(left, key) /\ Want(left, key) = 0
  BY <1>1, <1>4, <1>6, <1>12
<1>13. CASE Own(before, key) # Want(left, key) /\ Want(left, key) = 1
  <2>1. added
    BY <1>1, <1>13
  <2>2. is # {} => \A s, t \in is : s = t
    <3>1. CASE removed
      BY <1>7, <2>1, <3>1
    <3>2. CASE ~ removed
      BY <1>1, <1>4, <1>9, <1>13, <3>2
    <3>3. QED
      BY <3>1, <3>2
  <2>3. CASE is = {}
    BY <1>7, <2>1, <2>3 DEF is
  <2>4. CASE is # {}
    BY <1>10, <1>13, <2>2, <2>4
  <2>5. QED
    BY <2>3, <2>4
<1>14. QED
  BY <1>2, <1>11, <1>12, <1>13

\* A router that has every key as often as it is wanted, or something in its way, holds
\* what is asked for.
LEMMA KeysHold ==
    ASSUME NEW config \in Config, NEW asked \in Desired,
           \A key :
               \/ Own(config, key) = Want(AdjustEndpoints(asked), key)
               \/ /\ owned(newSectionIndex(config), key) = {}
                  /\ \E r \in DNSRecord :
                         Key(r) = key /\ Contract!InTheWay(newSectionIndex(config), r)
    PROVE  Holds(config, asked)
<1> DEFINE left == AdjustEndpoints(asked)
           list == endpoints2DNSRecords(left)
           held == newSectionIndex(config)
           wanted == ToSet(list)
<1>1. Representable(left)
  BY AdjustedIsRepresentable
<1> HIDE DEF left
<1>2. list \in Seq(DNSRecord)
  BY <1>1, RecordsPlanned DEF Representable
<1>3. \A key : Want(left, key) = Count(key, list) /\ Want(left, key) \in {0, 1}
  BY <1>1, WantedOnce DEF Want
<1> HIDE DEF list
<1>4. \A key : Want(left, key) # 0 <=> \E r \in wanted : Key(r) = key
  <2>1. \A key : Count(key, list) = 0 <=> \A d \in DOMAIN list : Key(list[d]) # key
    BY <1>2, CountType
  <2>2. QED
    BY <1>3, <2>1 DEF ToSet
<1>5. \A r \in wanted : r \in DNSRecord
  BY <1>2, ElementType DEF ToSet
<1> HIDE DEF wanted
<1>6. ASSUME NEW r \in wanted
      PROVE  \/ Cardinality(owned(held, Key(r))) = 1
             \/ owned(held, Key(r)) = {} /\ Contract!InTheWay(held, r)
  <2>1. Want(left, Key(r)) = 1
    BY <1>3, <1>4
  <2>2. CASE Own(config, Key(r)) = Want(left, Key(r))
    BY <2>1, <2>2 DEF Own
  <2>3. ASSUME NEW q \in DNSRecord, Key(q) = Key(r), Contract!InTheWay(held, q)
        PROVE  Contract!InTheWay(held, r)
    BY <1>5, <2>3, InTheWayOfKey
  <2>4. QED
    BY <2>2, <2>3 DEF left
<1>7. ASSUME NEW s \in Managed(config)
      PROVE  Key(held[s]) \in {Key(r) : r \in wanted}
  <2>1. s \in owned(held, Key(held[s]))
    BY DEF Managed, owned, Matching
  <2>2. IsFiniteSet(owned(held, Key(held[s])))
    BY FiniteAssumption, FS_Subset DEF owned, Matching
  <2>3. Own(config, Key(held[s])) # 0
    BY <2>1, <2>2, FS_EmptySet DEF Own
  <2>4. Want(left, Key(held[s])) # 0
    BY <2>1, <2>3 DEF left
  <2>5. QED
    BY <1>4, <2>4
<1>8. QED
  BY <1>6, <1>7 DEF Holds, wanted, list, left

\* One plan is enough, whatever the router held and whatever the cluster asks for: once
\* the change set that is posted for a plan has taken effect on the router the plan was
\* made for, the router holds what is asked for (provider.go:43-83, 159-184, 186-198).
THEOREM OnePlanSuffices ==
    \A before, after \in Config, asked \in Desired :
        Contract!TakesEffect(before, after,
                             Posted(Plan(Records(before), AdjustEndpoints(asked))))
            => Holds(after, asked)
<1> SUFFICES ASSUME NEW before \in Config, NEW after \in Config, NEW asked \in Desired,
                    Contract!TakesEffect(before, after,
                                         Posted(Plan(Records(before), AdjustEndpoints(asked))))
             PROVE  Holds(after, asked)
  OBVIOUS
<1>1. Representable(AdjustEndpoints(asked))
  BY AdjustedIsRepresentable
<1>2. \A key :
          \/ Own(after, key) = Want(AdjustEndpoints(asked), key)
          \/ /\ owned(newSectionIndex(after), key) = {}
             /\ \E r \in DNSRecord :
                    Key(r) = key /\ Contract!InTheWay(newSectionIndex(after), r)
  BY <1>1, KeyAfterPlan
<1>3. QED
  BY <1>2, KeysHold

\* A plan that posts nothing, or a change set in which everything cancels out, is made
\* only for a router that holds each record as often as it is asked for (provider.go:43-60).
THEOREM NothingPostedIsNothingMissing ==
    \A config \in Config, asked \in Desired :
        LET posted == Posted(Plan(Records(config), AdjustEndpoints(asked)))
        IN  posted = NoChanges
                <=> \A key : Own(config, key) = Want(AdjustEndpoints(asked), key)
<1> SUFFICES ASSUME NEW config \in Config, NEW asked \in Desired
             PROVE  Posted(Plan(Records(config), AdjustEndpoints(asked))) = NoChanges
                        <=> \A key : Own(config, key) = Want(AdjustEndpoints(asked), key)
  OBVIOUS
<1> DEFINE left == AdjustEndpoints(asked)
           plan == Plan(Records(config), left)
           posted == Posted(plan)
<1>1. Representable(left)
  BY AdjustedIsRepresentable
<1>2. posted \in [remove : Seq(DNSRecord), add : Seq(DNSRecord)]
  BY <1>1, PlannedRecordsType, CancelOutType DEF Posted
<1>3. \A key :
          /\ key \in Contract!Keys(Contract!Removals(posted))
                 <=> Own(config, key) # Want(left, key) /\ Own(config, key) # 0
          /\ key \in Contract!Keys(Contract!Additions(posted))
                 <=> Own(config, key) # Want(left, key) /\ Want(left, key) # 0
  BY <1>1, PostedKeys
<1> HIDE DEF left, plan, posted
<1>4. \A list \in Seq(DNSRecord) :
          list = <<>> <=> \A key : key \notin Contract!Keys(Contract!Elements(list))
  <2> SUFFICES ASSUME NEW list \in Seq(DNSRecord)
               PROVE  list = <<>> <=> \A key : key \notin Contract!Keys(Contract!Elements(list))
    OBVIOUS
  <2>1. ASSUME list # <<>> PROVE \E key : key \in Contract!Keys(Contract!Elements(list))
    <3>1. 1 \in DOMAIN list
      BY <2>1
    <3>2. Key(list[1]) \in Contract!Keys(Contract!Elements(list))
      BY <3>1, KeysOf DEF Contract!Elements
    <3>3. QED
      BY <3>2
  <2>2. ASSUME list = <<>>, NEW key PROVE key \notin Contract!Keys(Contract!Elements(list))
    BY <2>2, KeysOf DEF Contract!Elements
  <2>3. QED
    BY <2>1, <2>2
<1>5. posted = NoChanges <=> posted.remove = <<>> /\ posted.add = <<>>
  BY <1>2 DEF NoChanges
<1>6. posted = NoChanges
          <=> \A key : /\ key \notin Contract!Keys(Contract!Removals(posted))
                       /\ key \notin Contract!Keys(Contract!Additions(posted))
  BY <1>2, <1>4, <1>5 DEF Contract!Removals, Contract!Additions
<1>7. posted = NoChanges <=> \A key : Own(config, key) = Want(left, key)
  BY <1>3, <1>6
<1>8. QED
  BY <1>7 DEF posted, plan, left

-----------------------------------------------------------------------------
(* The loop with nobody else writing: what holds of one change set after   *)
(* another holds of those the loop posts, whoever waits for them and       *)
(* however old the answer is they were planned on.                         *)

LEMMA LoopIsSole ==
    ASSUME Handmade = {}, LoopTypeOK, [LoopNext]_allVars
    PROVE  [SoleNext]_vars
<1>1. CASE GetRecords \/ Post \/ UNCHANGED allVars
  BY <1>1 DEF GetRecords, Post, allVars
<1>2. CASE Lock
  BY <1>2, LockReceives DEF SoleNext
<1>3. CASE Apply \/ ApplyFails
  BY <1>3, WorkIsStep DEF Apply, ApplyFails, SoleNext
<1>4. CASE AbandonedEnds \/ SessionEnds
  BY <1>4 DEF AbandonedEnds, SessionEnds, SoleNext
<1>5. CASE GiveUp \/ DesiredChanges
  BY <1>5 DEF GiveUp, DesiredChanges
<1>6. CASE WebhookRestarts
  BY <1>6 DEF WebhookRestarts, SoleNext
<1>7. ~ RouterEdited
  BY DEF RouterEdited, Edit
<1>8. QED
  BY <1>1, <1>2, <1>3, <1>4, <1>5, <1>6, <1>7 DEF LoopNext, Disturb

LEMMA SoleLoopInvariant ==
    ASSUME Handmade = {}
    PROVE  LoopSpec => [](PlannedInv /\ ChangeSetInv)
<1>1. LoopInit => ChangeSetInv
  BY InitChangeSet DEF LoopInit
<1>2. PlannedInv /\ ChangeSetInv /\ [LoopNext]_allVars => ChangeSetInv'
  BY LoopIsSole, ChangeSetStep DEF PlannedInv
<1>3. QED
  BY <1>1, <1>2, PlannedInvariant, PTL DEF LoopSpec

\* With nobody else writing, dnsmasq starts on what the loop commits and hides no record
\* of it, whatever the cluster asks for and whatever fails (openwrt.go:281-314).
THEOREM LoopStarts ==
    ASSUME Handmade = {}, SafeAtStart
    PROVE  LoopSpec => [](DnsmasqStarts /\ NoneHidden)
<1>1. LoopInit => SoundInv
  BY InitSound DEF LoopInit
<1>2. PlannedInv /\ ChangeSetInv /\ SoundInv /\ [LoopNext]_allVars => SoundInv'
  BY LoopIsSole, SoundStep DEF PlannedInv, ChangeSetInv
<1>3. SoundInv => DnsmasqStarts /\ NoneHidden
  BY DEF SoundInv, Sound, DnsmasqStarts, NoneHidden
<1>4. QED
  BY <1>1, <1>2, <1>3, SoleLoopInvariant, PTL DEF LoopSpec

\* With nobody else writing, the change sets of the loop are applied only if they have
\* to be, report what they skip and leave the sections of other instances as they are
\* (openwrt.go:202-216, 231-232; README.md:146, 292-293).
THEOREM LoopChangeSets ==
    ASSUME Handmade = {}
    PROVE  LoopSpec => []AppliesOnlyIfNeeded /\ SkippedIsMissing /\ ForeignSectionsKept
<1>1. ChangeSetInv => AppliesOnlyIfNeeded
  BY ApplyIsNeeded
<1>2. PlannedInv /\ ChangeSetInv /\ [LoopNext]_allVars =>
          [pc # "idle" /\ result' = "ok" =>
              skipped = {r \in Contract!Additions(changes) : owned(Served', Key(r)) = {}}]_vars
  BY LoopIsSole, SuccessIsLast, SuccessTakesEffect DEF PlannedInv, Additions
<1>3. PlannedInv /\ ChangeSetInv /\ [LoopNext]_allVars =>
          [pc = "apply" /\ pc' = "idle" /\ OwnershipEnabled =>
              \A s \in Section :
                  dhcp[s] # Absent /\ dhcp[s].Owner \notin {NoOwner, OwnershipID} =>
                      dhcp'[s] = dhcp[s]]_vars
  BY LoopIsSole, ForeignSectionKept DEF PlannedInv
<1>4. QED
  BY <1>1, <1>2, <1>3, SoleLoopInvariant, PTL
     DEF LoopSpec, SkippedIsMissing, ForeignSectionsKept

\* The change set at hand is what would be planned for what the router holds now.
UpToDate == changes = Posted(Plan(Records(dhcp), AdjustEndpoints(desired)))

\* With nobody else writing, one change set that succeeds is all it takes, if its plan is
\* not out of date: the router holds what the cluster asks for when it returns
\* (provider.go:43-83, 159-184, 186-198; openwrt.go:165-228).
THEOREM OneChangeSetConverges ==
    ASSUME Handmade = {}
    PROVE  LoopSpec => [][pc # "idle" /\ result' = "ok" /\ UpToDate => Reconciled']_vars
<1>1. ASSUME PlannedInv, PlannedInv', ChangeSetInv, [LoopNext]_allVars,
             pc # "idle", result' = "ok", UpToDate
      PROVE  Reconciled'
  <2>1. NothingChanged \/ Applied
    BY <1>1, LoopIsSole, SuccessIsLast DEF PlannedInv
  <2>2. Contract!TakesEffect(dhcp, dhcp', changes)
    BY <1>1, <2>1, SuccessTakesEffect
  <2>3. desired' = desired
    <3>1. pc' = "idle" /\ pc # "idle"
      BY <1>1, <2>1 DEF NothingChanged, Applied, Return
    <3>2. ~ DesiredChanges
      BY <3>1 DEF DesiredChanges, vars
    <3>3. QED
      BY <1>1, <3>1, <3>2
         DEF LoopNext, Disturb, allVars, loopVars, GetRecords, Post, Lock, Apply, AbandonedEnds,
             ApplyFails, SessionEnds, GiveUp, WebhookRestarts, RouterEdited
  <2>4. dhcp \in Config /\ dhcp' \in Config /\ desired \in Desired
    BY <1>1 DEF PlannedInv, TypeInv, TypeOK, LoopTypeOK
  <2>5. Holds(dhcp', desired)
    BY <1>1, <2>2, <2>4, OnePlanSuffices DEF UpToDate
  <2>6. QED
    BY <2>3, <2>5 DEF Reconciled
<1>2. PlannedInv /\ PlannedInv' /\ ChangeSetInv /\ [LoopNext]_allVars =>
          [pc # "idle" /\ result' = "ok" /\ UpToDate => Reconciled']_vars
  BY <1>1
<1>3. QED
  BY <1>2, SoleLoopInvariant, PTL DEF LoopSpec
=============================================================================
