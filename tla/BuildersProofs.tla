---------------------------- MODULE BuildersProofs ----------------------------
(***************************************************************************)
(* For whatever setters are called, however often and in whatever order:   *)
(* property lists are well formed and carry the last word of every option, *)
(* sessions are refused for the right reasons, messages read back as they  *)
(* were built and getters invent nothing.                                  *)
(***************************************************************************)
EXTENDS Builders, WellFoundedInduction, SequenceTheorems, TLAPS

-----------------------------------------------------------------------------
(* Numbers.  The library's induction theorem takes a predicate, which no   *)
(* prover here instantiates; SetInduction takes the set of the numbers of  *)
(* which the predicate is true.                                            *)

\* Of natural numbers one is the smallest.
LEMMA Smallest ==
    ASSUME NEW S \in SUBSET Nat, S # {}
    PROVE  \E n \in S : \A m \in S : n <= m
<1>1. PICK R : IsWellFoundedOn(R, Nat) /\ \A x, y \in Nat : y < x => <<y, x>> \in R
  <2>1. \A x, y \in Nat : y < x => <<y, x>> \in OpToRel(<, Nat)
    BY DEF OpToRel
  <2> QED
    BY <2>1, NatLessThanWellFounded
<1>2. PICK n \in S : \A m \in S : ~ (<<m, n>> \in R)
  BY <1>1, WFMin
<1>3. ASSUME NEW m \in S
      PROVE  n <= m
  <2>1. n \in Nat /\ m \in Nat /\ ~ (m < n)
    BY <1>1, <1>2
  <2> QED
    BY <2>1
<1> QED
  BY <1>3

\* A set that has 0, and with every number the next, has all of them.
LEMMA SetInduction ==
    ASSUME NEW S, 0 \in S, \A n \in Nat : n \in S => n + 1 \in S
    PROVE  \A n \in Nat : n \in S
<1> SUFFICES ASSUME NEW k \in Nat, k \notin S PROVE FALSE
  OBVIOUS
<1> DEFINE T == {n \in Nat : n \notin S}
<1>1. PICK n \in T : \A m \in T : n <= m
  BY Smallest
<1>2. n # 0 /\ n - 1 \in Nat /\ n - 1 \notin T
  BY <1>1
<1> QED
  BY <1>1, <1>2

\* Min and Max of FiniteSetsExt are what they say, for places of a sequence.
LEMMA MinIsSmallest ==
    ASSUME NEW S \in SUBSET Nat, S # {}
    PROVE  Min(S) \in S /\ \A m \in S : Min(S) <= m
BY Smallest DEF Min

\* Max is the largest of a set of numbers that has a bound.
LEMMA MaxIsLargest ==
    ASSUME NEW n \in Nat, NEW S \in SUBSET (0 .. n), S # {}
    PROVE  Max(S) \in S /\ \A m \in S : m <= Max(S)
<1> DEFINE T == {n - m : m \in S}
<1>1. T \in SUBSET Nat /\ T # {}
  <2>1. \A m \in S : n - m \in Nat
    OBVIOUS
  <2> QED
    BY <2>1
<1>2. PICK t \in T : \A u \in T : t <= u
  BY <1>1, Smallest
<1>3. PICK m \in S : t = n - m
  OBVIOUS
<1>4. \A k \in S : m >= k
  BY <1>2, <1>3
<1> QED
  BY <1>4 DEF Max

-----------------------------------------------------------------------------
(* What FlattenSeq computes.                                               *)

\* f[i] is the first i sequences of s behind one another: what FlattenSeq builds.
Flattens(f, s, n) == f = [i \in 1 .. n |-> IF i = 1 THEN s[i] ELSE f[i - 1] \o s[i]]

\* A flattening is built up to i from the one before.
LEMMA FlatteningStep ==
    ASSUME NEW f, NEW s, NEW n, Flattens(f, s, n), NEW i \in 1 .. n
    PROVE  f[i] = IF i = 1 THEN s[i] ELSE f[i - 1] \o s[i]
<1> DEFINE h == [j \in 1 .. n |-> IF j = 1 THEN s[j] ELSE f[j - 1] \o s[j]]
<1>1. h[i] = IF i = 1 THEN s[i] ELSE f[i - 1] \o s[i]
  OBVIOUS
<1>2. f = h
  BY Zenon DEF Flattens
<1> QED
  BY <1>1, <1>2, Zenon

\* What is built up like one is a flattening.
LEMMA FlatteningIsBuilt ==
    ASSUME NEW f, NEW s, NEW n, f = [i \in 1 .. n |-> f[i]],
           \A i \in 1 .. n : f[i] = IF i = 1 THEN s[i] ELSE f[i - 1] \o s[i]
    PROVE  Flattens(f, s, n)
<1> DEFINE h == [i \in 1 .. n |-> IF i = 1 THEN s[i] ELSE f[i - 1] \o s[i]]
<1>1. [i \in 1 .. n |-> f[i]] = h
  BY Zenon
<1>2. f = h
  BY <1>1, Zenon
<1> QED
  BY <1>2, Zenon DEF Flattens

\* There is a flattening of any length.
LEMMA FlatteningExists ==
    ASSUME NEW s, NEW n \in Nat
    PROVE  \E f : Flattens(f, s, n)
<1> DEFINE S == {k \in Nat : \E f : Flattens(f, s, k)}
<1>1. 0 \in S
  <2>1. Flattens([i \in 1 .. 0 |-> <<>>], s, 0)
    BY DEF Flattens
  <2> QED
    BY <2>1
<1>2. ASSUME NEW k \in Nat, k \in S
      PROVE  k + 1 \in S
  <2>1. PICK f : Flattens(f, s, k)
    BY <1>2
  <2> DEFINE g == [i \in 1 .. k + 1 |->
                      IF i <= k THEN f[i] ELSE IF i = 1 THEN s[i] ELSE f[i - 1] \o s[i]]
  <2>2. ASSUME NEW i \in 1 .. k + 1
        PROVE  g[i] = IF i = 1 THEN s[i] ELSE g[i - 1] \o s[i]
    <3>1. i # 1 => i - 1 \in 1 .. k /\ g[i - 1] = f[i - 1]
      OBVIOUS
    <3>2. CASE i <= k
      <4>1. i \in 1 .. k
        BY <3>2
      <4>2. f[i] = IF i = 1 THEN s[i] ELSE f[i - 1] \o s[i]
        BY <2>1, <4>1, FlatteningStep
      <4> QED
        BY <3>1, <3>2, <4>2
    <3>3. CASE i = k + 1
      BY <3>1, <3>3
    <3> QED
      BY <3>2, <3>3
  <2>3. g = [i \in 1 .. k + 1 |-> g[i]]
    OBVIOUS
  <2>4. \A i \in 1 .. k + 1 : g[i] = IF i = 1 THEN s[i] ELSE g[i - 1] \o s[i]
    BY <2>2
  <2> HIDE DEF g
  <2>5. Flattens(g, s, k + 1)
    BY ONLY <2>3, <2>4, FlatteningIsBuilt, Zenon
  <2>6. k + 1 \in Nat
    OBVIOUS
  <2> QED
    BY <2>5, <2>6
<1> HIDE DEF S
<1>3. n \in S
  BY <1>1, <1>2, SetInduction
<1> QED
  BY <1>3 DEF S

\* Its values are sequences of what the sequences hold.
LEMMA FlatteningIsTyped ==
    ASSUME NEW S, NEW s \in Seq(Seq(S)), NEW f, Flattens(f, s, Len(s))
    PROVE  \A i \in 1 .. Len(s) : f[i] \in Seq(S)
<1> DEFINE T == {j \in Nat : j \in 1 .. Len(s) => f[j] \in Seq(S)}
<1>1. 0 \in T
  OBVIOUS
<1>2. ASSUME NEW j \in Nat, j \in T
      PROVE  j + 1 \in T
  <2> SUFFICES ASSUME j + 1 <= Len(s) PROVE f[j + 1] \in Seq(S)
    OBVIOUS
  <2>1. j + 1 \in 1 .. Len(s) /\ s[j + 1] \in Seq(S)
    OBVIOUS
  <2>2. f[j + 1] = IF j + 1 = 1 THEN s[j + 1] ELSE f[j] \o s[j + 1]
    <3>1. f[j + 1] = IF j + 1 = 1 THEN s[j + 1] ELSE f[j + 1 - 1] \o s[j + 1]
      BY <2>1, FlatteningStep
    <3> QED
      BY <3>1
  <2>3. CASE j = 0
    BY <2>1, <2>2, <2>3
  <2>4. CASE j # 0
    <3>1. f[j] \in Seq(S)
      BY <1>2, <2>4
    <3> QED
      BY <2>1, <2>2, <2>4, <3>1
  <2> QED
    BY <2>3, <2>4
<1> HIDE DEF T
<1>3. \A j \in Nat : j \in T
  BY <1>1, <1>2, SetInduction
<1> QED
  BY <1>3 DEF T

\* FlattenSeq is the last of a flattening.
LEMMA FlattenIsLast ==
    ASSUME NEW S, NEW s \in Seq(Seq(S)), s # <<>>
    PROVE  \E f : Flattens(f, s, Len(s)) /\ FlattenSeq(s) = f[Len(s)]
<1> DEFINE f == CHOOSE h : h = [i \in 1 .. Len(s) |-> IF i = 1 THEN s[i] ELSE h[i - 1] \o s[i]]
<1>1. Len(s) \in Nat /\ Len(s) # 0
  OBVIOUS
<1>2. \E h : h = [i \in 1 .. Len(s) |-> IF i = 1 THEN s[i] ELSE h[i - 1] \o s[i]]
  BY <1>1, FlatteningExists DEF Flattens
<1>3. f = [i \in 1 .. Len(s) |-> IF i = 1 THEN s[i] ELSE f[i - 1] \o s[i]]
  BY <1>2
<1>4. FlattenSeq(s) = f[Len(s)]
  BY <1>1 DEF FlattenSeq
<1> QED
  BY <1>3, <1>4 DEF Flattens

-----------------------------------------------------------------------------
(* The first fault.                                                        *)

\* Nothing is refused when nothing that is checked is.
LEMMA NoFault ==
    ASSUME NEW S, NEW order \in Seq(S), NEW refused, \A i \in DOMAIN order : order[i] # "none"
    PROVE  FirstFault(order, refused) = "none" <=> \A i \in DOMAIN order : order[i] \notin refused
<1> DEFINE faults == {i \in DOMAIN order : order[i] \in refused}
<1>1. CASE faults = {}
  BY <1>1 DEF FirstFault
<1>2. CASE faults # {}
  <2>1. faults \in SUBSET Nat
    OBVIOUS
  <2>2. Min(faults) \in faults
    <3> HIDE DEF faults
    <3> QED
      BY <1>2, <2>1, MinIsSmallest
  <2>3. FirstFault(order, refused) = order[Min(faults)]
    BY <1>2 DEF FirstFault
  <2> HIDE DEF faults
  <2>4. faults \subseteq DOMAIN order /\ \A i \in faults : order[i] \in refused
    BY DEF faults
  <2> QED
    BY <2>2, <2>3, <2>4
<1> QED
  BY <1>1, <1>2

-----------------------------------------------------------------------------
(* Pairs of a list.                                                        *)

\* list is the pairs of the options in dom, each once, in some order.
ListFor(list, dom, names, values) ==
    \E ks \in Seq(dom) :
        /\ Len(list) = 2 * Len(ks)
        /\ \A i \in 1 .. Len(ks) : list[2 * i - 1] = names[ks[i]] /\ list[2 * i] = values[ks[i]]
        /\ \A i, j \in 1 .. Len(ks) : ks[i] = ks[j] => i = j
        /\ \A k \in dom : \E i \in 1 .. Len(ks) : ks[i] = k

\* Nothing is the list of no option.
LEMMA NoPairs ==
    ASSUME NEW names, NEW values
    PROVE  ListFor(<<>>, {}, names, values)
<1> DEFINE ks == <<>>
<1>1. ks \in Seq({})
  OBVIOUS
<1>2. Len(<<>>) = 2 * Len(ks)
  OBVIOUS
<1>3. 1 .. Len(ks) = {}
  OBVIOUS
<1> HIDE DEF ks
<1> QED
  BY <1>1, <1>2, <1>3, Zenon DEF ListFor

\* One option.
LEMMA OnePair ==
    ASSUME NEW names, NEW values, NEW k
    PROVE  ListFor(<<names[k], values[k]>>, {k}, names, values)
<1> DEFINE ks == <<k>>
           list == <<names[k], values[k]>>
<1>1. ks \in Seq({k})
  OBVIOUS
<1>2. Len(list) = 2 * Len(ks)
  OBVIOUS
<1>3. \A i \in 1 .. Len(ks) : i = 1 /\ list[2 * i - 1] = names[ks[i]] /\ list[2 * i] = values[ks[i]]
  OBVIOUS
<1>4. 1 \in 1 .. Len(ks) /\ ks[1] = k
  OBVIOUS
<1> HIDE DEF ks, list
<1>5. /\ \A i, j \in 1 .. Len(ks) : ks[i] = ks[j] => i = j
      /\ \A key \in {k} : \E i \in 1 .. Len(ks) : ks[i] = key
  BY <1>3, <1>4
<1>6. ListFor(list, {k}, names, values)
  BY <1>1, <1>2, <1>3, <1>5, Zenon DEF ListFor
<1> QED
  BY <1>6 DEF list

\* The lists of different options behind one another are the list of all of them.
LEMMA PairsBehindPairs ==
    ASSUME NEW S, NEW list1 \in Seq(S), NEW list2 \in Seq(S), NEW dom1, NEW dom2, dom1 \cap dom2 = {},
           NEW names, NEW values, ListFor(list1, dom1, names, values), ListFor(list2, dom2, names, values)
    PROVE  ListFor(list1 \o list2, dom1 \cup dom2, names, values)
<1> DEFINE Good(list, ks, dom) ==
               /\ Len(list) = 2 * Len(ks)
               /\ \A i \in 1 .. Len(ks) : list[2 * i - 1] = names[ks[i]] /\ list[2 * i] = values[ks[i]]
               /\ \A i, j \in 1 .. Len(ks) : ks[i] = ks[j] => i = j
               /\ \A k \in dom : \E i \in 1 .. Len(ks) : ks[i] = k
<1>1. PICK ks1 \in Seq(dom1) : Good(list1, ks1, dom1)
  BY DEF ListFor
<1>2. PICK ks2 \in Seq(dom2) : Good(list2, ks2, dom2)
  BY DEF ListFor
<1> DEFINE ks == ks1 \o ks2
           list == list1 \o list2
<1>3. /\ ks1 \in Seq(dom1 \cup dom2) /\ ks2 \in Seq(dom1 \cup dom2)
      /\ Len(ks1) \in Nat /\ Len(ks2) \in Nat
      /\ \A i \in 1 .. Len(ks1) : ks1[i] \in dom1
      /\ \A i \in 1 .. Len(ks2) : ks2[i] \in dom2
  OBVIOUS
<1>4. /\ ks \in Seq(dom1 \cup dom2) /\ Len(ks) = Len(ks1) + Len(ks2)
      /\ \A i \in 1 .. Len(ks1) + Len(ks2) : ks[i] = IF i <= Len(ks1) THEN ks1[i] ELSE ks2[i - Len(ks1)]
  BY <1>3, ConcatProperties
<1>5. /\ Len(list) = Len(list1) + Len(list2)
      /\ \A i \in 1 .. Len(list1) + Len(list2) : list[i] = IF i <= Len(list1) THEN list1[i] ELSE list2[i - Len(list1)]
  BY ConcatProperties
<1>6. /\ Len(list1) = 2 * Len(ks1) /\ Len(list2) = 2 * Len(ks2)
      /\ \A i \in 1 .. Len(ks1) : list1[2 * i - 1] = names[ks1[i]] /\ list1[2 * i] = values[ks1[i]]
      /\ \A i \in 1 .. Len(ks2) : list2[2 * i - 1] = names[ks2[i]] /\ list2[2 * i] = values[ks2[i]]
  BY <1>1, <1>2
<1> HIDE DEF ks, list
<1>7. ASSUME NEW i \in 1 .. Len(ks)
      PROVE  list[2 * i - 1] = names[ks[i]] /\ list[2 * i] = values[ks[i]]
  <2>1. CASE i <= Len(ks1)
    <3>1. 2 * i - 1 \in 1 .. Len(list1) + Len(list2) /\ 2 * i - 1 <= Len(list1)
      BY <1>3, <1>4, <1>6, <2>1
    <3>2. 2 * i \in 1 .. Len(list1) + Len(list2) /\ 2 * i <= Len(list1)
      BY <1>3, <1>4, <1>6, <2>1
    <3>3. list[2 * i - 1] = list1[2 * i - 1] /\ list[2 * i] = list1[2 * i]
      BY <1>5, <3>1, <3>2
    <3>4. ks[i] = ks1[i] /\ i \in 1 .. Len(ks1)
      BY <1>3, <1>4, <2>1
    <3> QED
      BY <1>6, <3>3, <3>4
  <2>2. CASE i > Len(ks1)
    <3> DEFINE j == i - Len(ks1)
    <3>1. j \in 1 .. Len(ks2) /\ ks[i] = ks2[j]
      BY <1>3, <1>4, <2>2, SMTT(30)
    <3>2. /\ i \in Nat /\ j \in Nat /\ j > 0 /\ j <= Len(ks2) /\ i = Len(ks1) + j
          /\ Len(ks1) \in Nat /\ Len(ks2) \in Nat
      BY <1>3, <1>4, <2>2
    <3> HIDE DEF j
    <3>4. 2 * i - 1 \in 1 .. Len(list1) + Len(list2) /\ ~(2 * i - 1 <= Len(list1)) /\ 2 * i - 1 - Len(list1) = 2 * j - 1
      BY <1>6, <3>2
    <3>5. 2 * i \in 1 .. Len(list1) + Len(list2) /\ ~(2 * i <= Len(list1)) /\ 2 * i - Len(list1) = 2 * j
      BY <1>6, <3>2
    <3>3. list[2 * i - 1] = list2[2 * j - 1] /\ list[2 * i] = list2[2 * j]
      BY <1>5, <3>4, <3>5
    <3> QED
      BY <1>6, <3>1, <3>3
  <2> QED
    BY <1>3, <1>4, <2>1, <2>2
<1>8. ASSUME NEW i \in 1 .. Len(ks), NEW j \in 1 .. Len(ks), ks[i] = ks[j]
      PROVE  i = j
  <2>1. /\ \A k \in 1 .. Len(ks) : k <= Len(ks1) => k \in 1 .. Len(ks1) /\ ks[k] = ks1[k] /\ ks[k] \in dom1
        /\ \A k \in 1 .. Len(ks) : k > Len(ks1) =>
              k - Len(ks1) \in 1 .. Len(ks2) /\ ks[k] = ks2[k - Len(ks1)] /\ ks[k] \in dom2
    BY <1>3, <1>4
  <2>2. CASE i <= Len(ks1) /\ j <= Len(ks1)
    BY <1>1, <1>8, <2>1, <2>2
  <2>3. CASE i > Len(ks1) /\ j > Len(ks1)
    <3> DEFINE a == i - Len(ks1)
               b == j - Len(ks1)
    <3>1. a \in 1 .. Len(ks2) /\ b \in 1 .. Len(ks2) /\ ks2[a] = ks2[b]
      BY <1>8, <2>1, <2>3
    <3>2. i = a + Len(ks1) /\ j = b + Len(ks1)
      BY <1>3, <1>4
    <3> HIDE DEF a, b
    <3>3. a = b
      BY <1>2, <3>1
    <3> QED
      BY <3>2, <3>3
  <2>4. CASE i <= Len(ks1) /\ j > Len(ks1)
    <3>1. ks[i] \in dom1 /\ ks[j] \in dom2
      BY <2>1, <2>4
    <3> QED
      BY <1>8, <3>1
  <2>5. CASE i > Len(ks1) /\ j <= Len(ks1)
    <3>1. ks[j] \in dom1 /\ ks[i] \in dom2
      BY <2>1, <2>5
    <3> QED
      BY <1>8, <3>1
  <2> QED
    BY <1>3, <1>4, <2>2, <2>3, <2>4, <2>5
<1>9. ASSUME NEW k \in dom1 \cup dom2
      PROVE  \E i \in 1 .. Len(ks) : ks[i] = k
  <2>1. CASE k \in dom1
    <3>1. PICK i \in 1 .. Len(ks1) : ks1[i] = k
      BY <1>1, <2>1
    <3>2. i \in 1 .. Len(ks) /\ ks[i] = k
      BY <1>3, <1>4, <3>1
    <3> QED
      BY <3>2
  <2>2. CASE k \in dom2
    <3>1. PICK i \in 1 .. Len(ks2) : ks2[i] = k
      BY <1>2, <2>2
    <3> DEFINE b == i + Len(ks1)
    <3>2. b \in 1 .. Len(ks) /\ ~ (b <= Len(ks1)) /\ b - Len(ks1) = i
      BY <1>3, <1>4, <3>1
    <3> HIDE DEF b
    <3>3. ks[b] = ks2[b - Len(ks1)]
      BY <1>4, <3>2
    <3> QED
      BY <3>1, <3>2, <3>3
  <2> QED
    BY <2>1, <2>2
<1>10. Len(list) = 2 * Len(ks)
  BY <1>3, <1>4, <1>5, <1>6
<1> QED
  BY <1>4, <1>7, <1>8, <1>9, <1>10 DEF ListFor, list

\* A list depends on the names and values of its options only.
LEMMA SamePairs ==
    ASSUME NEW list, NEW dom, NEW names1, NEW names2, NEW values1, NEW values2,
           \A k \in dom : names1[k] = names2[k] /\ values1[k] = values2[k],
           ListFor(list, dom, names1, values1)
    PROVE  ListFor(list, dom, names2, values2)
<1>1. PICK ks \in Seq(dom) :
          /\ Len(list) = 2 * Len(ks)
          /\ \A i \in 1 .. Len(ks) : list[2 * i - 1] = names1[ks[i]] /\ list[2 * i] = values1[ks[i]]
          /\ \A i, j \in 1 .. Len(ks) : ks[i] = ks[j] => i = j
          /\ \A k \in dom : \E i \in 1 .. Len(ks) : ks[i] = k
  BY DEF ListFor
<1>2. \A i \in 1 .. Len(ks) : ks[i] \in dom
  OBVIOUS
<1>3. \A i \in 1 .. Len(ks) : list[2 * i - 1] = names2[ks[i]] /\ list[2 * i] = values2[ks[i]]
  BY <1>1, <1>2
<1> QED
  BY <1>1, <1>3 DEF ListFor

\* What the pushes of to_raw and of the builders make: the options of order that are set.
LEMMA PushAllPairs ==
    ASSUME NEW O, NEW order \in Seq(O), order # <<>>,
           \A i, j \in DOMAIN order : order[i] = order[j] => i = j,
           NEW names, NEW values, NEW S,
           \A i \in DOMAIN order : order[i] \in DOMAIN values => names[order[i]] \in S /\ values[order[i]] \in S
    PROVE  /\ PushAll(order, names, values) \in Seq(S)
           /\ ListFor(PushAll(order, names, values), {k \in Range(order) : k \in DOMAIN values}, names, values)
<1> DEFINE s == [i \in DOMAIN order |-> PushIfSet(order[i], names, values)]
           First(n) == {k \in {order[i] : i \in 1 .. n} : k \in DOMAIN values}
<1>1. /\ Len(order) \in Nat \ {0} /\ DOMAIN order = 1 .. Len(order)
      /\ s = [i \in 1 .. Len(order) |-> PushIfSet(order[i], names, values)]
  OBVIOUS
<1>2. \A i \in 1 .. Len(order) : PushIfSet(order[i], names, values) \in Seq(S)
  <2> SUFFICES ASSUME NEW i \in 1 .. Len(order) PROVE PushIfSet(order[i], names, values) \in Seq(S)
    OBVIOUS
  <2>1. <<>> \in Seq(S) /\ \A x, y \in S : <<x, y>> \in Seq(S)
    OBVIOUS
  <2> QED
    BY <1>1, <2>1 DEF PushIfSet
<1>3. /\ s \in Seq(Seq(S)) /\ Len(s) = Len(order)
      /\ \A i \in 1 .. Len(order) : s[i] = PushIfSet(order[i], names, values)
  BY <1>1, <1>2
<1>4. PushAll(order, names, values) = FlattenSeq(s)
  BY DEF PushAll
<1> HIDE DEF s
<1>5. s # <<>>
  BY <1>1, <1>3
<1>6. PICK f : Flattens(f, s, Len(s)) /\ FlattenSeq(s) = f[Len(s)]
  BY <1>3, <1>5, FlattenIsLast
<1>7. \A n \in 1 .. Len(s) : f[n] \in Seq(S)
  BY <1>3, <1>6, FlatteningIsTyped
<1>8. \A i \in 1 .. Len(order) : ListFor(s[i], {k \in {order[i]} : k \in DOMAIN values}, names, values)
  <2> SUFFICES ASSUME NEW i \in 1 .. Len(order)
               PROVE  ListFor(s[i], {k \in {order[i]} : k \in DOMAIN values}, names, values)
    OBVIOUS
  <2>1. CASE order[i] \in DOMAIN values
    <3>1. s[i] = <<names[order[i]], values[order[i]]>> /\ {k \in {order[i]} : k \in DOMAIN values} = {order[i]}
      BY <1>3, <2>1 DEF PushIfSet
    <3> QED
      BY <3>1, OnePair
  <2>2. CASE order[i] \notin DOMAIN values
    <3>1. s[i] = <<>> /\ {k \in {order[i]} : k \in DOMAIN values} = {}
      BY <1>3, <2>2 DEF PushIfSet
    <3> QED
      BY <3>1, NoPairs
  <2> QED
    BY <2>1, <2>2
<1> DEFINE T == {n \in Nat : n \in 1 .. Len(s) => ListFor(f[n], First(n), names, values)}
<1>9. 0 \in T
  OBVIOUS
<1>10. ASSUME NEW n \in Nat, n \in T
       PROVE  n + 1 \in T
  <2> SUFFICES ASSUME n + 1 \in 1 .. Len(s) PROVE ListFor(f[n + 1], First(n + 1), names, values)
    OBVIOUS
  <2>1. f[n + 1] = IF n + 1 = 1 THEN s[n + 1] ELSE f[n + 1 - 1] \o s[n + 1]
    BY <1>6, FlatteningStep
  <2>2. ListFor(s[n + 1], {k \in {order[n + 1]} : k \in DOMAIN values}, names, values)
    BY <1>3, <1>8
  <2>3. CASE n = 0
    <3>1. First(n + 1) = {k \in {order[n + 1]} : k \in DOMAIN values}
      BY <2>3
    <3>2. f[n + 1] = s[n + 1]
      BY <2>1, <2>3
    <3> QED
      BY <2>2, <3>1, <3>2
  <2>4. CASE n # 0
    <3>1. n \in 1 .. Len(s) /\ n + 1 - 1 = n /\ n + 1 # 1
      BY <1>1, <1>3, <2>4
    <3>2. ListFor(f[n], First(n), names, values)
      BY <1>10, <3>1
    <3>3. First(n + 1) = First(n) \cup {k \in {order[n + 1]} : k \in DOMAIN values}
      <4>1. \A i \in 1 .. n + 1 : i \in 1 .. n \/ i = n + 1
        OBVIOUS
      <4>2. \A i \in 1 .. n : i \in 1 .. n + 1
        OBVIOUS
      <4>3. n + 1 \in 1 .. n + 1
        OBVIOUS
      <4> QED
        BY <4>1, <4>2, <4>3
    <3>4. First(n) \cap {k \in {order[n + 1]} : k \in DOMAIN values} = {}
      <4>1. \A i \in 1 .. n : i \in DOMAIN order /\ n + 1 \in DOMAIN order /\ i # n + 1
        BY <1>1, <1>3
      <4> QED
        BY <4>1
    <3>5. f[n + 1] = f[n] \o s[n + 1]
      BY <2>1, <3>1, Zenon
    <3>6. f[n] \in Seq(S) /\ s[n + 1] \in Seq(S)
      BY <1>3, <1>7, <3>1
    <3> HIDE DEF First
    <3> QED
      BY <2>2, <3>2, <3>3, <3>4, <3>5, <3>6, PairsBehindPairs
  <2> QED
    BY <2>3, <2>4
<1> HIDE DEF T
<1>11. \A n \in Nat : n \in T
  BY <1>9, <1>10, SetInduction
<1>12. ListFor(f[Len(s)], First(Len(s)), names, values)
  <2>1. Len(s) \in Nat /\ Len(s) \in 1 .. Len(s)
    BY <1>1, <1>3
  <2>2. Len(s) \in T
    BY <1>11, <2>1
  <2> QED
    BY <2>1, <2>2 DEF T
<1>13. First(Len(s)) = {k \in Range(order) : k \in DOMAIN values}
  <2>1. Range(order) = {order[i] : i \in DOMAIN order}
    BY DEF Range
  <2>2. {order[i] : i \in 1 .. Len(s)} = Range(order)
    BY <1>1, <1>3, <2>1
  <2> QED
    BY <2>2
<1> HIDE DEF First
<1>14. Len(s) \in 1 .. Len(s)
  BY <1>1, <1>3
<1>15. f[Len(s)] \in Seq(S)
  BY <1>7, <1>14
<1>16. PushAll(order, names, values) = f[Len(s)]
  BY <1>4, <1>6
<1> QED
  BY <1>12, <1>13, <1>15, <1>16, Zenon

\* r is a list that gives every option of strings its property and has no other.
Carries(r, names, strings) ==
    /\ WellFormed(r)
    /\ DOMAIN LibraryReads(r) = {names[k] : k \in DOMAIN strings}
    /\ \A k \in DOMAIN strings : LibraryReads(r)[names[k]] = strings[k]

\* Options with properties of their own and values that are no null pointers.
Listable(names, strings) ==
    /\ \A k \in DOMAIN strings : names[k] # Null /\ strings[k] # Null
    /\ \A j, k \in DOMAIN strings : names[j] = names[k] => j = k

\* The library reads the pairs as they were pushed.
LEMMA ListsAreRead ==
    ASSUME NEW S, NEW list \in Seq(S), NEW names, NEW strings, ListFor(list, DOMAIN strings, names, strings),
           Listable(names, strings)
    PROVE  Carries(list \o <<Null>>, names, strings)
<1> DEFINE dom == DOMAIN strings
<1>1. PICK ks \in Seq(dom) :
          /\ Len(list) = 2 * Len(ks)
          /\ \A i \in 1 .. Len(ks) : list[2 * i - 1] = names[ks[i]] /\ list[2 * i] = strings[ks[i]]
          /\ \A i, j \in 1 .. Len(ks) : ks[i] = ks[j] => i = j
          /\ \A k \in dom : \E i \in 1 .. Len(ks) : ks[i] = k
  BY DEF ListFor
<1>0. /\ \A k \in dom : names[k] # Null /\ strings[k] # Null
      /\ \A j, k \in dom : names[j] = names[k] => j = k
  BY DEF Listable
<1> DEFINE r == list \o <<Null>>
           n == Len(ks)
<1>2. n \in Nat /\ \A i \in 1 .. n : ks[i] \in dom
  OBVIOUS
<1>3. /\ Len(r) = 2 * n + 1 /\ DOMAIN r = 1 .. 2 * n + 1 /\ r[2 * n + 1] = Null
      /\ \A i \in 1 .. 2 * n : r[i] = list[i]
  <2>1. /\ list \in Seq(S \cup {Null}) /\ <<Null>> \in Seq(S \cup {Null}) /\ Len(<<Null>>) = 1
        /\ <<Null>>[1] = Null
    OBVIOUS
  <2>2. Len(list) = 2 * n
    BY <1>1
  <2>3. /\ r \in Seq(S \cup {Null}) /\ Len(r) = Len(list) + 1
        /\ \A i \in 1 .. Len(list) + 1 : r[i] = IF i <= Len(list) THEN list[i] ELSE <<Null>>[i - Len(list)]
    <3> HIDE DEF n
    <3> QED
      BY <2>1, ConcatProperties
  <2>4. DOMAIN r = 1 .. Len(r)
    <3> HIDE DEF r
    <3> QED
      BY <2>3
  <2> HIDE DEF r, n
  <2>5. /\ 2 * n + 1 \in 1 .. Len(list) + 1 /\ ~ (2 * n + 1 <= Len(list)) /\ 2 * n + 1 - Len(list) = 1
        /\ \A i \in 1 .. 2 * n : i \in 1 .. Len(list) + 1 /\ i <= Len(list)
    BY <1>2, <2>2
  <2>6. r[2 * n + 1] = Null
    BY <2>1, <2>3, <2>5
  <2>7. \A i \in 1 .. 2 * n : r[i] = list[i]
    BY <2>3, <2>5
  <2> QED
    BY <2>2, <2>3, <2>4, <2>6, <2>7
<1> HIDE DEF r, n
<1>4. \A i \in 1 .. n : r[2 * i - 1] = names[ks[i]] /\ r[2 * i] = strings[ks[i]]
  <2> SUFFICES ASSUME NEW i \in 1 .. n PROVE r[2 * i - 1] = names[ks[i]] /\ r[2 * i] = strings[ks[i]]
    OBVIOUS
  <2>1. 2 * i - 1 \in 1 .. 2 * n /\ 2 * i \in 1 .. 2 * n
    BY <1>2
  <2>2. list[2 * i - 1] = names[ks[i]] /\ list[2 * i] = strings[ks[i]]
    BY <1>1 DEF n
  <2> QED
    BY <1>3, <2>1, <2>2
<1>5. PairCount(r) = n
  <2> DEFINE ends == {m \in 0 .. Len(r) : 2 * m + 1 \in DOMAIN r => r[2 * m + 1] = Null}
  <2>1. n \in ends
    BY <1>2, <1>3
  <2>2. \A m \in ends : n <= m
    <3> SUFFICES ASSUME NEW m \in 0 .. Len(r), m < n PROVE m \notin ends
      BY <1>2, <1>3
    <3>1. m + 1 \in 1 .. n /\ 2 * (m + 1) - 1 = 2 * m + 1 /\ 2 * m + 1 \in DOMAIN r
      BY <1>2, <1>3
    <3>2. r[2 * m + 1] = names[ks[m + 1]]
      BY <1>4, <3>1
    <3> QED
      BY <1>0, <1>2, <3>1, <3>2
  <2>3. ends \in SUBSET Nat
    OBVIOUS
  <2>4. PairCount(r) = Min(ends)
    BY DEF PairCount
  <2> HIDE DEF ends
  <2>5. Min(ends) \in ends /\ \A m \in ends : Min(ends) <= m
    BY <2>1, <2>3, MinIsSmallest
  <2>6. Min(ends) \in Nat /\ Min(ends) <= n /\ n <= Min(ends)
    BY <2>1, <2>2, <2>3, <2>5
  <2> QED
    BY <1>2, <2>4, <2>6
<1>6. \A i, j \in 1 .. n : r[2 * i - 1] = r[2 * j - 1] => i = j
  <2> SUFFICES ASSUME NEW i \in 1 .. n, NEW j \in 1 .. n, r[2 * i - 1] = r[2 * j - 1] PROVE i = j
    OBVIOUS
  <2>1. ks[i] \in dom /\ ks[j] \in dom /\ names[ks[i]] = names[ks[j]]
    BY <1>2, <1>4
  <2>2. ks[i] = ks[j]
    <3> HIDE DEF dom
    <3> QED
      BY <1>0, <2>1
  <2> QED
    BY <1>1, <2>2 DEF n
<1>7. \A i \in 1 .. 2 * n : r[i] # Null
  <2> SUFFICES ASSUME NEW i \in 1 .. 2 * n PROVE r[i] # Null
    OBVIOUS
  <2>1. PICK m \in 1 .. n : i = 2 * m - 1 \/ i = 2 * m
    <3> DEFINE above == {m \in Nat : i <= 2 * m}
    <3>1. n \in above /\ n \in Nat /\ above \in SUBSET Nat /\ i \in Nat /\ i # 0
      BY <1>2
    <3>2. \A m \in above : m \in Nat /\ i <= 2 * m
      OBVIOUS
    <3>3. \A m \in Nat : m \notin above => 2 * m < i
      BY <3>1
    <3> HIDE DEF above
    <3>4. PICK m \in above : \A k \in above : m <= k
      BY <3>1, Smallest
    <3>5. m \in Nat /\ m # 0 /\ m <= n
      BY <3>1, <3>2, <3>4
    <3>6. m - 1 \in Nat /\ m - 1 \notin above
      BY <3>4, <3>5
    <3>7. 2 * (m - 1) < i /\ i <= 2 * m
      BY <3>2, <3>3, <3>6
    <3>8. m \in 1 .. n
      BY <3>1, <3>5
    <3>9. i = 2 * m - 1 \/ i = 2 * m
      BY <3>1, <3>5, <3>7
    <3> QED
      BY <3>8, <3>9
  <2>2. ks[m] \in dom /\ r[2 * m - 1] = names[ks[m]] /\ r[2 * m] = strings[ks[m]]
    BY <1>2, <1>4, <2>1
  <2>3. r[2 * m - 1] # Null /\ r[2 * m] # Null
    BY <1>0, <2>2
  <2> QED
    BY <2>1, <2>3, Zenon
<1>8. WellFormed(r)
  BY <1>3, <1>5, <1>6, <1>7 DEF WellFormed
<1> DEFINE keys == {r[2 * i - 1] : i \in 1 .. n}
<1>9. LibraryReads(r) = [key \in keys |-> r[2 * (CHOOSE i \in 1 .. n : r[2 * i - 1] = key)]]
  BY <1>5 DEF LibraryReads
<1>10. keys = {names[k] : k \in dom}
  <2>1. ASSUME NEW k \in dom
        PROVE  names[k] \in keys
    <3>1. PICK i \in 1 .. n : ks[i] = k
      BY <1>1 DEF n
    <3>2. names[k] = r[2 * i - 1]
      BY <1>4, <3>1
    <3> QED
      BY <3>2
  <2>2. ASSUME NEW i \in 1 .. n
        PROVE  r[2 * i - 1] \in {names[k] : k \in dom}
    <3>1. r[2 * i - 1] = names[ks[i]] /\ ks[i] \in dom
      BY <1>2, <1>4
    <3> QED
      BY <3>1
  <2> QED
    BY <2>1, <2>2
<1>11. ASSUME NEW k \in dom
       PROVE  LibraryReads(r)[names[k]] = strings[k]
  <2>1. PICK i \in 1 .. n : ks[i] = k
    BY <1>1 DEF n
  <2>2. r[2 * i - 1] = names[k] /\ r[2 * i] = strings[k]
    BY <1>4, <2>1
  <2> DEFINE place == CHOOSE j \in 1 .. n : r[2 * j - 1] = names[k]
  <2>3. place \in 1 .. n /\ r[2 * place - 1] = names[k]
    BY <2>2
  <2>4. place = i
    <3> HIDE DEF place
    <3> QED
      BY <1>6, <2>2, <2>3
  <2>5. names[k] \in keys
    BY <2>2
  <2>6. LibraryReads(r)[names[k]] = r[2 * place]
    BY <1>9, <2>5
  <2> HIDE DEF place
  <2> QED
    BY <2>2, <2>4, <2>6
<1>12. DOMAIN LibraryReads(r) = keys
  BY <1>9
<1> HIDE DEF keys
<1> QED
  BY <1>8, <1>10, <1>11, <1>12 DEF r, Carries

-----------------------------------------------------------------------------
(* The calls, and the invariant.                                           *)

\* What a number is set to; create_flow_active starts with a window of 1.
NumbersFor(k, key) == Samples[key] \cup (IF k = "async_flow" THEN {1} ELSE {})

\* The setter calls of a kind.
TextCalls(k) == UNION {{<<key, text>> : text \in Setters[k][key]} : key \in DOMAIN Setters[k]}
NumberCalls(k) == UNION {{<<key, n>> : n \in NumbersFor(k, key)} : key \in NumberSetters[k]}
PropertyCalls(k) ==
    IF k # "message" THEN {}
    ELSE {<<"user_property", key, text>> : key \in UserKeys, text \in {"a", "b", "nul"}}
         \cup {<<"user_properties", map>> : map \in UserMaps}
CallsOf(k) == TextCalls(k) \cup NumberCalls(k) \cup PropertyCalls(k)

AskedInv == asked \in Seq(CallsOf(kind))

\* The required options, and only a session, a flow and a message may miss one.
GivenInv ==
    /\ DOMAIN given \subseteq RequiredOptions(kind)
    /\ kind \in {"cache", "async_flow"} => DOMAIN given = RequiredOptions(kind)
    /\ given = [key \in DOMAIN given |->
                   CASE key = "destination" -> "Queue" [] key = "bind_entity" -> "queue" [] OTHER -> "x"]

\* What the fields are before the first call.
StartTexts == IF kind = "flow" THEN given ++ FlowDefaultTexts ELSE given
StartNums == IF kind = "flow" THEN FlowDefaultNumbers ELSE <<>>

\* A field is what the last call for it says, and before one what it was at the start.
TextsInv ==
    /\ DOMAIN texts \subseteq DOMAIN Setters[kind] \cup DOMAIN StartTexts
    /\ \A key \in DOMAIN Setters[kind] \cup DOMAIN StartTexts :
          /\ AskedFor(key) /\ kind = "message" /\ LastWord(key) = "false" => key \notin DOMAIN texts
          /\ AskedFor(key) /\ ~ (kind = "message" /\ LastWord(key) = "false") =>
                key \in DOMAIN texts /\ texts[key] = LastWord(key)
          /\ ~ AskedFor(key) => /\ key \in DOMAIN texts <=> key \in DOMAIN StartTexts
                                /\ key \in DOMAIN texts => texts[key] = StartTexts[key]

NumsInv ==
    /\ DOMAIN nums \subseteq NumberSetters[kind]
    /\ \A key \in NumberSetters[kind] :
          /\ AskedFor(key) => key \in DOMAIN nums /\ nums[key] = LastWord(key)
          /\ ~ AskedFor(key) => /\ key \in DOMAIN nums <=> key \in DOMAIN StartNums
                                /\ key \in DOMAIN nums => nums[key] = StartNums[key]

UserPropsInv ==
    /\ DOMAIN userProps \subseteq UserKeys
    /\ \A key \in DOMAIN userProps : userProps[key] \in {"a", "b", "nul"}
    /\ \A key \in UserKeys :
          WantedProperty(key) = IF key \in DOMAIN userProps THEN Some(userProps[key]) ELSE None

\* What build() makes of the fields.
FaultOf == CASE kind = "session" -> SessionFault(texts, nums)
             [] kind = "async_session" -> AsyncSessionFault(texts, nums)
             [] kind = "flow" -> FlowFault(texts)
             [] kind = "async_flow" -> AsyncFlowFault(texts)
             [] kind = "cache" -> CacheFault(texts)
             [] kind = "crypto" -> CryptoFault(texts)
             [] kind = "message" -> MessageFault(texts, nums, userProps)

ListOf == CASE kind = "session" -> SessionToRaw(texts, nums)
            [] kind = "async_session" -> SessionToRaw(Forward(texts), Forward(nums))
            [] kind = "flow" -> FlowToRaw(texts, nums)
            [] kind = "async_flow" -> AsyncFlowToRaw(texts, nums)
            [] kind = "cache" -> CacheToRaw(texts, nums)
            [] kind = "crypto" -> CryptoToRaw(texts)

BuiltInv ==
    built => /\ kind # "foreign"
             /\ fault = FaultOf
             /\ fault = "none" /\ kind = "message" => msg = WriteMessage(texts, nums, userProps)
             /\ fault = "none" /\ kind # "message" => raw = ListOf

\* What another publisher and the broker can put into a message.
ForeignValues == {<<"string", "a">>, <<"string", "not utf-8">>, <<"int", "1">>}
ForeignInv ==
    /\ msg = [text |-> msg.text, num |-> msg.num, props |-> msg.props]
    /\ kind = "foreign" =>
          /\ \A key \in DOMAIN msg.text : key \in DOMAIN ForeignTexts /\ msg.text[key] \in ForeignTexts[key]
          /\ \A key \in DOMAIN msg.num \ {"class_of_service"} :
                key \in NumberSetters["foreign"] /\ msg.num[key] \in Samples[key]
          /\ \A key \in DOMAIN msg.props : key \in UserKeys \cup {"not utf-8"} /\ msg.props[key] \in ForeignValues

IInv ==
    /\ kind \in Kinds /\ AskedInv /\ GivenInv /\ TextsInv /\ NumsInv /\ UserPropsInv /\ BuiltInv /\ ForeignInv

-----------------------------------------------------------------------------
(* The setters.                                                            *)

\* The four options every session needs.
LEMMA RequiredAre == Range(Required) = {"host_name", "vpn_name", "username", "password"}
<1> DEFINE four == <<"host_name", "vpn_name", "username", "password">>
<1>1. DOMAIN four = 1 .. 4 /\ four[1] = "host_name" /\ four[2] = "vpn_name" /\ four[3] = "username" /\ four[4] = "password"
  OBVIOUS
<1>2. Required = four
  BY DEF Required
<1> HIDE DEF four
<1>3. Range(four) = {four[i] : i \in 1 .. 4}
  BY <1>1 DEF Range
<1> QED
  BY <1>1, <1>2, <1>3

\* Which setters there are that take a text or a flag.
LEMMA SettersAre ==
    /\ DOMAIN Setters["session"] = SessionTexts \cup SessionFlags
    /\ DOMAIN Setters["async_session"] = (SessionTexts \cup SessionFlags) \cap (Range(Required) \cup AsyncSessionOptions)
    /\ DOMAIN Setters["flow"] = {"bind_name", "ack_mode", "bind_entity"} \cup FlowOptions \cup FlowFlags
    /\ DOMAIN Setters["async_flow"] = {"bind_name", "ack_mode", "active_flow_indication"}
    /\ DOMAIN Setters["cache"] = {"cache_name"}
    /\ DOMAIN Setters["crypto"] = {"ssl_lib", "crypto_lib"}
    /\ DOMAIN Setters["message"] = {"correlation_id", "application_id", "application_msg_type", "payload", "destination"}
                                   \cup MessageFlags
    /\ DOMAIN Setters["foreign"] = DOMAIN ForeignTexts
<1>1. /\ Setters["session"] = SessionSetters /\ Setters["async_session"] = AsyncSessionSetters
      /\ Setters["flow"] = FlowSetters /\ Setters["async_flow"] = AsyncFlowSetters
      /\ Setters["cache"] = [cache_name |-> {"y", "nul"}]
      /\ Setters["crypto"] = [key \in {"ssl_lib", "crypto_lib"} |-> {"y", "nul"}]
      /\ Setters["message"] = MessageSetters /\ Setters["foreign"] = ForeignTexts
  BY DEF Setters
<1>2. DOMAIN SessionSetters = SessionTexts \cup SessionFlags
  BY DEF SessionSetters, ++
<1>3. DOMAIN AsyncSessionSetters = (SessionTexts \cup SessionFlags) \cap (Range(Required) \cup AsyncSessionOptions)
  BY <1>2 DEF AsyncSessionSetters, Restrict
<1>4. DOMAIN FlowSetters = {"bind_name", "ack_mode", "bind_entity"} \cup FlowOptions \cup FlowFlags
  BY DEF FlowSetters, ++
<1>5. DOMAIN AsyncFlowSetters = {"bind_name", "ack_mode", "active_flow_indication"}
  BY DEF AsyncFlowSetters, Restrict
<1>6. DOMAIN MessageSetters = {"correlation_id", "application_id", "application_msg_type", "payload", "destination"}
                              \cup MessageFlags
  BY DEF MessageSetters, ++
<1> QED
  BY <1>1, <1>2, <1>3, <1>4, <1>5, <1>6

\* What they take.
LEMMA SetterTexts ==
    /\ \A key \in DOMAIN Setters["session"] :
          Setters["session"][key] = IF key \in SessionTexts THEN {"y", "nul"} ELSE {"true", "false"}
    /\ \A key \in DOMAIN Setters["async_session"] : Setters["async_session"][key] = Setters["session"][key]
    /\ \A key \in DOMAIN Setters["flow"] :
          Setters["flow"][key] = IF key \in FlowFlags THEN {"true", "false"}
                                 ELSE IF key = "ack_mode" THEN {"auto", "client"}
                                 ELSE IF key = "bind_entity" THEN {"queue", "topic_endpoint"} ELSE {"y", "nul"}
    /\ \A key \in DOMAIN Setters["async_flow"] : Setters["async_flow"][key] = Setters["flow"][key]
    /\ Setters["cache"]["cache_name"] = {"y", "nul"}
    /\ Setters["crypto"]["ssl_lib"] = {"y", "nul"} /\ Setters["crypto"]["crypto_lib"] = {"y", "nul"}
    /\ \A key \in DOMAIN Setters["message"] :
          Setters["message"][key] = IF key \in MessageFlags THEN {"true", "false"}
                                    ELSE IF key = "payload" THEN {"y"}
                                    ELSE IF key = "destination" THEN {"Topic", "Queue", "TopicTemp", "QueueTemp"}
                                    ELSE {"y", "nul"}
<1>1. /\ Setters["session"] = SessionSetters /\ Setters["async_session"] = AsyncSessionSetters
      /\ Setters["flow"] = FlowSetters /\ Setters["async_flow"] = AsyncFlowSetters
      /\ Setters["cache"] = [cache_name |-> {"y", "nul"}]
      /\ Setters["crypto"] = [key \in {"ssl_lib", "crypto_lib"} |-> {"y", "nul"}]
      /\ Setters["message"] = MessageSetters
  BY DEF Setters
<1>2. /\ DOMAIN SessionSetters = SessionTexts \cup SessionFlags
      /\ \A key \in DOMAIN SessionSetters :
            SessionSetters[key] = IF key \in SessionTexts THEN {"y", "nul"} ELSE {"true", "false"}
  BY DEF SessionSetters, ++
<1>3. \A key \in DOMAIN AsyncSessionSetters : AsyncSessionSetters[key] = SessionSetters[key]
  BY DEF AsyncSessionSetters, Restrict
<1>4. \A key \in DOMAIN FlowSetters :
         FlowSetters[key] = IF key \in FlowFlags THEN {"true", "false"}
                            ELSE IF key = "ack_mode" THEN {"auto", "client"}
                            ELSE IF key = "bind_entity" THEN {"queue", "topic_endpoint"} ELSE {"y", "nul"}
  BY DEF FlowSetters, ++, FlowFlags, FlowOptions
<1>5. \A key \in DOMAIN AsyncFlowSetters : AsyncFlowSetters[key] = FlowSetters[key]
  BY DEF AsyncFlowSetters, Restrict
<1>6. \A key \in DOMAIN MessageSetters :
         MessageSetters[key] = IF key \in MessageFlags THEN {"true", "false"}
                               ELSE IF key = "payload" THEN {"y"}
                               ELSE IF key = "destination" THEN {"Topic", "Queue", "TopicTemp", "QueueTemp"}
                               ELSE {"y", "nul"}
  BY DEF MessageSetters, ++, MessageFlags
<1> QED
  BY <1>1, <1>2, <1>3, <1>4, <1>5, <1>6

AnyKind == {"session", "async_session", "flow", "async_flow", "cache", "crypto", "message", "foreign"}

\* No option takes both a text and a number.
LEMMA OptionsApart ==
    ASSUME NEW k \in AnyKind
    PROVE  /\ DOMAIN Setters[k] \cap NumberSetters[k] = {}
           /\ {"user_property", "user_properties"} \cap (DOMAIN Setters[k] \cup NumberSetters[k]) = {}
<1>1. CASE k = "session"
  BY <1>1, SettersAre, RequiredAre DEF NumberSetters, SessionTexts, SessionFlags, SessionNumbers, LowerBound, UpperBound
<1>2. CASE k = "async_session"
  BY <1>2, SettersAre, RequiredAre DEF NumberSetters, SessionTexts, SessionFlags, SessionNumbers, LowerBound, UpperBound
<1>3. CASE k = "flow"
  BY <1>3, SettersAre DEF NumberSetters, FlowOptions, FlowFlags
<1>4. CASE k = "async_flow"
  BY <1>4, SettersAre DEF NumberSetters
<1>5. CASE k = "cache"
  BY <1>5, SettersAre DEF NumberSetters, CacheDefaults
<1>6. CASE k = "crypto"
  BY <1>6, SettersAre DEF NumberSetters
<1>7. CASE k = "message"
  BY <1>7, SettersAre DEF NumberSetters, MessageFlags
<1>8. CASE k = "foreign"
  BY <1>8, SettersAre DEF NumberSetters, ForeignTexts
<1> QED
  BY <1>1, <1>2, <1>3, <1>4, <1>5, <1>6, <1>7, <1>8 DEF AnyKind

-----------------------------------------------------------------------------
(* The last of the calls.                                                  *)

PlacesOf(s, X) == {i \in DOMAIN s : s[i] \in X}

\* A call becomes the last of those like it, and leaves the last of the others alone.
LatestAfter(s, call, X) ==
    /\ call \in X => /\ PlacesOf(Append(s, call), X) # {}
                     /\ Append(s, call)[Max(PlacesOf(Append(s, call), X))] = call
    /\ call \notin X => /\ PlacesOf(Append(s, call), X) = PlacesOf(s, X)
                        /\ PlacesOf(s, X) # {} => Append(s, call)[Max(PlacesOf(s, X))] = s[Max(PlacesOf(s, X))]

\* Whatever the sequence and the set are.
LEMMA LastPlace ==
    ASSUME NEW C, NEW s \in Seq(C), NEW call \in C, NEW X
    PROVE  LatestAfter(s, call, X)
<1> DEFINE t == Append(s, call)
<1>1. /\ Len(s) \in Nat /\ DOMAIN s = 1 .. Len(s) /\ DOMAIN t = 1 .. Len(s) + 1
      /\ t[Len(s) + 1] = call /\ \A i \in 1 .. Len(s) : t[i] = s[i]
  OBVIOUS
<1> HIDE DEF t
<1>2. CASE call \in X
  <2>1. Len(s) + 1 \in PlacesOf(t, X) /\ PlacesOf(t, X) \in SUBSET (0 .. Len(s) + 1)
    BY <1>1, <1>2 DEF PlacesOf
  <2>2. Max(PlacesOf(t, X)) \in PlacesOf(t, X) /\ \A m \in PlacesOf(t, X) : m <= Max(PlacesOf(t, X))
    <3>1. Len(s) + 1 \in Nat
      BY <1>1
    <3> QED
      BY <2>1, <3>1, MaxIsLargest
  <2>3. Max(PlacesOf(t, X)) = Len(s) + 1
    BY <1>1, <2>1, <2>2
  <2> QED
    BY <1>1, <1>2, <2>1, <2>3 DEF t, LatestAfter
<1>3. CASE call \notin X
  <2>1. PlacesOf(t, X) = PlacesOf(s, X)
    <3>1. Len(s) + 1 \notin PlacesOf(t, X) /\ Len(s) + 1 \notin PlacesOf(s, X)
      BY <1>1, <1>3 DEF PlacesOf
    <3>2. \A i \in 1 .. Len(s) : i \in PlacesOf(t, X) <=> i \in PlacesOf(s, X)
      BY <1>1 DEF PlacesOf
    <3>3. PlacesOf(t, X) \subseteq 1 .. Len(s) + 1 /\ PlacesOf(s, X) \subseteq 1 .. Len(s)
      BY <1>1 DEF PlacesOf
    <3>4. \A i \in 1 .. Len(s) + 1 : i \in 1 .. Len(s) \/ i = Len(s) + 1
      BY <1>1
    <3>5. \A i : i \in PlacesOf(t, X) <=> i \in PlacesOf(s, X)
      BY <3>1, <3>2, <3>3, <3>4
    <3> QED
      BY <3>5
  <2>2. ASSUME PlacesOf(s, X) # {}
        PROVE  t[Max(PlacesOf(s, X))] = s[Max(PlacesOf(s, X))]
    <3>1. PlacesOf(s, X) \in SUBSET (0 .. Len(s)) /\ \A i \in PlacesOf(s, X) : i \in 1 .. Len(s)
      BY <1>1 DEF PlacesOf
    <3>2. Max(PlacesOf(s, X)) \in PlacesOf(s, X)
      BY <1>1, <2>2, <3>1, MaxIsLargest
    <3> QED
      BY <1>1, <3>1, <3>2
  <2> QED
    BY <1>3, <2>1, <2>2 DEF t, LatestAfter
<1> QED
  BY <1>2, <1>3 DEF LatestAfter

\* What a call changes of the last word on an option.
LEMMA LastWordAfterCall ==
    ASSUME NEW C, asked \in Seq(C), NEW call \in C, Note(call), given' = given, NEW key
    PROVE  /\ AskedFor(key)' <=> AskedFor(key) \/ call[1] = key
           /\ call[1] = key => LastWord(key)' = call[2]
           /\ call[1] # key => LastWord(key)' = LastWord(key)
<1> DEFINE X == {c \in C : c[1] = key}
           t == Append(asked, call)
<1>1. asked' = t
  BY DEF Note
<1>2. t \in Seq(C)
  OBVIOUS
<1>3. {i \in DOMAIN asked : asked[i][1] = key} = PlacesOf(asked, X)
  BY DEF PlacesOf
<1>4. {i \in DOMAIN t : t[i][1] = key} = PlacesOf(t, X)
  <2> HIDE DEF t
  <2> QED
    BY <1>2 DEF PlacesOf
<1>5. /\ AskedFor(key) <=> PlacesOf(asked, X) # {}
      /\ AskedFor(key)' <=> PlacesOf(t, X) # {}
  BY <1>1, <1>3, <1>4 DEF AskedFor
<1>6. /\ LastWord(key) = IF AskedFor(key) THEN asked[Max(PlacesOf(asked, X))][2] ELSE given[key]
      /\ LastWord(key)' = IF AskedFor(key)' THEN t[Max(PlacesOf(t, X))][2] ELSE given[key]
  BY <1>1, <1>3, <1>4 DEF LastWord
<1>7. call \in X <=> call[1] = key
  OBVIOUS
<1>8. /\ call \in X => PlacesOf(t, X) # {} /\ t[Max(PlacesOf(t, X))] = call
      /\ call \notin X => /\ PlacesOf(t, X) = PlacesOf(asked, X)
                          /\ PlacesOf(asked, X) # {} => t[Max(PlacesOf(asked, X))] = asked[Max(PlacesOf(asked, X))]
  <2>1. LatestAfter(asked, call, X)
    <3> HIDE DEF X
    <3> QED
      BY LastPlace
  <2> HIDE DEF X
  <2> QED
    BY <2>1 DEF LatestAfter
<1> HIDE DEF t, X
<1> QED
  BY <1>5, <1>6, <1>7, <1>8

\* And of the user properties.
LEMMA WantedPropertyAfterCall ==
    ASSUME NEW C, asked \in Seq(C), NEW call \in C, Note(call), NEW key
    PROVE  /\ call[1] = "user_property" /\ call[2] = key => WantedProperty(key)' = Some(call[3])
           /\ call[1] = "user_properties" =>
                 WantedProperty(key)' = IF key \in DOMAIN call[2] THEN Some(call[2][key]) ELSE None
           /\ call[1] # "user_properties" /\ ~ (call[1] = "user_property" /\ call[2] = key) =>
                 WantedProperty(key)' = WantedProperty(key)
<1> DEFINE X == {c \in C : c[1] = "user_properties" \/ (c[1] = "user_property" /\ c[2] = key)}
           t == Append(asked, call)
           Says(c) == IF c[1] = "user_property" THEN Some(c[3])
                      ELSE IF key \in DOMAIN c[2] THEN Some(c[2][key]) ELSE None
<1>1. asked' = t
  BY DEF Note
<1>2. t \in Seq(C)
  OBVIOUS
<1> DEFINE Touching(s) == {i \in DOMAIN s : \/ s[i][1] = "user_properties"
                                            \/ s[i][1] = "user_property" /\ s[i][2] = key}
<1>3. Touching(asked) = PlacesOf(asked, X)
  BY DEF PlacesOf
<1>4. Touching(t) = PlacesOf(t, X)
  <2> HIDE DEF t
  <2> QED
    BY <1>2 DEF PlacesOf
<1>5. WantedProperty(key) = IF PlacesOf(asked, X) = {} THEN None ELSE Says(asked[Max(PlacesOf(asked, X))])
  <2>1. WantedProperty(key) = IF Touching(asked) = {} THEN None ELSE Says(asked[Max(Touching(asked))])
    BY Zenon DEF WantedProperty
  <2> HIDE DEF Touching, X, Says
  <2> QED
    BY <1>3, <2>1
<1>6. WantedProperty(key)' = IF PlacesOf(t, X) = {} THEN None ELSE Says(t[Max(PlacesOf(t, X))])
  <2>1. WantedProperty(key)' = IF Touching(asked') = {} THEN None ELSE Says(asked'[Max(Touching(asked'))])
    BY Zenon DEF WantedProperty
  <2> HIDE DEF Touching, X, Says, t
  <2> QED
    BY <1>1, <1>4, <2>1
<1>7. /\ call \in X => PlacesOf(t, X) # {} /\ t[Max(PlacesOf(t, X))] = call
      /\ call \notin X => /\ PlacesOf(t, X) = PlacesOf(asked, X)
                          /\ PlacesOf(asked, X) # {} => t[Max(PlacesOf(asked, X))] = asked[Max(PlacesOf(asked, X))]
  <2>1. LatestAfter(asked, call, X)
    <3> HIDE DEF X
    <3> QED
      BY LastPlace
  <2> HIDE DEF X
  <2> QED
    BY <2>1 DEF LatestAfter
<1>8. CASE call \in X
  <2>1. WantedProperty(key)' = Says(call)
    <3> HIDE DEF t, X, Says
    <3> QED
      BY <1>6, <1>7, <1>8
  <2>2. call[1] = "user_properties" \/ (call[1] = "user_property" /\ call[2] = key)
    BY <1>8
  <2> QED
    BY <2>1, <2>2
<1>9. CASE call \notin X
  <2>1. WantedProperty(key)' = WantedProperty(key)
    <3> HIDE DEF t, X, Says
    <3> QED
      BY <1>5, <1>6, <1>7, <1>9
  <2>2. ~ (call[1] = "user_properties" \/ (call[1] = "user_property" /\ call[2] = key))
    BY <1>9
  <2> QED
    BY <2>1, <2>2, Zenon
<1> QED
  BY <1>8, <1>9

-----------------------------------------------------------------------------
(* The invariant holds.                                                    *)

\* It holds before the first call.
LEMMA Initially == Init => IInv
<1> SUFFICES ASSUME Init PROVE IInv
  OBVIOUS
<1> USE DEF Init
<1>1. kind \in AnyKind
  BY KindsAssumption DEF AnyKind
<1>2. GivenInv
  <2>1. PICK without \in (IF kind \in {"cache", "async_flow"} THEN {} ELSE RequiredOptions(kind)) \cup {"none"} :
            given = [key \in RequiredOptions(kind) \ {without} |->
                        CASE key = "destination" -> "Queue" [] key = "bind_entity" -> "queue" [] OTHER -> "x"]
    OBVIOUS
  <2>2. DOMAIN given = RequiredOptions(kind) \ {without}
    BY <2>1
  <2>3. kind \in {"cache", "async_flow"} => "none" \notin RequiredOptions(kind) /\ without = "none"
    BY <2>1 DEF RequiredOptions
  <2> QED
    BY <2>1, <2>2, <2>3 DEF GivenInv
<1>3. CASE kind = "async_flow"
  <2>1. /\ asked = <<<<"ack_mode", "auto">>, <<"window_size", 1>>, <<"active_flow_indication", "false">>>>
        /\ texts = given ++ [ack_mode |-> "auto", active_flow_indication |-> "false"] /\ nums = [window_size |-> 1]
    BY <1>3 DEF FirstCalls
  <2>2. asked[1] \in TextCalls(kind) /\ asked[2] \in NumberCalls(kind) /\ asked[3] \in TextCalls(kind)
    <3>1. /\ "ack_mode" \in DOMAIN Setters[kind] /\ "auto" \in Setters[kind]["ack_mode"]
          /\ "active_flow_indication" \in DOMAIN Setters[kind] /\ "false" \in Setters[kind]["active_flow_indication"]
      BY <1>3, SettersAre, SetterTexts DEF FlowFlags
    <3>2. "window_size" \in NumberSetters[kind] /\ 1 \in NumbersFor(kind, "window_size")
      BY <1>3 DEF NumberSetters, NumbersFor
    <3> QED
      BY <2>1, <3>1, <3>2 DEF TextCalls, NumberCalls
  <2>3. DOMAIN asked = 1 .. 3 /\ Len(asked) = 3
    BY <2>1
  <2>4. AskedInv
    BY <2>1, <2>2 DEF AskedInv, CallsOf
  <2>5. \A key : /\ AskedFor(key) <=> key \in {"ack_mode", "window_size", "active_flow_indication"}
    BY <2>1, <2>3 DEF AskedFor
  <2>6. ASSUME NEW i \in 1 .. 3 PROVE LastWord(asked[i][1]) = asked[i][2]
    <3>1. {j \in DOMAIN asked : asked[j][1] = asked[i][1]} = {i}
      BY <2>1, <2>3
    <3>2. Max({i}) = i
      BY DEF Max
    <3>3. AskedFor(asked[i][1])
      BY <2>3 DEF AskedFor
    <3> QED
      BY <3>1, <3>2, <3>3 DEF LastWord
  <2>7. LastWord("ack_mode") = "auto" /\ LastWord("window_size") = 1 /\ LastWord("active_flow_indication") = "false"
    <3>1. asked[1][1] = "ack_mode" /\ asked[1][2] = "auto" /\ asked[2][1] = "window_size" /\ asked[2][2] = 1
          /\ asked[3][1] = "active_flow_indication" /\ asked[3][2] = "false"
      BY <2>1
    <3> QED
      BY <2>6, <3>1
  <2>8. DOMAIN given = {"bind_name"}
    BY <1>2, <1>3 DEF GivenInv, RequiredOptions
  <2>9. TextsInv
    BY <1>3, <2>1, <2>5, <2>7, <2>8, SettersAre DEF TextsInv, StartTexts, ++
  <2>10. NumsInv
    BY <1>3, <2>1, <2>5, <2>7 DEF NumsInv, StartNums, NumberSetters
  <2>11. UserPropsInv
    <3>1. \A i \in DOMAIN asked : asked[i][1] \notin {"user_property", "user_properties"}
      BY <2>1, <2>3
    <3> QED
      BY <3>1 DEF UserPropsInv, WantedProperty
  <2>12. BuiltInv /\ ForeignInv
    BY <1>3 DEF BuiltInv, ForeignInv, EmptyMessage
  <2> QED
    BY <1>2, <2>4, <2>9, <2>10, <2>11, <2>12 DEF IInv
<1>4. CASE kind # "async_flow"
  <2>1. asked = <<>> /\ DOMAIN asked = {}
    BY <1>4 DEF FirstCalls
  <2>2. AskedInv
    BY <2>1 DEF AskedInv
  <2>3. \A key : ~ AskedFor(key)
    BY <2>1 DEF AskedFor
  <2>4. texts = StartTexts
    BY <1>4 DEF StartTexts
  <2>5. nums = StartNums
    BY <1>4 DEF StartNums
  <2>6. TextsInv
    BY <2>3, <2>4 DEF TextsInv
  <2>7. NumsInv
    BY <2>3, <2>5 DEF NumsInv, StartNums, FlowDefaultNumbers, NumberSetters
  <2>8. UserPropsInv
    BY <2>1 DEF UserPropsInv, WantedProperty
  <2>9. BuiltInv /\ ForeignInv
    BY DEF BuiltInv, ForeignInv, EmptyMessage
  <2> QED
    BY <1>2, <2>2, <2>6, <2>7, <2>8, <2>9 DEF IInv
<1> QED
  BY <1>3, <1>4

\* What every setter call leaves as it was.
LEMMA CallsKeepTheRest ==
    ASSUME IInv, NEW call \in CallsOf(kind), Calls, Note(call), UNCHANGED <<kind, given, resultVars>>
    PROVE  kind' \in Kinds /\ AskedInv' /\ GivenInv' /\ BuiltInv' /\ ForeignInv'
           /\ UNCHANGED <<StartTexts, StartNums>>
<1>1. AskedInv'
  <2>1. asked \in Seq(CallsOf(kind)) /\ CallsOf(kind)' = CallsOf(kind)
    BY DEF IInv, AskedInv, CallsOf, TextCalls, NumberCalls, PropertyCalls
  <2> HIDE DEF CallsOf
  <2>2. Append(asked, call) \in Seq(CallsOf(kind))
    BY <2>1
  <2> QED
    BY <2>1, <2>2 DEF AskedInv, Note
<1>2. GivenInv'
  BY DEF IInv, GivenInv
<1>3. BuiltInv'
  BY DEF BuiltInv, resultVars, Calls
<1>4. ForeignInv'
  BY DEF IInv, ForeignInv, resultVars
<1> QED
  BY <1>1, <1>2, <1>3, <1>4 DEF IInv, StartTexts, StartNums

\* A text or a flag is set.
LEMMA SetTextKeeps ==
    ASSUME IInv, NEW key \in DOMAIN Setters[kind], NEW text \in Setters[kind][key], SetText(key, text)
    PROVE  IInv'
<1> DEFINE call == <<key, text>>
<1>1. call \in CallsOf(kind)
  BY DEF CallsOf, TextCalls
<1>2. /\ Calls /\ Note(call) /\ UNCHANGED <<kind, given, nums, userProps, resultVars>>
      /\ texts' = IF kind = "message" /\ text = "false" THEN Restrict(texts, DOMAIN texts \ {key})
                  ELSE With(texts, key, text)
  BY DEF SetText
<1>3. kind' \in Kinds /\ AskedInv' /\ GivenInv' /\ BuiltInv' /\ ForeignInv' /\ UNCHANGED <<StartTexts, StartNums>>
  BY <1>1, <1>2, CallsKeepTheRest
<1>4. call[1] = key /\ call[2] = text
  OBVIOUS
<1>5. key \notin NumberSetters[kind] /\ key \notin {"user_property", "user_properties"}
  BY KindsAssumption, OptionsApart DEF IInv, AnyKind
<1> HIDE DEF call
<1>6. \A k : /\ AskedFor(k)' <=> AskedFor(k) \/ key = k
             /\ key = k => LastWord(k)' = text
             /\ key # k => LastWord(k)' = LastWord(k)
  BY <1>1, <1>2, <1>4, LastWordAfterCall DEF IInv, AskedInv
<1>7. \A k : WantedProperty(k)' = WantedProperty(k)
  BY <1>1, <1>2, <1>4, <1>5, WantedPropertyAfterCall DEF IInv, AskedInv
<1>8. TextsInv'
  <2>1. UNCHANGED <<kind, DOMAIN Setters[kind], StartTexts>>
    BY <1>2, <1>3
  <2>2. TextsInv
    BY DEF IInv
  <2>3. CASE kind = "message" /\ text = "false"
    <3>1. DOMAIN texts' = DOMAIN texts \ {key} /\ \A k \in DOMAIN texts' : texts'[k] = texts[k]
      BY <1>2, <2>3 DEF Restrict
    <3> QED
      BY <1>6, <2>1, <2>2, <2>3, <3>1 DEF TextsInv
  <2>4. CASE ~ (kind = "message" /\ text = "false")
    <3>1. /\ DOMAIN texts' = DOMAIN texts \cup {key} /\ texts'[key] = text
          /\ \A k \in DOMAIN texts : k # key => texts'[k] = texts[k]
      BY <1>2, <2>4 DEF With
    <3> QED
      BY <1>6, <2>1, <2>2, <2>4, <3>1 DEF TextsInv
  <2> QED
    BY <2>3, <2>4
<1>9. NumsInv'
  BY <1>2, <1>3, <1>5, <1>6 DEF IInv, NumsInv
<1>10. UserPropsInv'
  BY <1>2, <1>7 DEF IInv, UserPropsInv
<1> QED
  BY <1>3, <1>8, <1>9, <1>10 DEF IInv

\* What is there before the first call is no number.
LEMMA StartsApart ==
    ASSUME IInv
    PROVE  DOMAIN StartTexts \cap NumberSetters[kind] = {}
<1> SUFFICES ASSUME NEW key \in NumberSetters[kind] PROVE key \notin DOMAIN StartTexts
  OBVIOUS
<1>1. CASE kind = "flow"
  <2>1. DOMAIN StartTexts \subseteq {"bind_entity", "bind_name", "on_message"} \cup DOMAIN FlowDefaultTexts
    BY <1>1 DEF StartTexts, ++, IInv, GivenInv, RequiredOptions
  <2>2. key \in {"window_size", "max_unacked_messages"}
    BY <1>1 DEF NumberSetters
  <2> QED
    BY <2>1, <2>2 DEF FlowDefaultTexts
<1>2. CASE kind # "flow"
  <2>1. DOMAIN StartTexts \subseteq RequiredOptions(kind)
    BY <1>2 DEF StartTexts, IInv, GivenInv
  <2>2. kind \in AnyKind
    BY KindsAssumption DEF IInv, AnyKind
  <2>3. CASE kind \in {"session", "async_session"}
    <3>1. RequiredOptions(kind) \subseteq DOMAIN Setters[kind]
      BY <2>3, SettersAre, RequiredAre DEF RequiredOptions, SessionTexts
    <3> QED
      BY <2>1, <2>2, <3>1, OptionsApart
  <2>4. CASE kind = "message"
    BY <2>1, <2>4 DEF RequiredOptions, NumberSetters
  <2>5. CASE kind \in {"async_flow", "cache", "crypto", "foreign"}
    BY <2>1, <2>5 DEF RequiredOptions, NumberSetters, CacheDefaults
  <2> QED
    BY <1>2, <2>2, <2>3, <2>4, <2>5 DEF AnyKind
<1> QED
  BY <1>1, <1>2

\* A number is set.
LEMMA SetNumberKeeps ==
    ASSUME IInv, NEW key \in NumberSetters[kind], NEW n \in Samples[key], SetNumber(key, n)
    PROVE  IInv'
<1> DEFINE call == <<key, n>>
<1>1. call \in CallsOf(kind)
  BY DEF CallsOf, NumberCalls, NumbersFor
<1>2. /\ Calls /\ Note(call) /\ UNCHANGED <<kind, given, texts, userProps, resultVars>>
      /\ nums' = With(nums, key, n)
  BY DEF SetNumber
<1>3. kind' \in Kinds /\ AskedInv' /\ GivenInv' /\ BuiltInv' /\ ForeignInv' /\ UNCHANGED <<StartTexts, StartNums>>
  BY <1>1, <1>2, CallsKeepTheRest
<1>4. call[1] = key /\ call[2] = n
  OBVIOUS
<1>5. key \notin DOMAIN Setters[kind] /\ key \notin {"user_property", "user_properties"}
  BY KindsAssumption, OptionsApart DEF IInv, AnyKind
<1> HIDE DEF call
<1>6. \A k : /\ AskedFor(k)' <=> AskedFor(k) \/ key = k
             /\ key = k => LastWord(k)' = n
             /\ key # k => LastWord(k)' = LastWord(k)
  BY <1>1, <1>2, <1>4, LastWordAfterCall DEF IInv, AskedInv
<1>7. \A k : WantedProperty(k)' = WantedProperty(k)
  BY <1>1, <1>2, <1>4, <1>5, WantedPropertyAfterCall DEF IInv, AskedInv
<1>8. NumsInv'
  <2>1. /\ DOMAIN nums' = DOMAIN nums \cup {key} /\ nums'[key] = n
        /\ \A k \in DOMAIN nums : k # key => nums'[k] = nums[k]
    BY <1>2 DEF With
  <2> QED
    BY <1>2, <1>3, <1>6, <2>1 DEF IInv, NumsInv
<1>9. TextsInv'
  <2>1. \A k \in DOMAIN StartTexts : k # key
    BY StartsApart
  <2>2. \A k \in DOMAIN Setters[kind] \cup DOMAIN StartTexts : k # key
    BY <1>5, <2>1
  <2>3. UNCHANGED <<kind, texts, DOMAIN Setters[kind], StartTexts>>
    BY <1>2, <1>3
  <2>4. TextsInv
    BY DEF IInv
  <2> QED
    BY <1>6, <2>2, <2>3, <2>4 DEF TextsInv
<1>10. UserPropsInv'
  BY <1>2, <1>7 DEF IInv, UserPropsInv
<1> QED
  BY <1>3, <1>8, <1>9, <1>10 DEF IInv

\* A call about user properties is about no option.
LEMMA PropertyCallsKeepTheFields ==
    ASSUME IInv, NEW call \in PropertyCalls(kind), Calls, Note(call), UNCHANGED <<kind, given, texts, nums, resultVars>>
    PROVE  kind' \in Kinds /\ AskedInv' /\ GivenInv' /\ TextsInv' /\ NumsInv' /\ BuiltInv' /\ ForeignInv'
<1>1. call \in CallsOf(kind)
  BY DEF CallsOf
<1>2. kind' \in Kinds /\ AskedInv' /\ GivenInv' /\ BuiltInv' /\ ForeignInv' /\ UNCHANGED <<StartTexts, StartNums>>
  BY <1>1, CallsKeepTheRest
<1>3. kind = "message" /\ call[1] \in {"user_property", "user_properties"}
  BY DEF PropertyCalls
<1>4. \A k : k \notin {"user_property", "user_properties"} =>
             (AskedFor(k)' <=> AskedFor(k)) /\ LastWord(k)' = LastWord(k)
  BY <1>1, <1>3, LastWordAfterCall DEF IInv, AskedInv
<1>5. \A k \in DOMAIN Setters[kind] \cup NumberSetters[kind] \cup DOMAIN StartTexts :
         k \notin {"user_property", "user_properties"}
  <2>1. DOMAIN StartTexts \subseteq {"delivery_mode", "destination", "payload"}
    BY <1>3 DEF StartTexts, IInv, GivenInv, RequiredOptions
  <2> QED
    BY <2>1, KindsAssumption, OptionsApart DEF IInv, AnyKind
<1>6. TextsInv'
  <2>1. TextsInv /\ UNCHANGED <<kind, texts, DOMAIN Setters[kind], StartTexts>>
    BY <1>2 DEF IInv
  <2> QED
    BY <1>4, <1>5, <2>1 DEF TextsInv
<1>7. NumsInv'
  <2>1. NumsInv /\ UNCHANGED <<kind, nums, NumberSetters[kind], StartNums>>
    BY <1>2 DEF IInv
  <2> QED
    BY <1>4, <1>5, <2>1 DEF NumsInv
<1> QED
  BY <1>2, <1>6, <1>7

\* A user property is set.
LEMMA SetUserPropertyKeeps ==
    ASSUME IInv, NEW key \in UserKeys, NEW text \in {"a", "b", "nul"}, SetUserProperty(key, text)
    PROVE  IInv'
<1> DEFINE call == <<"user_property", key, text>>
<1>1. /\ Calls /\ kind = "message" /\ Note(call) /\ UNCHANGED <<kind, given, texts, nums, resultVars>>
      /\ userProps' = With(userProps, key, text)
  BY DEF SetUserProperty
<1>2. call \in PropertyCalls(kind) /\ call \in CallsOf(kind)
  BY <1>1 DEF CallsOf, PropertyCalls
<1>3. call[1] = "user_property" /\ call[2] = key /\ call[3] = text
  OBVIOUS
<1> HIDE DEF call
<1>4. \A k : /\ k = key => WantedProperty(k)' = Some(text)
             /\ k # key => WantedProperty(k)' = WantedProperty(k)
  BY <1>1, <1>2, <1>3, WantedPropertyAfterCall DEF IInv, AskedInv
<1>5. /\ DOMAIN userProps' = DOMAIN userProps \cup {key} /\ userProps'[key] = text
      /\ \A k \in DOMAIN userProps : k # key => userProps'[k] = userProps[k]
  BY <1>1 DEF With
<1>6. UserPropsInv'
  BY <1>4, <1>5 DEF IInv, UserPropsInv
<1>7. kind' \in Kinds /\ AskedInv' /\ GivenInv' /\ TextsInv' /\ NumsInv' /\ BuiltInv' /\ ForeignInv'
  BY <1>1, <1>2, PropertyCallsKeepTheFields
<1> QED
  BY <1>6, <1>7 DEF IInv

\* All of them are.
LEMMA SetUserPropertiesKeeps ==
    ASSUME IInv, NEW map \in UserMaps, SetUserProperties(map)
    PROVE  IInv'
<1> DEFINE call == <<"user_properties", map>>
<1>1. /\ Calls /\ kind = "message" /\ Note(call) /\ UNCHANGED <<kind, given, texts, nums, resultVars>>
      /\ userProps' = map
  BY DEF SetUserProperties
<1>2. call \in PropertyCalls(kind) /\ call \in CallsOf(kind)
  BY <1>1 DEF CallsOf, PropertyCalls
<1>3. call[1] = "user_properties" /\ call[2] = map
  OBVIOUS
<1> HIDE DEF call
<1>4. \A k : WantedProperty(k)' = IF k \in DOMAIN map THEN Some(map[k]) ELSE None
  BY <1>1, <1>2, <1>3, WantedPropertyAfterCall DEF IInv, AskedInv
<1>5. DOMAIN map \subseteq UserKeys /\ \A k \in DOMAIN map : map[k] \in {"a", "b", "nul"}
  BY DEF UserMaps, UserKeys
<1>6. UserPropsInv'
  BY <1>1, <1>4, <1>5 DEF UserPropsInv
<1>7. kind' \in Kinds /\ AskedInv' /\ GivenInv' /\ TextsInv' /\ NumsInv' /\ BuiltInv' /\ ForeignInv'
  BY <1>1, <1>2, PropertyCallsKeepTheFields
<1> QED
  BY <1>6, <1>7 DEF IInv

\* What holds as long as no setter is called.
LEMMA WithoutCalls ==
    ASSUME IInv, UNCHANGED <<kind, given, texts, nums, userProps, asked>>
    PROVE  /\ kind' \in Kinds /\ AskedInv' /\ GivenInv' /\ TextsInv' /\ NumsInv' /\ UserPropsInv'
           /\ UNCHANGED <<FaultOf, ListOf>>
<1>1. kind' \in Kinds /\ AskedInv' /\ GivenInv'
  BY DEF IInv, AskedInv, GivenInv
<1>2. UNCHANGED <<StartTexts, StartNums>>
  BY DEF StartTexts, StartNums
<1>3. \A k : AskedFor(k)' <=> AskedFor(k)
  BY DEF AskedFor
<1>4. \A k : LastWord(k)' = LastWord(k)
  BY DEF AskedFor, LastWord
<1>5. \A k : WantedProperty(k)' = WantedProperty(k)
  BY DEF WantedProperty
<1>6. TextsInv'
  <2>1. TextsInv /\ UNCHANGED <<kind, texts, DOMAIN Setters[kind], StartTexts>>
    BY <1>2 DEF IInv
  <2> QED
    BY <1>3, <1>4, <2>1 DEF TextsInv
<1>7. NumsInv'
  <2>1. NumsInv /\ UNCHANGED <<kind, nums, NumberSetters[kind], StartNums>>
    BY <1>2 DEF IInv
  <2> QED
    BY <1>3, <1>4, <2>1 DEF NumsInv
<1>8. UserPropsInv'
  BY <1>5 DEF IInv, UserPropsInv
<1>9. UNCHANGED <<FaultOf, ListOf>>
  BY DEF FaultOf, ListOf
<1> QED
  BY <1>1, <1>6, <1>7, <1>8, <1>9

\* A list is built.
LEMMA BuildListKeeps ==
    ASSUME IInv, NEW why, NEW list, BuildList(why, list), kind \notin {"message", "foreign"},
           why = FaultOf, list = ListOf
    PROVE  IInv'
<1>1. /\ UNCHANGED <<kind, given, texts, nums, userProps, asked, msg>>
      /\ fault' = why /\ raw' = IF why = "none" THEN list ELSE NoList
  BY DEF BuildList, fieldVars
<1>2. /\ kind' \in Kinds /\ AskedInv' /\ GivenInv' /\ TextsInv' /\ NumsInv' /\ UserPropsInv'
      /\ FaultOf' = FaultOf /\ ListOf' = ListOf
  BY <1>1, WithoutCalls
<1>3. ForeignInv'
  BY <1>1 DEF IInv, ForeignInv
<1>4. BuiltInv'
  BY <1>1, <1>2 DEF BuiltInv
<1> QED
  BY <1>2, <1>3, <1>4 DEF IInv

\* A message is built.
LEMMA BuildMessageKeeps == IInv /\ BuildMessage => IInv'
<1> SUFFICES ASSUME IInv, BuildMessage PROVE IInv'
  OBVIOUS
<1>1. /\ kind = "message" /\ UNCHANGED <<kind, given, texts, nums, userProps, asked, raw>>
      /\ fault' = MessageFault(texts, nums, userProps)
      /\ msg' = IF fault' = "none" THEN WriteMessage(texts, nums, userProps) ELSE EmptyMessage
  BY DEF BuildMessage, fieldVars
<1>2. kind' \in Kinds /\ AskedInv' /\ GivenInv' /\ TextsInv' /\ NumsInv' /\ UserPropsInv'
  BY <1>1, WithoutCalls
<1>3. FaultOf' = MessageFault(texts, nums, userProps)
  BY <1>1 DEF FaultOf
<1>4. BuiltInv'
  BY <1>1, <1>3 DEF BuiltInv
<1>5. ForeignInv'
  BY <1>1 DEF ForeignInv, WriteMessage, EmptyMessage
<1> QED
  BY <1>1, <1>2, <1>4, <1>5 DEF IInv

\* Another publisher, or the broker, sets a field.
LEMMA ForeignFieldsKeep ==
    ASSUME IInv, kind = "foreign", UNCHANGED <<kind, given, fieldVars, asked, built, fault, raw>>,
           msg' = [text |-> msg'.text, num |-> msg'.num, props |-> msg'.props],
           \A key \in DOMAIN msg'.text : key \in DOMAIN ForeignTexts /\ msg'.text[key] \in ForeignTexts[key],
           \A key \in DOMAIN msg'.num \ {"class_of_service"} :
              key \in NumberSetters["foreign"] /\ msg'.num[key] \in Samples[key],
           \A key \in DOMAIN msg'.props : key \in UserKeys \cup {"not utf-8"} /\ msg'.props[key] \in ForeignValues
    PROVE  IInv'
<1>1. kind' \in Kinds /\ AskedInv' /\ GivenInv' /\ TextsInv' /\ NumsInv' /\ UserPropsInv'
  BY WithoutCalls DEF fieldVars
<1>2. BuiltInv'
  BY DEF IInv, BuiltInv
<1>3. ForeignInv'
  BY DEF ForeignInv
<1> QED
  BY <1>1, <1>2, <1>3 DEF IInv

\* A text, a number or a property.
LEMMA ForeignTextKeeps ==
    ASSUME IInv, NEW key \in DOMAIN Setters[kind], NEW text \in Setters[kind][key], ForeignText(key, text)
    PROVE  IInv'
<1>1. kind = "foreign" /\ msg' = [msg EXCEPT !.text = With(@, key, text)]
      /\ UNCHANGED <<kind, given, fieldVars, asked, built, fault, raw>>
  BY DEF ForeignText, MoreFields
<1>2. ForeignInv
  BY DEF IInv
<1>3. key \in DOMAIN ForeignTexts /\ text \in ForeignTexts[key]
  BY <1>1 DEF Setters
<1>4. /\ msg' = [text |-> With(msg.text, key, text), num |-> msg.num, props |-> msg.props]
      /\ msg'.text = With(msg.text, key, text) /\ msg'.num = msg.num /\ msg'.props = msg.props
  BY <1>1, <1>2 DEF ForeignInv
<1>5. \A k \in DOMAIN msg'.text : k \in DOMAIN ForeignTexts /\ msg'.text[k] \in ForeignTexts[k]
  BY <1>1, <1>2, <1>3, <1>4 DEF ForeignInv, With
<1>6. /\ \A k \in DOMAIN msg'.num \ {"class_of_service"} :
            k \in NumberSetters["foreign"] /\ msg'.num[k] \in Samples[k]
      /\ \A k \in DOMAIN msg'.props : k \in UserKeys \cup {"not utf-8"} /\ msg'.props[k] \in ForeignValues
      /\ msg' = [text |-> msg'.text, num |-> msg'.num, props |-> msg'.props]
  BY <1>1, <1>2, <1>4 DEF ForeignInv
<1> QED
  BY <1>1, <1>5, <1>6, ForeignFieldsKeep

\* The same for numbers.
LEMMA ForeignNumberKeeps ==
    ASSUME IInv, NEW key \in NumberSetters[kind], NEW n \in Samples[key], ForeignNumber(key, n)
    PROVE  IInv'
<1>1. kind = "foreign" /\ msg' = [msg EXCEPT !.num = With(@, key, n)]
      /\ UNCHANGED <<kind, given, fieldVars, asked, built, fault, raw>>
  BY DEF ForeignNumber, MoreFields
<1>2. ForeignInv
  BY DEF IInv
<1>3. /\ msg' = [text |-> msg.text, num |-> With(msg.num, key, n), props |-> msg.props]
      /\ msg'.text = msg.text /\ msg'.num = With(msg.num, key, n) /\ msg'.props = msg.props
  BY <1>1, <1>2 DEF ForeignInv
<1>4. \A k \in DOMAIN msg'.num \ {"class_of_service"} :
         k \in NumberSetters["foreign"] /\ msg'.num[k] \in Samples[k]
  BY <1>1, <1>2, <1>3 DEF ForeignInv, With
<1>5. /\ \A k \in DOMAIN msg'.text : k \in DOMAIN ForeignTexts /\ msg'.text[k] \in ForeignTexts[k]
      /\ \A k \in DOMAIN msg'.props : k \in UserKeys \cup {"not utf-8"} /\ msg'.props[k] \in ForeignValues
      /\ msg' = [text |-> msg'.text, num |-> msg'.num, props |-> msg'.props]
  BY <1>1, <1>2, <1>3 DEF ForeignInv
<1> QED
  BY <1>1, <1>4, <1>5, ForeignFieldsKeep

\* The same for user properties.
LEMMA ForeignPropertyKeeps ==
    ASSUME IInv, NEW key \in UserKeys \cup {"not utf-8"}, NEW value \in ForeignValues, ForeignProperty(key, value)
    PROVE  IInv'
<1>1. kind = "foreign" /\ msg' = [msg EXCEPT !.props = With(@, key, value)]
      /\ UNCHANGED <<kind, given, fieldVars, asked, built, fault, raw>>
  BY DEF ForeignProperty, MoreFields
<1>2. ForeignInv
  BY DEF IInv
<1>3. /\ msg' = [text |-> msg.text, num |-> msg.num, props |-> With(msg.props, key, value)]
      /\ msg'.text = msg.text /\ msg'.num = msg.num /\ msg'.props = With(msg.props, key, value)
  BY <1>1, <1>2 DEF ForeignInv
<1>4. \A k \in DOMAIN msg'.props : k \in UserKeys \cup {"not utf-8"} /\ msg'.props[k] \in ForeignValues
  BY <1>1, <1>2, <1>3 DEF ForeignInv, With
<1>5. /\ \A k \in DOMAIN msg'.text : k \in DOMAIN ForeignTexts /\ msg'.text[k] \in ForeignTexts[k]
      /\ \A k \in DOMAIN msg'.num \ {"class_of_service"} :
            k \in NumberSetters["foreign"] /\ msg'.num[k] \in Samples[k]
      /\ msg' = [text |-> msg'.text, num |-> msg'.num, props |-> msg'.props]
  BY <1>1, <1>2, <1>3 DEF ForeignInv
<1> QED
  BY <1>1, <1>4, <1>5, ForeignFieldsKeep

\* Every step keeps the invariant.
LEMMA Stays == IInv /\ [Next]_vars => IInv'
<1> SUFFICES ASSUME IInv, [Next]_vars PROVE IInv'
  OBVIOUS
<1>1. ASSUME NEW key \in DOMAIN Setters[kind], NEW text \in Setters[kind][key],
             SetText(key, text) \/ ForeignText(key, text)
      PROVE  IInv'
  BY <1>1, SetTextKeeps, ForeignTextKeeps
<1>2. ASSUME NEW key \in NumberSetters[kind], NEW n \in Samples[key], SetNumber(key, n) \/ ForeignNumber(key, n)
      PROVE  IInv'
  BY <1>2, SetNumberKeeps, ForeignNumberKeeps
<1>3. ASSUME NEW key \in UserKeys, NEW text \in {"a", "b", "nul"}, SetUserProperty(key, text)
      PROVE  IInv'
  BY <1>3, SetUserPropertyKeeps
<1>4. ASSUME NEW map \in UserMaps, SetUserProperties(map)
      PROVE  IInv'
  BY <1>4, SetUserPropertiesKeeps
<1>5. ASSUME NEW key \in UserKeys \cup {"not utf-8"},
             NEW value \in {<<"string", "a">>, <<"string", "not utf-8">>, <<"int", "1">>}, ForeignProperty(key, value)
      PROVE  IInv'
  <2>1. value \in ForeignValues
    BY DEF ForeignValues
  <2> QED
    BY <1>5, <2>1, ForeignPropertyKeeps
<1>6. CASE BuildSession
  BY <1>6, BuildListKeeps DEF BuildSession, FaultOf, ListOf
<1>7. CASE BuildAsyncSession
  BY <1>7, BuildListKeeps DEF BuildAsyncSession, FaultOf, ListOf
<1>8. CASE BuildFlow
  BY <1>8, BuildListKeeps DEF BuildFlow, FaultOf, ListOf
<1>9. CASE BuildAsyncFlow
  BY <1>9, BuildListKeeps DEF BuildAsyncFlow, FaultOf, ListOf
<1>10. CASE BuildCache
  BY <1>10, BuildListKeeps DEF BuildCache, FaultOf, ListOf
<1>11. CASE BuildCrypto
  BY <1>11, BuildListKeeps DEF BuildCrypto, FaultOf, ListOf
<1>12. CASE BuildMessage
  BY <1>12, BuildMessageKeeps
<1>13. CASE UNCHANGED vars
  <2>1. UNCHANGED <<kind, given, texts, nums, userProps, asked, built, fault, raw, msg>>
    BY <1>13 DEF vars, fieldVars, resultVars
  <2>2. /\ kind' \in Kinds /\ AskedInv' /\ GivenInv' /\ TextsInv' /\ NumsInv' /\ UserPropsInv'
        /\ UNCHANGED <<FaultOf, ListOf>>
    BY <2>1, WithoutCalls
  <2>3. BuiltInv' /\ ForeignInv'
    BY <2>1, <2>2 DEF IInv, BuiltInv, ForeignInv
  <2> QED
    BY <2>2, <2>3 DEF IInv
<1> QED
  BY <1>1, <1>2, <1>3, <1>4, <1>5, <1>6, <1>7, <1>8, <1>9, <1>10, <1>11, <1>12, <1>13 DEF Next

\* Every field is the last word on its option, and what build() made is what the checks
\* and the lists make of the fields, for any numbers and any sequence of setter calls.
THEOREM Invariance == Spec => []IInv
BY Initially, Stays, PTL DEF Spec

-----------------------------------------------------------------------------
(* The last words and the fields.                                          *)

\* The last word on an option is an argument its setter takes.
LEMMA LastWordIsTyped ==
    ASSUME IInv, NEW key, AskedFor(key)
    PROVE  <<key, LastWord(key)>> \in TextCalls(kind) \cup NumberCalls(kind) \/ key \in {"user_property", "user_properties"}
<1> DEFINE places == {i \in DOMAIN asked : asked[i][1] = key}
<1>1. asked \in Seq(CallsOf(kind))
  BY DEF IInv, AskedInv
<1>2. Len(asked) \in Nat /\ DOMAIN asked = 1 .. Len(asked) /\ \A i \in DOMAIN asked : asked[i] \in CallsOf(kind)
  <2> HIDE DEF CallsOf
  <2> QED
    BY <1>1
<1>3. places \in SUBSET (0 .. Len(asked)) /\ places # {}
  BY <1>2 DEF AskedFor
<1>4. Max(places) \in places
  <2> HIDE DEF places
  <2> QED
    BY <1>2, <1>3, MaxIsLargest
<1>5. LastWord(key) = asked[Max(places)][2]
  BY DEF LastWord
<1>6. asked[Max(places)][1] = key /\ asked[Max(places)] \in CallsOf(kind)
  BY <1>2, <1>4
<1> HIDE DEF places
<1>7. CASE asked[Max(places)] \in TextCalls(kind)
  BY <1>5, <1>6, <1>7 DEF TextCalls
<1>8. CASE asked[Max(places)] \in NumberCalls(kind)
  BY <1>5, <1>6, <1>8 DEF NumberCalls
<1>9. CASE asked[Max(places)] \in PropertyCalls(kind)
  BY <1>6, <1>9 DEF PropertyCalls
<1> QED
  BY <1>6, <1>7, <1>8, <1>9 DEF CallsOf

\* Of a text or a flag it is a text, of a number a number.
LEMMA LastTextAndNumber ==
    ASSUME IInv, NEW key, AskedFor(key)
    PROVE  /\ key \in DOMAIN Setters[kind] => LastWord(key) \in Setters[kind][key]
           /\ key \in NumberSetters[kind] => LastWord(key) \in NumbersFor(kind, key)
           /\ kind # "message" => key \in DOMAIN Setters[kind] \cup NumberSetters[kind]
<1>1. /\ DOMAIN Setters[kind] \cap NumberSetters[kind] = {}
      /\ {"user_property", "user_properties"} \cap (DOMAIN Setters[kind] \cup NumberSetters[kind]) = {}
  BY KindsAssumption, OptionsApart DEF IInv, AnyKind
<1>2. CASE <<key, LastWord(key)>> \in TextCalls(kind)
  BY <1>1, <1>2 DEF TextCalls
<1>3. CASE <<key, LastWord(key)>> \in NumberCalls(kind)
  BY <1>1, <1>3 DEF NumberCalls
<1>4. CASE key \in {"user_property", "user_properties"}
  <2>1. kind = "message"
    <3>1. PICK i \in DOMAIN asked : asked[i][1] = key
      BY DEF AskedFor
    <3>2. asked[i] \in CallsOf(kind)
      <4> HIDE DEF CallsOf
      <4> QED
        BY DEF IInv, AskedInv
    <3>3. asked[i] \notin TextCalls(kind) /\ asked[i] \notin NumberCalls(kind)
      BY <1>1, <1>4, <3>1 DEF TextCalls, NumberCalls
    <3> QED
      BY <3>2, <3>3 DEF CallsOf, PropertyCalls
  <2> QED
    BY <1>1, <1>4, <2>1
<1> QED
  BY <1>2, <1>3, <1>4, LastWordIsTyped

\* Without defaults of the crate the fields that are set are those that are wanted.
LEMMA FieldsAreWanted ==
    ASSUME IInv, kind \notin {"flow", "message", "foreign"}
    PROVE  /\ Wanted = DOMAIN texts \cup DOMAIN nums
           /\ \A key \in DOMAIN texts : texts[key] = LastWord(key)
           /\ \A key \in DOMAIN nums : nums[key] = LastWord(key)
<1>1. \A key : AskedFor(key) <=> key \in {asked[i][1] : i \in DOMAIN asked}
  BY DEF AskedFor
<1>2. \A key : ~ AskedFor(key) => LastWord(key) = given[key]
  BY DEF LastWord
<1>3. \A key : AskedFor(key) => key \in DOMAIN Setters[kind] \cup NumberSetters[kind]
  BY LastTextAndNumber
<1>4. TextsInv /\ StartTexts = given
  BY DEF IInv, StartTexts
<1>5. NumsInv /\ StartNums = <<>>
  BY DEF IInv, StartNums
<1>6. /\ DOMAIN texts \subseteq DOMAIN Setters[kind] \cup DOMAIN given
      /\ \A key \in DOMAIN Setters[kind] \cup DOMAIN given :
            key \in DOMAIN texts <=> AskedFor(key) \/ key \in DOMAIN given
      /\ \A key \in DOMAIN texts : texts[key] = LastWord(key)
  BY <1>2, <1>4 DEF TextsInv
<1>7. /\ DOMAIN nums \subseteq NumberSetters[kind]
      /\ \A key \in NumberSetters[kind] : key \in DOMAIN nums <=> AskedFor(key)
      /\ \A key \in DOMAIN nums : nums[key] = LastWord(key)
  BY <1>5 DEF NumsInv
<1>8. \A key : key \in Wanted <=> key \in DOMAIN given \/ AskedFor(key)
  BY <1>1 DEF Wanted
<1> QED
  BY <1>3, <1>6, <1>7, <1>8

-----------------------------------------------------------------------------
(* Refusals.                                                               *)

\* Everything that can be wrong is checked.
LEMMA EverythingIsChecked ==
    /\ SessionCheckOrder \in Seq(SessionTexts \cup SessionNumbers)
    /\ \A i \in DOMAIN SessionCheckOrder : SessionCheckOrder[i] # "none"
    /\ \A key \in SessionTexts \cup SessionNumbers : \E i \in DOMAIN SessionCheckOrder : SessionCheckOrder[i] = key
<1> DEFINE s == SessionCheckOrder
<1>1. DOMAIN s = 1 .. 24 /\ Len(s) = 24
  BY DEF SessionCheckOrder
<1>2. /\ s[1] = "host_name" /\ s[2] = "vpn_name" /\ s[3] = "username" /\ s[4] = "password" /\ s[5] = "client_name"
      /\ s[6] = "application_description" /\ s[7] = "buffer_size_bytes" /\ s[8] = "block_write_timeout_ms"
      /\ s[9] = "connect_timeout_ms" /\ s[10] = "subconfirm_timeout_ms" /\ s[11] = "socket_send_buf_size_bytes"
      /\ s[12] = "socket_rcv_buf_size_bytes" /\ s[13] = "keep_alive_interval_ms" /\ s[14] = "keep_alive_limit"
      /\ s[15] = "compression_level" /\ s[16] = "connect_retries_per_host" /\ s[17] = "connect_retries"
      /\ s[18] = "reconnect_retries" /\ s[19] = "reconnect_retry_wait_ms" /\ s[20] = "provision_timeout_ms"
      /\ s[21] = "modifyprop_timeout_ms" /\ s[22] = "ssl_trust_store_dir" /\ s[23] = "ssl_cipher_suites"
      /\ s[24] = "openssl_security_level"
  BY DEF SessionCheckOrder
<1>3. SessionTexts \cup SessionNumbers =
         {"host_name", "vpn_name", "username", "password", "client_name", "application_description",
          "ssl_trust_store_dir", "ssl_cipher_suites",
          "buffer_size_bytes", "block_write_timeout_ms", "connect_timeout_ms", "subconfirm_timeout_ms",
          "keep_alive_limit", "socket_send_buf_size_bytes", "socket_rcv_buf_size_bytes", "keep_alive_interval_ms",
          "connect_retries_per_host", "connect_retries", "reconnect_retries", "compression_level",
          "openssl_security_level", "reconnect_retry_wait_ms", "provision_timeout_ms", "modifyprop_timeout_ms"}
  BY RequiredAre DEF SessionTexts, SessionNumbers, LowerBound, UpperBound
<1>4. \A i \in 1 .. 24 : \/ i = 1 \/ i = 2 \/ i = 3 \/ i = 4 \/ i = 5 \/ i = 6 \/ i = 7 \/ i = 8 \/ i = 9 \/ i = 10
                         \/ i = 11 \/ i = 12 \/ i = 13 \/ i = 14 \/ i = 15 \/ i = 16 \/ i = 17 \/ i = 18 \/ i = 19
                         \/ i = 20 \/ i = 21 \/ i = 22 \/ i = 23 \/ i = 24
  OBVIOUS
<1>5. \A i \in 1 .. 24 : s[i] \in SessionTexts \cup SessionNumbers /\ s[i] # "none"
  <2> HIDE DEF s
  <2> QED
    BY <1>2, <1>3, <1>4
<1>6. s \in Seq(SessionTexts \cup SessionNumbers)
  <2>1. s = [i \in 1 .. 24 |-> s[i]]
    BY DEF SessionCheckOrder
  <2> HIDE DEF s
  <2>2. s \in [1 .. 24 -> SessionTexts \cup SessionNumbers]
    BY <1>5, <2>1
  <2> QED
    BY <2>2, SeqDef
<1> HIDE DEF s
<1>7. \A key \in SessionTexts \cup SessionNumbers : \E i \in DOMAIN s : s[i] = key
  BY <1>1, <1>2, <1>3
<1> QED
  BY <1>1, <1>5, <1>6, <1>7 DEF s

\* A session is refused for what is missing, malformed or out of range, and nothing else.
LEMMA SessionFaultIsJust ==
    ASSUME NEW tx, NEW nm, DOMAIN nm \subseteq SessionNumbers
    PROVE  SessionFault(tx, nm) = "none" <=>
               /\ Range(Required) \subseteq DOMAIN tx
               /\ \A key \in SessionTexts \cap DOMAIN tx : tx[key] # "nul"
               /\ \A key \in DOMAIN nm : ~ OutOfRange(key, nm[key])
<1> DEFINE missing == Range(Required) \ DOMAIN tx
           malformed == {key \in SessionTexts \cap DOMAIN tx : HasNul(tx[key])}
           outOfRange == {key \in DOMAIN nm : OutOfRange(key, nm[key])}
           refused == missing \cup malformed \cup outOfRange
<1>1. SessionFault(tx, nm) = FirstFault(SessionCheckOrder, refused)
  BY DEF SessionFault
<1>2. refused \subseteq SessionTexts \cup SessionNumbers
  BY DEF SessionTexts
<1>3. SessionFault(tx, nm) = "none" <=> \A i \in DOMAIN SessionCheckOrder : SessionCheckOrder[i] \notin refused
  <2> HIDE DEF refused
  <2> QED
    BY <1>1, EverythingIsChecked, NoFault
<1>4. (\A i \in DOMAIN SessionCheckOrder : SessionCheckOrder[i] \notin refused) <=> refused = {}
  <2> HIDE DEF refused
  <2> QED
    BY <1>2, EverythingIsChecked
<1>5. refused = {} <=> /\ Range(Required) \subseteq DOMAIN tx
                       /\ \A key \in SessionTexts \cap DOMAIN tx : tx[key] # "nul"
                       /\ \A key \in DOMAIN nm : ~ OutOfRange(key, nm[key])
  BY DEF HasNul
<1> QED
  BY <1>3, <1>4, <1>5

\* The ranges the messages name are those the guards let through.
LEMMA RangesAreTheNamedOnes ==
    ASSUME NEW key \in SessionNumbers, NEW x \in Int, key \notin Retries => x \in Nat
    PROVE  InNamedRange(key, x) <=> ~ OutOfRange(key, x)
BY DEF InNamedRange, OutOfRange, LowerBound, UpperBound, ZeroPasses, SessionNumbers, Retries

\* Where the fields of a property list come from.
LEMMA FieldsComeFrom ==
    ASSUME IInv, kind # "message"
    PROVE  /\ \A key \in DOMAIN texts :
                 \/ /\ AskedFor(key) /\ texts[key] = LastWord(key) /\ key \in DOMAIN Setters[kind]
                    /\ texts[key] \in Setters[kind][key]
                 \/ ~ AskedFor(key) /\ key \in DOMAIN StartTexts /\ texts[key] = StartTexts[key]
           /\ \A key \in DOMAIN nums :
                 \/ AskedFor(key) /\ nums[key] = LastWord(key) /\ nums[key] \in NumbersFor(kind, key)
                 \/ ~ AskedFor(key) /\ key \in DOMAIN StartNums /\ nums[key] = StartNums[key]
<1>1. TextsInv /\ NumsInv
  BY DEF IInv
<1>2. ASSUME NEW key \in DOMAIN texts
      PROVE  \/ /\ AskedFor(key) /\ texts[key] = LastWord(key) /\ key \in DOMAIN Setters[kind]
                /\ texts[key] \in Setters[kind][key]
             \/ ~ AskedFor(key) /\ key \in DOMAIN StartTexts /\ texts[key] = StartTexts[key]
  <2>1. CASE AskedFor(key)
    <3>1. texts[key] = LastWord(key)
      BY <1>1, <2>1 DEF TextsInv
    <3>2. key \in DOMAIN Setters[kind] \/ key \in NumberSetters[kind]
      BY <2>1, LastTextAndNumber
    <3>3. key \notin NumberSetters[kind]
      <4>1. DOMAIN Setters[kind] \cap NumberSetters[kind] = {}
        BY KindsAssumption, OptionsApart DEF IInv, AnyKind
      <4>2. CASE key \in DOMAIN StartTexts
        BY <4>2, StartsApart
      <4>3. CASE key \notin DOMAIN StartTexts
        BY <1>1, <4>1, <4>3 DEF TextsInv
      <4> QED
        BY <4>2, <4>3
    <3> QED
      BY <2>1, <3>1, <3>2, <3>3, LastTextAndNumber
  <2>2. CASE ~ AskedFor(key)
    BY <1>1, <2>2 DEF TextsInv
  <2> QED
    BY <2>1, <2>2
<1>3. ASSUME NEW key \in DOMAIN nums
      PROVE  \/ AskedFor(key) /\ nums[key] = LastWord(key) /\ nums[key] \in NumbersFor(kind, key)
             \/ ~ AskedFor(key) /\ key \in DOMAIN StartNums /\ nums[key] = StartNums[key]
  BY <1>1, LastTextAndNumber DEF NumsInv
<1> QED
  BY <1>2, <1>3

\* The fields of a session, and what is there when it is not refused.
LEMMA SessionFields ==
    ASSUME IInv, kind \in {"session", "async_session"}
    PROVE  /\ DOMAIN texts \subseteq SessionTexts \cup SessionFlags
           /\ DOMAIN nums \subseteq SessionNumbers
           /\ \A key \in DOMAIN texts : IF key \in SessionTexts THEN texts[key] \in {"x", "y", "nul"}
                                        ELSE texts[key] \in {"true", "false"}
           /\ \A key \in DOMAIN nums : nums[key] \in Samples[key]
           /\ kind = "async_session" => /\ DOMAIN texts \subseteq Range(Required) \cup AsyncSessionOptions
                                        /\ DOMAIN nums \subseteq AsyncSessionOptions
           /\ built => (fault = "none" <=> SessionFault(texts, nums) = "none")
<1>1. /\ StartTexts = given /\ StartNums = <<>> /\ DOMAIN given \subseteq Range(Required)
      /\ \A key \in DOMAIN given : given[key] = "x"
  <2>1. GivenInv /\ RequiredOptions(kind) = Range(Required)
    BY DEF IInv, RequiredOptions
  <2> QED
    BY <2>1, RequiredAre DEF StartTexts, StartNums, GivenInv
<1>2. /\ DOMAIN Setters[kind] \subseteq SessionTexts \cup SessionFlags
      /\ kind = "async_session" => DOMAIN Setters[kind] \subseteq Range(Required) \cup AsyncSessionOptions
      /\ \A key \in DOMAIN Setters[kind] :
            Setters[kind][key] = IF key \in SessionTexts THEN {"y", "nul"} ELSE {"true", "false"}
  BY SettersAre, SetterTexts
<1>3. Range(Required) \subseteq SessionTexts
  BY DEF SessionTexts
<1>4. /\ DOMAIN texts \subseteq DOMAIN Setters[kind] \cup Range(Required)
      /\ \A key \in DOMAIN texts : IF key \in SessionTexts THEN texts[key] \in {"x", "y", "nul"}
                                   ELSE texts[key] \in {"true", "false"}
  BY <1>1, <1>2, <1>3, FieldsComeFrom
<1>5. DOMAIN nums \subseteq SessionNumbers /\ (kind = "async_session" => DOMAIN nums \subseteq AsyncSessionOptions)
  BY DEF IInv, NumsInv, NumberSetters
<1>6. \A key \in DOMAIN nums : nums[key] \in Samples[key]
  BY <1>1, FieldsComeFrom DEF NumbersFor
<1>7. ASSUME built PROVE fault = "none" <=> SessionFault(texts, nums) = "none"
  <2>1. CASE kind = "session"
    BY <1>7, <2>1 DEF IInv, BuiltInv, FaultOf
  <2>2. CASE kind = "async_session"
    <3> DEFINE missing == Range(Required) \ DOMAIN texts
    <3>1. fault = IF FirstFault(Required, missing) # "none" THEN FirstFault(Required, missing)
                  ELSE SessionFault(texts, nums)
      BY <1>7, <2>2 DEF IInv, BuiltInv, FaultOf, AsyncSessionFault
    <3>2. FirstFault(Required, missing) = "none" <=> \A i \in DOMAIN Required : Required[i] \notin missing
      <4>1. Required \in Seq({"host_name", "vpn_name", "username", "password"})
        BY DEF Required
      <4>2. \A i \in DOMAIN Required : Required[i] # "none"
        BY <4>1
      <4> HIDE DEF missing
      <4> QED
        BY <4>1, <4>2, NoFault
    <3>3. (\A i \in DOMAIN Required : Required[i] \notin missing) <=> Range(Required) \subseteq DOMAIN texts
      BY DEF Range
    <3>4. SessionFault(texts, nums) = "none" => Range(Required) \subseteq DOMAIN texts
      BY <1>5, SessionFaultIsJust
    <3> QED
      BY <3>1, <3>2, <3>3, <3>4
  <2> QED
    BY <2>1, <2>2
<1> QED
  BY <1>2, <1>3, <1>4, <1>5, <1>6, <1>7

\* RefusalsAreJust in every state: FieldsAreWanted says that the checked fields are the
\* last words, SessionFaultIsJust when they are refused.
THEOREM SessionsAreRefusedJustly == Spec => []RefusalsAreJust
<1>1. IInv => RefusalsAreJust
  <2> SUFFICES ASSUME IInv, built, kind \in {"session", "async_session"}
               PROVE  fault = "none" <=>
                          /\ Range(Required) \subseteq Wanted
                          /\ \A key \in Wanted :
                                IF key \in SessionNumbers THEN InNamedRange(key, LastWord(key)) ELSE LastWord(key) # "nul"
    BY DEF RefusalsAreJust
  <2>1. /\ Wanted = DOMAIN texts \cup DOMAIN nums
        /\ \A key \in DOMAIN texts : texts[key] = LastWord(key)
        /\ \A key \in DOMAIN nums : nums[key] = LastWord(key)
    BY FieldsAreWanted
  <2>2. /\ DOMAIN texts \subseteq SessionTexts \cup SessionFlags
        /\ DOMAIN nums \subseteq SessionNumbers
        /\ \A key \in DOMAIN texts : key \notin SessionTexts => texts[key] # "nul"
        /\ \A key \in DOMAIN nums : nums[key] \in Samples[key]
        /\ fault = "none" <=> SessionFault(texts, nums) = "none"
    BY SessionFields
  <2>3. SessionTexts \cap SessionNumbers = {} /\ SessionFlags \cap SessionNumbers = {}
        /\ Range(Required) \cap SessionNumbers = {}
    BY RequiredAre DEF SessionTexts, SessionFlags, SessionNumbers, LowerBound, UpperBound
  <2>4. \A key \in DOMAIN nums : InNamedRange(key, nums[key]) <=> ~ OutOfRange(key, nums[key])
    <3> SUFFICES ASSUME NEW key \in DOMAIN nums
                 PROVE  InNamedRange(key, nums[key]) <=> ~ OutOfRange(key, nums[key])
      OBVIOUS
    <3>1. nums[key] \in Int /\ (key \notin Retries => nums[key] \in Nat)
      BY <2>2, SamplesAssumption
    <3> QED
      BY <2>2, <3>1, RangesAreTheNamedOnes
  <2>5. SessionFault(texts, nums) = "none" <=>
            /\ Range(Required) \subseteq DOMAIN texts
            /\ \A key \in SessionTexts \cap DOMAIN texts : texts[key] # "nul"
            /\ \A key \in DOMAIN nums : ~ OutOfRange(key, nums[key])
    BY <2>2, SessionFaultIsJust
  <2>6. Range(Required) \subseteq DOMAIN texts <=> Range(Required) \subseteq Wanted
    BY <2>1, <2>2, <2>3
  <2>7. \A key \in DOMAIN texts : key \notin SessionNumbers
    BY <2>2, <2>3
  <2> QED
    BY <2>1, <2>2, <2>4, <2>5, <2>6, <2>7
<1> QED
  BY <1>1, Invariance, PTL

-----------------------------------------------------------------------------
(* Messages.                                                               *)

\* A message that is built has its required parts and a time the C library can hold.
LEMMA MessageIsWhole ==
    ASSUME NEW tx, NEW nm, NEW props, MessageFault(tx, nm, props) = "none"
    PROVE  /\ {"destination", "payload"} \subseteq DOMAIN tx
           /\ "sender_timestamp" \in DOMAIN nm => ~ BadTimestamp(nm["sender_timestamp"])
<1> DEFINE missing == {"delivery_mode", "destination", "payload"} \ DOMAIN tx
           malformed == {key \in {"correlation_id", "application_id", "application_msg_type"} \cap DOMAIN tx :
                            HasNul(tx[key])}
           badNumbers == {key \in DOMAIN nm : \/ key = "user_data" /\ nm[key] > MaxUserData
                                              \/ key = "sender_timestamp" /\ BadTimestamp(nm[key])}
           badProps == IF \E k \in DOMAIN props : HasNul(k) \/ HasNul(props[k]) THEN {"user_properties"} ELSE {}
           refused == missing \cup malformed \cup badNumbers \cup badProps
           order == <<"delivery_mode", "destination", "user_data", "user_properties", "payload",
                      "correlation_id", "sender_timestamp", "application_id", "application_msg_type">>
<1>1. FirstFault(order, refused) = "none"
  BY Zenon DEF MessageFault
<1>2. /\ order \in Seq({"delivery_mode", "destination", "user_data", "user_properties", "payload",
                        "correlation_id", "sender_timestamp", "application_id", "application_msg_type"})
      /\ DOMAIN order = 1 .. 9 /\ order[2] = "destination" /\ order[5] = "payload" /\ order[7] = "sender_timestamp"
  OBVIOUS
<1>3. \A i \in DOMAIN order : order[i] # "none"
  OBVIOUS
<1> HIDE DEF order
<1>4. \A i \in DOMAIN order : order[i] \notin refused
  <2> HIDE DEF refused
  <2> QED
    BY <1>1, <1>2, <1>3, NoFault
<1>5. "destination" \notin refused /\ "payload" \notin refused /\ "sender_timestamp" \notin refused
  <2> HIDE DEF refused
  <2> QED
    BY <1>2, <1>4
<1> QED
  BY <1>5

\* What the C message carries, field by field.
LEMMA WrittenFields ==
    ASSUME IInv, Made, kind = "message"
    PROVE  /\ DOMAIN msg.text = DOMAIN texts \ {"user_properties"}
           /\ \A key \in DOMAIN msg.text : msg.text[key] = IF key = "destination" THEN ToRawType(texts[key]) ELSE texts[key]
           /\ DOMAIN msg.num = DOMAIN nums \cup {"class_of_service"}
           /\ \A key \in DOMAIN nums : msg.num[key] = WriteNumber(key, nums[key])
           /\ "class_of_service" \notin DOMAIN nums => msg.num["class_of_service"] = 0
           /\ DOMAIN msg.props = DOMAIN userProps
           /\ \A key \in DOMAIN userProps : msg.props[key] = <<"string", userProps[key]>>
           /\ MessageFault(texts, nums, userProps) = "none"
<1>1. msg = WriteMessage(texts, nums, userProps) /\ MessageFault(texts, nums, userProps) = "none"
  BY DEF IInv, BuiltInv, Made, FaultOf
<1>2. /\ msg.text = [key \in DOMAIN texts \ {"user_properties"} |->
                        IF key = "destination" THEN ToRawType(texts[key]) ELSE texts[key]]
      /\ msg.num = [key \in DOMAIN nums |-> WriteNumber(key, nums[key])] ++ [class_of_service |-> ToRawClass(1)]
      /\ msg.props = [k \in DOMAIN userProps |-> <<"string", userProps[k]>>]
  BY <1>1 DEF WriteMessage
<1>3. /\ DOMAIN msg.num = DOMAIN nums \cup {"class_of_service"}
      /\ \A key \in DOMAIN nums : msg.num[key] = WriteNumber(key, nums[key])
      /\ "class_of_service" \notin DOMAIN nums => msg.num["class_of_service"] = 0
  BY <1>2 DEF ++, ToRawClass
<1> QED
  BY <1>1, <1>2, <1>3

\* MessageReadsBack in every state: TextsInv, NumsInv and UserPropsInv say what was written,
\* by field, and the getters undo it.
THEOREM MessagesReadBack == Spec => []MessageReadsBack
<1>1. IInv => MessageReadsBack
  <2> SUFFICES ASSUME IInv, Made, kind = "message" PROVE MessageReadsBack
    BY DEF MessageReadsBack
  <2>1. /\ DOMAIN msg.text = DOMAIN texts \ {"user_properties"}
        /\ \A key \in DOMAIN msg.text : msg.text[key] = IF key = "destination" THEN ToRawType(texts[key]) ELSE texts[key]
        /\ DOMAIN msg.num = DOMAIN nums \cup {"class_of_service"}
        /\ \A key \in DOMAIN nums : msg.num[key] = WriteNumber(key, nums[key])
        /\ "class_of_service" \notin DOMAIN nums => msg.num["class_of_service"] = 0
        /\ DOMAIN msg.props = DOMAIN userProps
        /\ \A key \in DOMAIN userProps : msg.props[key] = <<"string", userProps[key]>>
        /\ MessageFault(texts, nums, userProps) = "none"
    BY WrittenFields
  <2>2. /\ {"destination", "payload"} \subseteq DOMAIN texts
        /\ "sender_timestamp" \in DOMAIN nums => ~ BadTimestamp(nums["sender_timestamp"])
    BY <2>1, MessageIsWhole
  <2>3. /\ DOMAIN given \subseteq {"delivery_mode", "destination", "payload"}
        /\ \A key \in DOMAIN given : given[key] = IF key = "destination" THEN "Queue" ELSE "x"
    <3>1. GivenInv /\ RequiredOptions(kind) = {"delivery_mode", "destination", "payload"}
      BY DEF IInv, RequiredOptions
    <3> QED
      BY <3>1 DEF GivenInv
  <2>4. /\ TextsInv /\ NumsInv /\ UserPropsInv
        /\ StartTexts = given /\ StartNums = <<>>
    BY DEF IInv, StartTexts, StartNums
  <2>5. /\ DOMAIN texts \subseteq DOMAIN Setters["message"] \cup {"delivery_mode", "destination", "payload"}
        /\ \A key \in DOMAIN Setters["message"] :
              /\ AskedFor(key) => LastWord(key) \in Setters["message"][key]
              /\ AskedFor(key) /\ LastWord(key) = "false" => key \notin DOMAIN texts
              /\ AskedFor(key) /\ LastWord(key) # "false" => key \in DOMAIN texts /\ texts[key] = LastWord(key)
              /\ ~ AskedFor(key) => (key \in DOMAIN texts <=> key \in DOMAIN given)
              /\ ~ AskedFor(key) /\ key \in DOMAIN texts => texts[key] = given[key] /\ texts[key] = LastWord(key)
    <3>1. \A key : ~ AskedFor(key) => LastWord(key) = given[key]
      BY DEF LastWord
    <3>2. \A key \in DOMAIN Setters["message"] : AskedFor(key) => LastWord(key) \in Setters["message"][key]
      BY LastTextAndNumber
    <3> QED
      BY <2>3, <2>4, <3>1, <3>2 DEF TextsInv
  <2>6. \A key : key \in Wanted <=> key \in DOMAIN given \/ AskedFor(key)
    BY DEF Wanted, AskedFor
  <2>7. /\ DOMAIN Setters["message"] = {"correlation_id", "application_id", "application_msg_type", "payload",
                                        "destination"} \cup MessageFlags
        /\ MessageFlags = {"eliding_eligible", "is_reply"}
    BY SettersAre DEF MessageFlags
  <2>8. \A key \in {"correlation_id", "application_id", "application_msg_type"} :
           GetText(msg, key) = IF key \in Wanted THEN Some(LastWord(key)) ELSE None
    <3> SUFFICES ASSUME NEW key \in {"correlation_id", "application_id", "application_msg_type"}
                 PROVE  GetText(msg, key) = IF key \in Wanted THEN Some(LastWord(key)) ELSE None
      OBVIOUS
    <3>1. key \in DOMAIN Setters["message"] /\ Setters["message"][key] = {"y", "nul"} /\ key \notin DOMAIN given
      BY <2>3, <2>7, SetterTexts
    <3>2. CASE AskedFor(key)
      <4>1. LastWord(key) \in {"y", "nul"}
        BY <2>5, <3>1, <3>2
      <4>2. key \in DOMAIN texts /\ texts[key] = LastWord(key)
        BY <2>5, <3>1, <3>2, <4>1
      <4>3. key \in DOMAIN msg.text /\ msg.text[key] = LastWord(key)
        BY <2>1, <4>2
      <4> QED
        BY <2>6, <3>2, <4>1, <4>3 DEF GetText
    <3>3. CASE ~ AskedFor(key)
      <4>1. key \notin DOMAIN msg.text
        BY <2>1, <2>5, <3>1, <3>3
      <4> QED
        BY <2>6, <3>1, <3>3, <4>1 DEF GetText
    <3> QED
      BY <3>2, <3>3
  <2>9. /\ "payload" \in DOMAIN texts /\ texts["payload"] = LastWord("payload")
        /\ "destination" \in DOMAIN texts /\ texts["destination"] = LastWord("destination")
        /\ LastWord("destination") \in {"Topic", "Queue", "TopicTemp", "QueueTemp"}
    <3>1. "payload" \in DOMAIN Setters["message"] /\ "destination" \in DOMAIN Setters["message"]
      BY <2>7
    <3>2. texts["payload"] = LastWord("payload") /\ texts["destination"] = LastWord("destination")
      BY <2>2, <2>5, <3>1
    <3>3. AskedFor("destination") => LastWord("destination") \in {"Topic", "Queue", "TopicTemp", "QueueTemp"}
      <4>1. Setters["message"]["destination"] = {"Topic", "Queue", "TopicTemp", "QueueTemp"}
        BY <2>7, <3>1, SetterTexts
      <4> QED
        BY <2>5, <3>1, <4>1
    <3>4. ~ AskedFor("destination") => LastWord("destination") = "Queue"
      BY <2>2, <2>3, <2>5, <3>1, <3>2
    <3> QED
      BY <2>2, <3>2, <3>3, <3>4
  <2>10. GetBytes(msg, "payload") = Some(LastWord("payload"))
    BY <2>1, <2>9 DEF GetBytes
  <2>11. LastWord("destination") # "Topic" => GetDestination(msg, "destination") = Some(LastWord("destination"))
    BY <2>1, <2>9 DEF GetDestination, ToRawType, DestinationTypes
  <2>12. {GetDestination(msg, "reply_to"), GetBytes(msg, "xml_part"), GetPayloadString(msg), GetNumber(msg, "msg_id"),
          GetRgmid(msg)} = {None}
    <3>1. \A key \in {"reply_to", "xml_part", "payload_string", "rgmid"} : key \notin DOMAIN msg.text
      BY <2>1, <2>5, <2>7
    <3>2. "msg_id" \notin DOMAIN msg.num
      BY <2>1, <2>4 DEF NumsInv, NumberSetters
    <3> QED
      BY <3>1, <3>2 DEF GetDestination, GetBytes, GetPayloadString, GetText, GetNumber, GetRgmid
  <2>13. \A key \in MessageFlags : GetFlag(msg, key) <=> AskedFor(key) /\ LastWord(key) = "true"
    <3> SUFFICES ASSUME NEW key \in MessageFlags
                 PROVE  GetFlag(msg, key) <=> AskedFor(key) /\ LastWord(key) = "true"
      OBVIOUS
    <3>1. key \in DOMAIN Setters["message"] /\ Setters["message"][key] = {"true", "false"} /\ key \notin DOMAIN given
      BY <2>3, <2>7, SetterTexts
    <3>2. key # "destination" /\ key # "user_properties"
      BY <2>7
    <3>3. key \in DOMAIN msg.text <=> key \in DOMAIN texts
      BY <2>1, <3>2
    <3>4. key \in DOMAIN texts => msg.text[key] = texts[key]
      BY <2>1, <3>2, <3>3
    <3> QED
      BY <2>5, <3>1, <3>3, <3>4 DEF GetFlag
  <2>14. \A key \in NumberSetters["message"] :
            /\ AskedFor(key) => key \in DOMAIN nums /\ nums[key] = LastWord(key) /\ LastWord(key) \in Samples[key]
            /\ ~ AskedFor(key) => key \notin DOMAIN nums
    <3>1. \A key \in NumberSetters["message"] : AskedFor(key) => LastWord(key) \in Samples[key]
      BY LastTextAndNumber DEF NumbersFor
    <3> QED
      BY <2>4, <3>1 DEF NumsInv
  <2>15. NumberSetters["message"] = {"seq_number", "priority", "class_of_service", "sender_timestamp", "user_data"}
    BY DEF NumberSetters
  <2>16. GetPriority(msg) = IF AskedFor("priority") THEN Some(LastWord("priority")) ELSE None
    <3>1. CASE AskedFor("priority")
      <4>1. LastWord("priority") \in 0 .. 255 /\ "priority" \in DOMAIN msg.num
            /\ msg.num["priority"] = LastWord("priority")
        BY <2>1, <2>14, <2>15, <3>1, SamplesAssumption DEF WriteNumber
      <4>2. LastWord("priority") % 256 = LastWord("priority") /\ LastWord("priority") # -1
        BY <4>1
      <4> QED
        BY <3>1, <4>1, <4>2 DEF GetPriority
    <3>2. CASE ~ AskedFor("priority")
      <4>1. "priority" \notin DOMAIN msg.num
        BY <2>1, <2>14, <2>15, <3>2
      <4> QED
        BY <3>2, <4>1 DEF GetPriority
    <3> QED
      BY <3>1, <3>2
  <2>17. GetClassOfService(msg) = IF AskedFor("class_of_service") THEN Some(LastWord("class_of_service")) ELSE Some(1)
    <3>1. CASE AskedFor("class_of_service")
      <4>1. LastWord("class_of_service") \in 1 .. 3 /\ msg.num["class_of_service"] = LastWord("class_of_service") - 1
        BY <2>1, <2>14, <2>15, <3>1, SamplesAssumption DEF WriteNumber, ToRawClass
      <4>2. msg.num["class_of_service"] \in 0 .. 2 /\ msg.num["class_of_service"] + 1 = LastWord("class_of_service")
        BY <4>1
      <4> QED
        BY <3>1, <4>2 DEF GetClassOfService
    <3>2. CASE ~ AskedFor("class_of_service")
      BY <2>1, <2>14, <2>15, <3>2 DEF GetClassOfService
    <3> QED
      BY <3>1, <3>2
  <2>18. GetUserData(msg) = IF AskedFor("user_data") THEN Some(LastWord("user_data")) ELSE None
    BY <2>1, <2>14, <2>15 DEF GetUserData, WriteNumber
  <2>19. AskedFor("seq_number") /\ LastWord("seq_number") < Word \div 2 =>
            GetSequenceNumber(msg) = Some(LastWord("seq_number"))
    BY <2>1, <2>14, <2>15 DEF GetSequenceNumber, WriteNumber, AsSigned
  <2>20. GetTimestamp(msg, "sender_timestamp") =
            IF AskedFor("sender_timestamp") THEN Some(LastWord("sender_timestamp") - (LastWord("sender_timestamp") % 2))
            ELSE None
    <3>1. CASE AskedFor("sender_timestamp")
      <4> DEFINE ts == LastWord("sender_timestamp")
      <4>1. ts \in Int /\ "sender_timestamp" \in DOMAIN nums /\ nums["sender_timestamp"] = ts
        BY <2>14, <2>15, <3>1, SamplesAssumption
      <4>2. "sender_timestamp" \in DOMAIN msg.num /\ msg.num["sender_timestamp"] = ts \div 2
        BY <2>1, <4>1 DEF WriteNumber
      <4>3. ~ (ts < 0)
        BY <2>2, <4>1 DEF BadTimestamp
      <4> HIDE DEF ts
      <4>4. ts \div 2 \in Int /\ ~ (ts \div 2 < 0) /\ (ts \div 2) * 2 = ts - (ts % 2)
        BY <4>1, <4>3
      <4>5. GetTimestamp(msg, "sender_timestamp") = Some(ts - (ts % 2))
        <5>1. GetTimestamp(msg, "sender_timestamp") = Some((ts \div 2) * 2)
          BY <4>2, <4>4 DEF GetTimestamp
        <5> QED
          BY <4>4, <5>1, Zenon
      <4> QED
        BY <3>1, <4>5 DEF ts
    <3>2. CASE ~ AskedFor("sender_timestamp")
      BY <2>1, <2>14, <2>15, <3>2 DEF GetTimestamp
    <3> QED
      BY <3>1, <3>2
  <2>21. \A key \in UserKeys :
            (IF key \in DOMAIN GetUserProperties(msg) THEN Some(GetUserProperties(msg)[key]) ELSE None)
            = WantedProperty(key)
    <3>1. /\ DOMAIN userProps \subseteq UserKeys
          /\ \A key \in DOMAIN userProps : userProps[key] \in {"a", "b", "nul"}
          /\ \A key \in UserKeys : WantedProperty(key) = IF key \in DOMAIN userProps THEN Some(userProps[key]) ELSE None
      BY <2>4 DEF UserPropsInv
    <3>2. \A key \in DOMAIN userProps :
             key # "not utf-8" /\ msg.props[key][1] = "string" /\ msg.props[key][2] = userProps[key]
             /\ msg.props[key][2] # "not utf-8"
      <4> SUFFICES ASSUME NEW key \in DOMAIN userProps
                   PROVE  key # "not utf-8" /\ msg.props[key][1] = "string" /\ msg.props[key][2] = userProps[key]
                          /\ msg.props[key][2] # "not utf-8"
        OBVIOUS
      <4>1. key # "not utf-8" /\ userProps[key] # "not utf-8"
        BY <3>1 DEF UserKeys
      <4>2. msg.props[key] = <<"string", userProps[key]>>
        BY <2>1
      <4>3. <<"string", userProps[key]>>[1] = "string" /\ <<"string", userProps[key]>>[2] = userProps[key]
        OBVIOUS
      <4> QED
        BY <4>1, <4>2, <4>3, Zenon
    <3>3. {k \in DOMAIN msg.props : /\ k # "not utf-8"
                                    /\ msg.props[k][1] = "string"
                                    /\ msg.props[k][2] # "not utf-8"} = DOMAIN userProps
      BY <2>1, <3>2
    <3>4. /\ DOMAIN GetUserProperties(msg) = DOMAIN userProps
          /\ \A key \in DOMAIN userProps : GetUserProperties(msg)[key] = msg.props[key][2]
      BY <3>3 DEF GetUserProperties
    <3>5. \A key \in DOMAIN userProps : GetUserProperties(msg)[key] = userProps[key]
      BY <3>2, <3>4, Zenon
    <3> QED
      BY <3>1, <3>4, <3>5, Zenon
  <2> QED
    BY <2>8, <2>10, <2>11, <2>12, <2>13, <2>16, <2>17, <2>18, <2>19, <2>20, <2>21 DEF MessageReadsBack
<1> QED
  BY <1>1, Invariance, PTL

\* ForeignFieldsAreNotInvented in every state: ForeignInv is all that the getters see.
THEOREM NothingIsInvented == Spec => []ForeignFieldsAreNotInvented
<1>1. IInv => ForeignFieldsAreNotInvented
  <2> SUFFICES ASSUME IInv, kind = "foreign" PROVE ForeignFieldsAreNotInvented
    BY DEF ForeignFieldsAreNotInvented
  <2>1. /\ \A key \in DOMAIN msg.text : key \in DOMAIN ForeignTexts /\ msg.text[key] \in ForeignTexts[key]
        /\ \A key \in DOMAIN msg.num \ {"class_of_service"} :
              key \in NumberSetters["foreign"] /\ msg.num[key] \in Samples[key]
        /\ \A key \in DOMAIN msg.props : key \in UserKeys \cup {"not utf-8"} /\ msg.props[key] \in ForeignValues
    BY DEF IInv, ForeignInv
  <2>2. /\ "correlation_id" \in DOMAIN msg.text => msg.text["correlation_id"] \in {"y", "not utf-8"}
        /\ "payload_string" \in DOMAIN msg.text => msg.text["payload_string"] \in {"y", "null", "not utf-8"}
        /\ "reply_to" \in DOMAIN msg.text => msg.text["reply_to"] \in {"Topic", "QueueTemp", "unknown"}
        /\ "redelivered" \in DOMAIN msg.text => msg.text["redelivered"] = "true"
    BY <2>1 DEF ForeignTexts
  <2>3. \A key \in {"sender_timestamp", "rcv_timestamp", "cache_status"} \cap DOMAIN msg.num : msg.num[key] \in Int
    BY <2>1, SamplesAssumption
  <2>4. \A key \in {"sender_timestamp", "rcv_timestamp"} :
           IF key \in DOMAIN msg.num /\ msg.num[key] >= 0 THEN GetTimestamp(msg, key) = Some(2 * msg.num[key])
           ELSE GetTimestamp(msg, key) = None
    BY <2>3 DEF GetTimestamp
  <2>5. GetText(msg, "correlation_id") = None <=> "correlation_id" \notin DOMAIN msg.text
    BY DEF GetText, None, Some, Error
  <2>6. GetDestination(msg, "reply_to") = Some("Null") <=>
           "reply_to" \in DOMAIN msg.text /\ msg.text["reply_to"] = "unknown"
    BY <2>2 DEF GetDestination, None, Some, DestinationTypes
  <2>7. "cache_status" \in DOMAIN msg.num => (GetCacheStatus(msg) = "LiveMessage" <=> msg.num["cache_status"] = 0)
    BY <2>3 DEF GetCacheStatus, CacheStatuses
  <2>8. GetPayloadString(msg) \in {None, Error, Some("y")}
    BY <2>2 DEF GetPayloadString, GetText, Error
  <2>9. GetRgmid(msg) # None <=> GetRgmidRaw(msg) # None
    BY DEF GetRgmid, GetRgmidRaw, GetBytes, None, Some, Error
  <2>10. \A key \in {"msg_id", "cache_request_id"} : GetNumber(msg, key) # None <=> key \in DOMAIN msg.num
    BY DEF GetNumber, None, Some
  <2>11. GetExpiration(msg) # 0 => "expiration" \in DOMAIN msg.num
    BY DEF GetExpiration
  <2>12. GetFlag(msg, "redelivered") <=> "redelivered" \in DOMAIN msg.text
    BY <2>2 DEF GetFlag
  <2>13. GetTextOrNone(msg, "application_id") \in {None} \cup {Some(msg.text[key]) : key \in DOMAIN msg.text}
    BY DEF GetTextOrNone, GetText, Error
  <2>14. \A key \in UserKeys :
            key \in DOMAIN GetUserProperties(msg) <=> key \in DOMAIN msg.props /\ msg.props[key] = <<"string", "a">>
    <3>1. \A value \in ForeignValues :
             value[1] = "string" /\ value[2] # "not utf-8" <=> value = <<"string", "a">>
      <4>1. /\ <<"string", "a">>[1] = "string" /\ <<"string", "a">>[2] = "a"
            /\ <<"string", "not utf-8">>[2] = "not utf-8" /\ <<"int", "1">>[1] = "int"
            /\ <<"string", "not utf-8">> # <<"string", "a">> /\ <<"int", "1">> # <<"string", "a">>
        OBVIOUS
      <4> QED
        BY <4>1 DEF ForeignValues
    <3>2. DOMAIN GetUserProperties(msg) = {k \in DOMAIN msg.props : /\ k # "not utf-8"
                                                                     /\ msg.props[k][1] = "string"
                                                                     /\ msg.props[k][2] # "not utf-8"}
      BY DEF GetUserProperties
    <3> QED
      BY <2>1, <3>1, <3>2 DEF UserKeys
  <2> QED
    BY <2>4, <2>5, <2>6, <2>7, <2>8, <2>9, <2>10, <2>11, <2>12, <2>13, <2>14 DEF ForeignFieldsAreNotInvented
<1> QED
  BY <1>1, Invariance, PTL

-----------------------------------------------------------------------------
(* The lists.                                                              *)

\* What is pushed is carried.
LEMMA PushedIsCarried ==
    ASSUME NEW O, NEW order \in Seq(O), order # <<>>, \A i, j \in DOMAIN order : order[i] = order[j] => i = j,
           NEW names, NEW strings, Listable(names, strings), DOMAIN strings \subseteq Range(order)
    PROVE  Carries(PushAll(order, names, strings) \o <<Null>>, names, strings)
<1> DEFINE S == {names[k] : k \in DOMAIN strings} \cup {strings[k] : k \in DOMAIN strings}
           list == PushAll(order, names, strings)
<1>1. \A i \in DOMAIN order : order[i] \in DOMAIN strings => names[order[i]] \in S /\ strings[order[i]] \in S
  OBVIOUS
<1>2. /\ list \in Seq(S)
      /\ ListFor(list, {k \in Range(order) : k \in DOMAIN strings}, names, strings)
  <2> HIDE DEF S
  <2> QED
    BY <1>1, PushAllPairs
<1>3. {k \in Range(order) : k \in DOMAIN strings} = DOMAIN strings
  OBVIOUS
<1> HIDE DEF S, list
<1>4. ListFor(list, DOMAIN strings, names, strings)
  BY <1>2, <1>3
<1>5. Carries(list \o <<Null>>, names, strings)
  BY <1>2, <1>4, ListsAreRead
<1> QED
  BY <1>5 DEF list

\* The options of a session, by how they are pushed.
LEMMA SessionOrders ==
    /\ Required \in Seq(Range(Required)) /\ Required # <<>>
    /\ \A i, j \in DOMAIN Required : Required[i] = Required[j] => i = j
    /\ OptionalOrder \in Seq(Range(OptionalOrder)) /\ OptionalOrder # <<>>
    /\ \A i, j \in DOMAIN OptionalOrder : OptionalOrder[i] = OptionalOrder[j] => i = j
    /\ Range(OptionalOrder) = (SessionTexts \ Range(Required)) \cup SessionFlags \cup SessionNumbers
<1>1. \A i, j \in DOMAIN Required : Required[i] = Required[j] => i = j
  BY DEF Required
<1>2. \A i, j \in DOMAIN OptionalOrder : OptionalOrder[i] = OptionalOrder[j] => i = j
  BY DEF OptionalOrder
<1>3. Required \in Seq(Range(Required)) /\ Required # <<>>
  BY RequiredAre DEF Required
<1> DEFINE s == OptionalOrder
<1>4. DOMAIN s = 1 .. 30 /\ s # <<>> /\ s = [i \in 1 .. 30 |-> s[i]]
  BY DEF OptionalOrder
<1>5. /\ s[1] = "buffer_size_bytes" /\ s[2] = "block_write_timeout_ms" /\ s[3] = "connect_timeout_ms"
      /\ s[4] = "subconfirm_timeout_ms" /\ s[5] = "ignore_dup_subscription_error" /\ s[6] = "tcp_nodelay"
      /\ s[7] = "socket_send_buf_size_bytes" /\ s[8] = "socket_rcv_buf_size_bytes"
      /\ s[9] = "keep_alive_interval_ms" /\ s[10] = "keep_alive_limit" /\ s[11] = "application_description"
      /\ s[12] = "client_name" /\ s[13] = "compression_level" /\ s[14] = "generate_rcv_timestamps"
      /\ s[15] = "generate_send_timestamp" /\ s[16] = "generate_sender_id"
      /\ s[17] = "generate_sender_sequence_number" /\ s[18] = "connect_retries_per_host"
      /\ s[19] = "connect_retries" /\ s[20] = "reconnect_retries" /\ s[21] = "reconnect_retry_wait_ms"
      /\ s[22] = "reapply_subscriptions" /\ s[23] = "provision_timeout_ms"
      /\ s[24] = "calculate_message_expiration" /\ s[25] = "no_local" /\ s[26] = "modifyprop_timeout_ms"
      /\ s[27] = "ssl_trust_store_dir" /\ s[28] = "ssl_cipher_suites" /\ s[29] = "openssl_security_level"
      /\ s[30] = "ssl_validate_certificate"
  BY DEF OptionalOrder
<1>6. (SessionTexts \ Range(Required)) \cup SessionFlags \cup SessionNumbers =
         {"client_name", "application_description", "ssl_trust_store_dir", "ssl_cipher_suites",
          "ignore_dup_subscription_error", "tcp_nodelay", "generate_rcv_timestamps",
          "generate_send_timestamp", "generate_sender_id", "generate_sender_sequence_number",
          "reapply_subscriptions", "calculate_message_expiration", "no_local", "ssl_validate_certificate",
          "buffer_size_bytes", "block_write_timeout_ms", "connect_timeout_ms", "subconfirm_timeout_ms",
          "keep_alive_limit", "socket_send_buf_size_bytes", "socket_rcv_buf_size_bytes", "keep_alive_interval_ms",
          "connect_retries_per_host", "connect_retries", "reconnect_retries", "compression_level",
          "openssl_security_level", "reconnect_retry_wait_ms", "provision_timeout_ms", "modifyprop_timeout_ms"}
  BY RequiredAre DEF SessionTexts, SessionFlags, SessionNumbers, LowerBound, UpperBound
<1> HIDE DEF s
<1>7. Range(s) = {s[i] : i \in 1 .. 30}
  BY <1>4 DEF Range
<1>8. \A i \in 1 .. 30 : s[i] \in (SessionTexts \ Range(Required)) \cup SessionFlags \cup SessionNumbers
  <2>1. \A i \in 1 .. 30 : \/ i = 1 \/ i = 2 \/ i = 3 \/ i = 4 \/ i = 5 \/ i = 6 \/ i = 7 \/ i = 8 \/ i = 9 \/ i = 10
                           \/ i = 11 \/ i = 12 \/ i = 13 \/ i = 14 \/ i = 15 \/ i = 16 \/ i = 17 \/ i = 18 \/ i = 19
                           \/ i = 20 \/ i = 21 \/ i = 22 \/ i = 23 \/ i = 24 \/ i = 25 \/ i = 26 \/ i = 27 \/ i = 28
                           \/ i = 29 \/ i = 30
    OBVIOUS
  <2> QED
    BY <1>5, <1>6, <2>1
<1>9. \A key \in (SessionTexts \ Range(Required)) \cup SessionFlags \cup SessionNumbers : \E i \in 1 .. 30 : s[i] = key
  BY <1>5, <1>6
<1>10. Range(s) = (SessionTexts \ Range(Required)) \cup SessionFlags \cup SessionNumbers
  BY <1>7, <1>8, <1>9
<1>11. s \in Seq(Range(s))
  <2>1. s \in [1 .. 30 -> Range(s)]
    BY <1>4, <1>7
  <2> QED
    BY <2>1, SeqDef
<1> QED
  BY <1>1, <1>2, <1>3, <1>4, <1>10, <1>11 DEF s

\* Every option of a session has a property of its own.
LEMMA SessionNamesDiffer ==
    /\ \A k \in Range(Required) \cup Range(OptionalOrder) \cup DOMAIN SessionConstants : k \in DOMAIN SessionNames
    /\ \A k \in DOMAIN SessionNames : SessionNames[k] # Null
    /\ \A j, k \in DOMAIN SessionNames : SessionNames[j] = SessionNames[k] => j = k
<1>1. /\ DOMAIN SessionNames = DOMAIN SessionName \cup DOMAIN SslName
      /\ \A k \in DOMAIN SessionName : SessionNames[k] = SessionName[k]
      /\ \A k \in DOMAIN SslName : k \notin DOMAIN SessionName => SessionNames[k] = SslName[k]
  BY DEF SessionNames, ++
<1>2. \A j, k \in DOMAIN SessionName : SessionName[j] = SessionName[k] => j = k
  BY DEF SessionName
<1>3. \A j, k \in DOMAIN SslName : SslName[j] = SslName[k] => j = k
  BY DEF SslName
<1>4. \A j \in DOMAIN SessionName, k \in DOMAIN SslName : SessionName[j] # SslName[k]
  BY DEF SessionName, SslName
<1>5. (\A k \in DOMAIN SessionName : SessionName[k] # Null) /\ \A k \in DOMAIN SslName : SslName[k] # Null
  BY DEF SessionName, SslName, Null
<1>6. \A k \in Range(Required) \cup Range(OptionalOrder) \cup DOMAIN SessionConstants :
         k \in DOMAIN SessionName \cup DOMAIN SslName
  <2>1. Range(Required) \cup DOMAIN SessionConstants \subseteq DOMAIN SessionName
    BY RequiredAre DEF SessionName, SessionConstants
  <2>2. SessionFlags \subseteq DOMAIN SessionName \cup DOMAIN SslName
    BY DEF SessionFlags, SessionName, SslName
  <2>3. SessionTexts \subseteq DOMAIN SessionName \cup DOMAIN SslName
    BY RequiredAre DEF SessionTexts, SessionName, SslName
  <2>4. SessionNumbers \subseteq DOMAIN SessionName \cup DOMAIN SslName
    BY DEF SessionNumbers, LowerBound, UpperBound, SessionName, SslName
  <2> QED
    BY <2>1, <2>2, <2>3, <2>4, SessionOrders
<1> QED
  BY <1>1, <1>2, <1>3, <1>4, <1>5, <1>6

\* The list of a session is that of the options that are set and of the two constants.
LEMMA SessionListIsCarried ==
    ASSUME NEW tx, NEW nm, Range(Required) \subseteq DOMAIN tx, DOMAIN tx \subseteq SessionTexts \cup SessionFlags,
           DOMAIN nm \subseteq SessionNumbers,
           \A k \in DOMAIN SessionStrings(tx, nm) : SessionStrings(tx, nm)[k] # Null
    PROVE  Carries(SessionToRaw(tx, nm), SessionNames, SessionStrings(tx, nm) ++ SessionConstants)
<1> DEFINE strings == SessionStrings(tx, nm)
           all == strings ++ SessionConstants
           constants == <<"connect_blocking", "guaranteed_with_web_transport">>
           l1 == PushAll(Required, SessionNames, tx)
           l2 == PushAll(constants, SessionNames, SessionConstants)
           l3 == PushAll(OptionalOrder, SessionNames, strings)
           S == {SessionNames[k] : k \in DOMAIN SessionNames} \cup {all[k] : k \in DOMAIN all}
<1>1. /\ DOMAIN strings = DOMAIN tx \cup DOMAIN nm
      /\ \A k \in DOMAIN tx \ SessionFlags : strings[k] = tx[k]
  BY DEF SessionStrings, ++
<1>2. /\ DOMAIN SessionConstants = {"connect_blocking", "guaranteed_with_web_transport"}
      /\ \A k \in DOMAIN SessionConstants : SessionConstants[k] = "1"
  BY DEF SessionConstants, FlagValue
<1>3. /\ DOMAIN all = DOMAIN strings \cup DOMAIN SessionConstants
      /\ \A k \in DOMAIN strings : all[k] = strings[k]
      /\ \A k \in DOMAIN SessionConstants : k \notin DOMAIN strings => all[k] = SessionConstants[k]
  BY DEF ++
<1>4. DOMAIN strings \subseteq SessionTexts \cup SessionFlags \cup SessionNumbers
  BY <1>1
<1>5. /\ DOMAIN SessionConstants \cap (SessionTexts \cup SessionFlags \cup SessionNumbers) = {}
      /\ Range(Required) \cap SessionFlags = {} /\ Range(Required) \subseteq SessionTexts
      /\ Range(Required) \cap SessionNumbers = {}
  BY <1>2, RequiredAre DEF SessionTexts, SessionFlags, SessionNumbers, LowerBound, UpperBound
<1>6. \A k \in DOMAIN all : all[k] # Null /\ k \in DOMAIN SessionNames
  BY <1>2, <1>3, <1>4, <1>5, SessionOrders, SessionNamesDiffer DEF Null
<1>7. Range(constants) = DOMAIN SessionConstants
  <2>1. DOMAIN constants = 1 .. 2 /\ constants[1] = "connect_blocking" /\ constants[2] = "guaranteed_with_web_transport"
    OBVIOUS
  <2> HIDE DEF constants
  <2> QED
    BY <1>2, <2>1 DEF Range
<1>8. /\ constants \in Seq(DOMAIN SessionConstants) /\ constants # <<>>
      /\ \A i, j \in DOMAIN constants : constants[i] = constants[j] => i = j
  BY <1>2
<1> HIDE DEF strings, all, constants
<1>9. /\ \A k \in DOMAIN SessionNames : SessionNames[k] \in S
      /\ \A k \in DOMAIN all : all[k] \in S
  OBVIOUS
<1> HIDE DEF S
<1>10. l1 \in Seq(S) /\ ListFor(l1, {k \in Range(Required) : k \in DOMAIN tx}, SessionNames, tx)
  <2>1. \A i \in DOMAIN Required : Required[i] \in DOMAIN tx => SessionNames[Required[i]] \in S /\ tx[Required[i]] \in S
    <3>1. \A i \in DOMAIN Required : Required[i] \in Range(Required)
      BY DEF Range
    <3>2. \A k \in Range(Required) : k \in DOMAIN all /\ all[k] = tx[k]
      BY <1>1, <1>3, <1>5
    <3> QED
      BY <1>6, <1>9, <3>1, <3>2
  <2> QED
    BY <2>1, SessionOrders, PushAllPairs
<1>11. l2 \in Seq(S) /\ ListFor(l2, {k \in Range(constants) : k \in DOMAIN SessionConstants}, SessionNames, SessionConstants)
  <2>1. \A i \in DOMAIN constants : constants[i] \in DOMAIN SessionConstants =>
           SessionNames[constants[i]] \in S /\ SessionConstants[constants[i]] \in S
    <3>1. \A k \in DOMAIN SessionConstants : k \in DOMAIN all /\ all[k] = SessionConstants[k]
      BY <1>3, <1>4, <1>5
    <3> QED
      BY <1>6, <1>9, <3>1
  <2> QED
    BY <1>8, <2>1, PushAllPairs
<1>12. l3 \in Seq(S) /\ ListFor(l3, {k \in Range(OptionalOrder) : k \in DOMAIN strings}, SessionNames, strings)
  <2>1. \A i \in DOMAIN OptionalOrder : OptionalOrder[i] \in DOMAIN strings =>
           SessionNames[OptionalOrder[i]] \in S /\ strings[OptionalOrder[i]] \in S
    BY <1>3, <1>6, <1>9
  <2> QED
    BY <2>1, SessionOrders, PushAllPairs
<1> DEFINE dom1 == Range(Required)
           dom2 == DOMAIN SessionConstants
           dom3 == {k \in Range(OptionalOrder) : k \in DOMAIN strings}
<1>13. ListFor(l1, dom1, SessionNames, all)
  <2>1. {k \in Range(Required) : k \in DOMAIN tx} = dom1
    OBVIOUS
  <2>2. \A k \in dom1 : SessionNames[k] = SessionNames[k] /\ tx[k] = all[k]
    BY <1>1, <1>3, <1>5
  <2> HIDE DEF dom1, l1
  <2>3. ListFor(l1, dom1, SessionNames, tx)
    BY <1>10, <2>1
  <2> QED
    BY <2>2, <2>3, SamePairs
<1>14. ListFor(l2, dom2, SessionNames, all)
  <2>1. {k \in Range(constants) : k \in DOMAIN SessionConstants} = dom2
    BY <1>7
  <2>2. \A k \in dom2 : SessionNames[k] = SessionNames[k] /\ SessionConstants[k] = all[k]
    BY <1>3, <1>4, <1>5
  <2> HIDE DEF dom2, l2
  <2>3. ListFor(l2, dom2, SessionNames, SessionConstants)
    BY <1>11, <2>1
  <2> QED
    BY <2>2, <2>3, SamePairs
<1>15. ListFor(l3, dom3, SessionNames, all)
  <2>1. \A k \in dom3 : SessionNames[k] = SessionNames[k] /\ strings[k] = all[k]
    BY <1>3
  <2> HIDE DEF dom3, l3
  <2>2. ListFor(l3, dom3, SessionNames, strings)
    BY <1>12 DEF dom3
  <2> QED
    BY <2>1, <2>2, SamePairs
<1>16. dom1 \cap dom2 = {} /\ (dom1 \cup dom2) \cap dom3 = {} /\ (dom1 \cup dom2) \cup dom3 = DOMAIN all
  <2>1. dom3 = DOMAIN strings \ Range(Required)
    BY <1>4, <1>5, SessionOrders
  <2> HIDE DEF dom3
  <2> QED
    BY <1>1, <1>3, <1>4, <1>5, <2>1
<1> HIDE DEF dom1, dom2, dom3, l1, l2, l3
<1>17. ListFor(l1 \o l2, dom1 \cup dom2, SessionNames, all) /\ l1 \o l2 \in Seq(S)
  BY <1>10, <1>11, <1>13, <1>14, <1>16, PairsBehindPairs, ConcatProperties
<1> DEFINE list == (l1 \o l2) \o l3
<1>18. ListFor(list, DOMAIN all, SessionNames, all) /\ list \in Seq(S)
  <2> DEFINE l12 == l1 \o l2
             dom12 == dom1 \cup dom2
  <2>1. ListFor(l12, dom12, SessionNames, all) /\ l12 \in Seq(S) /\ dom12 \cap dom3 = {} /\ dom12 \cup dom3 = DOMAIN all
    BY <1>16, <1>17
  <2> HIDE DEF l12, dom12
  <2>2. ListFor(l12 \o l3, dom12 \cup dom3, SessionNames, all) /\ l12 \o l3 \in Seq(S)
    BY <1>12, <1>15, <2>1, PairsBehindPairs, ConcatProperties
  <2> QED
    BY <2>1, <2>2 DEF l12
<1> HIDE DEF list
<1>19. Carries(list \o <<Null>>, SessionNames, all)
  <2>1. Listable(SessionNames, all)
    BY <1>6, SessionNamesDiffer DEF Listable
  <2> QED
    BY <1>18, <2>1, ListsAreRead
<1>20. SessionToRaw(tx, nm) = list \o <<Null>>
  BY DEF SessionToRaw, list, l1, l2, l3, constants, strings
<1> QED
  BY <1>19, <1>20 DEF all, strings

\* The list of a session that is not refused.
LEMMA SessionIsListed ==
    ASSUME IInv, Listed, kind \in {"session", "async_session"}
    PROVE  Carries(raw, SessionNames, SessionStrings(texts, nums) ++ SessionConstants)
<1>1. built /\ fault = "none"
  BY DEF Listed, Made
<1>2. /\ DOMAIN texts \subseteq SessionTexts \cup SessionFlags
      /\ DOMAIN nums \subseteq SessionNumbers
      /\ \A key \in DOMAIN texts : IF key \in SessionTexts THEN texts[key] \in {"x", "y", "nul"}
                                   ELSE texts[key] \in {"true", "false"}
      /\ \A key \in DOMAIN nums : nums[key] \in Samples[key]
      /\ kind = "async_session" => /\ DOMAIN texts \subseteq Range(Required) \cup AsyncSessionOptions
                                   /\ DOMAIN nums \subseteq AsyncSessionOptions
      /\ SessionFault(texts, nums) = "none"
  BY <1>1, SessionFields
<1>3. Range(Required) \subseteq DOMAIN texts
  BY <1>2, SessionFaultIsJust
<1>4. /\ DOMAIN SessionStrings(texts, nums) = DOMAIN texts \cup DOMAIN nums
      /\ \A k \in DOMAIN texts :
            SessionStrings(texts, nums)[k] = IF k \in SessionFlags THEN FlagValue[texts[k]] ELSE texts[k]
      /\ \A k \in DOMAIN nums : k \notin DOMAIN texts => SessionStrings(texts, nums)[k] = ToString(nums[k])
  BY DEF SessionStrings, ++
<1>5. \A k \in DOMAIN SessionStrings(texts, nums) : SessionStrings(texts, nums)[k] # Null
  <2>1. SessionTexts \cap SessionFlags = {}
    BY RequiredAre DEF SessionTexts, SessionFlags
  <2>2. \A k \in DOMAIN texts : SessionStrings(texts, nums)[k] \in {"x", "y", "nul", "1", "0"}
    BY <1>2, <1>4, <2>1 DEF FlagValue
  <2>3. \A k \in DOMAIN nums : ToString(nums[k]) # Null
    BY <1>2, NumeralsAssumption
  <2> QED
    BY <1>4, <2>2, <2>3 DEF Null
<1>6. CASE kind = "session"
  <2>1. raw = SessionToRaw(texts, nums)
    BY <1>1, <1>6 DEF IInv, BuiltInv, ListOf
  <2> QED
    BY <1>2, <1>3, <1>5, <2>1, SessionListIsCarried
<1>7. CASE kind = "async_session"
  <2> DEFINE tx == Forward(texts)
             nm == Forward(nums)
  <2>1. /\ DOMAIN tx = DOMAIN texts /\ DOMAIN nm = DOMAIN nums
        /\ \A k \in DOMAIN texts : tx[k] = texts[k]
        /\ \A k \in DOMAIN nums : nm[k] = nums[k]
    BY <1>2, <1>7 DEF Forward, Restrict
  <2>2. raw = SessionToRaw(tx, nm)
    BY <1>1, <1>7 DEF IInv, BuiltInv, ListOf
  <2> HIDE DEF tx, nm
  <2>3. SessionStrings(tx, nm) = SessionStrings(texts, nums)
    <3> DEFINE a == [key \in DOMAIN tx |-> IF key \in SessionFlags THEN FlagValue[tx[key]] ELSE tx[key]]
               b == [key \in DOMAIN nm |-> ToString(nm[key])]
    <3>1. a = [key \in DOMAIN texts |-> IF key \in SessionFlags THEN FlagValue[texts[key]] ELSE texts[key]]
      BY <2>1
    <3>2. b = [key \in DOMAIN nums |-> ToString(nums[key])]
      BY <2>1
    <3> QED
      BY <3>1, <3>2, Zenon DEF SessionStrings
  <2>4. Carries(SessionToRaw(tx, nm), SessionNames, SessionStrings(tx, nm) ++ SessionConstants)
    BY <1>2, <1>3, <1>5, <2>1, <2>3, SessionListIsCarried
  <2> QED
    BY <2>2, <2>3, <2>4
<1> QED
  BY <1>6, <1>7

\* The options of a flow and of a cache session, by how they are pushed.
FlowOrder == <<"bind_entity", "bind_name", "durable", "ack_mode", "window_size", "no_local",
               "start_state", "selector", "max_unacked_messages", "active_flow_indication",
               "browser", "replay_start_location">>
AsyncFlowOrder == <<"bind_entity", "bind_name", "durable", "ack_mode", "window_size", "start_state",
                    "max_unacked_messages", "active_flow_indication">>
CacheOrder == <<"cache_name", "max_message", "max_age", "timeout_ms">>
CryptoOrder == <<"ssl_lib", "crypto_lib">>

\* Each option is pushed once.
LEMMA SmallOrders ==
    /\ FlowOrder \in Seq(DOMAIN FlowName) /\ FlowOrder # <<>> /\ Range(FlowOrder) = DOMAIN FlowName
    /\ \A i, j \in DOMAIN FlowOrder : FlowOrder[i] = FlowOrder[j] => i = j
    /\ AsyncFlowOrder \in Seq(DOMAIN FlowName) /\ AsyncFlowOrder # <<>>
    /\ Range(AsyncFlowOrder) = {"bind_entity", "bind_name", "durable", "ack_mode", "window_size", "start_state",
                                "max_unacked_messages", "active_flow_indication"}
    /\ \A i, j \in DOMAIN AsyncFlowOrder : AsyncFlowOrder[i] = AsyncFlowOrder[j] => i = j
    /\ CacheOrder \in Seq(DOMAIN CacheName) /\ CacheOrder # <<>> /\ Range(CacheOrder) = DOMAIN CacheName
    /\ \A i, j \in DOMAIN CacheOrder : CacheOrder[i] = CacheOrder[j] => i = j
    /\ CryptoOrder \in Seq(DOMAIN CryptoName) /\ CryptoOrder # <<>> /\ Range(CryptoOrder) = DOMAIN CryptoName
    /\ \A i, j \in DOMAIN CryptoOrder : CryptoOrder[i] = CryptoOrder[j] => i = j
<1>1. /\ \A i, j \in DOMAIN FlowOrder : FlowOrder[i] = FlowOrder[j] => i = j
      /\ FlowOrder \in Seq(DOMAIN FlowName) /\ FlowOrder # <<>>
  BY DEF FlowOrder, FlowName
<1>2. /\ \A i, j \in DOMAIN AsyncFlowOrder : AsyncFlowOrder[i] = AsyncFlowOrder[j] => i = j
      /\ AsyncFlowOrder \in Seq(DOMAIN FlowName) /\ AsyncFlowOrder # <<>>
  BY DEF AsyncFlowOrder, FlowName
<1>3. /\ \A i, j \in DOMAIN CacheOrder : CacheOrder[i] = CacheOrder[j] => i = j
      /\ CacheOrder \in Seq(DOMAIN CacheName) /\ CacheOrder # <<>>
  BY DEF CacheOrder, CacheName
<1>4. /\ \A i, j \in DOMAIN CryptoOrder : CryptoOrder[i] = CryptoOrder[j] => i = j
      /\ CryptoOrder \in Seq(DOMAIN CryptoName) /\ CryptoOrder # <<>>
  BY DEF CryptoOrder, CryptoName
<1>5. Range(FlowOrder) = DOMAIN FlowName
  <2> DEFINE s == FlowOrder
  <2>1. /\ DOMAIN s = 1 .. 12 /\ s[1] = "bind_entity" /\ s[2] = "bind_name" /\ s[3] = "durable" /\ s[4] = "ack_mode"
        /\ s[5] = "window_size" /\ s[6] = "no_local" /\ s[7] = "start_state" /\ s[8] = "selector"
        /\ s[9] = "max_unacked_messages" /\ s[10] = "active_flow_indication" /\ s[11] = "browser"
        /\ s[12] = "replay_start_location"
    BY DEF FlowOrder
  <2> HIDE DEF s
  <2>2. Range(s) = {s[i] : i \in 1 .. 12}
    BY <2>1 DEF Range
  <2>3. \A i \in 1 .. 12 : i = 1 \/ i = 2 \/ i = 3 \/ i = 4 \/ i = 5 \/ i = 6 \/ i = 7 \/ i = 8 \/ i = 9 \/ i = 10
                           \/ i = 11 \/ i = 12
    OBVIOUS
  <2>4. DOMAIN FlowName = {"bind_entity", "bind_name", "durable", "ack_mode", "window_size", "no_local",
                           "start_state", "selector", "max_unacked_messages", "active_flow_indication",
                           "browser", "replay_start_location"}
    BY DEF FlowName
  <2> QED
    BY <2>1, <2>2, <2>3, <2>4 DEF s
<1>6. Range(AsyncFlowOrder) = {"bind_entity", "bind_name", "durable", "ack_mode", "window_size", "start_state",
                               "max_unacked_messages", "active_flow_indication"}
  <2> DEFINE s == AsyncFlowOrder
  <2>1. /\ DOMAIN s = 1 .. 8 /\ s[1] = "bind_entity" /\ s[2] = "bind_name" /\ s[3] = "durable" /\ s[4] = "ack_mode"
        /\ s[5] = "window_size" /\ s[6] = "start_state" /\ s[7] = "max_unacked_messages"
        /\ s[8] = "active_flow_indication"
    BY DEF AsyncFlowOrder
  <2> HIDE DEF s
  <2>2. Range(s) = {s[i] : i \in 1 .. 8}
    BY <2>1 DEF Range
  <2>3. \A i \in 1 .. 8 : i = 1 \/ i = 2 \/ i = 3 \/ i = 4 \/ i = 5 \/ i = 6 \/ i = 7 \/ i = 8
    OBVIOUS
  <2> QED
    BY <2>1, <2>2, <2>3 DEF s
<1>7. Range(CacheOrder) = DOMAIN CacheName
  <2> DEFINE s == CacheOrder
  <2>1. DOMAIN s = 1 .. 4 /\ s[1] = "cache_name" /\ s[2] = "max_message" /\ s[3] = "max_age" /\ s[4] = "timeout_ms"
    BY DEF CacheOrder
  <2> HIDE DEF s
  <2>2. Range(s) = {s[i] : i \in 1 .. 4}
    BY <2>1 DEF Range
  <2>3. DOMAIN CacheName = {"cache_name", "max_message", "max_age", "timeout_ms"}
    BY DEF CacheName
  <2> QED
    BY <2>1, <2>2, <2>3 DEF s
<1>8. Range(CryptoOrder) = DOMAIN CryptoName
  <2> DEFINE s == CryptoOrder
  <2>1. DOMAIN s = 1 .. 2 /\ s[1] = "ssl_lib" /\ s[2] = "crypto_lib"
    BY DEF CryptoOrder
  <2> HIDE DEF s
  <2>2. Range(s) = {s[i] : i \in 1 .. 2}
    BY <2>1 DEF Range
  <2>3. DOMAIN CryptoName = {"ssl_lib", "crypto_lib"}
    BY DEF CryptoName
  <2> QED
    BY <2>1, <2>2, <2>3 DEF s
<1> QED
  BY <1>1, <1>2, <1>3, <1>4, <1>5, <1>6, <1>7, <1>8

\* Each has a property of its own, under the keys of CacheSession::new as well.
LEMMA SmallNamesDiffer ==
    /\ \A j, k \in DOMAIN FlowName : FlowName[j] = FlowName[k] => j = k
    /\ \A k \in DOMAIN FlowName : FlowName[k] # Null
    /\ DOMAIN CacheKeys = DOMAIN CacheName
    /\ \A j, k \in DOMAIN CacheKeys : CacheKeys[j] = CacheKeys[k] => j = k
    /\ \A k \in DOMAIN CacheKeys : CacheKeys[k] # Null
    /\ \A k \in DOMAIN CacheKeys : k # "max_message" => CacheKeys[k] = CacheName[k]
    /\ \A j, k \in DOMAIN CryptoName : CryptoName[j] = CryptoName[k] => j = k
    /\ \A k \in DOMAIN CryptoName : CryptoName[k] # Null
<1>1. (\A j, k \in DOMAIN FlowName : FlowName[j] = FlowName[k] => j = k) /\ \A k \in DOMAIN FlowName : FlowName[k] # Null
  BY DEF FlowName, Null
<1>2. /\ DOMAIN CacheKeys = {"cache_name", "max_message", "max_age", "timeout_ms"}
      /\ DOMAIN CacheName = {"cache_name", "max_message", "max_age", "timeout_ms"}
      /\ CacheKeys["max_message"] = "1" /\ \A k \in DOMAIN CacheName : k # "max_message" => CacheKeys[k] = CacheName[k]
      /\ CacheName["cache_name"] = "CACHESESSION_CACHE_NAME" /\ CacheName["max_age"] = "CACHESESSION_MAX_AGE"
      /\ CacheName["timeout_ms"] = "CACHESESSION_RR_TIMEOUT_MS"
  BY DEF CacheKeys, CacheName, CacheLibraryDefaults
<1>3. /\ \A j, k \in DOMAIN CacheKeys : CacheKeys[j] = CacheKeys[k] => j = k
      /\ \A k \in DOMAIN CacheKeys : CacheKeys[k] # Null
  BY <1>2 DEF Null
<1>4. /\ \A j, k \in DOMAIN CryptoName : CryptoName[j] = CryptoName[k] => j = k
      /\ \A k \in DOMAIN CryptoName : CryptoName[k] # Null
  BY DEF CryptoName, Null
<1> QED
  BY <1>1, <1>2, <1>3, <1>4

\* The last words and, for the options nobody sets, what is documented.
Promised == [key \in Wanted \ {"on_message"} |-> AsString(key)] ++ Documented

\* The library hears of every option that is promised, but for those it has by default.
LEMMA EffectiveIs ==
    ASSUME NEW names, NEW strings, Carries(raw, names, strings), NEW key
    PROVE  /\ key \in DOMAIN strings /\ NameOf[key] = names[key] => Effective(key) = {strings[key]}
           /\ key \in DOMAIN DefaultOf /\ (\A k \in DOMAIN strings : NameOf[key] # names[k]) =>
                 Effective(key) = {DefaultOf[key]}
<1>1. /\ DOMAIN LibraryReads(raw) = {names[k] : k \in DOMAIN strings}
      /\ \A k \in DOMAIN strings : LibraryReads(raw)[names[k]] = strings[k]
  BY DEF Carries
<1>2. ASSUME key \in DOMAIN strings, NameOf[key] = names[key]
      PROVE  Effective(key) = {strings[key]}
  BY <1>1, <1>2 DEF Effective
<1>3. ASSUME key \in DOMAIN DefaultOf, \A k \in DOMAIN strings : NameOf[key] # names[k]
      PROVE  Effective(key) = {DefaultOf[key]}
  <2>1. NameOf[key] \notin DOMAIN LibraryReads(raw)
    BY <1>1, <1>3
  <2> QED
    BY <1>3, <2>1 DEF Effective
<1> QED
  BY <1>2, <1>3

\* Of sessions.
LEMMA SessionGetsTheLastWord ==
    ASSUME IInv, Listed, kind \in {"session", "async_session"}
    PROVE  /\ \A key \in DOMAIN Promised : Effective(key) = {Promised[key]}
           /\ DOMAIN LibraryReads(raw) \subseteq {NameOf[key] : key \in DOMAIN Promised}
<1> DEFINE strings == SessionStrings(texts, nums)
           all == strings ++ SessionConstants
<1>1. Carries(raw, SessionNames, all)
  BY SessionIsListed
<1>2. /\ NameOf = SessionNames /\ DefaultOf = SessionDefaults
      /\ Documented = [connect_blocking |-> "1", guaranteed_with_web_transport |-> "1",
                       ssl_validate_certificate |-> "1", generate_rcv_timestamps |-> "0"]
  BY DEF NameOf, DefaultOf, Documented
<1>3. /\ Wanted = DOMAIN texts \cup DOMAIN nums
      /\ \A key \in DOMAIN texts : texts[key] = LastWord(key)
      /\ \A key \in DOMAIN nums : nums[key] = LastWord(key)
  BY FieldsAreWanted
<1>4. /\ DOMAIN texts \subseteq SessionTexts \cup SessionFlags
      /\ DOMAIN nums \subseteq SessionNumbers /\ DOMAIN nums \subseteq NumberSetters[kind]
      /\ \A key \in DOMAIN texts : IF key \in SessionTexts THEN texts[key] \in {"x", "y", "nul"}
                                   ELSE texts[key] \in {"true", "false"}
  BY SessionFields DEF IInv, NumsInv
<1>5. /\ SessionTexts \cap SessionFlags = {} /\ SessionTexts \cap FlowFlags = {}
      /\ (SessionTexts \cup SessionFlags) \cap SessionNumbers = {}
      /\ (SessionTexts \cup SessionFlags \cup SessionNumbers) \cap
            {"on_message", "bind_entity", "ack_mode", "connect_blocking", "guaranteed_with_web_transport"} = {}
      /\ NumberSetters[kind] \subseteq SessionNumbers
  BY RequiredAre DEF SessionTexts, SessionFlags, SessionNumbers, LowerBound, UpperBound, FlowFlags, NumberSetters
<1>6. /\ DOMAIN all = DOMAIN texts \cup DOMAIN nums \cup {"connect_blocking", "guaranteed_with_web_transport"}
      /\ \A k \in DOMAIN texts : all[k] = IF k \in SessionFlags THEN FlagValue[texts[k]] ELSE texts[k]
      /\ \A k \in DOMAIN nums : all[k] = ToString(nums[k])
      /\ all["connect_blocking"] = "1" /\ all["guaranteed_with_web_transport"] = "1"
  <2>1. /\ DOMAIN strings = DOMAIN texts \cup DOMAIN nums
        /\ \A k \in DOMAIN texts : strings[k] = IF k \in SessionFlags THEN FlagValue[texts[k]] ELSE texts[k]
        /\ \A k \in DOMAIN nums : k \notin DOMAIN texts => strings[k] = ToString(nums[k])
    BY DEF SessionStrings, ++
  <2>2. /\ DOMAIN SessionConstants = {"connect_blocking", "guaranteed_with_web_transport"}
        /\ \A k \in DOMAIN SessionConstants : SessionConstants[k] = "1"
    BY DEF SessionConstants, FlagValue
  <2>3. /\ DOMAIN all = DOMAIN strings \cup DOMAIN SessionConstants
        /\ \A k \in DOMAIN strings : all[k] = strings[k]
        /\ \A k \in DOMAIN SessionConstants : k \notin DOMAIN strings => all[k] = SessionConstants[k]
    BY DEF ++
  <2> HIDE DEF strings, all
  <2> QED
    BY <1>4, <1>5, <2>1, <2>2, <2>3
<1> HIDE DEF strings, all
<1>7. /\ DOMAIN Promised = DOMAIN texts \cup DOMAIN nums
                           \cup {"connect_blocking", "guaranteed_with_web_transport", "ssl_validate_certificate",
                                 "generate_rcv_timestamps"}
      /\ \A key \in Wanted : Promised[key] = AsString(key)
      /\ \A key \in DOMAIN Documented : key \notin Wanted => Promised[key] = Documented[key]
  <2>1. /\ DOMAIN Promised = (Wanted \ {"on_message"}) \cup DOMAIN Documented
        /\ \A key \in Wanted \ {"on_message"} : Promised[key] = AsString(key)
        /\ \A key \in DOMAIN Documented : key \notin Wanted \ {"on_message"} => Promised[key] = Documented[key]
    BY DEF Promised, ++
  <2>2. "on_message" \notin Wanted
    BY <1>3, <1>4, <1>5
  <2>3. DOMAIN Documented = {"connect_blocking", "guaranteed_with_web_transport", "ssl_validate_certificate",
                             "generate_rcv_timestamps"}
    BY <1>2
  <2> QED
    BY <1>3, <2>1, <2>2, <2>3
<1>8. \A key \in DOMAIN texts \cup DOMAIN nums : AsString(key) = all[key]
  <2>1. ASSUME NEW key \in DOMAIN nums PROVE AsString(key) = all[key]
    <3>1. key \in NumberSetters[kind]
      BY <1>4
    <3>2. AsString(key) = ToString(LastWord(key))
      BY <3>1, Zenon DEF AsString
    <3>3. LastWord(key) = nums[key] /\ all[key] = ToString(nums[key])
      BY <1>3, <1>6
    <3> QED
      BY <3>2, <3>3, Zenon
  <2>2. ASSUME NEW key \in DOMAIN texts PROVE AsString(key) = all[key]
    <3>1. key \notin NumberSetters[kind] /\ key # "bind_entity" /\ key # "ack_mode"
      BY <1>4, <1>5
    <3>2. CASE key \in SessionFlags
      <4>1. texts[key] \in {"true", "false"} /\ LastWord(key) = texts[key]
        BY <1>3, <1>4, <1>5, <3>2
      <4>2. AsString(key) = IF LastWord(key) = "true" THEN "1" ELSE "0"
        BY <3>1, <3>2 DEF AsString
      <4>3. all[key] = FlagValue[texts[key]]
        BY <1>6, <3>2
      <4> QED
        BY <4>1, <4>2, <4>3 DEF FlagValue
    <3>3. CASE key \notin SessionFlags
      <4>1. key \notin FlowFlags
        BY <1>4, <1>5, <3>3
      <4>2. AsString(key) = LastWord(key)
        BY <3>1, <3>3, <4>1 DEF AsString
      <4> QED
        BY <1>3, <1>6, <3>3, <4>2
    <3> QED
      BY <3>2, <3>3
  <2> QED
    BY <2>1, <2>2
<1>9. ASSUME NEW key \in DOMAIN Promised
      PROVE  Effective(key) = {Promised[key]}
  <2>1. CASE key \in DOMAIN all
    <3>1. Effective(key) = {all[key]}
      BY <1>1, <1>2, <2>1, EffectiveIs
    <3>2. Promised[key] = all[key]
      <4>1. CASE key \in DOMAIN texts \cup DOMAIN nums
        BY <1>3, <1>7, <1>8, <4>1
      <4>2. CASE key \notin DOMAIN texts \cup DOMAIN nums
        <5>1. key \in {"connect_blocking", "guaranteed_with_web_transport"} /\ key \notin Wanted
          BY <1>3, <1>6, <2>1, <4>2
        <5>2. Promised[key] = Documented[key] /\ Documented[key] = "1"
          BY <1>2, <1>7, <5>1
        <5> QED
          BY <1>6, <5>1, <5>2
      <4> QED
        BY <4>1, <4>2
    <3> QED
      BY <3>1, <3>2
  <2>2. CASE key \notin DOMAIN all
    <3>1. key \in {"ssl_validate_certificate", "generate_rcv_timestamps"} /\ key \notin Wanted
      BY <1>3, <1>6, <1>7, <2>2
    <3>2. Promised[key] = SessionDefaults[key] /\ key \in DOMAIN DefaultOf
      <4>1. /\ {"ssl_validate_certificate", "generate_rcv_timestamps"} \subseteq DOMAIN SessionDefaults
            /\ SessionDefaults["ssl_validate_certificate"] = "1" /\ SessionDefaults["generate_rcv_timestamps"] = "0"
        BY DEF SessionDefaults
      <4>2. /\ {"ssl_validate_certificate", "generate_rcv_timestamps"} \subseteq DOMAIN Documented
            /\ Documented["ssl_validate_certificate"] = "1" /\ Documented["generate_rcv_timestamps"] = "0"
        BY <1>2
      <4>3. Promised[key] = Documented[key]
        BY <1>7, <3>1, <4>2
      <4> QED
        BY <1>2, <3>1, <4>1, <4>2, <4>3
    <3>3. \A k \in DOMAIN all : NameOf[key] # SessionNames[k]
      <4>1. /\ key \in DOMAIN SessionNames
            /\ \A k \in DOMAIN all : k \in DOMAIN SessionNames
        <5>1. SessionFlags \subseteq Range(OptionalOrder) /\ key \in SessionFlags
          BY <3>1, SessionOrders DEF SessionFlags
        <5>2. DOMAIN all \subseteq Range(Required) \cup Range(OptionalOrder) \cup DOMAIN SessionConstants
          BY <1>4, <1>6, SessionOrders DEF SessionConstants
        <5> QED
          BY <5>1, <5>2, SessionNamesDiffer
      <4> QED
        BY <1>2, <2>2, <4>1, SessionNamesDiffer
    <3> QED
      BY <1>1, <1>2, <3>2, <3>3, EffectiveIs
  <2> QED
    BY <2>1, <2>2
<1>10. DOMAIN LibraryReads(raw) \subseteq {NameOf[key] : key \in DOMAIN Promised}
  <2>1. DOMAIN LibraryReads(raw) = {SessionNames[k] : k \in DOMAIN all}
    BY <1>1 DEF Carries
  <2>2. DOMAIN all \subseteq DOMAIN Promised
    BY <1>6, <1>7
  <2> QED
    BY <1>2, <2>1, <2>2
<1> QED
  BY <1>9, <1>10

\* The C string of an option of a flow.
FlowString(key, value) ==
    IF key = "bind_entity" THEN IF value = "queue" THEN "2" ELSE "3"
    ELSE IF key = "ack_mode" THEN IF value = "auto" THEN "1" ELSE "2"
    ELSE IF key \in FlowFlags THEN IF value = "true" THEN "1" ELSE "0" ELSE value

FlowNumbers == {"window_size", "max_unacked_messages"}

\* The types of the texts of a flow.
FlowTyped(tx) ==
    \A k \in DOMAIN tx :
        \/ k = "on_message"
        \/ k \in {"bind_name"} \cup FlowOptions /\ tx[k] \in {"x", "y", "nul"}
        \/ k \in FlowFlags /\ tx[k] \in {"true", "false"}
        \/ k = "ack_mode" /\ tx[k] \in {"auto", "client"}
        \/ k = "bind_entity" /\ tx[k] \in {"queue", "topic_endpoint"}

\* The numbers read like numbers.
Numerals(nm) == \A k \in DOMAIN nm : ToString(nm[k]) # Null

\* An order in which each of the options comes once.
FlowOrdered(order, options) ==
    /\ order \in Seq(DOMAIN FlowName) /\ order # <<>> /\ options \subseteq Range(order)
    /\ \A i, j \in DOMAIN order : order[i] = order[j] => i = j

\* A list of what is passed, each as its C string.
FlowListed(r, strings, tx, nm) ==
    /\ Carries(r, FlowName, strings)
    /\ DOMAIN strings = FlowPassed(tx) \cup DOMAIN nm
    /\ \A k \in FlowPassed(tx) : strings[k] = FlowString(k, tx[k])
    /\ \A k \in DOMAIN nm : strings[k] = ToString(nm[k])

\* The list of a flow, whatever the order, and what is in it.
LEMMA FlowListIsCarried ==
    ASSUME NEW tx, NEW nm, FlowTyped(tx), DOMAIN nm \subseteq FlowNumbers, Numerals(nm),
           NEW order, FlowOrdered(order, FlowPassed(tx) \cup DOMAIN nm)
    PROVE  FlowListed(PushAll(order, FlowName, FlowStrings(tx, nm)) \o <<Null>>, FlowStrings(tx, nm), tx, nm)
<1> DEFINE a == [key \in FlowPassed(tx) |->
                    CASE key \in FlowFlags -> FlagValue[tx[key]]
                      [] key = "bind_entity" -> BindEntityValue[tx[key]]
                      [] key = "ack_mode" -> AckModeValue[tx[key]]
                      [] OTHER -> tx[key]]
           b == [key \in DOMAIN nm |-> ToString(nm[key])]
           strings == FlowStrings(tx, nm)
<1>1. FlowPassed(tx) \subseteq DOMAIN tx \ {"on_message"}
  BY DEF FlowPassed
<1>2. \A k \in FlowPassed(tx) : a[k] = FlowString(k, tx[k])
  <2> SUFFICES ASSUME NEW k \in FlowPassed(tx) PROVE a[k] = FlowString(k, tx[k])
    OBVIOUS
  <2>1. k \in DOMAIN tx /\ k # "on_message"
    BY <1>1
  <2>2. a[k] = CASE k \in FlowFlags -> FlagValue[tx[k]]
                 [] k = "bind_entity" -> BindEntityValue[tx[k]]
                 [] k = "ack_mode" -> AckModeValue[tx[k]]
                 [] OTHER -> tx[k]
    OBVIOUS
  <2> HIDE DEF a
  <2> QED
    BY <2>1, <2>2 DEF FlowTyped, FlowString, FlowFlags, FlowOptions, FlagValue, BindEntityValue, AckModeValue
<1>3. DOMAIN a = FlowPassed(tx)
  OBVIOUS
<1>4. FlowPassed(tx) \cap DOMAIN nm = {}
  BY <1>1 DEF FlowTyped, FlowNumbers, FlowOptions, FlowFlags
<1>5. /\ DOMAIN strings = DOMAIN a \cup DOMAIN nm
      /\ \A k \in DOMAIN a : strings[k] = a[k]
      /\ \A k \in DOMAIN nm : k \notin DOMAIN a => strings[k] = ToString(nm[k])
  <2>1. strings = a ++ b
    BY DEF FlowStrings
  <2>2. DOMAIN b = DOMAIN nm /\ \A k \in DOMAIN nm : b[k] = ToString(nm[k])
    OBVIOUS
  <2> HIDE DEF a, b, strings
  <2> QED
    BY <2>1, <2>2 DEF ++
<1> HIDE DEF a, b, strings
<1>6. /\ DOMAIN strings = FlowPassed(tx) \cup DOMAIN nm
      /\ \A k \in FlowPassed(tx) : strings[k] = FlowString(k, tx[k])
      /\ \A k \in DOMAIN nm : strings[k] = ToString(nm[k])
  BY <1>2, <1>3, <1>4, <1>5
<1>7. \A k \in DOMAIN strings : strings[k] # Null
  <2>1. ASSUME NEW k \in FlowPassed(tx) PROVE FlowString(k, tx[k]) # Null
    BY <1>1 DEF FlowTyped, FlowString, Null
  <2> QED
    BY <1>6, <2>1 DEF Numerals
<1>8. Listable(FlowName, strings)
  <2>1. DOMAIN strings \subseteq DOMAIN FlowName
    BY <1>1, <1>6 DEF FlowTyped, FlowNumbers, FlowOptions, FlowFlags, FlowName
  <2> QED
    BY <1>7, <2>1, SmallNamesDiffer DEF Listable
<1>9. Carries(PushAll(order, FlowName, strings) \o <<Null>>, FlowName, strings)
  BY <1>6, <1>8, PushedIsCarried DEF FlowOrdered
<1> QED
  BY <1>6, <1>9 DEF strings, FlowListed

\* The fields of a flow: the last word on each, and the defaults of the rest.
LEMMA FlowFields ==
    ASSUME IInv, kind = "flow"
    PROVE  /\ FlowTyped(texts) /\ DOMAIN FlowDefaultTexts \subseteq DOMAIN texts
           /\ DOMAIN nums \subseteq FlowNumbers /\ "window_size" \in DOMAIN nums
           /\ Numerals(nums)
           /\ Wanted \subseteq DOMAIN texts \cup DOMAIN nums
           /\ \A k \in DOMAIN texts : IF k \in Wanted THEN texts[k] = LastWord(k)
                                      ELSE k \in DOMAIN FlowDefaultTexts /\ texts[k] = FlowDefaultTexts[k]
           /\ \A k \in DOMAIN nums : IF k \in Wanted THEN nums[k] = LastWord(k) ELSE k = "window_size" /\ nums[k] = 255
<1> DEFINE required == {"bind_entity", "bind_name", "on_message"}
<1>1. /\ TextsInv /\ NumsInv /\ GivenInv
      /\ StartTexts = given ++ FlowDefaultTexts /\ StartNums = FlowDefaultNumbers
      /\ RequiredOptions(kind) = required
  BY DEF IInv, StartTexts, StartNums, RequiredOptions
<1>2. /\ DOMAIN FlowDefaultTexts = FlowFlags \cup {"ack_mode"}
      /\ FlowDefaultTexts["ack_mode"] = "auto"
      /\ \A k \in FlowFlags : FlowDefaultTexts[k] \in {"true", "false"}
      /\ DOMAIN FlowDefaultNumbers = {"window_size"} /\ FlowDefaultNumbers["window_size"] = 255
      /\ "window_size" \notin required /\ required \cap (FlowFlags \cup {"ack_mode"}) = {}
  BY DEF FlowDefaultTexts, FlowDefaultNumbers, FlowFlags
<1>3. /\ DOMAIN Setters[kind] = {"bind_name", "ack_mode", "bind_entity"} \cup FlowOptions \cup FlowFlags
      /\ NumberSetters[kind] = FlowNumbers
      /\ FlowNumbers \cap (required \cup DOMAIN Setters[kind] \cup DOMAIN FlowDefaultTexts) = {}
      /\ "on_message" \notin DOMAIN Setters[kind]
  BY <1>2, SettersAre DEF NumberSetters, FlowNumbers, FlowOptions, FlowFlags
<1>4. /\ DOMAIN given \subseteq required
      /\ \A k \in DOMAIN given : given[k] = IF k = "bind_entity" THEN "queue" ELSE "x"
  <2>1. DOMAIN given \subseteq required
    BY <1>1 DEF GivenInv
  <2>2. given = [key \in DOMAIN given |->
                    CASE key = "destination" -> "Queue" [] key = "bind_entity" -> "queue" [] OTHER -> "x"]
    BY <1>1 DEF GivenInv
  <2>3. \A k \in DOMAIN given : given[k] = CASE k = "destination" -> "Queue" [] k = "bind_entity" -> "queue" [] OTHER -> "x"
    BY <2>2
  <2>4. \A k \in DOMAIN given : k # "destination"
    BY <2>1
  <2> QED
    BY <2>1, <2>3, <2>4
<1>5. /\ DOMAIN StartTexts = DOMAIN given \cup DOMAIN FlowDefaultTexts
      /\ \A k \in DOMAIN given : StartTexts[k] = given[k]
      /\ \A k \in DOMAIN FlowDefaultTexts : k \notin DOMAIN given => StartTexts[k] = FlowDefaultTexts[k]
  BY <1>1 DEF ++
<1>6. /\ \A k : k \in Wanted <=> k \in DOMAIN given \/ AskedFor(k)
      /\ \A k : ~ AskedFor(k) => LastWord(k) = given[k]
  BY DEF Wanted, AskedFor, LastWord
<1>7. \A k : AskedFor(k) => k \in DOMAIN Setters[kind] \cup NumberSetters[kind]
  BY LastTextAndNumber
<1> HIDE DEF required
<1>8. /\ DOMAIN texts \subseteq DOMAIN Setters[kind] \cup DOMAIN StartTexts
      /\ \A k \in DOMAIN Setters[kind] \cup DOMAIN StartTexts :
            k \in DOMAIN texts <=> AskedFor(k) \/ k \in DOMAIN StartTexts
  BY <1>1 DEF TextsInv
<1>9. \A k \in DOMAIN texts :
         \/ AskedFor(k) /\ texts[k] = LastWord(k) /\ k \in DOMAIN Setters[kind] /\ texts[k] \in Setters[kind][k]
         \/ ~ AskedFor(k) /\ k \in DOMAIN StartTexts /\ texts[k] = StartTexts[k]
  BY FieldsComeFrom
<1>10. /\ DOMAIN nums \subseteq NumberSetters[kind]
       /\ \A k \in NumberSetters[kind] : k \in DOMAIN nums <=> AskedFor(k) \/ k = "window_size"
  BY <1>1, <1>2 DEF NumsInv
<1>11. \A k \in DOMAIN nums :
          \/ AskedFor(k) /\ nums[k] = LastWord(k) /\ nums[k] \in Samples[k]
          \/ ~ AskedFor(k) /\ k = "window_size" /\ nums[k] = 255
  <2>1. \A k \in DOMAIN nums :
           \/ AskedFor(k) /\ nums[k] = LastWord(k) /\ nums[k] \in NumbersFor(kind, k)
           \/ ~ AskedFor(k) /\ k \in DOMAIN StartNums /\ nums[k] = StartNums[k]
    BY FieldsComeFrom
  <2>2. \A k : NumbersFor(kind, k) = Samples[k]
    BY DEF NumbersFor
  <2> QED
    BY <1>1, <1>2, <2>1, <2>2
<1>12. FlowTyped(texts)
  <2> SUFFICES ASSUME NEW k \in DOMAIN texts
               PROVE  \/ k = "on_message"
                      \/ k \in {"bind_name"} \cup FlowOptions /\ texts[k] \in {"x", "y", "nul"}
                      \/ k \in FlowFlags /\ texts[k] \in {"true", "false"}
                      \/ k = "ack_mode" /\ texts[k] \in {"auto", "client"}
                      \/ k = "bind_entity" /\ texts[k] \in {"queue", "topic_endpoint"}
    BY DEF FlowTyped
  <2>1. CASE AskedFor(k)
    <3>1. /\ k \in DOMAIN Setters[kind]
          /\ texts[k] \in IF k \in FlowFlags THEN {"true", "false"}
                          ELSE IF k = "ack_mode" THEN {"auto", "client"}
                          ELSE IF k = "bind_entity" THEN {"queue", "topic_endpoint"} ELSE {"y", "nul"}
      BY <1>9, <2>1, SetterTexts
    <3> QED
      BY <1>3, <3>1
  <2>2. CASE ~ AskedFor(k)
    <3>1. k \in DOMAIN StartTexts /\ texts[k] = StartTexts[k]
      BY <1>9, <2>2
    <3>2. CASE k \in DOMAIN given
      <4>1. texts[k] = IF k = "bind_entity" THEN "queue" ELSE "x"
        BY <1>4, <1>5, <3>1, <3>2
      <4> QED
        BY <1>4, <3>2, <4>1 DEF required
    <3>3. CASE k \notin DOMAIN given
      BY <1>2, <1>5, <3>1, <3>3
    <3> QED
      BY <3>2, <3>3
  <2> QED
    BY <2>1, <2>2
<1>13. DOMAIN FlowDefaultTexts \subseteq DOMAIN texts /\ "window_size" \in DOMAIN nums
  BY <1>3, <1>5, <1>8, <1>10 DEF FlowNumbers
<1>14. Numerals(nums)
  <2>1. DOMAIN nums \subseteq {"window_size", "max_unacked_messages"}
    BY <1>3, <1>10 DEF FlowNumbers
  <2> QED
    BY <1>11, <2>1, NumeralsAssumption DEF Numerals
<1>15. Wanted \subseteq DOMAIN texts \cup DOMAIN nums
  BY <1>5, <1>6, <1>7, <1>8, <1>10
<1>16. \A k \in DOMAIN texts : IF k \in Wanted THEN texts[k] = LastWord(k)
                               ELSE k \in DOMAIN FlowDefaultTexts /\ texts[k] = FlowDefaultTexts[k]
  BY <1>5, <1>6, <1>9
<1>17. \A k \in DOMAIN nums : IF k \in Wanted THEN nums[k] = LastWord(k) ELSE k = "window_size" /\ nums[k] = 255
  <2>1. \A k \in DOMAIN nums : k \notin DOMAIN given
    BY <1>3, <1>4, <1>10
  <2> QED
    BY <1>6, <1>11, <2>1
<1> QED
  BY <1>3, <1>10, <1>12, <1>13, <1>14, <1>15, <1>16, <1>17

\* The promise of a text of a flow.
LEMMA FlowTextAsString ==
    ASSUME kind \in {"flow", "async_flow"},
           NEW key \in {"bind_name", "ack_mode", "bind_entity"} \cup FlowOptions \cup FlowFlags
    PROVE  AsString(key) = FlowString(key, LastWord(key))
<1>1. key \notin NumberSetters[kind]
  BY DEF NumberSetters, FlowOptions, FlowFlags
<1>2. key \in FlowFlags \/ key \notin SessionFlags
  BY DEF FlowOptions, FlowFlags, SessionFlags
<1>3. {"bind_entity", "ack_mode"} \cap FlowFlags = {} /\ {"bind_entity", "ack_mode"} \cap SessionFlags = {}
  BY DEF FlowFlags, SessionFlags
<1>4. AsString(key) = CASE key = "bind_entity" -> IF LastWord(key) = "queue" THEN "2" ELSE "3"
                        [] key = "ack_mode" -> IF LastWord(key) = "auto" THEN "1" ELSE "2"
                        [] key \in SessionFlags \cup FlowFlags -> IF LastWord(key) = "true" THEN "1" ELSE "0"
                        [] OTHER -> LastWord(key)
  BY <1>1, Zenon DEF AsString
<1> QED
  BY <1>2, <1>3, <1>4 DEF FlowString

\* The promise of a number.
LEMMA NumberAsString ==
    ASSUME NEW key \in NumberSetters[kind]
    PROVE  AsString(key) = ToString(LastWord(key))
BY Zenon DEF AsString

\* What is promised, option by option.
LEMMA PromisedIs ==
    /\ DOMAIN Promised = (Wanted \ {"on_message"}) \cup DOMAIN Documented
    /\ \A key \in Wanted \ {"on_message"} : Promised[key] = AsString(key)
    /\ \A key \in DOMAIN Documented : key \notin Wanted \ {"on_message"} => Promised[key] = Documented[key]
BY DEF Promised, ++

\* Of flows.
LEMMA FlowGetsTheLastWord ==
    ASSUME IInv, Listed, kind = "flow"
    PROVE  /\ WellFormed(raw)
           /\ \A key \in DOMAIN Promised : Effective(key) = {Promised[key]}
           /\ DOMAIN LibraryReads(raw) \subseteq {NameOf[key] : key \in DOMAIN Promised}
<1> DEFINE strings == FlowStrings(texts, nums)
           textKeys == {"bind_name", "ack_mode", "bind_entity"} \cup FlowOptions \cup FlowFlags
<1>1. /\ FlowTyped(texts) /\ DOMAIN FlowDefaultTexts \subseteq DOMAIN texts
      /\ DOMAIN nums \subseteq FlowNumbers /\ "window_size" \in DOMAIN nums
      /\ Numerals(nums)
      /\ Wanted \subseteq DOMAIN texts \cup DOMAIN nums
      /\ \A k \in DOMAIN texts : IF k \in Wanted THEN texts[k] = LastWord(k)
                                 ELSE k \in DOMAIN FlowDefaultTexts /\ texts[k] = FlowDefaultTexts[k]
      /\ \A k \in DOMAIN nums : IF k \in Wanted THEN nums[k] = LastWord(k) ELSE k = "window_size" /\ nums[k] = 255
  BY FlowFields
<1>2. DOMAIN texts \subseteq textKeys \cup {"on_message"}
  BY <1>1 DEF FlowTyped
<1>3. raw = PushAll(FlowOrder, FlowName, strings) \o <<Null>>
  <2>1. built /\ fault = "none" /\ kind # "message"
    BY DEF Listed, Made
  <2>2. raw = FlowToRaw(texts, nums)
    BY <2>1 DEF IInv, BuiltInv, ListOf
  <2> QED
    BY <2>2, Zenon DEF FlowToRaw, FlowOrder
<1>4. FlowPassed(texts) = {k \in DOMAIN texts : /\ k # "on_message"
                                                /\ k \in {"active_flow_indication", "browser"} => texts[k] = "true"}
  BY DEF FlowPassed
<1>5. FlowPassed(texts) \cup DOMAIN nums \subseteq Range(FlowOrder)
  <2>1. DOMAIN FlowName = textKeys \cup FlowNumbers
    BY DEF FlowName, FlowOptions, FlowFlags, FlowNumbers
  <2> QED
    BY <1>1, <1>2, <1>4, <2>1, SmallOrders
<1> HIDE DEF textKeys, strings
<1>6. /\ Carries(raw, FlowName, strings)
      /\ DOMAIN strings = FlowPassed(texts) \cup DOMAIN nums
      /\ \A k \in FlowPassed(texts) : strings[k] = FlowString(k, texts[k])
      /\ \A k \in DOMAIN nums : strings[k] = ToString(nums[k])
  <2>1. FlowOrdered(FlowOrder, FlowPassed(texts) \cup DOMAIN nums)
    BY <1>5, SmallOrders DEF FlowOrdered
  <2>2. FlowListed(PushAll(FlowOrder, FlowName, FlowStrings(texts, nums)) \o <<Null>>, FlowStrings(texts, nums), texts, nums)
    BY <1>1, <2>1, FlowListIsCarried
  <2>3. FlowListed(raw, strings, texts, nums)
    BY <1>3, <2>2, Zenon DEF strings
  <2> QED
    BY <2>3 DEF FlowListed
<1>7. /\ NameOf = FlowName /\ DefaultOf = FlowDefaults
      /\ NumberSetters[kind] = FlowNumbers
      /\ Documented = [durable |-> "1", ack_mode |-> "1", window_size |-> ToString(255), no_local |-> "0",
                       start_state |-> "1", active_flow_indication |-> "0", browser |-> "0",
                       max_unacked_messages |-> "-1"]
  <2>1. NameOf = FlowName /\ DefaultOf = FlowDefaults /\ NumberSetters[kind] = FlowNumbers
    BY DEF NameOf, DefaultOf, NumberSetters, FlowNumbers
  <2>2. Documented = [durable |-> "1", ack_mode |-> "1", window_size |-> ToString(255), no_local |-> "0",
                      start_state |-> "1", active_flow_indication |-> "0", browser |-> "0",
                      max_unacked_messages |-> "-1"]
    BY DEF Documented
  <2> QED
    BY <2>1, <2>2, Zenon
<1>8. /\ DOMAIN Documented = {"durable", "ack_mode", "window_size", "no_local", "start_state",
                              "active_flow_indication", "browser", "max_unacked_messages"}
      /\ Documented["window_size"] = ToString(255)
      /\ Documented["max_unacked_messages"] = "-1"
      /\ Documented["active_flow_indication"] = "0" /\ Documented["browser"] = "0"
      /\ DOMAIN FlowDefaultTexts \subseteq DOMAIN Documented
      /\ \A k \in DOMAIN FlowDefaultTexts : Documented[k] = FlowString(k, FlowDefaultTexts[k])
      /\ DOMAIN Documented = DOMAIN FlowDefaultTexts \cup FlowNumbers
  BY <1>7 DEF FlowDefaultTexts, FlowString, FlowFlags, FlowNumbers
<1>9. "on_message" \notin textKeys \cup FlowNumbers
  BY DEF textKeys, FlowOptions, FlowFlags, FlowNumbers
<1>10. ASSUME NEW key \in DOMAIN nums
       PROVE  key \in DOMAIN Promised /\ Promised[key] = strings[key]
  <2>1. key \in NumberSetters[kind] /\ key # "on_message"
    BY <1>1, <1>7, <1>9
  <2>2. CASE key \in Wanted
    <3>1. Promised[key] = AsString(key) /\ key \in DOMAIN Promised
      BY <2>1, <2>2, PromisedIs
    <3>2. AsString(key) = ToString(LastWord(key))
      BY <2>1, NumberAsString
    <3>3. nums[key] = LastWord(key) /\ strings[key] = ToString(nums[key])
      BY <1>1, <1>6, <2>2
    <3> QED
      BY <3>1, <3>2, <3>3, Zenon
  <2>3. CASE key \notin Wanted
    <3>1. key = "window_size" /\ nums[key] = 255
      BY <1>1, <2>3
    <3>2. Promised[key] = Documented[key] /\ key \in DOMAIN Promised
      BY <1>8, <2>3, <3>1, PromisedIs
    <3>3. strings[key] = ToString(nums[key])
      BY <1>6
    <3>4. Documented[key] = ToString(255)
      BY <1>8, <3>1, Zenon
    <3>5. ToString(nums[key]) = ToString(255)
      BY <3>1, Zenon
    <3> QED
      BY <3>2, <3>3, <3>4, <3>5, Zenon
  <2> QED
    BY <2>2, <2>3
<1>11. ASSUME NEW key \in DOMAIN texts, key # "on_message"
       PROVE  key \in DOMAIN Promised /\ Promised[key] = FlowString(key, texts[key])
  <2>1. key \in textKeys
    BY <1>2, <1>11
  <2>2. CASE key \in Wanted
    <3>1. Promised[key] = AsString(key) /\ key \in DOMAIN Promised
      BY <1>11, <2>2, PromisedIs
    <3>2. AsString(key) = FlowString(key, LastWord(key))
      BY <2>1, FlowTextAsString DEF textKeys
    <3>3. texts[key] = LastWord(key)
      BY <1>1, <2>2
    <3> QED
      BY <3>1, <3>2, <3>3
  <2>3. CASE key \notin Wanted
    <3>1. key \in DOMAIN FlowDefaultTexts /\ texts[key] = FlowDefaultTexts[key]
      BY <1>1, <2>3
    <3> QED
      BY <1>8, <2>3, <3>1, PromisedIs
  <2> QED
    BY <2>2, <2>3
<1>12. \A key \in DOMAIN strings : key \in DOMAIN Promised /\ Promised[key] = strings[key]
  BY <1>4, <1>6, <1>10, <1>11
<1>13. DOMAIN strings \subseteq DOMAIN FlowName
  BY <1>5, <1>6, SmallOrders
<1>14. ASSUME NEW key \in DOMAIN Promised
       PROVE  Effective(key) = {Promised[key]}
  <2>1. CASE key \in DOMAIN strings
    <3>1. Effective(key) = {strings[key]}
      BY <1>6, <1>7, <2>1, EffectiveIs
    <3> QED
      BY <1>12, <2>1, <3>1
  <2>2. CASE key \notin DOMAIN strings
    <3>1. key \in {"active_flow_indication", "browser", "max_unacked_messages"} /\ Promised[key] = FlowDefaults[key]
      <4>1. /\ FlowDefaults["active_flow_indication"] = "0" /\ FlowDefaults["browser"] = "0"
            /\ FlowDefaults["max_unacked_messages"] = "-1"
            /\ {"active_flow_indication", "browser"} \subseteq FlowFlags
        BY DEF FlowDefaults, FlowFlags
      <4>2. CASE key \in DOMAIN texts
        <5>1. key # "on_message"
          BY <1>8, <1>9, PromisedIs DEF textKeys, FlowFlags
        <5>2. key \in {"active_flow_indication", "browser"} /\ texts[key] # "true"
          BY <1>4, <1>6, <2>2, <4>2, <5>1
        <5>3. FlowString(key, texts[key]) = "0"
          BY <4>1, <5>2 DEF FlowString
        <5> QED
          BY <1>11, <4>1, <4>2, <5>1, <5>2, <5>3
      <4>3. CASE key \notin DOMAIN texts
        <5>1. key \notin DOMAIN nums /\ key \notin Wanted
          BY <1>1, <1>6, <2>2, <4>3
        <5>2. key \in DOMAIN Documented /\ Promised[key] = Documented[key]
          BY <5>1, PromisedIs
        <5>3. key = "max_unacked_messages"
          BY <1>1, <1>8, <4>3, <5>1, <5>2 DEF FlowNumbers
        <5> QED
          BY <1>8, <4>1, <5>2, <5>3
      <4> QED
        BY <4>2, <4>3
    <3>2. key \in DOMAIN FlowDefaults /\ key \in DOMAIN FlowName
      BY <3>1 DEF FlowDefaults, FlowName
    <3>3. \A k \in DOMAIN strings : NameOf[key] # FlowName[k]
      BY <1>7, <1>13, <2>2, <3>2, SmallNamesDiffer
    <3> QED
      BY <1>6, <1>7, <3>1, <3>2, <3>3, EffectiveIs
  <2> QED
    BY <2>1, <2>2
<1>15. DOMAIN LibraryReads(raw) \subseteq {NameOf[key] : key \in DOMAIN Promised}
  <2>1. DOMAIN LibraryReads(raw) = {FlowName[k] : k \in DOMAIN strings}
    BY <1>6 DEF Carries
  <2> QED
    BY <1>7, <1>12, <2>1
<1>16. WellFormed(raw)
  BY <1>6 DEF Carries
<1> QED
  BY <1>14, <1>15, <1>16

\* Of flows of an AsyncSession.
LEMMA AsyncFlowGetsTheLastWord ==
    ASSUME IInv, Listed, kind = "async_flow"
    PROVE  /\ WellFormed(raw)
           /\ \A key \in DOMAIN Promised : Effective(key) = {Promised[key]}
           /\ DOMAIN LibraryReads(raw) \subseteq {NameOf[key] : key \in DOMAIN Promised}
<1> DEFINE fixed == [bind_entity |-> "queue", durable |-> "true", start_state |-> "false"]
           full == fixed ++ texts
           strings == FlowStrings(full, nums)
           own == {"bind_name", "ack_mode", "active_flow_indication"}
<1>1. /\ Wanted = DOMAIN texts \cup DOMAIN nums
      /\ \A k \in DOMAIN texts : texts[k] = LastWord(k)
      /\ \A k \in DOMAIN nums : nums[k] = LastWord(k)
  BY FieldsAreWanted
<1>2. /\ DOMAIN Setters[kind] = own /\ NumberSetters[kind] = FlowNumbers
      /\ own \subseteq DOMAIN Setters["flow"]
      /\ RequiredOptions(kind) = {"bind_name"}
  BY SettersAre DEF NumberSetters, FlowNumbers, RequiredOptions, FlowFlags
<1>3. /\ StartTexts = given /\ StartNums = <<>> /\ DOMAIN given = {"bind_name"}
      /\ given = [key \in DOMAIN given |->
                     CASE key = "destination" -> "Queue" [] key = "bind_entity" -> "queue" [] OTHER -> "x"]
  BY <1>2 DEF StartTexts, StartNums, IInv, GivenInv
<1>4. given["bind_name"] = "x"
  <2>1. given["bind_name"] = CASE "bind_name" = "destination" -> "Queue" [] "bind_name" = "bind_entity" -> "queue"
                               [] OTHER -> "x"
    BY <1>3
  <2> QED
    BY <2>1
<1>5. DOMAIN texts \subseteq own /\ DOMAIN nums \subseteq FlowNumbers
  BY <1>2, <1>3 DEF IInv, TextsInv, NumsInv
<1>6. \A k \in DOMAIN texts : \/ k = "bind_name" /\ texts[k] \in {"x", "y", "nul"}
                              \/ k = "ack_mode" /\ texts[k] \in {"auto", "client"}
                              \/ k = "active_flow_indication" /\ texts[k] \in {"true", "false"}
  <2> SUFFICES ASSUME NEW k \in DOMAIN texts
               PROVE  \/ k = "bind_name" /\ texts[k] \in {"x", "y", "nul"}
                      \/ k = "ack_mode" /\ texts[k] \in {"auto", "client"}
                      \/ k = "active_flow_indication" /\ texts[k] \in {"true", "false"}
    OBVIOUS
  <2>1. \/ texts[k] \in Setters[kind][k] /\ k \in DOMAIN Setters[kind]
        \/ k = "bind_name" /\ texts[k] = "x"
    BY <1>3, <1>4, FieldsComeFrom
  <2>2. Setters[kind][k] = IF k \in FlowFlags THEN {"true", "false"}
                           ELSE IF k = "ack_mode" THEN {"auto", "client"}
                           ELSE IF k = "bind_entity" THEN {"queue", "topic_endpoint"} ELSE {"y", "nul"}
    BY <1>2, <1>5, SetterTexts
  <2> QED
    BY <1>5, <2>1, <2>2 DEF FlowFlags
<1>7. Numerals(nums)
  <2>1. ASSUME NEW k \in DOMAIN nums PROVE ToString(nums[k]) # Null
    <3>1. k \in {"window_size", "max_unacked_messages"}
      BY <1>5 DEF FlowNumbers
    <3>2. nums[k] \in NumbersFor(kind, k)
      BY <1>3, FieldsComeFrom
    <3>3. nums[k] \in Samples[k] \/ nums[k] = 1
      BY <3>2 DEF NumbersFor
    <3> QED
      BY <3>1, <3>3, NumeralsAssumption
  <2> QED
    BY <2>1 DEF Numerals
<1>8. /\ DOMAIN full = {"bind_entity", "durable", "start_state"} \cup DOMAIN texts
      /\ full["bind_entity"] = "queue" /\ full["durable"] = "true" /\ full["start_state"] = "false"
      /\ \A k \in DOMAIN texts : full[k] = texts[k]
  BY <1>5 DEF ++
<1>9. raw = PushAll(AsyncFlowOrder, FlowName, strings) \o <<Null>>
  <2>1. built /\ fault = "none" /\ kind # "message"
    BY DEF Listed, Made
  <2>2. raw = AsyncFlowToRaw(texts, nums)
    BY <2>1 DEF IInv, BuiltInv, ListOf
  <2> QED
    BY <2>2, Zenon DEF AsyncFlowToRaw, AsyncFlowOrder
<1> HIDE DEF fixed, full
<1>10. FlowPassed(full) = {k \in DOMAIN full : k = "active_flow_indication" => full[k] = "true"}
  BY <1>5, <1>8 DEF FlowPassed
<1>11. FlowTyped(full)
  <2>1. \A k \in DOMAIN texts : \/ k \in {"bind_name"} \cup FlowOptions /\ full[k] \in {"x", "y", "nul"}
                                \/ k \in FlowFlags /\ full[k] \in {"true", "false"}
                                \/ k = "ack_mode" /\ full[k] \in {"auto", "client"}
    BY <1>6, <1>8 DEF FlowFlags
  <2>2. "durable" \in FlowFlags /\ "start_state" \in FlowFlags
    BY DEF FlowFlags
  <2> QED
    BY <1>8, <2>1, <2>2 DEF FlowTyped
<1>12. FlowPassed(full) \cup DOMAIN nums \subseteq Range(AsyncFlowOrder)
  BY <1>5, <1>8, <1>10, SmallOrders DEF FlowNumbers
<1>13. FlowListed(raw, strings, full, nums)
  <2>1. FlowOrdered(AsyncFlowOrder, FlowPassed(full) \cup DOMAIN nums)
    BY <1>12, SmallOrders DEF FlowOrdered
  <2>2. FlowListed(PushAll(AsyncFlowOrder, FlowName, FlowStrings(full, nums)) \o <<Null>>, FlowStrings(full, nums),
                   full, nums)
    BY <1>5, <1>7, <1>11, <2>1, FlowListIsCarried
  <2> QED
    BY <1>9, <2>2, Zenon DEF strings
<1> HIDE DEF strings
<1>14. /\ Carries(raw, FlowName, strings)
       /\ DOMAIN strings = FlowPassed(full) \cup DOMAIN nums
       /\ \A k \in FlowPassed(full) : strings[k] = FlowString(k, full[k])
       /\ \A k \in DOMAIN nums : strings[k] = ToString(nums[k])
  BY <1>13 DEF FlowListed
<1>15. /\ NameOf = FlowName /\ DefaultOf = FlowDefaults
       /\ Documented = [bind_entity |-> "2", durable |-> "1", start_state |-> "0"]
  BY DEF NameOf, DefaultOf, Documented
<1>16. DOMAIN Documented \cap Wanted = {} /\ "on_message" \notin Wanted
  BY <1>1, <1>5, <1>15 DEF FlowNumbers
<1>17. ASSUME NEW key \in DOMAIN nums
       PROVE  key \in DOMAIN Promised /\ Promised[key] = strings[key]
  <2>1. key \in NumberSetters[kind] /\ key \in Wanted /\ key # "on_message"
    BY <1>1, <1>2, <1>5, <1>16
  <2>2. Promised[key] = AsString(key) /\ key \in DOMAIN Promised
    BY <2>1, PromisedIs
  <2>3. AsString(key) = ToString(LastWord(key))
    BY <2>1, NumberAsString
  <2>4. nums[key] = LastWord(key) /\ strings[key] = ToString(nums[key])
    BY <1>1, <1>14
  <2> QED
    BY <2>2, <2>3, <2>4, Zenon
<1>18. ASSUME NEW key \in DOMAIN full
       PROVE  key \in DOMAIN Promised /\ Promised[key] = FlowString(key, full[key])
  <2>1. CASE key \in DOMAIN texts
    <3>1. Promised[key] = AsString(key) /\ key \in DOMAIN Promised
      BY <1>1, <1>16, <2>1, PromisedIs
    <3>2. AsString(key) = FlowString(key, LastWord(key))
      BY <1>5, <2>1, FlowTextAsString DEF FlowFlags
    <3> QED
      BY <1>1, <1>8, <2>1, <3>1, <3>2
  <2>2. CASE key \notin DOMAIN texts
    <3>1. key \in DOMAIN Documented
      BY <1>8, <1>15, <2>2
    <3>2. Promised[key] = Documented[key] /\ key \in DOMAIN Promised
      BY <1>16, <3>1, PromisedIs
    <3>3. Documented[key] = FlowString(key, full[key])
      BY <1>8, <1>15, <3>1 DEF FlowString, FlowFlags
    <3> QED
      BY <3>2, <3>3
  <2> QED
    BY <2>1, <2>2
<1>19. \A key \in DOMAIN strings : key \in DOMAIN Promised /\ Promised[key] = strings[key]
  BY <1>10, <1>14, <1>17, <1>18
<1>20. DOMAIN Promised = DOMAIN full \cup DOMAIN nums
  BY <1>1, <1>8, <1>15, <1>16, PromisedIs
<1>21. ASSUME NEW key \in DOMAIN Promised
       PROVE  Effective(key) = {Promised[key]}
  <2>1. CASE key \in DOMAIN strings
    <3>1. Effective(key) = {strings[key]}
      BY <1>14, <1>15, <2>1, EffectiveIs
    <3> QED
      BY <1>19, <2>1, <3>1
  <2>2. CASE key \notin DOMAIN strings
    <3>1. key = "active_flow_indication" /\ key \in DOMAIN full /\ full[key] # "true"
      BY <1>10, <1>14, <1>20, <2>2
    <3>2. Promised[key] = "0"
      BY <1>18, <3>1 DEF FlowString, FlowFlags
    <3>3. key \in DOMAIN FlowDefaults /\ FlowDefaults[key] = "0" /\ key \in DOMAIN FlowName
      BY <3>1 DEF FlowDefaults, FlowName
    <3>4. \A k \in DOMAIN strings : NameOf[key] # FlowName[k]
      <4>1. DOMAIN strings \subseteq DOMAIN FlowName
        BY <1>12, <1>14, SmallOrders DEF FlowName
      <4> QED
        BY <1>15, <2>2, <3>3, <4>1, SmallNamesDiffer
    <3> QED
      BY <1>14, <1>15, <3>2, <3>3, <3>4, EffectiveIs
  <2> QED
    BY <2>1, <2>2
<1>22. DOMAIN LibraryReads(raw) \subseteq {NameOf[key] : key \in DOMAIN Promised}
  <2>1. DOMAIN LibraryReads(raw) = {FlowName[k] : k \in DOMAIN strings}
    BY <1>14 DEF Carries
  <2> QED
    BY <1>15, <1>19, <2>1
<1>23. WellFormed(raw)
  BY <1>14 DEF Carries
<1> QED
  BY <1>21, <1>22, <1>23

\* Of cache sessions, but for the limit that goes under another key.
LEMMA CacheGetsTheLastWord ==
    ASSUME IInv, Listed, kind = "cache"
    PROVE  /\ WellFormed(raw)
           /\ \A key \in DOMAIN Promised \ {"max_message"} : Effective(key) = {Promised[key]}
<1> DEFINE numbers == nums ++ CacheDefaults
           b == [key \in DOMAIN CacheDefaults |-> ToString(numbers[key])]
           strings == texts ++ b
<1>1. /\ Wanted = DOMAIN texts \cup DOMAIN nums
      /\ \A k \in DOMAIN texts : texts[k] = LastWord(k)
      /\ \A k \in DOMAIN nums : nums[k] = LastWord(k)
  BY FieldsAreWanted
<1>2. /\ DOMAIN Setters[kind] = {"cache_name"} /\ NumberSetters[kind] = DOMAIN CacheDefaults
      /\ RequiredOptions(kind) = {"cache_name"}
      /\ DOMAIN CacheDefaults = {"max_message", "max_age", "timeout_ms"}
      /\ CacheDefaults["max_message"] = 1 /\ CacheDefaults["max_age"] = 0 /\ CacheDefaults["timeout_ms"] = 10000
      /\ Setters[kind]["cache_name"] = {"y", "nul"}
  BY SettersAre, SetterTexts DEF NumberSetters, RequiredOptions, CacheDefaults
<1>3. /\ StartTexts = given /\ StartNums = <<>> /\ DOMAIN given = {"cache_name"}
      /\ given = [key \in DOMAIN given |->
                     CASE key = "destination" -> "Queue" [] key = "bind_entity" -> "queue" [] OTHER -> "x"]
  BY <1>2 DEF StartTexts, StartNums, IInv, GivenInv
<1>4. given["cache_name"] = "x"
  <2>1. given["cache_name"] = CASE "cache_name" = "destination" -> "Queue" [] "cache_name" = "bind_entity" -> "queue"
                                [] OTHER -> "x"
    BY <1>3
  <2> QED
    BY <2>1
<1>5. DOMAIN texts = {"cache_name"} /\ DOMAIN nums \subseteq DOMAIN CacheDefaults
  <2>1. DOMAIN texts \subseteq {"cache_name"} /\ DOMAIN nums \subseteq DOMAIN CacheDefaults
    BY <1>2, <1>3 DEF IInv, TextsInv, NumsInv
  <2>2. "cache_name" \in Wanted
    BY <1>3 DEF Wanted
  <2> QED
    BY <1>1, <1>2, <2>1, <2>2
<1>6. texts["cache_name"] \in {"x", "y", "nul"}
  <2>1. "cache_name" \in DOMAIN texts
    BY <1>5
  <2>2. texts["cache_name"] \in Setters[kind]["cache_name"] \/ texts["cache_name"] = given["cache_name"]
    BY <1>3, <2>1, FieldsComeFrom
  <2> QED
    BY <1>2, <1>4, <2>2
<1>7. /\ DOMAIN numbers = DOMAIN CacheDefaults
      /\ \A k \in DOMAIN nums : numbers[k] = nums[k]
      /\ \A k \in DOMAIN CacheDefaults : k \notin DOMAIN nums => numbers[k] = CacheDefaults[k]
  BY <1>5 DEF ++
<1>8. \A k \in DOMAIN CacheDefaults : ToString(numbers[k]) # Null
  <2> SUFFICES ASSUME NEW k \in DOMAIN CacheDefaults PROVE ToString(numbers[k]) # Null
    OBVIOUS
  <2> HIDE DEF numbers
  <2>1. CASE k \in DOMAIN nums
    <3>1. nums[k] \in Samples[k]
      <4>1. nums[k] \in NumbersFor(kind, k)
        BY <1>3, <2>1, FieldsComeFrom
      <4> QED
        BY <4>1 DEF NumbersFor
    <3>2. numbers[k] \in Samples[k]
      BY <1>7, <2>1, <3>1
    <3> QED
      BY <3>2, NumeralsAssumption
  <2>2. CASE k \notin DOMAIN nums
    <3>1. numbers[k] \in {0, 1, 255, 10000}
      BY <1>2, <1>7, <2>2
    <3> QED
      BY <3>1, NumeralsAssumption
  <2> QED
    BY <2>1, <2>2
<1>9. DOMAIN b = DOMAIN CacheDefaults /\ \A k \in DOMAIN CacheDefaults : b[k] = ToString(numbers[k])
  OBVIOUS
<1>10. raw = PushAll(CacheOrder, CacheKeys, strings) \o <<Null>>
  <2>1. built /\ fault = "none" /\ kind # "message"
    BY DEF Listed, Made
  <2>2. raw = CacheToRaw(texts, nums)
    BY <2>1 DEF IInv, BuiltInv, ListOf
  <2> QED
    BY <2>2, Zenon DEF CacheToRaw, CacheOrder
<1> HIDE DEF numbers, b
<1>11. /\ DOMAIN strings = {"cache_name"} \cup DOMAIN CacheDefaults
       /\ strings["cache_name"] = texts["cache_name"]
       /\ \A k \in DOMAIN CacheDefaults : strings[k] = ToString(numbers[k])
  <2>1. /\ DOMAIN strings = DOMAIN texts \cup DOMAIN b
        /\ \A k \in DOMAIN texts : strings[k] = texts[k]
        /\ \A k \in DOMAIN b : k \notin DOMAIN texts => strings[k] = b[k]
    BY DEF ++
  <2> HIDE DEF strings
  <2>2. "cache_name" \notin DOMAIN CacheDefaults
    BY <1>2
  <2> QED
    BY <1>5, <1>9, <2>1, <2>2
<1> HIDE DEF strings
<1>12. DOMAIN CacheName = {"cache_name"} \cup DOMAIN CacheDefaults
  BY <1>2 DEF CacheName
<1>13. Carries(raw, CacheKeys, strings)
  <2>1. \A k \in DOMAIN strings : strings[k] # Null
    BY <1>6, <1>8, <1>11 DEF Null
  <2>2. Listable(CacheKeys, strings) /\ DOMAIN strings \subseteq Range(CacheOrder)
    BY <1>11, <1>12, <2>1, SmallNamesDiffer, SmallOrders DEF Listable
  <2>3. /\ CacheOrder \in Seq(DOMAIN CacheName) /\ CacheOrder # <<>>
        /\ \A i, j \in DOMAIN CacheOrder : CacheOrder[i] = CacheOrder[j] => i = j
    BY SmallOrders
  <2>4. Carries(PushAll(CacheOrder, CacheKeys, strings) \o <<Null>>, CacheKeys, strings)
    BY <2>2, <2>3, PushedIsCarried
  <2> QED
    BY <1>10, <2>4
<1>14. NameOf = CacheName
  BY DEF NameOf
<1>15. Documented = [max_message |-> "1", max_age |-> ToString(0), timeout_ms |-> ToString(10000)]
  BY DEF Documented
<1>16. /\ DOMAIN Documented = DOMAIN CacheDefaults
       /\ Documented["max_age"] = ToString(CacheDefaults["max_age"])
       /\ Documented["timeout_ms"] = ToString(CacheDefaults["timeout_ms"])
  BY <1>2, <1>15
<1>17. "on_message" \notin Wanted /\ "cache_name" \in Wanted /\ "cache_name" \notin NumberSetters[kind]
  BY <1>1, <1>2, <1>5
<1>18. ASSUME NEW key \in DOMAIN CacheDefaults, key # "max_message"
       PROVE  Promised[key] = strings[key]
  <2>1. strings[key] = ToString(numbers[key])
    BY <1>11
  <2>2. CASE key \in DOMAIN nums
    <3>1. Promised[key] = AsString(key)
      BY <1>1, <1>17, <2>2, PromisedIs
    <3>2. AsString(key) = ToString(LastWord(key))
      BY <1>2, NumberAsString
    <3>3. numbers[key] = LastWord(key)
      BY <1>1, <1>7, <2>2
    <3> QED
      BY <2>1, <3>1, <3>2, <3>3, Zenon
  <2>3. CASE key \notin DOMAIN nums
    <3>1. key \notin Wanted
      BY <1>1, <1>2, <1>5, <2>3
    <3>2. Promised[key] = Documented[key]
      BY <1>16, <3>1, PromisedIs
    <3>3. numbers[key] = CacheDefaults[key]
      BY <1>7, <2>3
    <3>4. CASE key = "max_age"
      BY <1>16, <2>1, <3>2, <3>3, <3>4, Zenon
    <3>5. CASE key = "timeout_ms"
      BY <1>16, <2>1, <3>2, <3>3, <3>5, Zenon
    <3> QED
      BY <1>2, <1>18, <3>4, <3>5
  <2> QED
    BY <2>2, <2>3
<1>19. Promised["cache_name"] = strings["cache_name"]
  <2>1. Promised["cache_name"] = AsString("cache_name")
    BY <1>17, PromisedIs
  <2>2. AsString("cache_name") =
           CASE "cache_name" = "bind_entity" -> IF LastWord("cache_name") = "queue" THEN "2" ELSE "3"
             [] "cache_name" = "ack_mode" -> IF LastWord("cache_name") = "auto" THEN "1" ELSE "2"
             [] "cache_name" \in SessionFlags \cup FlowFlags -> IF LastWord("cache_name") = "true" THEN "1" ELSE "0"
             [] OTHER -> LastWord("cache_name")
    BY <1>17, Zenon DEF AsString
  <2>3. AsString("cache_name") = LastWord("cache_name")
    BY <2>2 DEF SessionFlags, FlowFlags
  <2> QED
    BY <1>1, <1>5, <1>11, <2>1, <2>3
<1>20. ASSUME NEW key \in DOMAIN Promised \ {"max_message"}
       PROVE  Effective(key) = {Promised[key]}
  <2>1. key \in DOMAIN strings
    BY <1>1, <1>5, <1>11, <1>16, PromisedIs
  <2>2. NameOf[key] = CacheKeys[key]
    BY <1>11, <1>12, <1>14, <2>1, SmallNamesDiffer
  <2>3. Effective(key) = {strings[key]}
    BY <1>13, <2>1, <2>2, EffectiveIs
  <2> QED
    BY <1>11, <1>18, <1>19, <2>1, <2>3
<1>21. WellFormed(raw)
  BY <1>13 DEF Carries
<1> QED
  BY <1>20, <1>21

\* Of the crypto libraries of a context.
LEMMA CryptoGetsTheLastWord ==
    ASSUME IInv, Listed, kind = "crypto"
    PROVE  /\ raw = NoList \/ WellFormed(raw)
           /\ \A key \in DOMAIN Promised : Effective(key) = {Promised[key]}
           /\ DOMAIN LibraryReads(raw) \subseteq {NameOf[key] : key \in DOMAIN Promised}
<1> DEFINE own == {"ssl_lib", "crypto_lib"}
<1>1. /\ Wanted = DOMAIN texts \cup DOMAIN nums
      /\ \A k \in DOMAIN texts : texts[k] = LastWord(k)
  BY FieldsAreWanted
<1>2. /\ DOMAIN Setters[kind] = own /\ NumberSetters[kind] = {} /\ RequiredOptions(kind) = {}
      /\ \A k \in own : Setters[kind][k] = {"y", "nul"}
  BY SettersAre, SetterTexts DEF NumberSetters, RequiredOptions
<1>3. StartTexts = given /\ DOMAIN given = {}
  BY <1>2 DEF StartTexts, IInv, GivenInv
<1>4. DOMAIN texts \subseteq own /\ DOMAIN nums = {}
  BY <1>2, <1>3 DEF IInv, TextsInv, NumsInv
<1>5. \A k \in DOMAIN texts : texts[k] \in {"y", "nul"}
  BY <1>2, <1>3, <1>4, FieldsComeFrom
<1>6. raw = CryptoToRaw(texts)
  <2>1. built /\ fault = "none" /\ kind # "message"
    BY DEF Listed, Made
  <2> QED
    BY <2>1 DEF IInv, BuiltInv, ListOf
<1>7. NameOf = CryptoName /\ Documented = <<>>
  BY DEF NameOf, Documented
<1>8. DOMAIN Promised = DOMAIN texts
  <2>1. DOMAIN Documented = {}
    BY <1>7
  <2>2. "on_message" \notin Wanted
    BY <1>1, <1>4
  <2> QED
    BY <1>1, <1>4, <2>1, <2>2, PromisedIs
<1>9. ASSUME NEW key \in DOMAIN texts PROVE Promised[key] = texts[key]
  <2>1. key \in own /\ key \in Wanted /\ key # "on_message" /\ key \notin NumberSetters[kind]
    BY <1>1, <1>2, <1>4
  <2>2. AsString(key) = CASE key = "bind_entity" -> IF LastWord(key) = "queue" THEN "2" ELSE "3"
                          [] key = "ack_mode" -> IF LastWord(key) = "auto" THEN "1" ELSE "2"
                          [] key \in SessionFlags \cup FlowFlags -> IF LastWord(key) = "true" THEN "1" ELSE "0"
                          [] OTHER -> LastWord(key)
    BY <2>1, Zenon DEF AsString
  <2>3. AsString(key) = LastWord(key)
    BY <2>1, <2>2 DEF SessionFlags, FlowFlags
  <2> QED
    BY <1>1, <2>1, <2>3, PromisedIs
<1>10. CASE DOMAIN texts = {}
  <2>1. raw = <<>>
    BY <1>6, <1>10 DEF CryptoToRaw, NoList
  <2>2. PairCount(raw) = 0
    <3> DEFINE S == {n \in 0 .. Len(raw) : 2 * n + 1 \in DOMAIN raw => raw[2 * n + 1] = Null}
    <3>1. S = {0}
      BY <2>1
    <3>2. 0 \in S /\ S \subseteq Nat
      BY <3>1
    <3> HIDE DEF S
    <3>3. Min(S) \in S
      BY <3>2, MinIsSmallest
    <3> QED
      BY <3>1, <3>3 DEF PairCount, S
  <2>3. DOMAIN LibraryReads(raw) = {}
    <3>1. DOMAIN LibraryReads(raw) = {raw[2 * i - 1] : i \in 1 .. PairCount(raw)}
      BY DEF LibraryReads
    <3> QED
      BY <2>2, <3>1
  <2> QED
    BY <1>8, <1>10, <2>1, <2>3 DEF NoList
<1>11. CASE DOMAIN texts # {}
  <2>1. raw = PushAll(CryptoOrder, CryptoName, texts) \o <<Null>>
    BY <1>6, <1>11, Zenon DEF CryptoToRaw, CryptoOrder
  <2>2. own = DOMAIN CryptoName
    BY DEF CryptoName
  <2>3. Carries(raw, CryptoName, texts)
    <3>1. Listable(CryptoName, texts) /\ DOMAIN texts \subseteq Range(CryptoOrder)
      BY <1>4, <1>5, <2>2, SmallNamesDiffer, SmallOrders DEF Listable, Null
    <3>2. /\ CryptoOrder \in Seq(DOMAIN CryptoName) /\ CryptoOrder # <<>>
          /\ \A i, j \in DOMAIN CryptoOrder : CryptoOrder[i] = CryptoOrder[j] => i = j
      BY SmallOrders
    <3>3. Carries(PushAll(CryptoOrder, CryptoName, texts) \o <<Null>>, CryptoName, texts)
      BY <3>1, <3>2, PushedIsCarried
    <3> QED
      BY <2>1, <3>3
  <2>4. \A key \in DOMAIN texts : Effective(key) = {texts[key]}
    BY <1>7, <2>3, EffectiveIs
  <2>5. DOMAIN LibraryReads(raw) = {CryptoName[k] : k \in DOMAIN texts} /\ WellFormed(raw)
    BY <2>3 DEF Carries
  <2> QED
    BY <1>7, <1>8, <1>9, <2>4, <2>5
<1> QED
  BY <1>10, <1>11

\* Of every kind that has a list.
LEMMA EveryListIsRight ==
    ASSUME IInv, Listed
    PROVE  /\ raw = NoList \/ WellFormed(raw)
           /\ \A key \in DOMAIN Promised \ (IF kind = "cache" THEN {"max_message"} ELSE {}) :
                 Effective(key) = {Promised[key]}
           /\ kind # "cache" => DOMAIN LibraryReads(raw) \subseteq {NameOf[key] : key \in DOMAIN Promised}
<1>1. kind \in {"session", "async_session", "flow", "async_flow", "cache", "crypto"}
  <2>1. kind # "message" /\ built
    BY DEF Listed, Made
  <2>2. kind \in AnyKind /\ kind # "foreign"
    BY <2>1, KindsAssumption DEF IInv, BuiltInv, AnyKind
  <2> QED
    BY <2>1, <2>2 DEF AnyKind
<1>2. CASE kind \in {"session", "async_session"}
  <2>1. WellFormed(raw)
    BY <1>2, SessionIsListed DEF Carries
  <2> QED
    BY <1>2, <2>1, SessionGetsTheLastWord
<1>3. CASE kind = "flow"
  BY <1>3, FlowGetsTheLastWord
<1>4. CASE kind = "async_flow"
  BY <1>4, AsyncFlowGetsTheLastWord
<1>5. CASE kind = "cache"
  BY <1>5, CacheGetsTheLastWord
<1>6. CASE kind = "crypto"
  BY <1>6, CryptoGetsTheLastWord
<1> QED
  BY <1>1, <1>2, <1>3, <1>4, <1>5, <1>6

\* Whatever is built, the C library can read its list to the end: whole pairs, no key twice,
\* a null pointer behind them (the props of session/builder.rs:184-187 and of the others).
THEOREM ListsCanBeRead == Spec => []ListsAreWellFormed
<1>1. IInv => ListsAreWellFormed
  BY EveryListIsRight DEF ListsAreWellFormed
<1> QED
  BY <1>1, Invariance, PTL

\* Whatever is set, in whatever order and however often, the library ends up with the last
\* value of every option, or the documented default, and hears of nothing else.
THEOREM TheLastWordArrives == Spec => []LibraryGetsTheLastWord
<1>1. IInv => LibraryGetsTheLastWord
  <2> SUFFICES ASSUME IInv, Listed
               PROVE  /\ \A key \in DOMAIN Promised \ (IF kind = "cache" THEN {"max_message"} ELSE {}) :
                            Effective(key) = {Promised[key]}
                      /\ kind # "cache" => DOMAIN LibraryReads(raw) \subseteq {NameOf[key] : key \in DOMAIN Promised}
    BY Zenon DEF LibraryGetsTheLastWord, Promised
  <2> QED
    BY EveryListIsRight
<1> QED
  BY <1>1, Invariance, PTL
=============================================================================
