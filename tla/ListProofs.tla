----------------------------- MODULE ListProofs ------------------------------
(***************************************************************************)
(* Proofs about the lists an edge works with: lemmas about the operators   *)
(* of Lists, and from them what holds of the supernodes it rotates through *)
(* (SupernodeList) and of the rooms it has been in (History).              *)
(***************************************************************************)
EXTENDS SupernodeList, History, NaturalsInduction, TLAPS

(* Facts about sequences, in the form in which they are used *)
LEMMA Widened ==
  ASSUME NEW S, NEW T, S \subseteq T, NEW list \in Seq(S)
  PROVE  list \in Seq(T)
  OBVIOUS

LEMMA ElementOfList ==
  ASSUME NEW S, NEW list \in Seq(S), NEW n \in 1 .. Len(list)
  PROVE  list[n] \in S
  OBVIOUS

LEMMA AList ==
  ASSUME NEW n \in Nat, NEW S, NEW list \in [1 .. n -> S]
  PROVE  list \in Seq(S) /\ Len(list) = n
  OBVIOUS

LEMMA Joined ==
  ASSUME NEW S, NEW first \in Seq(S), NEW second \in Seq(S)
  PROVE  /\ first \o second \in Seq(S)
         /\ Len(first \o second) = Len(first) + Len(second)
         /\ \A i \in 1 .. Len(first) + Len(second) :
               (first \o second)[i] = IF i <= Len(first) THEN first[i] ELSE second[i - Len(first)]
  OBVIOUS

LEMMA Appended ==
  ASSUME NEW S, NEW list \in Seq(S), NEW x \in S
  PROVE  /\ Append(list, x) \in Seq(S)
         /\ Len(Append(list, x)) = Len(list) + 1
         /\ \A i \in 1 .. Len(list) : Append(list, x)[i] = list[i]
         /\ Append(list, x)[Len(list) + 1] = x
  OBVIOUS

(* Induction from 0 on, for a set of numbers: being in P, and being a number, follow one recursion. *)
LEMMA Upwards ==
  ASSUME NEW P \in SUBSET Nat, 0 \in P, \A n \in Nat : n \in P => n + 1 \in P
  PROVE  P = Nat
  <1> DEFINE In(v, n) == IF v = 1 \/ n \in P THEN 1 ELSE 0
             f == [n \in Nat |-> 1]
             g == [n \in Nat |-> IF n \in P THEN 1 ELSE 0]
  <1>1. NatInductiveDefConclusion(f, 1, In)
    BY DEF NatInductiveDefConclusion
  <1>2. NatInductiveDefConclusion(g, 1, In)
    <2>1. ASSUME NEW n \in Nat PROVE g[n] = IF n = 0 THEN 1 ELSE In(g[n - 1], n)
      <3>1. CASE n = 0
        BY <3>1
      <3>2. CASE n # 0
        <4>1. n - 1 \in Nat /\ (n - 1) + 1 = n
          BY <3>2
        <4>2. n - 1 \in P => n \in P
          BY <4>1
        <4> QED BY <3>2, <4>1, <4>2
      <3> QED BY <3>1, <3>2
    <2>2. g = [n \in Nat |-> IF n = 0 THEN 1 ELSE In(g[n - 1], n)]
      <3> HIDE DEF In
      <3> QED BY <2>1
    <2> QED BY <2>2, Zenon DEF NatInductiveDefConclusion
  <1>3. f = g
    <2> HIDE DEF f, g, In
    <2> QED BY <1>1, <1>2, NatInductiveUnique, Zenon
  <1>4. ASSUME NEW n \in Nat PROVE n \in P
    <2>1. f[n] = 1 /\ g[n] = (IF n \in P THEN 1 ELSE 0)
      OBVIOUS
    <2>2. g[n] = 1
      BY <1>3, <2>1, Zenon
    <2> QED BY <2>1, <2>2
  <1> QED BY <1>4

(* Every set of numbers has a least one: what induction over a list comes down to. *)
LEMMA LeastOf ==
  ASSUME NEW S \in SUBSET Nat, S # {}
  PROVE  \E m \in S : \A k \in S : m <= k
  <1> SUFFICES ASSUME \A m \in S : \E k \in S : ~(m <= k) PROVE FALSE
    OBVIOUS
  <1> DEFINE P == {n \in Nat : \A k \in S : n < k}
  <1>1. 0 \in P
    <2>1. ASSUME NEW k \in S PROVE 0 < k
      <3>1. PICK j \in S : ~(k <= j)
        OBVIOUS
      <3> QED BY <3>1
    <2> QED BY <2>1
  <1>2. ASSUME NEW n \in Nat, n \in P PROVE n + 1 \in P
    <2>1. ASSUME NEW k \in S PROVE n + 1 < k
      <3>1. PICK j \in S : ~(k <= j)
        OBVIOUS
      <3>2. n < j
        BY <1>2
      <3> QED BY <3>1, <3>2
    <2> QED BY <2>1
  <1>3. P = Nat
    <2>1. P \in SUBSET Nat
      OBVIOUS
    <2> HIDE DEF P
    <2> QED BY <1>1, <1>2, <2>1, Upwards
  <1>4. PICK k \in S : TRUE
    OBVIOUS
  <1>5. k \in P
    BY <1>3
  <1>6. k < k
    BY <1>5
  <1> QED BY <1>6

(* The recursive function behind Picked exists. *)
LEMMA PickedOf ==
  ASSUME NEW list, NEW keep
  PROVE  \E f : /\ f = [n \in Nat |->
                          IF n = 0 THEN <<>>
                          ELSE IF n \in keep THEN Append(f[n - 1], list[n]) ELSE f[n - 1]]
                /\ Picked(list, keep) = f[Len(list)]
  <1> DEFINE Def(v, n) == IF n \in keep THEN Append(v, list[n]) ELSE v
             f == CHOOSE g : g = [i \in Nat |-> IF i = 0 THEN <<>> ELSE Def(g[i - 1], i)]
  <1>1. NatInductiveDefHypothesis(f, <<>>, Def)
    BY DEF NatInductiveDefHypothesis
  <1>2. NatInductiveDefConclusion(f, <<>>, Def)
    BY <1>1, NatInductiveDef, Zenon
  <1>3. f = [i \in Nat |-> IF i = 0 THEN <<>> ELSE Def(f[i - 1], i)]
    BY <1>2, Zenon DEF NatInductiveDefConclusion
  <1>4. Picked(list, keep) = f[Len(list)]
    BY DEF Picked
  <1> HIDE DEF f
  <1> QED BY <1>3, <1>4, Zenon

(* at says from where in the first n entries of list those of picked come, in order. *)
ComesFrom(at, picked, list, keep, n) ==
    /\ at \in [1 .. Len(picked) -> 1 .. n]
    /\ \A j \in 1 .. Len(picked) : at[j] \in keep /\ picked[j] = list[at[j]]
    /\ \A i, j \in 1 .. Len(picked) : i < j => at[i] < at[j]
    /\ \A i \in 1 .. n : i \in keep => \E j \in 1 .. Len(picked) : at[j] = i

(* One entry more that is picked *)
LEMMA PickedMore ==
  ASSUME NEW S, NEW list \in Seq(S), NEW keep, NEW n \in Nat, n + 1 <= Len(list),
         NEW picked \in Seq(S), NEW at, ComesFrom(at, picked, list, keep, n), n + 1 \in keep
  PROVE  ComesFrom([j \in 1 .. Len(picked) + 1 |-> IF j <= Len(picked) THEN at[j] ELSE n + 1],
                   Append(picked, list[n + 1]), list, keep, n + 1)
  <1> DEFINE l == Len(picked)
             new == Append(picked, list[n + 1])
             to == [j \in 1 .. l + 1 |-> IF j <= l THEN at[j] ELSE n + 1]
  <1>1. /\ l \in Nat /\ Len(new) = l + 1 /\ new[l + 1] = list[n + 1]
        /\ \A j \in 1 .. l : new[j] = picked[j]
    <2>1. list[n + 1] \in S
      OBVIOUS
    <2> QED BY <2>1, Appended
  <1>2. /\ at \in [1 .. l -> 1 .. n]
        /\ \A j \in 1 .. l : at[j] \in keep /\ picked[j] = list[at[j]]
        /\ \A i, j \in 1 .. l : i < j => at[i] < at[j]
        /\ \A i \in 1 .. n : i \in keep => \E j \in 1 .. l : at[j] = i
    BY DEF ComesFrom
  <1> HIDE DEF l, new
  <1>3. to \in [1 .. l + 1 -> 1 .. n + 1]
    BY <1>1, <1>2
  <1>4. to[l + 1] = n + 1 /\ \A j \in 1 .. l : to[j] = at[j] /\ at[j] \in 1 .. n
    BY <1>1, <1>2
  <1> HIDE DEF to
  <1>a. \A j \in 1 .. l + 1 : j \in 1 .. l \/ j = l + 1
    BY <1>1
  <1>b. l + 1 \in 1 .. l + 1 /\ \A j \in 1 .. l : j \in 1 .. l + 1
    BY <1>1
  <1>5. \A j \in 1 .. l + 1 : to[j] \in keep /\ new[j] = list[to[j]]
    BY <1>1, <1>2, <1>4, <1>a, Zenon
  <1>6. ASSUME NEW i \in 1 .. l + 1, NEW j \in 1 .. l + 1, i < j PROVE to[i] < to[j]
    <2>1. i \in 1 .. l
      BY <1>1, <1>6
    <2>2. CASE j \in 1 .. l
      BY <1>2, <1>4, <1>6, <2>1, <2>2, Zenon
    <2>3. CASE j = l + 1
      <3>1. to[i] \in 1 .. n /\ to[j] = n + 1
        BY <1>4, <2>1, <2>3, Zenon
      <3> QED BY <3>1
    <2> QED BY <1>a, <2>2, <2>3, Zenon
  <1>7. ASSUME NEW i \in 1 .. n + 1, i \in keep PROVE \E j \in 1 .. l + 1 : to[j] = i
    <2>1. i \in 1 .. n \/ i = n + 1
      OBVIOUS
    <2> QED BY <1>2, <1>4, <1>7, <1>b, <2>1, Zenon
  <1>8. ComesFrom(to, new, list, keep, n + 1)
    BY <1>1, <1>3, <1>5, <1>6, <1>7 DEF ComesFrom
  <1> QED BY <1>8 DEF to, new, l

(* Picked keeps the entries at the positions in keep, no others, and their order. *)
LEMMA PickedFacts ==
  ASSUME NEW S, NEW list \in Seq(S), NEW keep
  PROVE  /\ Picked(list, keep) \in Seq(S)
         /\ \E at : ComesFrom(at, Picked(list, keep), list, keep, Len(list))
  <1>1. PICK f : /\ f = [n \in Nat |->
                          IF n = 0 THEN <<>>
                          ELSE IF n \in keep THEN Append(f[n - 1], list[n]) ELSE f[n - 1]]
                 /\ Picked(list, keep) = f[Len(list)]
    BY PickedOf, Zenon
  <1>2. f[0] = <<>>
    BY <1>1
  <1>3. \A n \in Nat : f[n + 1] = IF n + 1 \in keep THEN Append(f[n], list[n + 1]) ELSE f[n]
    <2> SUFFICES ASSUME NEW n \in Nat
                 PROVE  f[n + 1] = IF n + 1 \in keep THEN Append(f[n], list[n + 1]) ELSE f[n]
      OBVIOUS
    <2>1. n + 1 \in Nat /\ n + 1 # 0 /\ (n + 1) - 1 = n
      OBVIOUS
    <2> QED BY <1>1, <2>1, Zenon
  <1> DEFINE Good(n) == n <= Len(list) =>
                          f[n] \in Seq(S) /\ \E at : ComesFrom(at, f[n], list, keep, n)
             P == {n \in Nat : Good(n)}
  <1>4. Good(0)
    <2>1. f[0] \in Seq(S) /\ Len(f[0]) = 0
      BY <1>2
    <2>2. ComesFrom([j \in {} |-> 0], f[0], list, keep, 0)
      BY <2>1 DEF ComesFrom
    <2> QED BY <2>1, <2>2
  <1>5. ASSUME NEW n \in Nat, Good(n) PROVE Good(n + 1)
    <2> SUFFICES ASSUME n + 1 <= Len(list)
                 PROVE  f[n + 1] \in Seq(S) /\ \E at : ComesFrom(at, f[n + 1], list, keep, n + 1)
      OBVIOUS
    <2>1. PICK at : f[n] \in Seq(S) /\ ComesFrom(at, f[n], list, keep, n)
      <3>1. n <= Len(list)
        OBVIOUS
      <3> QED BY <1>5, <3>1, Zenon
    <2>2. CASE n + 1 \in keep
      <3>0. list[n + 1] \in S
        OBVIOUS
      <3>1. f[n + 1] = Append(f[n], list[n + 1]) /\ list[n + 1] \in S
        BY <1>3, <2>2, <3>0, Zenon
      <3>2. \E to : ComesFrom(to, Append(f[n], list[n + 1]), list, keep, n + 1)
        BY <2>1, <2>2, PickedMore, Zenon
      <3>3. Append(f[n], list[n + 1]) \in Seq(S)
        BY <2>1, <3>1
      <3> QED BY <3>1, <3>2, <3>3, Zenon
    <2>3. CASE n + 1 \notin keep
      <3>1. f[n + 1] = f[n]
        BY <1>3, <2>3, Zenon
      <3>2. /\ at \in [1 .. Len(f[n]) -> 1 .. n]
            /\ \A j \in 1 .. Len(f[n]) : at[j] \in keep /\ f[n][j] = list[at[j]]
            /\ \A i, j \in 1 .. Len(f[n]) : i < j => at[i] < at[j]
            /\ \A i \in 1 .. n : i \in keep => \E j \in 1 .. Len(f[n]) : at[j] = i
        BY <2>1, Zenon DEF ComesFrom
      <3>3. at \in [1 .. Len(f[n]) -> 1 .. n + 1]
        BY <3>2
      <3>4. \A i \in 1 .. n + 1 : i \in keep => i \in 1 .. n
        BY <2>3
      <3>5. ComesFrom(at, f[n], list, keep, n + 1)
        BY <3>2, <3>3, <3>4, Zenon DEF ComesFrom
      <3> QED BY <2>1, <3>1, <3>5, Zenon
    <2> QED BY <2>2, <2>3
  <1> HIDE DEF Good
  <1>6. P = Nat
    <2>1. P \in SUBSET Nat /\ 0 \in P /\ \A n \in Nat : n \in P => n + 1 \in P
      BY <1>4, <1>5
    <2> HIDE DEF P
    <2> QED BY <2>1, Upwards, Zenon
  <1>7. Len(list) \in Nat /\ Len(list) <= Len(list)
    OBVIOUS
  <1>8. Good(Len(list))
    BY <1>6, <1>7, Zenon
  <1> QED BY <1>1, <1>7, <1>8, Zenon DEF Good

(* The entries of a list *)
LEMMA InRange ==
  ASSUME NEW S, NEW list \in Seq(S), NEW x
  PROVE  x \in Range(list) <=> \E i \in 1 .. Len(list) : x = list[i]
  <1>1. DOMAIN list = 1 .. Len(list)
    OBVIOUS
  <1> QED BY <1>1, Zenon DEF Range

LEMMA EntryAt ==
  ASSUME NEW S, NEW list \in Seq(S), NEW x \in Range(list)
  PROVE  \E i \in 1 .. Len(list) : x = list[i]
  BY InRange, Zenon

LEMMA EntryIn ==
  ASSUME NEW S, NEW list \in Seq(S), NEW i \in 1 .. Len(list)
  PROVE  list[i] \in Range(list)
  BY InRange, Zenon

LEMMA ConcatRange ==
  ASSUME NEW S, NEW s \in Seq(S), NEW t \in Seq(S)
  PROVE  Range(s \o t) = Range(s) \cup Range(t)
  <1> DEFINE both == s \o t
  <1>1. /\ both \in Seq(S) /\ Len(both) = Len(s) + Len(t)
        /\ \A i \in 1 .. Len(s) + Len(t) : both[i] = IF i <= Len(s) THEN s[i] ELSE t[i - Len(s)]
    BY Joined, Zenon
  <1>2. Len(s) \in Nat /\ Len(t) \in Nat
    OBVIOUS
  <1> HIDE DEF both
  <1>3. ASSUME NEW x, \E i \in 1 .. Len(both) : x = both[i]
        PROVE  (\E i \in 1 .. Len(s) : x = s[i]) \/ (\E i \in 1 .. Len(t) : x = t[i])
    <2>1. PICK i \in 1 .. Len(both) : x = both[i]
      BY <1>3, Zenon
    <2>2. \/ i \in 1 .. Len(s) /\ x = s[i]
          \/ i - Len(s) \in 1 .. Len(t) /\ x = t[i - Len(s)]
      BY <1>1, <1>2, <2>1
    <2> QED BY <2>2, Zenon
  <1>4. ASSUME NEW i \in 1 .. Len(s) PROVE \E j \in 1 .. Len(both) : s[i] = both[j]
    <2>1. i \in 1 .. Len(both) /\ both[i] = s[i]
      BY <1>1, <1>2
    <2> QED BY <2>1, Zenon
  <1>5. ASSUME NEW i \in 1 .. Len(t) PROVE \E j \in 1 .. Len(both) : t[i] = both[j]
    <2>1. i + Len(s) \in 1 .. Len(both) /\ ~(i + Len(s) <= Len(s)) /\ (i + Len(s)) - Len(s) = i
      BY <1>1, <1>2
    <2>2. both[i + Len(s)] = t[i]
      BY <1>1, <2>1, Zenon
    <2> QED BY <2>1, <2>2, Zenon
  <1>6. ASSUME NEW x PROVE x \in Range(both) <=> x \in Range(s) \/ x \in Range(t)
    <2>1. x \in Range(both) <=> \E i \in 1 .. Len(both) : x = both[i]
      BY <1>1, InRange, Zenon
    <2>2. x \in Range(s) <=> \E i \in 1 .. Len(s) : x = s[i]
      BY InRange, Zenon
    <2>3. x \in Range(t) <=> \E i \in 1 .. Len(t) : x = t[i]
      BY InRange, Zenon
    <2> QED BY <1>3, <1>4, <1>5, <2>1, <2>2, <2>3, Zenon
  <1> QED BY <1>6, Zenon DEF both

(* The entries of two lists. *)
RangesOf(s, t) == Range(s) \cup Range(t)

LEMMA JoinedRange ==
  ASSUME NEW S, NEW s \in Seq(S), NEW t \in Seq(S)
  PROVE  Range(s \o t) = RangesOf(s, t)
  <1>1. Range(s \o t) = Range(s) \cup Range(t)
    BY ConcatRange
  <1> QED BY <1>1, Zenon DEF RangesOf

LEMMA PickedRange ==
  ASSUME NEW S, NEW list \in Seq(S), NEW keep, NEW x
  PROVE  x \in Range(Picked(list, keep)) <=> \E i \in 1 .. Len(list) : i \in keep /\ x = list[i]
  <1> DEFINE picked == Picked(list, keep)
  <1>1. picked \in Seq(S)
    BY PickedFacts, Zenon
  <1>2. PICK at : ComesFrom(at, picked, list, keep, Len(list))
    BY PickedFacts, Zenon
  <1>3. x \in Range(picked) <=> \E j \in 1 .. Len(picked) : x = picked[j]
    BY <1>1, InRange, Zenon
  <1> HIDE DEF picked
  <1>4. /\ \A j \in 1 .. Len(picked) : at[j] \in 1 .. Len(list)
        /\ \A j \in 1 .. Len(picked) : at[j] \in keep /\ picked[j] = list[at[j]]
        /\ \A i \in 1 .. Len(list) : i \in keep => \E j \in 1 .. Len(picked) : at[j] = i
    BY <1>2, Zenon DEF ComesFrom
  <1>5. ASSUME x \in Range(picked) PROVE \E i \in 1 .. Len(list) : i \in keep /\ x = list[i]
    <2>1. PICK j \in 1 .. Len(picked) : x = picked[j]
      BY <1>3, <1>5, Zenon
    <2> QED BY <1>4, <2>1, Zenon
  <1>6. ASSUME NEW i \in 1 .. Len(list), i \in keep, x = list[i] PROVE x \in Range(picked)
    <2>1. PICK j \in 1 .. Len(picked) : at[j] = i
      BY <1>4, <1>6, Zenon
    <2>2. x = picked[j]
      BY <1>4, <1>6, <2>1, Zenon
    <2> QED BY <1>3, <2>2, Zenon
  <1> QED BY <1>5, <1>6, Zenon DEF picked

-----------------------------------------------------------------------------
(***************************************************************************)
(* Sorting by insertion gives the positions in an order in which no key is *)
(* higher than the one before.                                             *)
(***************************************************************************)

Placed(n, placed, keys) == Inserted(n, PlaceFor(n, placed, keys), placed)

(* The recursive function behind DescendingOrder exists. *)
LEMMA OrderOf ==
  ASSUME NEW keys
  PROVE  \E f : /\ f = [n \in Nat |-> IF n = 0 THEN <<>> ELSE Placed(n, f[n - 1], keys)]
                /\ DescendingOrder(keys) = f[Len(keys)]
  <1> DEFINE Def(v, n) == Placed(n, v, keys)
             f == CHOOSE g : g = [i \in Nat |-> IF i = 0 THEN <<>> ELSE Def(g[i - 1], i)]
  <1>1. NatInductiveDefHypothesis(f, <<>>, Def)
    BY DEF NatInductiveDefHypothesis
  <1>2. NatInductiveDefConclusion(f, <<>>, Def)
    BY <1>1, NatInductiveDef, Zenon
  <1>3. f = [i \in Nat |-> IF i = 0 THEN <<>> ELSE Def(f[i - 1], i)]
    BY <1>2, Zenon DEF NatInductiveDefConclusion
  <1>4. DescendingOrder(keys) = f[Len(keys)]
    BY DEF DescendingOrder, Placed
  <1> HIDE DEF f
  <1> QED BY <1>3, <1>4, Zenon

(* order has the positions 1 .. n, each once, with falling keys. *)
Falls(order, keys, n) ==
    /\ order \in [1 .. n -> 1 .. n]
    /\ \A i, j \in 1 .. n : order[i] = order[j] => i = j
    /\ \A k \in 1 .. n : \E i \in 1 .. n : order[i] = k
    /\ \A i, j \in 1 .. n : i <= j => keys[order[j]] <= keys[order[i]]

(* There is a place for every position. *)
LEMMA PlaceExists ==
  ASSUME NEW keys, NEW n \in Nat, \A k \in 1 .. n + 1 : keys[k] \in Int, NEW order,
         order \in [1 .. n -> 1 .. n]
  PROVE  LET p == PlaceFor(n + 1, order, keys)
         IN  /\ p \in 1 .. n + 1
             /\ p = n + 1 \/ keys[order[p]] < keys[n + 1]
             /\ \A i \in 1 .. p - 1 : keys[order[i]] >= keys[n + 1]
  <1> DEFINE low == {p \in Nat : p \in 1 .. n + 1 /\ (p = n + 1 \/ keys[order[p]] < keys[n + 1])}
  <1>1. low \in SUBSET Nat /\ n + 1 \in low
    OBVIOUS
  <1>2. PICK p \in low : \A k \in low : p <= k
    <2> HIDE DEF low
    <2> QED BY <1>1, LeastOf, Zenon
  <1>3. p \in 1 .. n + 1 /\ (p = n + 1 \/ keys[order[p]] < keys[n + 1])
    BY <1>2
  <1>4. ASSUME NEW i \in 1 .. p - 1 PROVE keys[order[i]] >= keys[n + 1]
    <2>1. i \in Nat /\ i \in 1 .. n /\ ~(p <= i)
      BY <1>3
    <2>2. i \notin low
      BY <1>2, <2>1, Zenon
    <2>3. order[i] \in 1 .. n /\ ~(keys[order[i]] < keys[n + 1])
      BY <2>1, <2>2
    <2>4. order[i] \in 1 .. n + 1 /\ n + 1 \in 1 .. n + 1
      BY <2>3
    <2>5. keys[order[i]] \in Int /\ keys[n + 1] \in Int
      BY <2>4
    <2> DEFINE a == keys[order[i]]
               b == keys[n + 1]
    <2>6. a \in Int /\ b \in Int /\ ~(a < b)
      BY <2>3, <2>5, Zenon
    <2> HIDE DEF a, b
    <2>7. a >= b
      BY <2>6
    <2> QED BY <2>7 DEF a, b
  <1> HIDE DEF low
  <1>5. \E q \in 1 .. n + 1 :
           /\ q = n + 1 \/ keys[order[q]] < keys[n + 1]
           /\ \A i \in 1 .. q - 1 : keys[order[i]] >= keys[n + 1]
    BY <1>3, <1>4, Zenon
  <1> QED BY <1>5, Zenon DEF PlaceFor

Shifted(n, p, order) ==
    [i \in 1 .. n |-> IF i < p THEN order[i] ELSE IF i = p THEN n ELSE order[i - 1]]

(* The new position comes in between, and those behind move on by one. *)
LEMMA InsertedAt ==
  ASSUME NEW n \in Nat, NEW order \in [1 .. n -> 1 .. n], NEW p \in 1 .. n + 1
  PROVE  Inserted(n + 1, p, order) = Shifted(n + 1, p, order)
  <1> DEFINE before == SubSeq(order, 1, p - 1)
             behind == SubSeq(order, p, n)
             one == <<n + 1>>
             start == before \o one
             new == start \o behind
  <1>1. p \in 1 .. n + 1
    OBVIOUS
  <1>4. order \in Seq(1 .. n) /\ Len(order) = n
    OBVIOUS
  <1>5. /\ before \in Seq(1 .. n) /\ Len(before) = p - 1
        /\ \A i \in 1 .. p - 1 : before[i] = order[i]
    BY <1>1, <1>4
  <1>6. /\ behind \in Seq(1 .. n) /\ Len(behind) = n - p + 1
        /\ \A i \in 1 .. n - p + 1 : behind[i] = order[i + p - 1]
    BY <1>1, <1>4
  <1>7. one \in Seq(Nat) /\ Len(one) = 1 /\ one[1] = n + 1
    OBVIOUS
  <1> HIDE DEF before, behind, one
  <1>a. 1 .. n \subseteq Nat
    OBVIOUS
  <1>8. before \in Seq(Nat) /\ behind \in Seq(Nat)
    BY <1>5, <1>6, <1>a, Widened, Zenon
  <1>9. /\ start \in Seq(Nat) /\ Len(start) = Len(before) + Len(one)
        /\ \A i \in 1 .. Len(before) + Len(one) :
              start[i] = IF i <= Len(before) THEN before[i] ELSE one[i - Len(before)]
    BY <1>7, <1>8, Joined, Zenon
  <1> HIDE DEF start
  <1>b. /\ new \in Seq(Nat) /\ Len(new) = Len(start) + Len(behind)
        /\ \A i \in 1 .. Len(start) + Len(behind) :
              new[i] = IF i <= Len(start) THEN start[i] ELSE behind[i - Len(start)]
    <2>1. start \in Seq(Nat) /\ behind \in Seq(Nat)
      BY <1>8, <1>9
    <2> QED BY <2>1, Joined, Zenon
  <1> HIDE DEF new
  <1>10. /\ Len(start) = p
         /\ \A i \in 1 .. p : start[i] = IF i < p THEN order[i] ELSE n + 1
    <2>1. Len(start) = p
      BY <1>1, <1>5, <1>7, <1>9
    <2>2. ASSUME NEW i \in 1 .. p PROVE start[i] = IF i < p THEN order[i] ELSE n + 1
      <3>1. start[i] = IF i <= p - 1 THEN before[i] ELSE one[i - (p - 1)]
        BY <1>1, <1>5, <1>7, <1>9
      <3>2. CASE i < p
        BY <1>1, <1>5, <3>1, <3>2
      <3>3. CASE i = p
        BY <1>1, <1>7, <3>1, <3>3
      <3> QED BY <1>1, <3>2, <3>3
    <2> QED BY <2>1, <2>2
  <1>12. new \in Seq(Nat) /\ Len(new) = n + 1
    BY <1>1, <1>6, <1>10, <1>b
  <1>13. ASSUME NEW i \in 1 .. n + 1
         PROVE  new[i] = IF i < p THEN order[i] ELSE IF i = p THEN n + 1 ELSE order[i - 1]
    <2>1. new[i] = IF i <= p THEN start[i] ELSE behind[i - p]
      BY <1>1, <1>6, <1>10, <1>b
    <2>2. CASE i <= p
      BY <1>1, <1>10, <2>1, <2>2
    <2>3. CASE ~(i <= p)
      <3>1. i - p \in 1 .. n - p + 1 /\ (i - p) + p - 1 = i - 1
        BY <1>1, <2>3
      <3>2. behind[i - p] = order[i - 1]
        BY <1>6, <3>1
      <3> QED BY <1>1, <2>1, <2>3, <3>2
    <2> QED BY <2>2, <2>3
  <1>14. new = [i \in 1 .. n + 1 |-> IF i < p THEN order[i] ELSE IF i = p THEN n + 1 ELSE order[i - 1]]
    BY <1>12, <1>13
  <1>c. (n + 1) - 1 = n
    OBVIOUS
  <1>15. Inserted(n + 1, p, order) = new
    BY <1>c, Zenon DEF Inserted, new, start, before, behind, one
  <1> QED BY <1>14, <1>15, Zenon DEF Shifted

LEMMA FallsOn ==
  ASSUME NEW keys, NEW n \in Nat, \A k \in 1 .. n + 1 : keys[k] \in Int, NEW order,
         Falls(order, keys, n)
  PROVE  Falls(Placed(n + 1, order, keys), keys, n + 1)
  <1> DEFINE p == PlaceFor(n + 1, order, keys)
             new == Placed(n + 1, order, keys)
  <1>1. /\ order \in [1 .. n -> 1 .. n]
        /\ \A i, j \in 1 .. n : order[i] = order[j] => i = j
        /\ \A k \in 1 .. n : \E i \in 1 .. n : order[i] = k
        /\ \A i, j \in 1 .. n : i <= j => keys[order[j]] <= keys[order[i]]
    BY DEF Falls
  <1>2. /\ p \in 1 .. n + 1
        /\ p = n + 1 \/ keys[order[p]] < keys[n + 1]
        /\ \A i \in 1 .. p - 1 : keys[order[i]] >= keys[n + 1]
    BY <1>1, PlaceExists, Zenon
  <1>3. new = [i \in 1 .. n + 1 |-> IF i < p THEN order[i] ELSE IF i = p THEN n + 1 ELSE order[i - 1]]
    <2>1. new = Inserted(n + 1, p, order)
      BY DEF Placed
    <2> HIDE DEF p, new
    <2>2. Inserted(n + 1, p, order) = Shifted(n + 1, p, order)
      BY <1>1, <1>2, InsertedAt, Zenon
    <2> QED BY <2>1, <2>2, Zenon DEF Shifted
  <1> HIDE DEF p, new
  <1>4. \A i \in 1 .. n : order[i] \in 1 .. n /\ keys[order[i]] \in Int
    <2> SUFFICES ASSUME NEW i \in 1 .. n PROVE order[i] \in 1 .. n /\ keys[order[i]] \in Int
      OBVIOUS
    <2>1. order[i] \in 1 .. n
      BY <1>1
    <2>2. order[i] \in 1 .. n + 1
      BY <2>1
    <2> QED BY <2>1, <2>2, Zenon
  <1>a. n + 1 \in 1 .. n + 1 /\ keys[n + 1] \in Int
    OBVIOUS
  <1>5. new \in [1 .. n + 1 -> 1 .. n + 1]
    <2>1. ASSUME NEW i \in 1 .. n + 1
          PROVE  (IF i < p THEN order[i] ELSE IF i = p THEN n + 1 ELSE order[i - 1]) \in 1 .. n + 1
      <3>1. CASE i < p
        <4>1. order[i] \in 1 .. n
          BY <1>2, <1>4, <3>1
        <4> QED BY <3>1, <4>1
      <3>2. CASE i > p
        <4>1. order[i - 1] \in 1 .. n
          BY <1>2, <1>4, <3>2
        <4>2. ~(i < p) /\ i # p
          BY <1>2, <3>2
        <4> QED BY <4>1, <4>2
      <3>3. CASE i = p
        BY <3>3
      <3>4. i < p \/ i = p \/ i > p
        BY <1>2
      <3> QED BY <3>1, <3>2, <3>3, <3>4, Zenon
    <2> QED BY <1>3, <2>1
  <1>b. \A i \in 1 .. n + 1 :
            \/ i < p /\ i \in 1 .. n /\ new[i] = order[i]
            \/ i = p /\ new[i] = n + 1
            \/ i > p /\ i - 1 \in 1 .. n /\ new[i] = order[i - 1]
    BY <1>2, <1>3
  <1>6. ASSUME NEW i \in 1 .. n + 1, NEW j \in 1 .. n + 1, new[i] = new[j] PROVE i = j
    <2> DEFINE old(k) == IF k < p THEN k ELSE k - 1
    <2>1. ASSUME NEW k \in 1 .. n + 1, k # p
          PROVE  new[k] # n + 1 /\ old(k) \in 1 .. n /\ new[k] = order[old(k)]
      <3>1. \A m \in 1 .. n : order[m] # n + 1
        <4> SUFFICES ASSUME NEW m \in 1 .. n PROVE order[m] # n + 1
          OBVIOUS
        <4>1. order[m] \in 1 .. n
          BY <1>4, Zenon
        <4> QED BY <4>1
      <3>2. CASE k < p
        <4>1. k \in 1 .. n /\ new[k] = order[k]
          BY <1>2, <1>b, <3>2
        <4> QED BY <3>1, <3>2, <4>1
      <3>3. CASE k > p
        <4>1. k - 1 \in 1 .. n /\ new[k] = order[k - 1] /\ ~(k < p)
          BY <1>2, <1>b, <3>3
        <4> QED BY <3>1, <4>1
      <3> QED BY <1>2, <2>1, <3>2, <3>3
    <2>2. CASE i = p \/ j = p
      BY <1>6, <1>b, <2>1, <2>2
    <2>3. CASE i # p /\ j # p
      <3>1. old(i) = old(j)
        <4> HIDE DEF old
        <4> QED BY <1>1, <1>6, <2>1, <2>3, Zenon
      <3> QED BY <1>2, <2>3, <3>1
    <2> QED BY <2>2, <2>3
  <1>7. ASSUME NEW k \in 1 .. n + 1 PROVE \E i \in 1 .. n + 1 : new[i] = k
    <2>1. CASE k = n + 1
      BY <1>2, <1>3, <2>1
    <2>2. CASE k \in 1 .. n
      <3>1. PICK i \in 1 .. n : order[i] = k
        BY <1>1, <2>2
      <3>2. CASE i < p
        BY <1>2, <1>3, <3>1, <3>2
      <3>3. CASE ~(i < p)
        <4>1. i + 1 \in 1 .. n + 1 /\ ~(i + 1 < p) /\ i + 1 # p /\ (i + 1) - 1 = i
          BY <1>2, <3>3
        <4>2. new[i + 1] = k
          BY <1>3, <3>1, <4>1, Zenon
        <4> QED BY <4>1, <4>2, Zenon
      <3> QED BY <3>2, <3>3
    <2> QED BY <2>1, <2>2
  <1>8. ASSUME NEW i \in 1 .. n + 1, NEW j \in 1 .. n + 1, i <= j
        PROVE  keys[new[j]] <= keys[new[i]]
    <2>1. CASE j < p
      <3>1. i \in 1 .. n /\ j \in 1 .. n /\ new[i] = order[i] /\ new[j] = order[j]
        BY <1>2, <1>3, <1>8, <2>1
      <3> QED BY <1>1, <1>8, <3>1, Zenon
    <2>2. CASE j = p /\ i < p
      <3>1. i \in 1 .. p - 1 /\ i \in 1 .. n /\ new[i] = order[i] /\ new[j] = n + 1
        BY <1>2, <1>3, <1>8, <2>2
      <3>2. keys[order[i]] >= keys[n + 1] /\ keys[order[i]] \in Int
        BY <1>2, <1>4, <3>1, Zenon
      <3> QED BY <1>a, <3>1, <3>2
    <2>3. CASE j = p /\ i = p
      <3>1. new[i] = n + 1 /\ new[j] = n + 1
        BY <1>3, <2>3
      <3> QED BY <1>a, <3>1
    <2>4. CASE j > p
      <3>1. j - 1 \in 1 .. n /\ new[j] = order[j - 1] /\ p # n + 1 /\ p \in 1 .. n /\ p <= j - 1
        BY <1>2, <1>3, <2>4
      <3>2. keys[order[j - 1]] <= keys[order[p]] /\ keys[order[p]] < keys[n + 1]
        BY <1>1, <1>2, <3>1
      <3>4. keys[order[j - 1]] \in Int /\ keys[order[p]] \in Int
        BY <1>4, <3>1, Zenon
      <3>5. CASE i < p
        <4>1. i \in 1 .. n /\ new[i] = order[i] /\ i <= j - 1
          BY <1>2, <1>3, <2>4, <3>5
        <4> QED BY <1>1, <3>1, <4>1, Zenon
      <3>6. CASE i = p
        <4>1. new[i] = n + 1
          BY <1>2, <1>3, <3>6
        <4> QED BY <1>a, <3>1, <3>2, <3>4, <4>1
      <3>7. CASE i > p
        <4>1. i - 1 \in 1 .. n /\ new[i] = order[i - 1] /\ i - 1 <= j - 1
          BY <1>2, <1>3, <1>8, <3>7
        <4> QED BY <1>1, <3>1, <4>1, Zenon
      <3> QED BY <1>2, <3>5, <3>6, <3>7
    <2> QED BY <1>2, <1>8, <2>1, <2>2, <2>3, <2>4
  <1>9. Falls(new, keys, n + 1)
    BY <1>5, <1>6, <1>7, <1>8 DEF Falls
  <1> QED BY <1>9 DEF new

(* Sorting by keys: every position once, the highest keys first *)
LEMMA OrderFacts ==
  ASSUME NEW keys \in Seq(Int)
  PROVE  Falls(DescendingOrder(keys), keys, Len(keys))
  <1>1. PICK f : /\ f = [n \in Nat |-> IF n = 0 THEN <<>> ELSE Placed(n, f[n - 1], keys)]
                 /\ DescendingOrder(keys) = f[Len(keys)]
    BY OrderOf, Zenon
  <1>2. f[0] = <<>>
    BY <1>1
  <1>3. \A n \in Nat : f[n + 1] = Placed(n + 1, f[n], keys)
    <2> SUFFICES ASSUME NEW n \in Nat PROVE f[n + 1] = Placed(n + 1, f[n], keys)
      OBVIOUS
    <2>1. n + 1 \in Nat /\ n + 1 # 0 /\ (n + 1) - 1 = n
      OBVIOUS
    <2> QED BY <1>1, <2>1, Zenon
  <1> DEFINE Good(n) == n <= Len(keys) => Falls(f[n], keys, n)
             P == {n \in Nat : Good(n)}
  <1>4. Good(0)
    BY <1>2 DEF Falls
  <1>5. ASSUME NEW n \in Nat, Good(n) PROVE Good(n + 1)
    <2> SUFFICES ASSUME n + 1 <= Len(keys) PROVE Falls(f[n + 1], keys, n + 1)
      OBVIOUS
    <2>1. n <= Len(keys) /\ \A k \in 1 .. n + 1 : keys[k] \in Int
      OBVIOUS
    <2>2. Falls(f[n], keys, n)
      BY <1>5, <2>1, Zenon
    <2> QED BY <1>3, <2>1, <2>2, FallsOn, Zenon
  <1> HIDE DEF Good
  <1>6. P = Nat
    <2>1. P \in SUBSET Nat /\ 0 \in P /\ \A n \in Nat : n \in P => n + 1 \in P
      BY <1>4, <1>5
    <2> HIDE DEF P
    <2> QED BY <2>1, Upwards, Zenon
  <1>7. Len(keys) \in Nat /\ Len(keys) <= Len(keys)
    OBVIOUS
  <1>8. Good(Len(keys))
    BY <1>6, <1>7, Zenon
  <1> QED BY <1>1, <1>7, <1>8, Zenon DEF Good

(* A sorted list has the entries of the list at the places that order says. *)
SortedBy(order, sorted, list, keys) ==
    /\ Len(sorted) = Len(list)
    /\ Falls(order, keys, Len(list))
    /\ \A i \in 1 .. Len(list) : sorted[i] = list[order[i]]

LEMMA SortedFacts ==
  ASSUME NEW S, NEW list \in Seq(S), NEW keys \in Seq(Int), Len(keys) = Len(list)
  PROVE  /\ SortedDown(list, keys) \in Seq(S)
         /\ SortedBy(DescendingOrder(keys), SortedDown(list, keys), list, keys)
  <1> DEFINE order == DescendingOrder(keys)
             sorted == SortedDown(list, keys)
             l == Len(list)
  <1>1. Falls(order, keys, l)
    BY OrderFacts, Zenon
  <1>2. l \in Nat /\ DOMAIN list = 1 .. l /\ \A i \in 1 .. l : list[i] \in S
    OBVIOUS
  <1>3. sorted = [k \in 1 .. l |-> list[order[k]]]
    BY <1>2, Zenon DEF SortedDown
  <1>4. order \in [1 .. l -> 1 .. l]
    BY <1>1, Zenon DEF Falls
  <1> HIDE DEF order, sorted, l
  <1>5. sorted \in [1 .. l -> S] /\ \A i \in 1 .. l : sorted[i] = list[order[i]]
    BY <1>2, <1>3, <1>4
  <1>6. sorted \in Seq(S) /\ Len(sorted) = l
    BY <1>2, <1>5, AList
  <1>7. SortedBy(order, sorted, list, keys)
    BY <1>1, <1>5, <1>6, Zenon DEF SortedBy, l
  <1> QED BY <1>6, <1>7, Zenon DEF order, sorted

LEMMA SortedRange ==
  ASSUME NEW S, NEW list \in Seq(S), NEW keys \in Seq(Int), Len(keys) = Len(list)
  PROVE  Range(SortedDown(list, keys)) = Range(list)
  <1> DEFINE order == DescendingOrder(keys)
             sorted == SortedDown(list, keys)
             l == Len(list)
  <1>1. sorted \in Seq(S) /\ SortedBy(order, sorted, list, keys)
    BY SortedFacts, Zenon
  <1> HIDE DEF order, sorted
  <1>2. /\ Len(sorted) = l
        /\ \A i \in 1 .. l : order[i] \in 1 .. l /\ sorted[i] = list[order[i]]
        /\ \A k \in 1 .. l : \E i \in 1 .. l : order[i] = k
    BY <1>1, Zenon DEF SortedBy, Falls
  <1> HIDE DEF l
  <1>3. ASSUME NEW x \in Range(sorted) PROVE x \in Range(list)
    <2>1. PICK i \in 1 .. Len(sorted) : x = sorted[i]
      BY <1>1, EntryAt, Zenon
    <2>2. order[i] \in 1 .. l /\ x = list[order[i]]
      BY <1>2, <2>1, Zenon
    <2> QED BY <2>2, InRange, Zenon DEF l
  <1>4. ASSUME NEW x \in Range(list) PROVE x \in Range(sorted)
    <2>1. PICK k \in 1 .. l : x = list[k]
      BY InRange, Zenon DEF l
    <2>2. PICK i \in 1 .. l : order[i] = k
      BY <1>2, Zenon
    <2>3. x = sorted[i]
      BY <1>2, <2>1, <2>2, Zenon
    <2> QED BY <1>1, <1>2, <2>3, InRange, Zenon
  <1> QED BY <1>3, <1>4, Zenon DEF sorted

LEMMA FirstOfFacts ==
  ASSUME NEW S, NEW list \in Seq(S), NEW most \in Nat
  PROVE  /\ FirstOf(list, most) \in Seq(S)
         /\ Len(FirstOf(list, most)) = IF Len(list) < most THEN Len(list) ELSE most
         /\ \A i \in 1 .. Len(FirstOf(list, most)) :
               FirstOf(list, most)[i] = list[i] /\ i \in 1 .. Len(list)
  <1> DEFINE l == IF Len(list) < most THEN Len(list) ELSE most
             first == SubSeq(list, 1, l)
  <1>1. l \in Nat /\ l <= Len(list)
    OBVIOUS
  <1>2. FirstOf(list, most) = first
    BY DEF FirstOf
  <1> HIDE DEF l
  <1>3. /\ first \in Seq(S) /\ Len(first) = l
        /\ \A i \in 1 .. l : first[i] = list[i] /\ i \in 1 .. Len(list)
    BY <1>1
  <1> HIDE DEF first
  <1> QED BY <1>2, <1>3, Zenon DEF l

-----------------------------------------------------------------------------
(***************************************************************************)
(* SupernodeList, for any names, files and ways to resolve them.           *)
(*                                                                         *)
(* RotationCovers: no name is lost on the way from the file to the list in *)
(* use, and the addresses that were in use in the last rotations are those *)
(* just before the one in use now.                                         *)
(***************************************************************************)

LEMMA OthersFacts ==
  ASSUME NEW S, NEW list \in Seq(S), NEW entry
  PROVE  Others(list, entry) \in Seq(S) /\ Range(Others(list, entry)) = Range(list) \ {entry}
  <1> DEFINE keep == {i \in DOMAIN list : list[i] # entry}
  <1>1. DOMAIN list = 1 .. Len(list)
    OBVIOUS
  <1>2. Others(list, entry) = Picked(list, keep)
    BY DEF Others
  <1>3. \A x : x \in Range(Picked(list, keep)) <=> \E i \in 1 .. Len(list) : i \in keep /\ x = list[i]
    BY PickedRange, Zenon
  <1>4. \A i \in 1 .. Len(list) : i \in keep <=> list[i] # entry
    BY <1>1, Zenon
  <1>5. Picked(list, keep) \in Seq(S)
    BY PickedFacts, Zenon
  <1> HIDE DEF keep
  <1>6. ASSUME NEW x PROVE x \in Range(Picked(list, keep)) <=> x \in Range(list) /\ x # entry
    <2>1. x \in Range(list) <=> \E i \in 1 .. Len(list) : x = list[i]
      BY InRange, Zenon
    <2>2. x \in Range(Picked(list, keep)) <=> \E i \in 1 .. Len(list) : i \in keep /\ x = list[i]
      BY <1>3, Zenon
    <2> QED BY <1>4, <2>1, <2>2, Zenon
  <1> QED BY <1>2, <1>5, <1>6, Zenon

(* dedup drops repetitions only: of equal neighbours the first stays. *)
LEMMA DedupFacts ==
  ASSUME NEW S, NEW list \in Seq(S)
  PROVE  dedup(list) \in Seq(S) /\ Range(dedup(list)) = Range(list)
  <1> DEFINE keep == {i \in DOMAIN list : i = 1 \/ list[i] # list[i - 1]}
  <1>1. DOMAIN list = 1 .. Len(list) /\ Len(list) \in Nat
    OBVIOUS
  <1>2. dedup(list) = Picked(list, keep)
    BY DEF dedup
  <1>3. \A x : x \in Range(Picked(list, keep)) <=> \E i \in 1 .. Len(list) : i \in keep /\ x = list[i]
    BY PickedRange, Zenon
  <1>4. \A i \in 1 .. Len(list) : i \in keep <=> i = 1 \/ list[i] # list[i - 1]
    BY <1>1, Zenon
  <1>5. Picked(list, keep) \in Seq(S)
    BY PickedFacts, Zenon
  <1> HIDE DEF keep
  <1>6. ASSUME NEW x \in Range(list) PROVE \E i \in 1 .. Len(list) : i \in keep /\ x = list[i]
    <2> DEFINE places == {i \in Nat : i \in 1 .. Len(list) /\ x = list[i]}
    <2>1. places \in SUBSET Nat /\ places # {}
      <3>1. PICK i \in 1 .. Len(list) : x = list[i]
        BY InRange, Zenon
      <3> QED BY <3>1
    <2> HIDE DEF places
    <2>2. PICK m \in places : \A k \in places : m <= k
      BY <2>1, LeastOf, Zenon
    <2>3. m \in 1 .. Len(list) /\ x = list[m]
      BY DEF places
    <2>4. CASE m = 1
      BY <1>4, <2>3, <2>4, Zenon
    <2>5. CASE m # 1
      <3>1. m - 1 \in 1 .. Len(list) /\ ~(m <= m - 1) /\ m - 1 \in Nat
        BY <1>1, <2>3, <2>5
      <3>2. m - 1 \notin places
        BY <2>2, <3>1, Zenon
      <3>3. list[m - 1] # x
        BY <3>1, <3>2, Zenon DEF places
      <3> QED BY <1>4, <2>3, <3>3, Zenon
    <2> QED BY <2>4, <2>5
  <1>7. ASSUME NEW x PROVE x \in Range(Picked(list, keep)) <=> x \in Range(list)
    BY <1>3, <1>6, InRange, Zenon
  <1> QED BY <1>2, <1>5, <1>7, Zenon

(* The list of the edge has the primary and all others, once more or not. *)
LEMMA NormalizedFacts ==
  ASSUME NEW S, NEW primary \in S, NEW list \in Seq(S)
  PROVE  /\ normalize_supernodes(primary, list) \in Seq(S)
         /\ Range(normalize_supernodes(primary, list)) = {primary} \cup Range(list)
  <1> DEFINE one == <<primary>>
             others == Others(list, primary)
             long == one \o others
  <1>1. others \in Seq(S) /\ Range(others) = Range(list) \ {primary}
    BY OthersFacts, Zenon
  <1>2. normalize_supernodes(primary, list) = dedup(long)
    BY Zenon DEF normalize_supernodes
  <1>3. one \in Seq(S) /\ Range(one) = {primary}
    BY DEF Range
  <1> HIDE DEF one, others
  <1>4. long \in Seq(S)
    BY <1>1, <1>3, Joined, Zenon
  <1>5. Range(long) = Range(one) \cup Range(others)
    BY <1>1, <1>3, ConcatRange
  <1> HIDE DEF long
  <1>6. dedup(long) \in Seq(S) /\ Range(dedup(long)) = Range(long)
    BY <1>4, DedupFacts, Zenon
  <1>7. {primary} \cup (Range(list) \ {primary}) = {primary} \cup Range(list)
    OBVIOUS
  <1> QED BY <1>1, <1>2, <1>3, <1>5, <1>6, <1>7, Zenon

ListFile == [default_supernode: Names, supernodes: Seq(Names)]

Addresses == {Resolve[n] : n \in DOMAIN Resolve}

(* How many rotations ago the address at i was in use, the one at p being in use *)
Behind(i, p, length) == IF i <= p THEN p - i ELSE p - i + length

(* In a list without repetitions the rotations have gone from place to place up to p. *)
AroundTo(p) ==
    /\ supernodes[p] = current
    /\ \A i \in 1 .. Len(supernodes) :
          Behind(i, p, Len(supernodes)) < rotations => supernodes[i] \in tried

Rotating ==
    /\ supernodes \in Seq(Addresses)
    /\ supernodes # <<>>
    /\ {Resolve[n] : n \in configured} \subseteq Range(supernodes)
    /\ current \in tried
    /\ (IsInjective(supernodes) /\ Len(supernodes) > 1 /\ rotations > 0) 
          => \E p \in 1 .. Len(supernodes) : AroundTo(p)

(* Names get lost neither from the file to the daemon nor on the way to the edge. *)
ListInv ==
    /\ list_stage \in {"file", "loaded", "running"}
    /\ list_conf \in ListFile
    /\ rotations \in Nat
    /\ list_stage # "running" => rotations = 0
    /\ list_stage = "file" =>
          configured \subseteq ({list_conf.default_supernode} \cup Range(list_conf.supernodes)) \ {Blank}
    /\ list_stage = "loaded" =>
          /\ list_conf.supernodes \in Seq(DOMAIN Resolve)
          /\ configured \subseteq Range(list_conf.supernodes)
          /\ list_conf.default_supernode # Blank
                => list_conf.default_supernode \in Range(list_conf.supernodes)
    /\ list_stage = "running" => Rotating

LEMMA SeqOfEntries ==
  ASSUME NEW S, NEW list \in Seq(S), NEW T, Range(list) \subseteq T
  PROVE  list \in Seq(T)
  <1>1. \A i \in 1 .. Len(list) : list[i] \in T
    BY InRange, Zenon
  <1> QED BY <1>1

(* A list with an entry in front of it *)
LEMMA Prepended ==
  ASSUME NEW S, NEW first \in S, NEW list \in Seq(S)
  PROVE  /\ <<first>> \o list \in Seq(S)
         /\ Range(<<first>> \o list) = {first} \cup Range(list)
  <1> DEFINE one == <<first>>
  <1>1. one \in Seq(S) /\ Range(one) = {first}
    BY DEF Range
  <1> HIDE DEF one
  <1>2. one \o list \in Seq(S)
    BY <1>1, Joined, Zenon
  <1>3. Range(one \o list) = Range(one) \cup Range(list)
    BY <1>1, ConcatRange
  <1> QED BY <1>1, <1>2, <1>3, Zenon DEF one

(* normalize loses no name, and the default is listed if there is one. *)
LEMMA NormalizeFacts ==
  ASSUME NEW conf \in ListFile
  PROVE  LET new == normalize(conf) IN
         /\ new \in ListFile
         /\ new.supernodes \in Seq(DOMAIN Resolve)
         /\ ({conf.default_supernode} \cup Range(conf.supernodes)) \ {Blank} \subseteq Range(new.supernodes)
         /\ new.default_supernode # Blank => new.default_supernode \in Range(new.supernodes)
  <1> DEFINE primary == conf.default_supernode
             named == Others(conf.supernodes, Blank)
             listed == IF primary \in {Blank} \cup Range(named) THEN named ELSE <<primary>> \o named
             new == normalize(conf)
  <1>1. primary \in Names /\ conf.supernodes \in Seq(Names)
    BY DEF ListFile
  <1>2. named \in Seq(Names) /\ Range(named) = Range(conf.supernodes) \ {Blank}
    BY <1>1, OthersFacts, Zenon
  <1>3. /\ new = [default_supernode |-> IF primary = Blank /\ listed # <<>> THEN listed[1] ELSE primary,
                  supernodes |-> listed]
    BY DEF normalize
  <1> HIDE DEF named, new, primary
  <1>4. /\ listed \in Seq(Names)
        /\ Range(listed) = ({primary} \cup Range(conf.supernodes)) \ {Blank}
    <2>1. CASE primary \in {Blank} \cup Range(named)
      BY <1>2, <2>1
    <2>2. CASE primary \notin {Blank} \cup Range(named)
      <3>1. listed = <<primary>> \o named
        BY <2>2
      <3>2. <<primary>> \o named \in Seq(Names) /\ Range(<<primary>> \o named) = {primary} \cup Range(named)
        BY <1>1, <1>2, Prepended
      <3> HIDE DEF listed
      <3> QED BY <1>2, <2>2, <3>1, <3>2
    <2> QED BY <2>1, <2>2
  <1> HIDE DEF listed
  <1>5. Range(listed) \subseteq Range(listed) \ {Blank} /\ Range(listed) \subseteq Names
    <2>1. ASSUME NEW x \in Range(listed) PROVE x \in Names
      <3>1. PICK i \in 1 .. Len(listed) : x = listed[i]
        BY <1>4, InRange, Zenon
      <3> QED BY <1>4, <3>1
    <2> QED BY <1>4, <2>1
  <1>6. listed \in Seq(DOMAIN Resolve)
    <2>1. Range(listed) \subseteq DOMAIN Resolve
      BY <1>5 DEF Names
    <2> QED BY <1>4, <2>1, SeqOfEntries
  <1>7. listed # <<>> => listed[1] \in Range(listed) /\ listed[1] \in Names
    <2> SUFFICES ASSUME listed # <<>> PROVE listed[1] \in Range(listed) /\ listed[1] \in Names
      OBVIOUS
    <2>1. 1 \in 1 .. Len(listed)
      BY <1>4
    <2>2. listed[1] \in Range(listed)
      BY <1>4, <2>1, InRange, Zenon
    <2> QED BY <1>5, <2>2
  <1>8. new.supernodes = listed
    BY <1>3
  <1>9. new.default_supernode = IF primary = Blank /\ listed # <<>> THEN listed[1] ELSE primary
    BY <1>3
  <1>10. new \in ListFile
    <2>1. new.default_supernode \in Names
      BY <1>1, <1>7, <1>9
    <2> QED BY <1>3, <1>4, <1>8, <1>9, <2>1 DEF ListFile
  <1>11. new.default_supernode # Blank => new.default_supernode \in Range(listed)
    BY <1>4, <1>7, <1>9
  <1> QED BY <1>4, <1>6, <1>8, <1>10, <1>11 DEF new, primary

(* The daemon's argument is the default afterwards, and listed, with all that was. *)
LEMMA OverriddenFacts ==
  ASSUME NEW conf \in ListFile, conf.supernodes \in Seq(DOMAIN Resolve),
         NEW name \in DOMAIN Resolve,
         name = conf.default_supernode => name \in Range(conf.supernodes)
  PROVE  LET new == overridden(conf, name) IN
         /\ new \in ListFile
         /\ new.default_supernode = name
         /\ new.supernodes \in Seq(DOMAIN Resolve)
         /\ Range(new.supernodes) = Range(conf.supernodes) \cup {name}
  <1> DEFINE new == overridden(conf, name)
             old == conf.supernodes
             long == <<name>> \o old
             both == IF name \in Range(old) THEN old ELSE long
  <1>1. CASE name = conf.default_supernode
    <2>1. new = conf
      BY <1>1 DEF overridden
    <2>2. Range(old) \cup {name} = Range(old)
      BY <1>1
    <2> QED BY <1>1, <2>1, <2>2
  <1>2. CASE name # conf.default_supernode
    <2>1. new = [default_supernode |-> name, supernodes |-> both]
      BY <1>2 DEF overridden
    <2>2. name \in Names /\ DOMAIN Resolve \subseteq Names
      BY DEF Names
    <2>3. old \in Seq(DOMAIN Resolve)
      OBVIOUS
    <2>4. long \in Seq(DOMAIN Resolve) /\ Range(long) = {name} \cup Range(old)
      BY <2>3, Prepended, Zenon
    <2> HIDE DEF long, old, new
    <2>5. both \in Seq(DOMAIN Resolve) /\ Range(both) = Range(old) \cup {name}
      BY <2>3, <2>4
    <2> HIDE DEF both
    <2>6. both \in Seq(Names)
      BY <2>2, <2>5, Widened, Zenon
    <2>7. new \in ListFile /\ new.default_supernode = name /\ new.supernodes = both
      BY <2>1, <2>2, <2>6 DEF ListFile
    <2> QED BY <2>5, <2>7 DEF new, old
  <1> QED BY <1>1, <1>2

(* The addresses of all names are among those that the edge is given. *)
LEMMA ResolvedFacts ==
  ASSUME NEW conf, conf.supernodes \in Seq(DOMAIN Resolve), conf.default_supernode \in DOMAIN Resolve
  PROVE  /\ resolved(conf) \in Seq(Addresses)
         /\ {Resolve[n] : n \in Range(conf.supernodes)} \subseteq Range(resolved(conf))
  <1> DEFINE names == conf.supernodes
             primary == Resolve[conf.default_supernode]
             addrs == [i \in DOMAIN names |-> Resolve[names[i]]]
  <1>1. resolved(conf) = IF primary \in Range(addrs) THEN addrs ELSE <<primary>> \o addrs
    BY DEF resolved
  <1>2. DOMAIN names = 1 .. Len(names) /\ Len(names) \in Nat /\ \A i \in 1 .. Len(names) : names[i] \in DOMAIN Resolve
    OBVIOUS
  <1>3. addrs \in Seq(Addresses) /\ Len(addrs) = Len(names)
    BY <1>2 DEF Addresses
  <1>4. primary \in Addresses
    BY DEF Addresses
  <1>5. ASSUME NEW n \in Range(names) PROVE Resolve[n] \in Range(addrs)
    <2>1. PICK i \in 1 .. Len(names) : n = names[i]
      BY InRange, Zenon
    <2>2. addrs[i] = Resolve[n]
      BY <1>2, <2>1
    <2> QED BY <1>3, <2>2, InRange
  <1> HIDE DEF names, primary, addrs
  <1>6. <<primary>> \o addrs \in Seq(Addresses) /\ Range(<<primary>> \o addrs) = {primary} \cup Range(addrs)
    BY <1>3, <1>4, Prepended, Zenon
  <1>7. resolved(conf) \in Seq(Addresses)
    BY <1>1, <1>3, <1>6
  <1>8. Range(addrs) \subseteq Range(resolved(conf))
    BY <1>1, <1>6
  <1> QED BY <1>5, <1>7, <1>8 DEF names

LEMMA ListInitially == ListInit => ListInv
  <1> SUFFICES ASSUME ListInit PROVE ListInv
    OBVIOUS
  <1>1. list_conf \in ListFile
    BY ListAssumption DEF ListInit, ListFile
  <1> QED BY <1>1 DEF ListInit, ListInv

LEMMA LoadKeeps ==
  ASSUME ListInv, ListLoad
  PROVE  ListInv'
  <1> DEFINE new == normalize(list_conf)
  <1>1. /\ list_conf \in ListFile /\ rotations = 0 /\ rotations \in Nat
        /\ configured \subseteq ({list_conf.default_supernode} \cup Range(list_conf.supernodes)) \ {Blank}
    BY DEF ListInv, ListLoad
  <1>2. /\ list_stage' = "loaded" /\ list_conf' = new /\ configured' = configured
        /\ rotations' = rotations
    BY DEF ListLoad
  <1>3. /\ new \in ListFile
        /\ new.supernodes \in Seq(DOMAIN Resolve)
        /\ ({list_conf.default_supernode} \cup Range(list_conf.supernodes)) \ {Blank} \subseteq Range(new.supernodes)
        /\ new.default_supernode # Blank => new.default_supernode \in Range(new.supernodes)
    BY <1>1, NormalizeFacts, Zenon
  <1> HIDE DEF new
  <1> QED BY <1>1, <1>2, <1>3 DEF ListInv

LEMMA StartKeeps ==
  ASSUME ListInv, NEW name \in Hosts \cup {list_conf.default_supernode}, ListStart(name)
  PROVE  ListInv'
  <1> DEFINE new == overridden(list_conf, name)
             all == normalize_supernodes(Resolve[name], resolved(new))
  <1>1. /\ list_conf \in ListFile /\ list_conf.supernodes \in Seq(DOMAIN Resolve)
        /\ configured \subseteq Range(list_conf.supernodes)
        /\ list_conf.default_supernode # Blank
              => list_conf.default_supernode \in Range(list_conf.supernodes)
        /\ name # Blank /\ rotations = 0
    BY DEF ListInv, ListStart
  <1>2. name \in DOMAIN Resolve
    BY <1>1, ListAssumption DEF ListFile, Names
  <1>3. /\ new \in ListFile
        /\ new.default_supernode = name
        /\ new.supernodes \in Seq(DOMAIN Resolve)
        /\ Range(new.supernodes) = Range(list_conf.supernodes) \cup {name}
    BY <1>1, <1>2, OverriddenFacts, Zenon
  <1>4. /\ list_stage' = "running" /\ list_conf' = new /\ configured' = configured \cup {name}
        /\ current' = Resolve[name] /\ supernodes' = all /\ tried' = {Resolve[name]}
        /\ rotations' = rotations
    BY DEF ListStart
  <1> HIDE DEF new
  <1>5. /\ resolved(new) \in Seq(Addresses)
        /\ {Resolve[n] : n \in Range(new.supernodes)} \subseteq Range(resolved(new))
    BY <1>2, <1>3, ResolvedFacts
  <1>6. Resolve[name] \in Addresses
    BY <1>2 DEF Addresses
  <1>7. all \in Seq(Addresses) /\ Range(all) = {Resolve[name]} \cup Range(resolved(new))
    BY <1>5, <1>6, NormalizedFacts, Zenon
  <1> HIDE DEF all
  <1>8. all # <<>>
    <2>1. Resolve[name] \in Range(all) /\ all \in Seq(Addresses)
      BY <1>7
    <2>2. Range(<<>>) = {}
      BY DEF Range
    <2> QED BY <2>1, <2>2, Zenon
  <1>9. {Resolve[n] : n \in configured'} \subseteq Range(all)
    <2> SUFFICES ASSUME NEW n \in configured' PROVE Resolve[n] \in Range(all)
      OBVIOUS
    <2>1. n \in Range(new.supernodes)
      BY <1>1, <1>3, <1>4
    <2> QED BY <1>5, <1>7, <2>1
  <1>10. Rotating'
    BY <1>1, <1>4, <1>7, <1>8, <1>9, SMTT(30) DEF Rotating
  <1> QED BY <1>1, <1>3, <1>4, <1>10 DEF ListInv

(* The next address is one of the list, and the next in it if none is there twice. *)
LEMMA NextFacts ==
  ASSUME NEW S, NEW list \in Seq(S), Len(list) > 1, NEW a
  PROVE  /\ \E q \in 1 .. Len(list) : NextIn(list, a) = list[q]
         /\ \A p \in 1 .. Len(list) : IsInjective(list) /\ list[p] = a
               => NextIn(list, a) = list[IF p = Len(list) THEN 1 ELSE p + 1]
  <1> DEFINE l == Len(list)
             First(i) == list[i] = a /\ \A j \in 1 .. i - 1 : list[j] # a
  <1>1. DOMAIN list = 1 .. l /\ l \in Nat /\ ~(l <= 1)
    OBVIOUS
  <1>2. CASE a \notin Range(list)
    <2>1. NextIn(list, a) = list[1]
      BY <1>1, <1>2 DEF NextIn
    <2>2. 1 \in 1 .. l
      BY <1>1
    <2> QED BY <1>2, <2>1, <2>2, InRange
  <1>3. CASE a \in Range(list)
    <2> DEFINE places == {i \in Nat : i \in 1 .. l /\ list[i] = a}
               at == Position(list, a)
    <2>1. places \in SUBSET Nat /\ places # {}
      <3>1. PICK i \in 1 .. l : a = list[i]
        BY <1>3, InRange, Zenon
      <3> QED BY <3>1
    <2> HIDE DEF places
    <2>2. PICK m \in places : \A k \in places : m <= k
      BY <2>1, LeastOf, Zenon
    <2>3. m \in 1 .. l /\ list[m] = a
      BY DEF places
    <2>4. ASSUME NEW j \in 1 .. m - 1 PROVE list[j] # a
      <3>1. j \in Nat /\ j \in 1 .. l /\ ~(m <= j)
        BY <1>1, <2>3
      <3>2. j \notin places
        BY <2>2, <3>1, Zenon
      <3> QED BY <3>1, <3>2, Zenon DEF places
    <2>5. at = CHOOSE i \in DOMAIN list : First(i)
      BY DEF Position
    <2>6. at \in DOMAIN list /\ First(at)
      <3>1. m \in DOMAIN list /\ First(m)
        BY <1>1, <2>3, <2>4, Zenon
      <3> HIDE DEF First
      <3> QED BY <2>5, <3>1, Zenon
    <2>7. NextIn(list, a) = list[(at % l) + 1]
      BY <1>1, <1>3 DEF NextIn
    <2> HIDE DEF at, l
    <2>8. at \in 1 .. l
      BY <1>1, <2>6
    <2>9. (at % l) + 1 = IF at = l THEN 1 ELSE at + 1
      BY <1>1, <2>8
    <2>10. (IF at = l THEN 1 ELSE at + 1) \in 1 .. l
      BY <1>1, <2>8
    <2>11. ASSUME NEW p \in 1 .. l, IsInjective(list), list[p] = a PROVE p = at
      BY <1>1, <2>6, <2>8, <2>11, Zenon DEF IsInjective
    <2> QED BY <2>7, <2>9, <2>10, <2>11 DEF l
  <1> QED BY <1>2, <1>3

LEMMA RotateKeeps ==
  ASSUME ListInv, Rotate
  PROVE  ListInv'
  <1> DEFINE l == Len(supernodes)
  <1>1. /\ list_stage = "running" /\ list_conf \in ListFile /\ rotations \in Nat
        /\ supernodes \in Seq(Addresses) /\ supernodes # <<>>
        /\ {Resolve[n] : n \in configured} \subseteq Range(supernodes)
        /\ current \in tried
        /\ (IsInjective(supernodes) /\ Len(supernodes) > 1 /\ rotations > 0)
              => \E p \in 1 .. Len(supernodes) : AroundTo(p)
    BY DEF ListInv, Rotating, Rotate
  <1>2. /\ list_stage' = list_stage /\ list_conf' = list_conf /\ configured' = configured
        /\ supernodes' = supernodes /\ rotations' = rotations + 1
        /\ current' = NextIn(supernodes, current) /\ tried' = tried \cup {current'}
    BY DEF Rotate
  <1>3. ASSUME IsInjective(supernodes), l > 1 PROVE \E p \in 1 .. l : AroundTo(p)'
    <2>0. l \in Nat
      BY <1>1
    <2>1. /\ \E q \in 1 .. l : current' = supernodes[q]
          /\ \A p \in 1 .. l : supernodes[p] = current
                => current' = supernodes[IF p = l THEN 1 ELSE p + 1]
      <3>1. /\ \E q \in 1 .. l : NextIn(supernodes, current) = supernodes[q]
            /\ \A p \in 1 .. l : IsInjective(supernodes) /\ supernodes[p] = current
                  => NextIn(supernodes, current) = supernodes[IF p = l THEN 1 ELSE p + 1]
        BY <1>1, <1>3, NextFacts, Zenon
      <3> QED BY <1>2, <1>3, <3>1, Zenon
    <2>2. CASE rotations = 0
      <3>1. PICK q \in 1 .. l : current' = supernodes[q]
        BY <2>1, Zenon
      <3>2. ASSUME NEW i \in 1 .. l, Behind(i, q, l) < rotations + 1 PROVE supernodes[i] \in tried'
        <4>1. i = q
          BY <2>0, <2>2, <3>2 DEF Behind
        <4> QED BY <1>2, <3>1, <4>1, Zenon
      <3>3. AroundTo(q)'
        BY <1>2, <3>1, <3>2 DEF AroundTo
      <3> QED BY <3>3
    <2>3. CASE rotations # 0
      <3>1. PICK p \in 1 .. l : AroundTo(p)
        BY <1>1, <1>3, <2>3
      <3>2. /\ supernodes[p] = current
            /\ \A i \in 1 .. l : Behind(i, p, l) < rotations => supernodes[i] \in tried
        BY <3>1, Zenon DEF AroundTo
      <3>4. PICK q \in 1 .. l : q = IF p = l THEN 1 ELSE p + 1
        BY <1>3, <2>0
      <3>3. current' = supernodes[q]
        BY <2>1, <3>2, <3>4, Zenon
      <3>5. ASSUME NEW i \in 1 .. l, Behind(i, q, l) < rotations + 1 PROVE supernodes[i] \in tried'
        <4>1. CASE i = q
          BY <1>2, <3>3, <4>1, Zenon
        <4>2. CASE i # q
          <5>1. Behind(i, p, l) < rotations
            BY <1>1, <2>0, <3>4, <3>5, <4>2 DEF Behind
          <5> QED BY <1>2, <3>2, <5>1
        <4> QED BY <4>1, <4>2
      <3>6. AroundTo(q)'
        BY <1>2, <3>3, <3>5 DEF AroundTo
      <3> QED BY <3>6
    <2> QED BY <2>2, <2>3
  <1>4. current' \in tried' /\ rotations' \in Nat
    BY <1>1, <1>2
  <1>5. Rotating'
    BY <1>1, <1>2, <1>3, <1>4 DEF Rotating
  <1> QED BY <1>1, <1>2, <1>4, <1>5 DEF ListInv

LEMMA SwitchKeeps ==
  ASSUME ListInv, NEW addr, SwitchTo(addr)
  PROVE  ListInv'
  <1>1. Rotating'
    BY DEF ListInv, Rotating, SwitchTo
  <1> QED BY <1>1 DEF ListInv, SwitchTo

LEMMA ListInvariant == ListSpec => []ListInv
  <1>1. ListInv /\ [ListNext]_list_vars => ListInv'
    <2> SUFFICES ASSUME ListInv, [ListNext]_list_vars PROVE ListInv'
      OBVIOUS
    <2>1. CASE UNCHANGED list_vars
      BY <2>1 DEF list_vars, ListInv, Rotating, AroundTo
    <2> QED
      BY <2>1, LoadKeeps, StartKeeps, RotateKeeps, SwitchKeeps DEF ListNext
  <1> QED BY <1>1, ListInitially, PTL DEF ListSpec

(***************************************************************************)
(* Whatever the file says and whatever name the daemon is started with, a  *)
(* list that has no address twice is gone through completely by as many    *)
(* rotations of the watchdog as it is long, from wherever it was switched  *)
(* to: no supernode that the user named is left out.                       *)
(***************************************************************************)
THEOREM RotationsCover == ListSpec => []RotationCovers
  <1>1. ListInv => RotationCovers
    <2> SUFFICES ASSUME ListInv, list_stage = "running", rotations = Len(supernodes),
                        Len(supernodes) > 1 \/ current \in Range(supernodes),
                        IsInjective(supernodes)
                 PROVE  {Resolve[n] : n \in configured} \subseteq tried
      BY DEF RotationCovers
    <2> DEFINE l == Len(supernodes)
    <2>1. /\ supernodes \in Seq(Addresses) /\ l \in Nat \ {0} /\ current \in tried
          /\ {Resolve[n] : n \in configured} \subseteq Range(supernodes)
          /\ (l > 1 /\ rotations > 0) => \E p \in 1 .. l : AroundTo(p)
      BY DEF ListInv, Rotating
    <2>2. ASSUME NEW i \in 1 .. l PROVE supernodes[i] \in tried
      <3>1. CASE l > 1
        <4>1. PICK p \in 1 .. l : AroundTo(p)
          BY <2>1, <3>1
        <4>2. Behind(i, p, l) < rotations
          BY <2>1 DEF Behind
        <4> QED BY <4>1, <4>2, Zenon DEF AroundTo
      <3>2. CASE ~(l > 1)
        <4>1. l = 1 /\ i = 1
          BY <2>1, <3>2
        <4>2. PICK j \in 1 .. l : current = supernodes[j]
          BY <2>1, <3>2, InRange
        <4>3. j = 1
          BY <4>1, <4>2
        <4> QED BY <2>1, <4>1, <4>2, <4>3
      <3> QED BY <3>1, <3>2
    <2>3. ASSUME NEW x \in Range(supernodes) PROVE x \in tried
      <3>1. PICK i \in 1 .. l : x = supernodes[i]
        BY <2>1, InRange, Zenon
      <3> QED BY <2>2, <3>1, Zenon
    <2> QED BY <2>1, <2>3
  <1> QED BY <1>1, ListInvariant, PTL

-----------------------------------------------------------------------------
(***************************************************************************)
(* History, for any tasks, rooms, clock and length.                        *)
(*                                                                         *)
(* LatestKept: as long as no two tasks have met, one at most has a copy,   *)
(* and that is of all that the file should hold; a save sorts and cuts it. *)
(***************************************************************************)

Entries == [room_id: HistoryRooms, name: {GivenName} \cup RoomNames, last_joined: Clock]

(* A list of entries with no room twice *)
OnePerRoom(items) ==
    /\ items \in Seq(Entries)
    /\ \A i, j \in 1 .. Len(items) : items[i].room_id = items[j].room_id => i = j

(* What a save leaves of the entries asked for *)
KeptOf(items, asked) ==
    /\ Range(items) \subseteq asked
    /\ Range(items) # asked => Len(items) = MaxHistory
    /\ \A gone \in asked \ Range(items), item \in Range(items) :
          gone.last_joined <= item.last_joined

(* As long as the tasks have not met, one at most has a copy, of all that the file holds. *)
Alone ==
    /\ \A t, u \in HistoryTasks : task[t].pc # "idle" /\ task[u].pc # "idle" => t = u
    /\ (\A t \in HistoryTasks : task[t].pc = "idle") => history = whole
    /\ \A t \in HistoryTasks :
          /\ task[t].pc = "save" => Range(task[t].items) = task[t].asked
          /\ task[t].pc = "write" => KeptOf(task[t].items, task[t].asked)

HistoryInv ==
    /\ OnePerRoom(history) /\ OnePerRoom(whole)
    /\ DOMAIN task = HistoryTasks
    /\ \A t \in HistoryTasks :
          /\ DOMAIN task[t] = {"pc", "items", "asked"}
          /\ task[t].pc \in {"idle", "save", "write"}
          /\ OnePerRoom(task[t].items)
    /\ ~overlapped => Alone

(* save_history keeps the latest entries, all of them if there is room. *)
LEMMA SaveFacts ==
  ASSUME NEW items, OnePerRoom(items)
  PROVE  OnePerRoom(save_history(items)) /\ KeptOf(save_history(items), Range(items))
  <1> DEFINE keys == [i \in DOMAIN items |-> items[i].last_joined]
             order == DescendingOrder(keys)
             sorted == SortedDown(items, keys)
             first == FirstOf(sorted, MaxHistory)
             l == Len(items)
  <1>1. /\ items \in Seq(Entries) /\ l \in Nat /\ DOMAIN items = 1 .. l
        /\ \A i, j \in 1 .. l : items[i].room_id = items[j].room_id => i = j
    BY DEF OnePerRoom
  <1>2. \A i \in 1 .. l : items[i] \in Entries
    BY <1>1
  <1>3. keys \in Seq(Int) /\ Len(keys) = l
    <2>1. \A i \in 1 .. l : items[i].last_joined \in Int
      BY <1>2, HistoryAssumption DEF Entries
    <2> HIDE DEF l
    <2>2. keys \in [1 .. l -> Int]
      BY <1>1, <2>1
    <2> QED BY <1>1, <2>2
  <1>4. save_history(items) = first
    BY Zenon DEF save_history, Sorted
  <1>5. \A i \in 1 .. l : keys[i] = items[i].last_joined
    BY <1>1
  <1>6. sorted \in Seq(Entries) /\ SortedBy(order, sorted, items, keys)
    BY <1>1, <1>3, SortedFacts, Zenon
  <1>7. Range(sorted) = Range(items)
    BY <1>1, <1>3, SortedRange, Zenon
  <1> HIDE DEF keys, order, sorted
  <1>8. /\ first \in Seq(Entries)
        /\ Len(first) = IF Len(sorted) < MaxHistory THEN Len(sorted) ELSE MaxHistory
        /\ \A i \in 1 .. Len(first) : first[i] = sorted[i] /\ i \in 1 .. Len(sorted)
    BY <1>6, HistoryAssumption, FirstOfFacts, Zenon
  <1> HIDE DEF first
  <1>9. /\ Len(sorted) = l
        /\ \A i \in 1 .. l : order[i] \in 1 .. l /\ sorted[i] = items[order[i]]
        /\ \A i, j \in 1 .. l : order[i] = order[j] => i = j
        /\ \A i, j \in 1 .. l : i <= j => keys[order[j]] <= keys[order[i]]
    BY <1>6, Zenon DEF SortedBy, Falls
  <1> HIDE DEF l
  <1>10. OnePerRoom(first)
    <2>1. ASSUME NEW i \in 1 .. Len(first), NEW j \in 1 .. Len(first),
                 first[i].room_id = first[j].room_id
          PROVE  i = j
      <3>1. i \in 1 .. l /\ j \in 1 .. l
        BY <1>8, <1>9
      <3>2. items[order[i]].room_id = items[order[j]].room_id
        BY <1>8, <1>9, <2>1, <3>1
      <3> QED BY <1>1, <1>9, <3>1, <3>2
    <2> QED BY <1>8, <2>1 DEF OnePerRoom
  <1>11. Range(first) \subseteq Range(items)
    <2> SUFFICES ASSUME NEW x \in Range(first) PROVE x \in Range(sorted)
      BY <1>7
    <2>1. PICK i \in 1 .. Len(first) : x = first[i]
      BY <1>8, EntryAt, Zenon
    <2>2. i \in 1 .. Len(sorted) /\ x = sorted[i]
      BY <1>8, <2>1, Zenon
    <2> QED BY <1>6, <2>2, InRange, Zenon
  <1>12. ASSUME NEW gone \in Range(items) \ Range(first), NEW item \in Range(first)
         PROVE  gone.last_joined <= item.last_joined
    <2>1. PICK i \in 1 .. Len(first) : item = first[i]
      BY <1>8, InRange, Zenon
    <2>2. PICK j \in 1 .. Len(sorted) : gone = sorted[j]
      BY <1>6, <1>7, InRange, Zenon
    <2>3. i \in 1 .. l /\ item = sorted[i]
      BY <1>8, <1>9, <2>1, Zenon
    <2>4. j \notin 1 .. Len(first)
      <3> SUFFICES ASSUME j \in 1 .. Len(first) PROVE FALSE
        OBVIOUS
      <3>1. gone = first[j]
        BY <1>8, <2>2, Zenon
      <3> QED BY <1>8, <3>1, InRange, Zenon
    <2>5. j \in 1 .. l /\ i <= j
      <3>1. Len(first) \in Nat /\ l \in Nat /\ j \in 1 .. l
        BY <1>1, <1>8, <1>9, <2>2
      <3> QED BY <2>1, <2>4, <3>1
    <2>6. keys[order[j]] <= keys[order[i]]
      BY <1>9, <2>3, <2>5, Zenon
    <2>7. order[i] \in 1 .. l /\ order[j] \in 1 .. l /\ item = items[order[i]] /\ gone = items[order[j]]
      BY <1>9, <2>2, <2>3, <2>5, Zenon
    <2>8. keys[order[i]] = item.last_joined /\ keys[order[j]] = gone.last_joined
      BY <1>5, <2>7, Zenon
    <2> QED BY <2>6, <2>8, Zenon
  <1>13. ASSUME Len(first) # MaxHistory PROVE Range(first) = Range(items)
    <2>2. Len(first) = l
      BY <1>1, <1>8, <1>9, <1>13, HistoryAssumption
    <2>3. \A i \in 1 .. Len(sorted) : first[i] = sorted[i]
      BY <1>8, <1>9, <2>2, Zenon
    <2>4. ASSUME NEW x \in Range(sorted) PROVE x \in Range(first)
      <3>1. PICK i \in 1 .. Len(sorted) : x = sorted[i]
        BY <1>6, InRange, Zenon
      <3>2. i \in 1 .. Len(first) /\ x = first[i]
        BY <1>9, <2>2, <2>3, <3>1, Zenon
      <3> QED BY <1>8, <3>2, InRange, Zenon
    <2> QED BY <1>7, <1>11, <2>4, Zenon
  <1>14. KeptOf(first, Range(items))
    BY <1>11, <1>12, <1>13, Zenon DEF KeptOf
  <1> QED BY <1>4, <1>10, <1>14, Zenon

(* Taking out a room, putting one in and renaming one leave no room twice. *)
LEMMA WithoutFacts ==
  ASSUME NEW items, OnePerRoom(items), NEW room
  PROVE  /\ OnePerRoom(Without(items, room))
         /\ \A i \in 1 .. Len(Without(items, room)) : Without(items, room)[i].room_id # room
  <1> DEFINE keep == {i \in DOMAIN items : items[i].room_id # room}
             picked == Picked(items, keep)
  <1>1. /\ items \in Seq(Entries)
        /\ \A i, j \in 1 .. Len(items) : items[i].room_id = items[j].room_id => i = j
    BY DEF OnePerRoom
  <1>2. picked \in Seq(Entries)
    BY <1>1, PickedFacts, Zenon
  <1>3. PICK at : ComesFrom(at, picked, items, keep, Len(items))
    BY <1>1, PickedFacts, Zenon
  <1>4. \A k \in keep : items[k].room_id # room
    OBVIOUS
  <1>5. Without(items, room) = picked
    BY Zenon DEF Without
  <1> HIDE DEF keep, picked
  <1>6. /\ \A j \in 1 .. Len(picked) : /\ at[j] \in 1 .. Len(items) /\ at[j] \in keep
                                       /\ picked[j] = items[at[j]]
        /\ \A i, j \in 1 .. Len(picked) : i < j => at[i] < at[j]
    BY <1>3, Zenon DEF ComesFrom
  <1>7. ASSUME NEW i \in 1 .. Len(picked), NEW j \in 1 .. Len(picked),
               picked[i].room_id = picked[j].room_id
        PROVE  i = j
    <2>1. at[i] = at[j]
      <3>1. /\ at[i] \in 1 .. Len(items) /\ at[j] \in 1 .. Len(items)
            /\ picked[i] = items[at[i]] /\ picked[j] = items[at[j]]
        BY <1>6, Zenon
      <3>2. items[at[i]].room_id = items[at[j]].room_id
        BY <1>7, <3>1, Zenon
      <3> QED BY <1>1, <3>1, <3>2, Zenon
    <2>2. at[i] \in Int /\ at[j] \in Int /\ i \in Int /\ j \in Int
      BY <1>6
    <2>3. ~(i < j) /\ ~(j < i)
      <3>1. i < j => at[i] < at[j]
        BY <1>6, Zenon
      <3>2. j < i => at[j] < at[i]
        BY <1>6, Zenon
      <3> QED BY <2>1, <2>2, <3>1, <3>2
    <2> QED BY <2>2, <2>3
  <1>8. \A i \in 1 .. Len(picked) : picked[i].room_id # room
    BY <1>4, <1>6, Zenon
  <1>9. OnePerRoom(picked)
    BY <1>2, <1>7, Zenon DEF OnePerRoom
  <1> QED BY <1>5, <1>8, <1>9, Zenon

LEMMA WithItemFacts ==
  ASSUME NEW items, OnePerRoom(items), NEW item \in Entries
  PROVE  OnePerRoom(WithItem(items, item))
  <1> DEFINE others == Without(items, item.room_id)
             new == Append(others, item)
             l == Len(others)
  <1>1. /\ OnePerRoom(others) /\ \A i \in 1 .. l : others[i].room_id # item.room_id
    BY WithoutFacts, Zenon
  <1>2. WithItem(items, item) = new
    BY DEF WithItem
  <1> HIDE DEF others
  <1>3. /\ others \in Seq(Entries)
        /\ \A i, j \in 1 .. l : others[i].room_id = others[j].room_id => i = j
    BY <1>1 DEF OnePerRoom
  <1>4. /\ new \in Seq(Entries) /\ Len(new) = l + 1 /\ new[l + 1] = item
        /\ \A i \in 1 .. l : new[i] = others[i]
    BY <1>3
  <1>5. l \in Nat
    BY <1>3
  <1> HIDE DEF l, new
  <1>6. \A i \in 1 .. l + 1 : i \in 1 .. l \/ i = l + 1
    BY <1>5
  <1>7. \A i, j \in 1 .. l + 1 : new[i].room_id = new[j].room_id => i = j
    BY <1>1, <1>3, <1>4, <1>6, Zenon
  <1>8. OnePerRoom(new)
    BY <1>4, <1>7, Zenon DEF OnePerRoom
  <1> QED BY <1>2, <1>8, Zenon

LEMMA RenamedFacts ==
  ASSUME NEW items, OnePerRoom(items), NEW room, NEW name \in RoomNames
  PROVE  OnePerRoom(Renamed(items, room, name))
  <1> DEFINE new == Renamed(items, room, name)
             l == Len(items)
  <1>1. /\ items \in Seq(Entries) /\ DOMAIN items = 1 .. l /\ l \in Nat
        /\ \A i, j \in 1 .. l : items[i].room_id = items[j].room_id => i = j
        /\ \A i \in 1 .. l : items[i] \in Entries
    BY DEF OnePerRoom
  <1>2. new = [i \in 1 .. l |->
                 IF items[i].room_id = room THEN [items[i] EXCEPT !.name = name] ELSE items[i]]
    BY <1>1 DEF Renamed
  <1> HIDE DEF new, l
  <1>3. ASSUME NEW i \in 1 .. l PROVE new[i] \in Entries /\ new[i].room_id = items[i].room_id
    <2>1. items[i] \in Entries
      BY <1>1, Zenon
    <2> QED BY <1>2, <2>1 DEF Entries
  <1>4. new \in Seq(Entries) /\ Len(new) = l
    <2>1. new \in [1 .. l -> Entries]
      BY <1>2, <1>3
    <2> QED BY <1>1, <2>1, AList
  <1>5. \A i, j \in 1 .. l : new[i].room_id = new[j].room_id => i = j
    BY <1>1, <1>3, Zenon
  <1>6. OnePerRoom(new)
    BY <1>4, <1>5, Zenon DEF OnePerRoom
  <1> QED BY <1>6 DEF new

LEMMA ChangedKeeps ==
  ASSUME HistoryInv, NEW t \in HistoryTasks, NEW items, NEW asked, Changed(t, items, asked),
         OnePerRoom(items), history = whole => items = asked
  PROVE  HistoryInv'
  <1> DEFINE copy == [pc |-> "save", items |-> items, asked |-> Range(asked)]
  <1>1. /\ OnePerRoom(history) /\ OnePerRoom(whole)
        /\ DOMAIN task = HistoryTasks
        /\ \A u \in HistoryTasks :
              /\ DOMAIN task[u] = {"pc", "items", "asked"}
              /\ task[u].pc \in {"idle", "save", "write"}
              /\ OnePerRoom(task[u].items)
        /\ ~overlapped => Alone
    BY DEF HistoryInv
  <1>2. /\ task[t].pc = "idle" /\ task' = [task EXCEPT ![t] = copy]
        /\ overlapped' = (overlapped \/ Busy(t)) /\ history' = history /\ whole' = whole
    BY DEF Changed
  <1>3. /\ copy.pc = "save" /\ copy.items = items /\ copy.asked = Range(asked)
        /\ DOMAIN copy = {"pc", "items", "asked"}
    OBVIOUS
  <1> HIDE DEF copy
  <1>4. /\ DOMAIN task' = HistoryTasks /\ task'[t] = copy
        /\ \A u \in HistoryTasks \ {t} : task'[u] = task[u]
    BY <1>1, <1>2
  <1>5. \A u \in HistoryTasks :
           /\ DOMAIN task'[u] = {"pc", "items", "asked"}
           /\ task'[u].pc \in {"idle", "save", "write"}
           /\ OnePerRoom(task'[u].items)
    BY <1>1, <1>3, <1>4
  <1>6. ASSUME ~overlapped' PROVE Alone'
    <2>1. ~overlapped /\ \A u \in HistoryTasks \ {t} : task[u].pc = "idle"
      BY <1>2, <1>6, Zenon DEF Busy
    <2>2. \A u \in HistoryTasks : task[u].pc = "idle"
      BY <1>2, <2>1, Zenon
    <2>3. history = whole
      BY <1>1, <2>1, <2>2, Zenon DEF Alone
    <2>4. \A u \in HistoryTasks \ {t} : task'[u].pc = "idle"
      BY <1>4, <2>1, Zenon
    <2>5. task'[t].pc = "save" /\ Range(task'[t].items) = task'[t].asked
      BY <1>3, <1>4, <2>3, Zenon
    <2>6. \A u, v \in HistoryTasks : task'[u].pc # "idle" /\ task'[v].pc # "idle" => u = v
      BY <2>4, Zenon
    <2>7. "idle" # "save" /\ "idle" # "write" /\ "save" # "write"
      OBVIOUS
    <2>8. \A u \in HistoryTasks :
             /\ task'[u].pc = "save" => Range(task'[u].items) = task'[u].asked
             /\ task'[u].pc = "write" => FALSE
      BY <2>4, <2>5, <2>7, Zenon
    <2>9. ~(\A u \in HistoryTasks : task'[u].pc = "idle")
      BY <2>5, <2>7, Zenon
    <2> QED BY <2>6, <2>8, <2>9, Zenon DEF Alone
  <1> QED BY <1>1, <1>2, <1>4, <1>5, <1>6 DEF HistoryInv

LEMMA OpenKeeps ==
  ASSUME HistoryInv, NEW t \in HistoryTasks, SaveOpen(t)
  PROVE  HistoryInv'
  <1> DEFINE saved == save_history(task[t].items)
  <1>1. /\ OnePerRoom(history) /\ OnePerRoom(whole)
        /\ DOMAIN task = HistoryTasks
        /\ \A u \in HistoryTasks :
              /\ DOMAIN task[u] = {"pc", "items", "asked"}
              /\ task[u].pc \in {"idle", "save", "write"}
              /\ OnePerRoom(task[u].items)
        /\ ~overlapped => Alone
    BY DEF HistoryInv
  <1>2. /\ task[t].pc = "save" /\ history' = <<>> /\ whole' = whole
        /\ task' = [task EXCEPT ![t] = [task[t] EXCEPT !.pc = "write", !.items = saved]]
        /\ overlapped' = (overlapped \/ Busy(t))
    BY DEF SaveOpen
  <1>3. OnePerRoom(saved) /\ KeptOf(saved, Range(task[t].items))
    BY <1>1, SaveFacts, Zenon
  <1> HIDE DEF saved
  <1>4. /\ DOMAIN task' = HistoryTasks
        /\ \A u \in HistoryTasks \ {t} : task'[u] = task[u]
        /\ DOMAIN task'[t] = {"pc", "items", "asked"}
        /\ task'[t].pc = "write" /\ task'[t].items = saved /\ task'[t].asked = task[t].asked
    BY <1>1, <1>2
  <1>5. \A u \in HistoryTasks :
           /\ DOMAIN task'[u] = {"pc", "items", "asked"}
           /\ task'[u].pc \in {"idle", "save", "write"}
           /\ OnePerRoom(task'[u].items)
    BY <1>1, <1>3, <1>4
  <1>6. ASSUME ~overlapped' PROVE Alone'
    <2>1. ~overlapped /\ \A u \in HistoryTasks \ {t} : task[u].pc = "idle"
      BY <1>2, <1>6, Zenon DEF Busy
    <2>2. Range(task[t].items) = task[t].asked
      BY <1>1, <1>2, <2>1, Zenon DEF Alone
    <2>3. KeptOf(task'[t].items, task'[t].asked)
      BY <1>3, <1>4, <2>2, Zenon
    <2>4. \A u \in HistoryTasks \ {t} : task'[u].pc = "idle"
      BY <1>4, <2>1, Zenon
    <2>5. "idle" # "save" /\ "idle" # "write" /\ "save" # "write"
      OBVIOUS
    <2>6. \A u, v \in HistoryTasks : task'[u].pc # "idle" /\ task'[v].pc # "idle" => u = v
      BY <2>4, Zenon
    <2>7. \A u \in HistoryTasks :
             /\ task'[u].pc = "save" => FALSE
             /\ task'[u].pc = "write" => KeptOf(task'[u].items, task'[u].asked)
      BY <1>4, <2>3, <2>4, <2>5, Zenon
    <2>8. ~(\A u \in HistoryTasks : task'[u].pc = "idle")
      BY <1>4, <2>5, Zenon
    <2>9. Alone'
      BY <2>6, <2>7, <2>8 DEF Alone, KeptOf
    <2> QED BY <2>9
  <1>7. OnePerRoom(<<>>)
    BY DEF OnePerRoom
  <1> QED BY <1>1, <1>2, <1>4, <1>5, <1>6, <1>7 DEF HistoryInv

LEMMA FillKeeps ==
  ASSUME HistoryInv, NEW t \in HistoryTasks, SaveFill(t)
  PROVE  HistoryInv'
  <1>1. /\ DOMAIN task = HistoryTasks
        /\ \A u \in HistoryTasks :
              /\ DOMAIN task[u] = {"pc", "items", "asked"}
              /\ task[u].pc \in {"idle", "save", "write"}
              /\ OnePerRoom(task[u].items)
    BY DEF HistoryInv
  <1>2. /\ history' = task[t].items /\ whole' = history'
        /\ task' = [task EXCEPT ![t] = NoCopy]
        /\ overlapped' = Busy(t)
    BY DEF SaveFill
  <1>3. /\ DOMAIN task' = HistoryTasks /\ task'[t] = NoCopy
        /\ \A u \in HistoryTasks \ {t} : task'[u] = task[u]
    BY <1>1, <1>2
  <1>4. /\ DOMAIN NoCopy = {"pc", "items", "asked"} /\ NoCopy.pc = "idle" /\ OnePerRoom(NoCopy.items)
    BY DEF NoCopy, OnePerRoom
  <1>5. \A u \in HistoryTasks :
           /\ DOMAIN task'[u] = {"pc", "items", "asked"}
           /\ task'[u].pc \in {"idle", "save", "write"}
           /\ OnePerRoom(task'[u].items)
    BY <1>1, <1>3, <1>4
  <1>6. ASSUME ~overlapped' PROVE Alone'
    <2>1. \A u \in HistoryTasks \ {t} : task[u].pc = "idle"
      BY <1>2, <1>6, Zenon DEF Busy
    <2>2. \A u \in HistoryTasks : task'[u].pc = "idle"
      BY <1>3, <1>4, <2>1, Zenon
    <2>3. "idle" # "save" /\ "idle" # "write"
      OBVIOUS
    <2> QED BY <1>2, <2>2, <2>3, Zenon DEF Alone
  <1> QED BY <1>1, <1>2, <1>3, <1>5, <1>6 DEF HistoryInv

LEMMA RestartKeeps ==
  ASSUME HistoryInv, Restart
  PROVE  HistoryInv'
  <1>1. OnePerRoom(history) /\ history' = history /\ whole' = history /\ overlapped' = FALSE
    BY Zenon DEF HistoryInv, Restart
  <1>2. DOMAIN NoCopy = {"pc", "items", "asked"} /\ NoCopy.pc = "idle" /\ OnePerRoom(NoCopy.items)
    BY DEF NoCopy, OnePerRoom
  <1>3. DOMAIN task' = HistoryTasks /\ \A t \in HistoryTasks : task'[t] = NoCopy
    BY DEF Restart
  <1>4. "idle" # "save" /\ "idle" # "write"
    OBVIOUS
  <1>5. Alone'
    BY <1>1, <1>2, <1>3, <1>4, Zenon DEF Alone
  <1>6. OnePerRoom(history)' /\ OnePerRoom(whole)'
    BY <1>1 DEF OnePerRoom
  <1>7. \A t \in HistoryTasks :
           /\ DOMAIN task'[t] = {"pc", "items", "asked"}
           /\ task'[t].pc \in {"idle", "save", "write"}
           /\ OnePerRoom(task'[t].items)
    BY <1>2, <1>3
  <1> QED BY <1>3, <1>5, <1>6, <1>7 DEF HistoryInv

LEMMA HistoryInvariant == HistorySpec => []HistoryInv
  <1>1. HistoryInit => HistoryInv
    <2> SUFFICES ASSUME HistoryInit PROVE HistoryInv
      OBVIOUS
    <2>1. OnePerRoom(<<>>)
      BY DEF OnePerRoom
    <2> QED BY <2>1 DEF HistoryInit, HistoryInv, Alone, NoCopy
  <1>2. HistoryInv /\ [HistoryNext]_history_vars => HistoryInv'
    <2> SUFFICES ASSUME HistoryInv, [HistoryNext]_history_vars PROVE HistoryInv'
      OBVIOUS
    <2>1. OnePerRoom(history) /\ OnePerRoom(whole)
      BY DEF HistoryInv
    <2>2. ASSUME NEW t \in HistoryTasks, NEW item \in HistoryItems, add_to_history(t, item)
          PROVE  HistoryInv'
      <3>1. item \in Entries
        BY DEF HistoryItems, Entries
      <3>2. OnePerRoom(WithItem(history, item))
        BY <2>1, <3>1, WithItemFacts, Zenon
      <3>3. Changed(t, WithItem(history, item), WithItem(whole, item))
        BY <2>2, Zenon DEF add_to_history
      <3> QED BY <3>2, <3>3, ChangedKeeps
    <2>3. ASSUME NEW t \in HistoryTasks, NEW room \in HistoryRooms, delete_history(t, room)
          PROVE  HistoryInv'
      <3>1. OnePerRoom(Without(history, room))
        BY <2>1, WithoutFacts, Zenon
      <3>2. Changed(t, Without(history, room), Without(whole, room))
        BY <2>3, Zenon DEF delete_history
      <3> QED BY <3>1, <3>2, ChangedKeeps
    <2>4. ASSUME NEW t \in HistoryTasks, NEW room \in HistoryRooms, NEW name \in RoomNames,
                 update_history_name(t, room, name)
          PROVE  HistoryInv'
      <3>1. OnePerRoom(Renamed(history, room, name))
        BY <2>1, RenamedFacts, Zenon
      <3>2. Changed(t, Renamed(history, room, name), Renamed(whole, room, name))
        BY <2>4, Zenon DEF update_history_name
      <3> QED BY <3>1, <3>2, ChangedKeeps
    <2>5. CASE UNCHANGED history_vars
      <3>1. history' = history /\ whole' = whole /\ task' = task /\ overlapped' = overlapped
        BY <2>5 DEF history_vars
      <3>2. Alone => Alone'
        BY <3>1 DEF Alone, KeptOf
      <3>3. (OnePerRoom(history) /\ OnePerRoom(whole))'
        BY <2>1, <3>1 DEF OnePerRoom
      <3>4. \A t \in HistoryTasks : (task[t]' = task[t]) /\ OnePerRoom(task[t].items)
        BY <3>1 DEF HistoryInv
      <3>5. \A t \in HistoryTasks : OnePerRoom(task[t].items)'
        BY <3>1, <3>4 DEF OnePerRoom
      <3> QED BY <3>1, <3>2, <3>3, <3>5 DEF HistoryInv
    <2> QED BY <2>2, <2>3, <2>4, <2>5, OpenKeeps, FillKeeps, RestartKeeps DEF HistoryNext
  <1> QED BY <1>1, <1>2, PTL DEF HistorySpec

(***************************************************************************)
(* For any number of rooms, tasks and entries, however the clock goes and  *)
(* whenever the edge dies, a save that no other task has met keeps what    *)
(* was asked for, each room once: all of it unless the history is full,    *)
(* and then the latest ones.                                               *)
(***************************************************************************)
THEOREM LatestEntriesKept == HistorySpec => LatestKept
  <1> DEFINE Saved ==
        \A t \in HistoryTasks : SaveFill(t) /\ ~overlapped =>
          LET asked == task[t].asked
              stays == Range(history')
          IN  /\ stays \subseteq asked
              /\ \A i, j \in DOMAIN history' : history'[i].room_id = history'[j].room_id => i = j
              /\ stays # asked => Len(history') = MaxHistory
              /\ \A gone \in asked \ stays, item \in stays :
                     gone.last_joined <= item.last_joined
  <1>1. HistoryInv /\ [HistoryNext]_history_vars => [Saved]_history_vars
    <2> SUFFICES ASSUME HistoryInv, NEW t \in HistoryTasks, SaveFill(t), ~overlapped
                 PROVE  LET asked == task[t].asked
                            stays == Range(history')
                        IN  /\ stays \subseteq asked
                            /\ \A i, j \in DOMAIN history' : history'[i].room_id = history'[j].room_id => i = j
                            /\ stays # asked => Len(history') = MaxHistory
                            /\ \A gone \in asked \ stays, item \in stays :
                                  gone.last_joined <= item.last_joined
      BY Zenon
    <2>1. ~overlapped /\ task[t].pc = "write" /\ history' = task[t].items
      BY DEF SaveFill
    <2>2. KeptOf(task[t].items, task[t].asked) /\ OnePerRoom(task[t].items)
      BY <2>1 DEF HistoryInv, Alone
    <2> DEFINE items == task[t].items
               all == task[t].asked
    <2>3. DOMAIN items = 1 .. Len(items)
      BY <2>2 DEF OnePerRoom
    <2>4. \A i, j \in DOMAIN items : items[i].room_id = items[j].room_id => i = j
      BY <2>2, <2>3, Zenon DEF OnePerRoom
    <2>5. /\ Range(items) \subseteq all
          /\ Range(items) # all => Len(items) = MaxHistory
          /\ \A gone \in all \ Range(items), item \in Range(items) :
                gone.last_joined <= item.last_joined
      BY <2>2, Zenon DEF KeptOf
    <2>6. history' = items
      BY <2>1, Zenon
    <2>7. task[t].asked = all
      OBVIOUS
    <2> HIDE DEF items, all
    <2> QED BY <2>4, <2>5, <2>6, <2>7, Zenon
  <1> QED BY <1>1, HistoryInvariant, PTL DEF HistorySpec, LatestKept
==============================================================================
