--------------------------- MODULE CandidateProofs ---------------------------
(***************************************************************************)
(* Candidates, for interfaces, probe answers and lists of any length and   *)
(* any limits, with the lemmas of ListProofs about lists and their         *)
(* sorting.                                                                *)
(*                                                                         *)
(* PunchesMeet: the pairs of two lists and the pairs of the lists the      *)
(* other way round are the same pairs, turned, with the same scores; the   *)
(* first MaxPairs of either by score then hold every pair that scores more *)
(* than the last one taken.                                                *)
(*                                                                         *)
(* NextPortsPredicted: the ports of a NAT that counts, sorted, are a fixed *)
(* distance apart; that is the distance the prediction finds, it starts    *)
(* from the highest, and what it predicts survives the sorting, the        *)
(* removal of repeated addresses and a mapping that is merged in.          *)
(***************************************************************************)
EXTENDS Candidates, ListProofs

-----------------------------------------------------------------------------
(* The pairs of two lists, and those of the same lists the other way round *)

LEMMA Remainders ==
  ASSUME NEW n \in Nat, NEW q \in Nat, NEW r \in 0 .. n - 1
  PROVE  (q * n + r) \div n = q /\ (q * n + r) % n = r
  OBVIOUS

LEMMA PlaceIn ==
  ASSUME NEW l \in Nat, NEW n \in Nat, NEW q \in 0 .. l - 1, NEW r \in 0 .. n - 1
  PROVE  q * n + r \in Nat /\ q * n + r + 1 \in 1 .. l * n
  <1>1. q * n \in Nat /\ (q + 1) * n <= l * n
    OBVIOUS
  <1>2. (q + 1) * n = q * n + n
    OBVIOUS
  <1> DEFINE a == q * n
             b == l * n
             c == (q + 1) * n
  <1>3. a \in Nat /\ b \in Nat /\ c <= b /\ c = a + n
    BY <1>1, <1>2
  <1> HIDE DEF a, b, c
  <1>4. a + r \in Nat /\ a + r + 1 \in 1 .. b
    BY <1>3
  <1> QED BY <1>4 DEF a, b

(* Row q and column r hold entry k of a table of l rows and n columns. *)
InTable(k, q, r, l, n) == q \in 0 .. l - 1 /\ r \in 0 .. n - 1 /\ k = q * n + r + 1

LEMMA PlaceOf ==
  ASSUME NEW l \in Nat, NEW n \in Nat, NEW k \in 1 .. l * n
  PROVE  InTable(k, (k - 1) \div n, (k - 1) % n, l, n)
  <1>1. n > 0
    <2>1. n = 0 => l * n = 0
      OBVIOUS
    <2> QED BY <2>1
  <1> DEFINE q == (k - 1) \div n
             r == (k - 1) % n
  <1>2. l * n \in Nat
    OBVIOUS
  <1>3. k - 1 \in Nat /\ k - 1 < l * n
    BY <1>2
  <1>4. q \in Nat /\ r \in 0 .. n - 1 /\ k - 1 = q * n + r
    BY <1>1, <1>3
  <1> HIDE DEF q, r
  <1>5. q * n < l * n
    BY <1>3, <1>4
  <1>6. q < l
    BY <1>1, <1>4, <1>5
  <1>7. InTable(k, q, r, l, n)
    BY <1>4, <1>6 DEF InTable
  <1> QED BY <1>7 DEF q, r

Turned(pair) == <<pair[2], pair[1]>>

PairIs(pair, left, right) == pair = <<left, right>>

LEMMA PairAt ==
  ASSUME NEW l \in Nat, NEW n \in Nat, NEW local, Len(local) = l, NEW remote, Len(remote) = n,
         NEW q \in 0 .. l - 1, NEW r \in 0 .. n - 1
  PROVE  PairIs(AllPairs(local, remote)[q * n + r + 1], local[q + 1], remote[r + 1])
  <1> DEFINE k == q * n + r + 1
  <1>1. k \in 1 .. l * n /\ q * n + r \in Nat
    BY PlaceIn, Zenon
  <1>2. (q * n + r) \div n = q /\ (q * n + r) % n = r
    <2>1. q \in Nat
      OBVIOUS
    <2> QED BY <2>1, Remainders, Zenon
  <1>3. k - 1 = q * n + r
    BY <1>1
  <1>4. AllPairs(local, remote)[k] = <<local[((k - 1) \div n) + 1], remote[((k - 1) % n) + 1]>>
    BY <1>1, Zenon DEF AllPairs
  <1> QED BY <1>2, <1>3, <1>4, Zenon DEF PairIs

Turns(turn, pairs, m, others, n) ==
    /\ turn \in [1 .. m -> 1 .. n]
    /\ \A i \in 1 .. n : \E k \in 1 .. m : turn[k] = i
    /\ \A k \in 1 .. m : others[turn[k]] = Turned(pairs[k])

(* Each pair of the one is, turned round, a pair of the other. *)
LEMMA PairsTurn ==
  ASSUME NEW l \in Nat, NEW n \in Nat, NEW local, Len(local) = l, NEW remote, Len(remote) = n
  PROVE  \E turn : Turns(turn, AllPairs(local, remote), l * n, AllPairs(remote, local), n * l)
  <1> DEFINE To(k) == ((k - 1) % n) * l + ((k - 1) \div n) + 1
             turn == [k \in 1 .. l * n |-> To(k)]
  <1>1. ASSUME NEW k \in 1 .. l * n
        PROVE  To(k) \in 1 .. n * l /\ AllPairs(remote, local)[To(k)] = Turned(AllPairs(local, remote)[k])
    <2> DEFINE q == (k - 1) \div n
               r == (k - 1) % n
    <2>a. InTable(k, q, r, l, n)
      BY PlaceOf, Zenon
    <2>1. q \in 0 .. l - 1 /\ r \in 0 .. n - 1 /\ k = q * n + r + 1
      BY <2>a, Zenon DEF InTable
    <2>2. To(k) = r * l + q + 1
      OBVIOUS
    <2> HIDE DEF To, q, r
    <2>3. r * l + q + 1 \in 1 .. n * l
      BY <2>1, PlaceIn, Zenon
    <2>4. PairIs(AllPairs(remote, local)[r * l + q + 1], remote[r + 1], local[q + 1])
      BY <2>1, PairAt, Zenon
    <2>5. PairIs(AllPairs(local, remote)[q * n + r + 1], local[q + 1], remote[r + 1])
      BY <2>1, PairAt, Zenon
    <2>6. PairIs(AllPairs(local, remote)[k], local[q + 1], remote[r + 1])
      BY <2>1, <2>5, Zenon
    <2>7. PairIs(Turned(AllPairs(local, remote)[k]), remote[r + 1], local[q + 1])
      BY <2>6 DEF Turned, PairIs
    <2> QED BY <2>2, <2>3, <2>4, <2>7, Zenon DEF PairIs
  <1>2. ASSUME NEW i \in 1 .. n * l PROVE \E k \in 1 .. l * n : To(k) = i
    <2> DEFINE r == (i - 1) \div l
               q == (i - 1) % l
               k == q * n + r + 1
    <2>a. InTable(i, r, q, n, l)
      BY PlaceOf, Zenon
    <2>1. r \in 0 .. n - 1 /\ q \in 0 .. l - 1 /\ i = r * l + q + 1
      BY <2>a, Zenon DEF InTable
    <2> HIDE DEF r, q
    <2>2. k \in 1 .. l * n /\ q * n + r \in Nat
      BY <2>1, PlaceIn, Zenon
    <2>3. (q * n + r) \div n = q /\ (q * n + r) % n = r
      <3>1. q \in Nat /\ r \in 0 .. n - 1
        BY <2>1
      <3> HIDE DEF k, To
      <3> QED BY <3>1, Remainders, Zenon
    <2>4. k - 1 = q * n + r
      BY <2>2
    <2>5. To(k) = r * l + q + 1
      BY <2>3, <2>4, Zenon
    <2> QED BY <2>1, <2>2, <2>5, Zenon
  <1> HIDE DEF To
  <1>3. turn \in [1 .. l * n -> 1 .. n * l]
    BY <1>1, Zenon
  <1>4. \A k \in 1 .. l * n : turn[k] = To(k)
    BY Zenon
  <1> HIDE DEF turn
  <1>5. Turns(turn, AllPairs(local, remote), l * n, AllPairs(remote, local), n * l)
    <2>1. \A i \in 1 .. n * l : \E k \in 1 .. l * n : turn[k] = i
      <3> SUFFICES ASSUME NEW i \in 1 .. n * l PROVE \E k \in 1 .. l * n : turn[k] = i
        OBVIOUS
      <3>1. PICK k \in 1 .. l * n : To(k) = i
        BY <1>2, Zenon
      <3> QED BY <1>4, <3>1, Zenon
    <2>2. \A k \in 1 .. l * n : AllPairs(remote, local)[turn[k]] = Turned(AllPairs(local, remote)[k])
      BY <1>1, <1>4, Zenon
    <2> QED BY <1>3, <2>1, <2>2, Zenon DEF Turns
  <1> QED BY <1>5

(* A pair scores the same on both sides. *)
LEMMA ScoreTurns ==
  ASSUME NEW a \in CandidateRecords, NEW b \in CandidateRecords
  PROVE  Score(<<a, b>>) \in Int /\ Score(<<b, a>>) = Score(<<a, b>>)
  <1>1. locality_bonus(a.kind, b.kind) \in Int /\ locality_bonus(b.kind, a.kind) = locality_bonus(a.kind, b.kind)
    <2>1. locality_bonus(a.kind, b.kind) \in {40, 30, 20, 10, 0}
      BY DEF locality_bonus
    <2>2. locality_bonus(b.kind, a.kind) = locality_bonus(a.kind, b.kind)
      BY DEF locality_bonus
    <2> QED BY <2>1, <2>2
  <1>2. a.priority \in Int /\ b.priority \in Int
    BY DEF CandidateRecords
  <1> QED BY <1>1, <1>2 DEF Score

Crowded(m) == \A f \in [1 .. m + 1 -> 1 .. m] : \E i, j \in 1 .. m + 1 : i # j /\ f[i] = f[j]

(* One place and one number more: what has the new number takes the last place's number. *)
LEMMA CrowdedMore ==
  ASSUME NEW m \in Nat, Crowded(m)
  PROVE  Crowded(m + 1)
  <1> SUFFICES ASSUME NEW f \in [1 .. m + 2 -> 1 .. m + 1],
                      \A i, j \in 1 .. m + 2 : i # j => f[i] # f[j]
               PROVE  FALSE
    <2>1. m + 1 + 1 = m + 2
      OBVIOUS
    <2> QED BY <2>1, Zenon DEF Crowded
  <1> DEFINE g == [i \in 1 .. m + 1 |-> IF f[i] = m + 1 THEN f[m + 2] ELSE f[i]]
  <1>1. ASSUME NEW i \in 1 .. m + 1 PROVE g[i] \in 1 .. m
    OBVIOUS
  <1>2. g \in [1 .. m + 1 -> 1 .. m]
    BY <1>1, Zenon
  <1>3. PICK i, j \in 1 .. m + 1 : i # j /\ g[i] = g[j]
    <2> HIDE DEF g
    <2> QED BY <1>2, Zenon DEF Crowded
  <1>4. i \in 1 .. m + 2 /\ j \in 1 .. m + 2 /\ m + 2 \in 1 .. m + 2 /\ i # m + 2 /\ j # m + 2
    OBVIOUS
  <1>5. f[i] # f[j] /\ f[i] # f[m + 2] /\ f[j] # f[m + 2]
    BY <1>3, <1>4, Zenon
  <1> QED BY <1>3, <1>5, Zenon

(* More places than numbers: two have the same. *)
LEMMA TwoAlike ==
  ASSUME NEW m \in Nat, m > 0, NEW f \in [1 .. m -> 1 .. m - 1]
  PROVE  \E i, j \in 1 .. m : i # j /\ f[i] = f[j]
  <1> DEFINE P == {n \in Nat : Crowded(n)}
  <1>1. Crowded(0)
    <2> SUFFICES ASSUME NEW h \in [1 .. 1 -> 1 .. 0] PROVE FALSE
      BY DEF Crowded
    <2> QED BY 1 \in 1 .. 1, h[1] \in 1 .. 0
  <1>2. 0 \in P /\ \A n \in Nat : n \in P => n + 1 \in P
    <2>1. 0 \in Nat /\ \A n \in Nat : n + 1 \in Nat
      OBVIOUS
    <2> QED BY <1>1, <2>1, CrowdedMore, Zenon
  <1>3. P = Nat
    <2>1. P \in SUBSET Nat
      OBVIOUS
    <2> HIDE DEF P
    <2> QED BY <1>2, <2>1, Upwards, Zenon
  <1>4. m - 1 \in Nat /\ m - 1 + 1 = m
    OBVIOUS
  <1>5. Crowded(m - 1)
    BY <1>3, <1>4
  <1> QED BY <1>4, <1>5, Zenon DEF Crowded

Carries(turn, keys, others, n) ==
    /\ turn \in [1 .. n -> 1 .. n]
    /\ \A i \in 1 .. n : \E k \in 1 .. n : turn[k] = i
    /\ \A k \in 1 .. n : keys[k] \in Int /\ others[turn[k]] = keys[k]

Beats(keys, order, i, m) == keys[order[i]] > keys[order[m]]

Among(x, other, m) == \E j \in 1 .. m : other[j] = x

LEMMA Within ==
  ASSUME NEW n \in Nat, NEW m \in 0 .. n, NEW x \in 1 .. m
  PROVE  x \in 1 .. n /\ x <= m /\ m \in 1 .. n /\ m \in 1 .. m
  OBVIOUS

LEMMA Beyond ==
  ASSUME NEW n \in Nat, NEW m \in Nat, NEW x \in 1 .. m, NEW j \in 1 .. n, j \notin 1 .. m
  PROVE  x <= j
  OBVIOUS

(* Among equally many of the best, what beats the last one is on both sides. *)
LEMMA BestMeet ==
  ASSUME NEW n \in Nat, NEW m \in 0 .. n, NEW keys, NEW order, Falls(order, keys, n),
         NEW others, NEW other, Falls(other, others, n), NEW turn, Carries(turn, keys, others, n),
         NEW i \in 1 .. m, Beats(keys, order, i, m)
  PROVE  Among(turn[order[i]], other, m)
  <1>1. /\ \A x \in 1 .. n : order[x] \in 1 .. n
        /\ \A x \in 1 .. n : \E y \in 1 .. n : order[y] = x
        /\ \A x, y \in 1 .. n : x <= y => keys[order[y]] <= keys[order[x]]
    BY Zenon DEF Falls
  <1>2. /\ \A x, y \in 1 .. n : other[x] = other[y] => x = y
        /\ \A x \in 1 .. n : other[x] \in 1 .. n
        /\ \A x \in 1 .. n : \E y \in 1 .. n : other[y] = x
        /\ \A x, y \in 1 .. n : x <= y => others[other[y]] <= others[other[x]]
    BY Zenon DEF Falls
  <1>3. m \in 1 .. n /\ i \in 1 .. n /\ \A x \in 1 .. m : x \in 1 .. n
    BY Within, Zenon
  <1>4. /\ \A k \in 1 .. n : turn[k] \in 1 .. n
        /\ \A x \in 1 .. n : \E k \in 1 .. n : turn[k] = x
        /\ \A k \in 1 .. n : keys[k] \in Int /\ others[turn[k]] = keys[k]
    BY Zenon DEF Carries
  <1>m. m \in Nat /\ m > 0
    OBVIOUS
  <1>5. PICK j \in 1 .. n : other[j] = turn[order[i]]
    BY <1>1, <1>2, <1>3, <1>4, Zenon
  <1>6. ASSUME j \notin 1 .. m PROVE FALSE
    <2>1. ASSUME NEW x \in 1 .. m PROVE \E y \in 1 .. m - 1 : turn[order[y]] = other[x]
      <3>1. PICK k \in 1 .. n : turn[k] = other[x]
        BY <1>2, <1>3, <1>4, Zenon
      <3>2. PICK y \in 1 .. n : order[y] = k
        BY <1>1, Zenon
      <3>3. x \in 1 .. n /\ x <= j
        BY <1>3, <1>6, <1>m, Beyond, Zenon
      <3>4. others[other[j]] <= others[other[x]]
        BY <1>2, <3>3, Zenon
      <3>5. others[other[x]] = keys[order[y]] /\ others[other[j]] = keys[order[i]]
        BY <1>1, <1>3, <1>4, <1>5, <3>1, <3>2, Zenon
      <3> DEFINE a == keys[order[y]]
                 b == keys[order[i]]
                 c == keys[order[m]]
      <3>6. a \in Int /\ b \in Int /\ c \in Int /\ b > c /\ b <= a
        BY <1>1, <1>3, <1>4, <3>4, <3>5, Zenon DEF Beats
      <3>7. m <= y => a <= c
        BY <1>1, <1>3, Zenon
      <3> HIDE DEF a, b, c
      <3>8. y \in 1 .. m - 1
        BY <1>m, <3>6, <3>7
      <3> QED BY <3>1, <3>2, <3>8, Zenon
    <2> DEFINE h == [x \in 1 .. m |-> CHOOSE y \in 1 .. m - 1 : turn[order[y]] = other[x]]
    <2>2. \A x \in 1 .. m : h[x] \in 1 .. m - 1 /\ turn[order[h[x]]] = other[x]
      <3> SUFFICES ASSUME NEW x \in 1 .. m PROVE h[x] \in 1 .. m - 1 /\ turn[order[h[x]]] = other[x]
        OBVIOUS
      <3>1. h[x] = CHOOSE y \in 1 .. m - 1 : turn[order[y]] = other[x]
        BY Zenon
      <3> HIDE DEF h
      <3> QED BY <2>1, <3>1, Zenon
    <2>3. h \in [1 .. m -> 1 .. m - 1]
      BY <2>2, Zenon
    <2> HIDE DEF h
    <2>5. PICK x \in 1 .. m, y \in 1 .. m : x # y /\ h[x] = h[y]
      BY <1>m, <2>3, TwoAlike, Zenon
    <2>6. other[x] = other[y]
      BY <2>2, <2>5, Zenon
    <2> QED BY <1>2, <1>3, <2>5, <2>6, Zenon
  <1> QED BY <1>5, <1>6, Zenon DEF Among

PairsMeet(own, other) ==
    \A i \in DOMAIN own :
        Score(own[i]) > Score(own[Len(own)]) => \E j \in DOMAIN other : other[j] = Turned(own[i])

(* All pairs are candidates, and so have a score. *)
LEMMA PairsFacts ==
  ASSUME NEW local \in Seq(CandidateRecords), NEW remote \in Seq(CandidateRecords)
  PROVE  LET pairs == AllPairs(local, remote)
         IN  /\ pairs \in Seq(CandidateRecords \X CandidateRecords)
             /\ Len(pairs) = Len(local) * Len(remote)
             /\ [k \in DOMAIN pairs |-> Score(pairs[k])] \in Seq(Int)
             /\ Len([k \in DOMAIN pairs |-> Score(pairs[k])]) = Len(local) * Len(remote)
             /\ \A k \in 1 .. Len(local) * Len(remote) :
                   Score(pairs[k]) \in Int /\ Score(Turned(pairs[k])) = Score(pairs[k])
  <1> DEFINE l == Len(local)
             n == Len(remote)
             pairs == AllPairs(local, remote)
             size == l * n
             keys == [k \in DOMAIN pairs |-> Score(pairs[k])]
  <1>1. l \in Nat /\ n \in Nat
    OBVIOUS
  <1>a. \A q \in 1 .. l : local[q] \in CandidateRecords
    OBVIOUS
  <1>b. \A r \in 1 .. n : remote[r] \in CandidateRecords
    OBVIOUS
  <1>2. pairs = [k \in 1 .. l * n |-> <<local[((k - 1) \div n) + 1], remote[((k - 1) % n) + 1]>>]
    BY Zenon DEF AllPairs
  <1> HIDE DEF l, n, pairs
  <1>3. size \in Nat
    BY <1>1
  <1>4. ASSUME NEW k \in 1 .. size
        PROVE  \E a, b \in CandidateRecords : pairs[k] = <<a, b>>
    <2> DEFINE q == (k - 1) \div n
               r == (k - 1) % n
    <2>a. InTable(k, q, r, l, n)
      BY <1>1, PlaceOf, Zenon
    <2>1. q \in 0 .. l - 1 /\ r \in 0 .. n - 1
      BY <2>a, Zenon DEF InTable
    <2>2. pairs[k] = <<local[q + 1], remote[r + 1]>>
      BY <1>2, Zenon
    <2> HIDE DEF q, r
    <2>3. q + 1 \in 1 .. l /\ r + 1 \in 1 .. n
      BY <1>1, <2>1
    <2>4. local[q + 1] \in CandidateRecords /\ remote[r + 1] \in CandidateRecords
      BY <1>a, <1>b, <2>3, Zenon
    <2> QED BY <2>2, <2>4, Zenon
  <1> HIDE DEF size
  <1>5. DOMAIN pairs = 1 .. size
    BY <1>2, Zenon DEF size
  <1>6. pairs \in [1 .. size -> CandidateRecords \X CandidateRecords]
    <2>1. pairs = [k \in 1 .. size |-> pairs[k]]
      BY <1>2, <1>5
    <2>2. \A k \in 1 .. size : pairs[k] \in CandidateRecords \X CandidateRecords
      <3> SUFFICES ASSUME NEW k \in 1 .. size PROVE pairs[k] \in CandidateRecords \X CandidateRecords
        OBVIOUS
      <3>1. PICK a \in CandidateRecords, b \in CandidateRecords : pairs[k] = <<a, b>>
        BY <1>4, Zenon
      <3> QED BY <3>1
    <2> QED BY <2>1, <2>2, Zenon
  <1>7. pairs \in Seq(CandidateRecords \X CandidateRecords) /\ Len(pairs) = size
    BY <1>3, <1>6, AList
  <1>8. ASSUME NEW k \in 1 .. size
        PROVE  Score(pairs[k]) \in Int /\ Score(Turned(pairs[k])) = Score(pairs[k])
    <2>1. PICK a \in CandidateRecords, b \in CandidateRecords : pairs[k] = <<a, b>>
      BY <1>4, Zenon
    <2>2. Turned(pairs[k]) = <<b, a>>
      BY <2>1 DEF Turned
    <2> QED BY <2>1, <2>2, ScoreTurns, Zenon
  <1>9. keys = [k \in 1 .. size |-> Score(pairs[k])]
    BY <1>5, Zenon
  <1> HIDE DEF keys
  <1>10. keys \in [1 .. size -> Int]
    BY <1>8, <1>9, Zenon
  <1>11. keys \in Seq(Int) /\ Len(keys) = size
    BY <1>3, <1>10, AList
  <1> QED BY <1>7, <1>8, <1>11, Zenon DEF keys, pairs, size, l, n

LEMMA SelectedMeet ==
  ASSUME NEW local \in Seq(CandidateRecords), NEW remote \in Seq(CandidateRecords)
  PROVE  PairsMeet(selected_pairs(local, remote), selected_pairs(remote, local))
  <1> DEFINE l == Len(local)
             n == Len(remote)
             size == l * n
             pairs == AllPairs(local, remote)
             keys == [k \in DOMAIN pairs |-> Score(pairs[k])]
             order == DescendingOrder(keys)
             best == SortedDown(pairs, keys)
             own == FirstOf(best, MaxPairs)
             turned == AllPairs(remote, local)
             keys2 == [k \in DOMAIN turned |-> Score(turned[k])]
             order2 == DescendingOrder(keys2)
             best2 == SortedDown(turned, keys2)
             other == FirstOf(best2, MaxPairs)
             Pairs == CandidateRecords \X CandidateRecords
  <1>1. l \in Nat /\ n \in Nat
    OBVIOUS
  <1>2. /\ pairs \in Seq(Pairs) /\ Len(pairs) = l * n /\ keys \in Seq(Int) /\ Len(keys) = l * n
        /\ \A k \in 1 .. l * n : Score(pairs[k]) \in Int /\ Score(Turned(pairs[k])) = Score(pairs[k])
    BY PairsFacts, Zenon
  <1>3. turned \in Seq(Pairs) /\ Len(turned) = n * l /\ keys2 \in Seq(Int) /\ Len(keys2) = n * l
    BY PairsFacts, Zenon
  <1>4. PICK turn : Turns(turn, pairs, l * n, turned, n * l)
    BY <1>1, PairsTurn, Zenon
  <1>5. own = selected_pairs(local, remote) /\ other = selected_pairs(remote, local)
    BY Zenon DEF selected_pairs, build_candidate_pairs
  <1> HIDE DEF l, n, pairs, turned, Pairs
  <1>6. n * l = size /\ size \in Nat
    BY <1>1
  <1> HIDE DEF size
  <1>7. DOMAIN pairs = 1 .. size /\ DOMAIN turned = 1 .. size
    BY <1>2, <1>3, <1>6 DEF size
  <1>8. /\ \A k \in 1 .. size : keys[k] = Score(pairs[k])
        /\ \A k \in 1 .. size : keys2[k] = Score(turned[k])
    BY <1>7, Zenon
  <1> HIDE DEF keys, keys2
  <1>9. best \in Seq(Pairs) /\ SortedBy(order, best, pairs, keys)
    BY <1>2, SortedFacts, Zenon
  <1>10. best2 \in Seq(Pairs) /\ SortedBy(order2, best2, turned, keys2)
    BY <1>3, SortedFacts, Zenon
  <1> HIDE DEF order, order2, best, best2
  <1>11. /\ Len(best) = size /\ Falls(order, keys, size)
         /\ \A i \in 1 .. size : best[i] = pairs[order[i]]
    BY <1>2, <1>9, Zenon DEF SortedBy, size
  <1>12. /\ Len(best2) = size /\ Falls(order2, keys2, size)
         /\ \A i \in 1 .. size : best2[i] = turned[order2[i]]
    BY <1>3, <1>6, <1>10, Zenon DEF SortedBy
  <1>13. MaxPairs \in Nat
    BY CandidatesAssumption
  <1>14. /\ own \in Seq(Pairs) /\ Len(own) = IF size < MaxPairs THEN size ELSE MaxPairs
         /\ \A i \in 1 .. Len(own) : own[i] = best[i]
    BY <1>9, <1>11, <1>13, FirstOfFacts, Zenon
  <1>15. /\ other \in Seq(Pairs) /\ Len(other) = IF size < MaxPairs THEN size ELSE MaxPairs
         /\ \A i \in 1 .. Len(other) : other[i] = best2[i]
    BY <1>10, <1>12, <1>13, FirstOfFacts, Zenon
  <1> HIDE DEF own, other
  <1> DEFINE m == Len(own)
  <1>16. m \in 0 .. size /\ Len(other) = m
    BY <1>6, <1>13, <1>14, <1>15
  <1>17. DOMAIN own = 1 .. m /\ DOMAIN other = 1 .. m
    BY <1>14, <1>15, <1>16
  <1>18. /\ turn \in [1 .. size -> 1 .. size]
         /\ \A i \in 1 .. size : \E k \in 1 .. size : turn[k] = i
         /\ \A k \in 1 .. size : turned[turn[k]] = Turned(pairs[k])
    BY <1>4, <1>6, Zenon DEF Turns, size
  <1>19. Carries(turn, keys, keys2, size)
    <2>1. ASSUME NEW k \in 1 .. size PROVE keys[k] \in Int /\ keys2[turn[k]] = keys[k]
      <3>1. keys[k] = Score(pairs[k]) /\ Score(pairs[k]) \in Int /\ Score(Turned(pairs[k])) = Score(pairs[k])
        BY <1>2, <1>8, Zenon DEF size
      <3>2. turn[k] \in 1 .. size /\ turned[turn[k]] = Turned(pairs[k])
        BY <1>18, Zenon
      <3>3. keys2[turn[k]] = Score(turned[turn[k]])
        BY <1>8, <3>2, Zenon
      <3> QED BY <3>1, <3>2, <3>3, Zenon
    <2> QED BY <1>18, <2>1, Zenon DEF Carries
  <1>20. \A i \in 1 .. size : order[i] \in 1 .. size /\ order2[i] \in 1 .. size
    BY <1>11, <1>12, Zenon DEF Falls
  <1> HIDE DEF m
  <1>21. ASSUME NEW i \in 1 .. m, Score(own[i]) > Score(own[m])
         PROVE  \E j \in 1 .. m : other[j] = Turned(own[i])
    <2>1. m \in 1 .. size /\ m \in 1 .. m /\ \A x \in 1 .. m : x \in 1 .. size
      BY <1>6, <1>16, Within, Zenon
    <2>2. \A x \in 1 .. m : own[x] = pairs[order[x]] /\ other[x] = turned[order2[x]]
      BY <1>11, <1>12, <1>14, <1>15, <1>16, <2>1, Zenon DEF m
    <2>3. Score(own[i]) = keys[order[i]] /\ Score(own[m]) = keys[order[m]]
      <3>1. own[i] = pairs[order[i]] /\ own[m] = pairs[order[m]]
        BY <2>1, <2>2, Zenon
      <3>2. order[i] \in 1 .. size /\ order[m] \in 1 .. size
        BY <1>20, <2>1, Zenon
      <3> QED BY <1>8, <3>1, <3>2, Zenon
    <2>4. Beats(keys, order, i, m)
      BY <1>21, <2>3, Zenon DEF Beats
    <2>5. PICK j \in 1 .. m : order2[j] = turn[order[i]]
      <3>1. size \in Nat /\ m \in 0 .. size /\ Falls(order, keys, size) /\ Falls(order2, keys2, size)
        BY <1>6, <1>11, <1>12, <1>16, Zenon
      <3>2. Among(turn[order[i]], order2, m)
        BY <1>19, <2>4, <3>1, BestMeet, Zenon
      <3> QED BY <3>2, Zenon DEF Among
    <2>6. other[j] = turned[turn[order[i]]]
      BY <2>2, <2>5, Zenon
    <2>7. turned[turn[order[i]]] = Turned(pairs[order[i]])
      BY <1>18, <1>20, <2>1, Zenon
    <2> QED BY <2>2, <2>6, <2>7, Zenon
  <1> QED BY <1>5, <1>17, <1>21, Zenon DEF PairsMeet, m

-----------------------------------------------------------------------------
(* Duplicates go, addresses stay. *)

DedupStep(kept, candidate) ==
    IF kept # <<>> /\ SameCandidate(kept[Len(kept)], candidate) THEN kept ELSE Append(kept, candidate)

(* The recursive function behind dedup_by exists. *)
LEMMA DedupOf ==
  ASSUME NEW candidates
  PROVE  \E f : /\ f = [n \in Nat |-> IF n = 0 THEN <<>> ELSE DedupStep(f[n - 1], candidates[n])]
                /\ dedup_by(candidates) = f[Len(candidates)]
  <1> DEFINE Def(v, n) == DedupStep(v, candidates[n])
             f == CHOOSE g : g = [i \in Nat |-> IF i = 0 THEN <<>> ELSE Def(g[i - 1], i)]
  <1>1. NatInductiveDefHypothesis(f, <<>>, Def)
    BY DEF NatInductiveDefHypothesis
  <1>2. NatInductiveDefConclusion(f, <<>>, Def)
    BY <1>1, NatInductiveDef, Zenon
  <1>3. f = [i \in Nat |-> IF i = 0 THEN <<>> ELSE Def(f[i - 1], i)]
    BY <1>2, Zenon DEF NatInductiveDefConclusion
  <1>4. dedup_by(candidates) = f[Len(candidates)]
    BY DEF dedup_by, DedupStep
  <1> HIDE DEF f
  <1> QED BY <1>3, <1>4, Zenon

(* kept has candidates of the first n only, and all of their addresses. *)
Covers(kept, candidates, n) ==
    /\ \A j \in 1 .. Len(kept) : \E i \in 1 .. n : kept[j] = candidates[i]
    /\ \A i \in 1 .. n : \E j \in 1 .. Len(kept) : kept[j].addr = candidates[i].addr

LEMMA CoversMore ==
  ASSUME NEW S, NEW candidates, NEW n \in Nat, candidates[n + 1] \in S, NEW kept \in Seq(S),
         Covers(kept, candidates, n)
  PROVE  LET new == DedupStep(kept, candidates[n + 1])
         IN  new \in Seq(S) /\ Covers(new, candidates, n + 1)
  <1> DEFINE c == candidates[n + 1]
             l == Len(kept)
             new == DedupStep(kept, c)
  <1>1. \A i : i \in 1 .. n + 1 <=> i = n + 1 \/ i \in 1 .. n
    OBVIOUS
  <1>2. l \in Nat
    OBVIOUS
  <1>3. /\ \A j \in 1 .. l : \E i \in 1 .. n : kept[j] = candidates[i]
        /\ \A i \in 1 .. n : \E j \in 1 .. l : kept[j].addr = candidates[i].addr
    BY Zenon DEF Covers
  <1>4. CASE kept # <<>> /\ SameCandidate(kept[l], c)
    <2>1. new = kept
      BY <1>4, Zenon DEF DedupStep
    <2>2. l \in 1 .. l
      BY <1>4
    <2>3. kept[l].addr = c.addr
      BY <1>4, Zenon DEF SameCandidate
    <2> HIDE DEF l
    <2>4. \A j \in 1 .. l : \E i \in 1 .. n + 1 : kept[j] = candidates[i]
      BY <1>1, <1>3, Zenon
    <2>5. \A i \in 1 .. n + 1 : \E j \in 1 .. l : kept[j].addr = candidates[i].addr
      BY <1>1, <1>3, <2>2, <2>3, Zenon
    <2>6. Covers(kept, candidates, n + 1)
      BY <2>4, <2>5, Zenon DEF Covers, l
    <2> QED BY <2>1, <2>6, Zenon
  <1>5. CASE ~(kept # <<>> /\ SameCandidate(kept[l], c))
    <2>1. new = Append(kept, c)
      BY <1>5, Zenon DEF DedupStep
    <2>2. /\ new \in Seq(S) /\ Len(new) = l + 1 /\ new[l + 1] = c
          /\ \A j \in 1 .. l : new[j] = kept[j]
      BY <2>1
    <2> HIDE DEF new, l, c
    <2>3. \A j : j \in 1 .. l + 1 <=> j = l + 1 \/ j \in 1 .. l
      BY <1>2
    <2>4. ASSUME NEW j \in 1 .. l + 1 PROVE \E i \in 1 .. n + 1 : new[j] = candidates[i]
      <3>1. CASE j = l + 1
        BY <1>1, <2>2, <3>1, Zenon DEF c
      <3>2. CASE j \in 1 .. l
        <4>1. PICK i \in 1 .. n : kept[j] = candidates[i]
          BY <1>3, <3>2, Zenon
        <4> QED BY <1>1, <2>2, <3>2, <4>1, Zenon
      <3> QED BY <2>3, <3>1, <3>2, Zenon
    <2>5. ASSUME NEW i \in 1 .. n + 1 PROVE \E j \in 1 .. l + 1 : new[j].addr = candidates[i].addr
      <3>1. CASE i = n + 1
        BY <2>2, <2>3, <3>1, Zenon DEF c
      <3>2. CASE i \in 1 .. n
        <4>1. PICK j \in 1 .. l : kept[j].addr = candidates[i].addr
          BY <1>3, <3>2, Zenon
        <4> QED BY <2>2, <2>3, <4>1, Zenon
      <3> QED BY <1>1, <3>1, <3>2, Zenon
    <2> QED BY <2>2, <2>4, <2>5, Zenon DEF Covers, new, c
  <1> QED BY <1>4, <1>5, Zenon DEF l, c

LEMMA DedupByFacts ==
  ASSUME NEW S, NEW candidates \in Seq(S)
  PROVE  /\ dedup_by(candidates) \in Seq(S)
         /\ Covers(dedup_by(candidates), candidates, Len(candidates))
  <1> DEFINE l == Len(candidates)
  <1>1. PICK f : /\ f = [n \in Nat |-> IF n = 0 THEN <<>> ELSE DedupStep(f[n - 1], candidates[n])]
                 /\ dedup_by(candidates) = f[l]
    BY DedupOf, Zenon
  <1>2. l \in Nat /\ \A i \in 1 .. l : candidates[i] \in S
    OBVIOUS
  <1>3. f[0] = <<>> /\ \A n \in Nat : f[n + 1] = DedupStep(f[n], candidates[n + 1])
    <2>1. \A n \in Nat : n + 1 \in Nat /\ n + 1 # 0 /\ (n + 1) - 1 = n
      OBVIOUS
    <2>2. 0 \in Nat
      OBVIOUS
    <2>3. \A n \in Nat : f[n] = IF n = 0 THEN <<>> ELSE DedupStep(f[n - 1], candidates[n])
      BY <1>1, Zenon
    <2>4. f[0] = <<>>
      BY <2>2, <2>3, Zenon
    <2>5. ASSUME NEW n \in Nat PROVE f[n + 1] = DedupStep(f[n], candidates[n + 1])
      <3>1. f[n + 1] = DedupStep(f[(n + 1) - 1], candidates[n + 1])
        BY <2>1, <2>3, Zenon
      <3> QED BY <2>1, <3>1, Zenon
    <2> QED BY <2>4, <2>5, Zenon
  <1> HIDE DEF l
  <1> DEFINE Good(n) == n <= l => f[n] \in Seq(S) /\ Covers(f[n], candidates, n)
             P == {n \in Nat : Good(n)}
  <1>4. Good(0)
    <2>1. <<>> \in Seq(S) /\ \A j : ~(j \in 1 .. Len(<<>>)) /\ ~(j \in 1 .. 0)
      OBVIOUS
    <2>2. Covers(<<>>, candidates, 0)
      BY <2>1, Zenon DEF Covers
    <2> QED BY <1>3, <2>1, <2>2, Zenon
  <1>5. ASSUME NEW n \in Nat, Good(n) PROVE Good(n + 1)
    <2> SUFFICES ASSUME n + 1 <= l PROVE f[n + 1] \in Seq(S) /\ Covers(f[n + 1], candidates, n + 1)
      BY Zenon
    <2>1. n <= l /\ n + 1 \in 1 .. l
      BY <1>2
    <2> DEFINE kept == f[n]
    <2>2. kept \in Seq(S) /\ Covers(kept, candidates, n) /\ candidates[n + 1] \in S
      BY <1>2, <1>5, <2>1, Zenon
    <2> HIDE DEF kept
    <2>3. /\ DedupStep(kept, candidates[n + 1]) \in Seq(S)
          /\ Covers(DedupStep(kept, candidates[n + 1]), candidates, n + 1)
      BY <2>2, CoversMore, Zenon
    <2> QED BY <1>3, <2>3, Zenon DEF kept
  <1> HIDE DEF Good
  <1>6. P = Nat
    <2>1. P \in SUBSET Nat /\ 0 \in P /\ \A n \in Nat : n \in P => n + 1 \in P
      BY <1>4, <1>5
    <2> HIDE DEF P
    <2> QED BY <2>1, Upwards, Zenon
  <1>7. Good(l) /\ l <= l
    BY <1>2, <1>6
  <1> QED BY <1>1, <1>7, Zenon DEF Good, l

Tidied(candidates) == dedup_by(ByPriority(candidates))

LEMMA TidiedFacts ==
  ASSUME NEW candidates \in Seq(CandidateRecords)
  PROVE  /\ Tidied(candidates) \in Seq(CandidateRecords)
         /\ Range(Tidied(candidates)) \subseteq Range(candidates)
         /\ \A x \in Range(candidates) : x.addr \in AddrsOf(Tidied(candidates))
  <1> DEFINE l == Len(candidates)
             keys == [i \in DOMAIN candidates |-> candidates[i].priority]
             sorted == ByPriority(candidates)
             tidied == Tidied(candidates)
  <1>1. l \in Nat /\ DOMAIN candidates = 1 .. l /\ \A i \in 1 .. l : candidates[i] \in CandidateRecords
    OBVIOUS
  <1>2. keys = [i \in 1 .. l |-> candidates[i].priority]
    BY <1>1, Zenon
  <1>3. sorted = SortedDown(candidates, keys)
    BY Zenon DEF ByPriority
  <1> HIDE DEF keys, sorted, l
  <1>4. \A i \in 1 .. l : candidates[i].priority \in Int
    BY <1>1 DEF CandidateRecords
  <1>5. keys \in [1 .. l -> Int]
    BY <1>2, <1>4, Zenon
  <1>6. keys \in Seq(Int) /\ Len(keys) = l
    BY <1>1, <1>5, AList
  <1>7. sorted \in Seq(CandidateRecords) /\ Range(sorted) = Range(candidates)
    <2>1. sorted \in Seq(CandidateRecords)
      BY <1>3, <1>6, SortedFacts, Zenon DEF l
    <2>2. Range(sorted) = Range(candidates)
      BY <1>3, <1>6, SortedRange, Zenon DEF l
    <2> QED BY <2>1, <2>2
  <1>t. tidied = dedup_by(sorted)
    BY Zenon DEF Tidied, sorted
  <1>8. tidied \in Seq(CandidateRecords) /\ Covers(tidied, sorted, Len(sorted))
    BY <1>7, <1>t, DedupByFacts, Zenon
  <1> HIDE DEF tidied
  <1>9. ASSUME NEW x \in Range(tidied) PROVE x \in Range(sorted)
    <2>1. PICK j \in 1 .. Len(tidied) : x = tidied[j]
      BY <1>8, EntryAt, Zenon
    <2>2. PICK i \in 1 .. Len(sorted) : tidied[j] = sorted[i]
      BY <1>8, Zenon DEF Covers
    <2>3. sorted[i] \in Range(sorted)
      BY <1>7, EntryIn, Zenon
    <2> QED BY <2>1, <2>2, <2>3, Zenon
  <1>10. ASSUME NEW x \in Range(sorted) PROVE x.addr \in AddrsOf(tidied)
    <2>1. PICK i \in 1 .. Len(sorted) : x = sorted[i]
      BY <1>7, EntryAt, Zenon
    <2>2. PICK j \in 1 .. Len(tidied) : tidied[j].addr = sorted[i].addr
      BY <1>8, Zenon DEF Covers
    <2>3. DOMAIN tidied = 1 .. Len(tidied)
      BY <1>8
    <2> QED BY <2>1, <2>2, <2>3, Zenon DEF AddrsOf
  <1> QED BY <1>7, <1>8, <1>9, <1>10, Zenon DEF tidied

(* What the probe found is advertised with the mapping. *)
LEMMA MergeFacts ==
  ASSUME NEW base \in Seq(CandidateRecords), NEW mapped \in Mappings \cup {NoAddr}
  PROVE  /\ merge_mapped_candidate(base, mapped) \in Seq(CandidateRecords)
         /\ \A x \in Range(base) : x.source # "PortMapping" =>
                x.addr \in AddrsOf(merge_mapped_candidate(base, mapped))
  <1> DEFINE keep == {i \in DOMAIN base : base[i].source # "PortMapping"}
             others == Picked(base, keep)
             mine == as_candidate(mapped)
  <1>1. others \in Seq(CandidateRecords)
    BY PickedFacts, Zenon
  <1>2. mine \in Seq(CandidateRecords)
    <2>1. CASE mapped = NoAddr
      BY <2>1 DEF as_candidate
    <2>2. CASE mapped # NoAddr
      <3>1. mapped \in Int
        BY <2>2, CandidatesAssumption
      <3>2. Public(mapped) \in SocketAddrs
        BY <3>1 DEF Public, SocketAddrs
      <3>3. Candidate("ServerReflexive", "PortMapping", 90, Public(mapped)) \in CandidateRecords
        BY <3>2 DEF Candidate, CandidateRecords, CandidateKind, CandidateSource
      <3>4. mine = <<Candidate("ServerReflexive", "PortMapping", 90, Public(mapped))>>
        BY <2>2, Zenon DEF as_candidate
      <3> HIDE DEF mine
      <3> DEFINE one == Candidate("ServerReflexive", "PortMapping", 90, Public(mapped))
      <3> HIDE DEF one
      <3>5. one \in CandidateRecords /\ mine = <<one>>
        BY <3>3, <3>4 DEF one
      <3> QED BY <3>5
    <2> QED BY <2>1, <2>2
  <1>3. ASSUME NEW x \in Range(base), x.source # "PortMapping" PROVE x \in Range(others)
    <2>1. PICK i \in 1 .. Len(base) : x = base[i]
      BY EntryAt, Zenon
    <2>2. DOMAIN base = 1 .. Len(base)
      OBVIOUS
    <2>3. i \in keep
      BY <1>3, <2>1, <2>2, Zenon
    <2> HIDE DEF keep
    <2> QED BY <2>1, <2>3, PickedRange, Zenon
  <1>4. merge_mapped_candidate(base, mapped) = Tidied(others \o mine)
    BY Zenon DEF merge_mapped_candidate, Tidied
  <1> HIDE DEF others, mine
  <1> DEFINE all == others \o mine
  <1>a. others \in Seq(CandidateRecords) /\ mine \in Seq(CandidateRecords)
    BY <1>1, <1>2, Zenon
  <1>b. Range(all) = Range(others) \cup Range(mine)
    <2>1. Range(all) = RangesOf(others, mine)
      BY <1>a, JoinedRange, Zenon
    <2> QED BY <2>1, Zenon DEF RangesOf
  <1>c. all \in Seq(CandidateRecords)
    BY <1>a, Joined, Zenon
  <1>5. all \in Seq(CandidateRecords) /\ Range(all) = Range(others) \cup Range(mine)
    BY <1>b, <1>c, Zenon
  <1> HIDE DEF all
  <1>6. /\ Tidied(all) \in Seq(CandidateRecords)
        /\ \A x \in Range(all) : x.addr \in AddrsOf(Tidied(all))
    BY <1>5, TidiedFacts, Zenon
  <1> QED BY <1>3, <1>4, <1>5, <1>6, Zenon DEF all

-----------------------------------------------------------------------------
(* Ports at a fixed distance *)

(* Numbers that rise from 0 to n - 1 in n places, none left out, count the places. *)
LEMMA CountsUp ==
  ASSUME NEW n \in Nat, n > 0, NEW a, \A k \in 1 .. n : a[k] \in 0 .. n - 1,
         \A j, k \in 1 .. n : j <= k => a[j] <= a[k],
         \A v \in 0 .. n - 1 : \E k \in 1 .. n : a[k] = v
  PROVE  \A k \in 1 .. n : a[k] = k - 1
  <1>0. \A k \in 1 .. n : a[k] \in Int
    OBVIOUS
  <1>1. a[1] = 0
    <2>1. PICK k \in 1 .. n : a[k] = 0
      OBVIOUS
    <2>2. 1 \in 1 .. n /\ 1 <= k
      OBVIOUS
    <2>3. a[1] <= 0 /\ a[1] \in 0 .. n - 1
      BY <2>1, <2>2, Zenon
    <2> QED BY <2>3
  <1>2. a[n] = n - 1
    <2>1. PICK k \in 1 .. n : a[k] = n - 1
      OBVIOUS
    <2>2. n \in 1 .. n /\ k <= n
      OBVIOUS
    <2>3. n - 1 <= a[n] /\ a[n] \in 0 .. n - 1
      BY <2>1, <2>2, Zenon
    <2> QED BY <2>3
  <1>3. ASSUME NEW k \in 1 .. n - 1 PROVE a[k + 1] <= a[k] + 1
    <2> SUFFICES ASSUME ~(a[k + 1] <= a[k] + 1) PROVE FALSE
      OBVIOUS
    <2>1. k \in 1 .. n /\ k + 1 \in 1 .. n
      OBVIOUS
    <2> DEFINE x == a[k]
               y == a[k + 1]
    <2>2. x \in 0 .. n - 1 /\ y \in 0 .. n - 1 /\ ~(y <= x + 1)
      BY <2>1, Zenon
    <2> HIDE DEF x, y
    <2>3. x + 1 \in 0 .. n - 1 /\ x + 1 < y /\ x < x + 1
      BY <2>2
    <2>4. PICK j \in 1 .. n : a[j] = x + 1
      BY <2>3, Zenon
    <2>5. j <= k \/ k + 1 <= j
      BY <2>1
    <2>6. j <= k => x + 1 <= x
      BY <2>1, <2>4, Zenon DEF x
    <2>7. k + 1 <= j => y <= x + 1
      BY <2>1, <2>4, Zenon DEF y
    <2> QED BY <2>2, <2>3, <2>5, <2>6, <2>7
  <1> DEFINE Low(i) == i < n => a[i + 1] <= i
             High(i) == i < n => a[n - i] >= n - 1 - i
             P == {i \in Nat : Low(i) /\ High(i)}
  <1>4. Low(0) /\ High(0)
    BY <1>1, <1>2
  <1>5. ASSUME NEW i \in Nat, Low(i), High(i) PROVE Low(i + 1) /\ High(i + 1)
    <2> SUFFICES ASSUME i + 1 < n PROVE a[(i + 1) + 1] <= i + 1 /\ a[n - (i + 1)] >= n - 1 - (i + 1)
      OBVIOUS
    <2>1. i + 1 \in 1 .. n - 1 /\ n - (i + 1) \in 1 .. n - 1 /\ i < n
      OBVIOUS
    <2>2. a[(i + 1) + 1] <= a[i + 1] + 1 /\ a[i + 1] <= i
      BY <1>3, <1>5, <2>1, Zenon
    <2>3. (n - (i + 1)) + 1 = n - i
      OBVIOUS
    <2>4. a[(n - (i + 1)) + 1] <= a[n - (i + 1)] + 1
      BY <1>3, <2>1, Zenon
    <2>5. a[n - i] <= a[n - (i + 1)] + 1 /\ a[n - i] >= n - 1 - i
      BY <1>5, <2>1, <2>3, <2>4, Zenon
    <2> DEFINE p == a[(i + 1) + 1]
               q == a[i + 1]
               r == a[n - i]
               s == a[n - (i + 1)]
    <2>6. p \in Int /\ q \in Int /\ r \in Int /\ s \in Int
      <3>1. (i + 1) + 1 \in 1 .. n /\ i + 1 \in 1 .. n /\ n - i \in 1 .. n /\ n - (i + 1) \in 1 .. n
        OBVIOUS
      <3> QED BY <1>0, <3>1, Zenon
    <2>7. p <= q + 1 /\ q <= i /\ r <= s + 1 /\ r >= n - 1 - i
      BY <2>2, <2>5, Zenon
    <2> HIDE DEF p, q, r, s
    <2>8. p <= i + 1 /\ s >= n - 1 - (i + 1)
      BY <2>6, <2>7
    <2> QED BY <2>8 DEF p, s
  <1> HIDE DEF Low, High
  <1>6. P = Nat
    <2>1. P \in SUBSET Nat /\ 0 \in P /\ \A i \in Nat : i \in P => i + 1 \in P
      BY <1>4, <1>5
    <2> HIDE DEF P
    <2> QED BY <2>1, Upwards, Zenon
  <1>7. ASSUME NEW k \in 1 .. n PROVE a[k] = k - 1
    <2>1. k - 1 \in Nat /\ k - 1 < n /\ (k - 1) + 1 = k /\ n - k \in Nat /\ n - k < n /\ n - (n - k) = k
      OBVIOUS
    <2>2. a[k] <= k - 1
      <3>1. Low(k - 1)
        BY <1>6, <2>1, Zenon
      <3> QED BY <2>1, <3>1, Zenon DEF Low
    <2>3. a[k] >= n - 1 - (n - k)
      <3>1. High(n - k)
        BY <1>6, <2>1, Zenon
      <3> QED BY <2>1, <3>1, Zenon DEF High
    <2>4. a[k] \in Int
      BY <1>0
    <2> DEFINE x == a[k]
    <2> HIDE DEF x
    <2>5. x \in Int /\ x <= k - 1 /\ x >= n - 1 - (n - k)
      BY <2>2, <2>3, <2>4 DEF x
    <2>6. x = k - 1
      BY <2>5
    <2> QED BY <2>6 DEF x
  <1> QED BY <1>7

LEMMA TimesOrder ==
  ASSUME NEW d \in Nat, d > 0, NEW low \in Int, NEW x \in Int, NEW y \in Int
  PROVE  /\ low + d * x \in Int
         /\ low + d * x <= low + d * y <=> x <= y
  <1>1. x < y => d * x < d * y
    OBVIOUS
  <1>2. y < x => d * y < d * x
    OBVIOUS
  <1>3. d * x \in Int /\ d * y \in Int
    OBVIOUS
  <1> DEFINE a == d * x
             b == d * y
  <1>4. a \in Int /\ b \in Int /\ (x < y => a < b) /\ (y < x => b < a) /\ (x = y => a = b)
    BY <1>1, <1>2, <1>3
  <1> HIDE DEF a, b
  <1>5. /\ low + a \in Int
        /\ low + a <= low + b <=> x <= y
    BY <1>4
  <1> QED BY <1>5 DEF a, b

Spaced(list, low, d) == Range(list) = {low + d * i : i \in 0 .. Len(list) - 1}

Rising(list, n) == \A i, j \in 1 .. n : i <= j => list[i] <= list[j]

LEMMA SpacedRising ==
  ASSUME NEW list \in Seq(Int), NEW n \in Nat, n > 0, Len(list) = n, NEW low \in Int, NEW d \in Nat, d > 0,
         Spaced(list, low, d), Rising(list, n)
  PROVE  \A k \in 1 .. n : list[k] = low + d * (k - 1)
  <1> DEFINE Is(k, i) == list[k] = low + d * i
             a == [k \in 1 .. n |-> CHOOSE i \in 0 .. n - 1 : Is(k, i)]
  <1>1. \A x : x \in Range(list) <=> \E i \in 0 .. n - 1 : x = low + d * i
    BY Zenon DEF Spaced
  <1>2. ASSUME NEW k \in 1 .. n PROVE a[k] \in 0 .. n - 1 /\ list[k] = low + d * a[k]
    <2>1. list[k] \in Range(list)
      BY EntryIn, Zenon
    <2>2. \E i \in 0 .. n - 1 : Is(k, i)
      BY <1>1, <2>1, Zenon
    <2>3. a[k] = CHOOSE i \in 0 .. n - 1 : Is(k, i)
      BY Zenon
    <2> HIDE DEF a, Is
    <2>4. a[k] \in 0 .. n - 1 /\ Is(k, a[k])
      BY <2>2, <2>3, Zenon
    <2> QED BY <2>4 DEF Is
  <1> HIDE DEF a
  <1>3. \A k \in 1 .. n : a[k] \in Int
    BY <1>2
  <1>4. ASSUME NEW j \in 1 .. n, NEW k \in 1 .. n, j <= k PROVE a[j] <= a[k]
    <2>1. list[j] <= list[k]
      BY <1>4, Zenon DEF Rising
    <2> DEFINE x == a[j]
               y == a[k]
    <2>2. x \in Int /\ y \in Int /\ low + d * x <= low + d * y
      BY <1>2, <1>3, <2>1, Zenon
    <2> HIDE DEF x, y
    <2>3. x <= y
      BY <2>2, TimesOrder, Zenon
    <2> QED BY <2>3 DEF x, y
  <1>5. ASSUME NEW v \in 0 .. n - 1 PROVE \E k \in 1 .. n : a[k] = v
    <2>1. low + d * v \in Range(list)
      BY <1>1, Zenon
    <2>2. PICK k \in 1 .. n : low + d * v = list[k]
      BY <2>1, EntryAt, Zenon
    <2> DEFINE x == a[k]
    <2>3. x \in Int /\ low + d * v = low + d * x
      BY <1>2, <1>3, <2>2, Zenon
    <2>4. v \in Int
      OBVIOUS
    <2> HIDE DEF x
    <2>5. v = x
      <3> DEFINE p == low + d * v
                 q == low + d * x
      <3>1. p \in Int /\ q \in Int /\ (p <= q <=> v <= x) /\ (q <= p <=> x <= v)
        BY <2>3, <2>4, TimesOrder, Zenon
      <3>2. p = q
        BY <2>3, Zenon
      <3> HIDE DEF p, q
      <3> QED BY <2>3, <2>4, <3>1, <3>2
    <2> QED BY <2>5, Zenon DEF x
  <1>6. \A k \in 1 .. n : a[k] \in 0 .. n - 1
    BY <1>2, Zenon
  <1>7. \A k \in 1 .. n : a[k] = k - 1
    BY <1>4, <1>5, <1>6, CountsUp
  <1> QED BY <1>2, <1>7, Zenon

Upward(ports) == SortedDown(ports, [i \in DOMAIN ports |-> -ports[i]])

LEMMA UpwardFacts ==
  ASSUME NEW ports \in Seq(Int)
  PROVE  /\ Upward(ports) \in Seq(Int) /\ Len(Upward(ports)) = Len(ports)
         /\ Range(Upward(ports)) = Range(ports) /\ Rising(Upward(ports), Len(ports))
  <1> DEFINE n == Len(ports)
             keys == [i \in DOMAIN ports |-> -ports[i]]
             order == DescendingOrder(keys)
             s == Upward(ports)
  <1>1. n \in Nat /\ DOMAIN ports = 1 .. n /\ \A i \in 1 .. n : ports[i] \in Int /\ -ports[i] \in Int
    OBVIOUS
  <1>2. s = SortedDown(ports, keys)
    BY Zenon DEF Upward
  <1>3. keys = [i \in 1 .. n |-> -ports[i]]
    BY <1>1, Zenon
  <1> HIDE DEF n, keys, s
  <1>4. keys \in [1 .. n -> Int] /\ \A i \in 1 .. n : keys[i] = -ports[i]
    BY <1>1, <1>3, Zenon
  <1>5. keys \in Seq(Int) /\ Len(keys) = n
    BY <1>1, <1>4, AList
  <1>6. s \in Seq(Int) /\ SortedBy(order, s, ports, keys)
    BY <1>2, <1>5, SortedFacts, Zenon DEF n
  <1>7. Range(s) = Range(ports)
    BY <1>2, <1>5, SortedRange, Zenon DEF n
  <1> HIDE DEF order
  <1>8. /\ Len(s) = n
        /\ \A i \in 1 .. n : order[i] \in 1 .. n /\ s[i] = ports[order[i]]
        /\ \A i, j \in 1 .. n : i <= j => keys[order[j]] <= keys[order[i]]
    BY <1>6, Zenon DEF SortedBy, Falls, n
  <1>9. ASSUME NEW i \in 1 .. n, NEW j \in 1 .. n, i <= j PROVE s[i] <= s[j]
    <2> DEFINE x == ports[order[i]]
               y == ports[order[j]]
    <2>1. order[i] \in 1 .. n /\ order[j] \in 1 .. n /\ s[i] = x /\ s[j] = y
      BY <1>8, Zenon
    <2>2. x \in Int /\ y \in Int /\ -y <= -x
      BY <1>1, <1>4, <1>8, <1>9, <2>1, Zenon
    <2> HIDE DEF x, y
    <2>3. x <= y
      BY <2>2
    <2> QED BY <2>1, <2>3, Zenon
  <1> QED BY <1>6, <1>7, <1>8, <1>9, Zenon DEF Rising, s, n

(* infer_port_delta_pattern finds the distance, in whatever order the answers came. *)
LEMMA DeltaFound ==
  ASSUME NEW ports \in Seq(Int), NEW n \in Nat, n >= 2, Len(ports) = n, NEW low \in Int,
         NEW d \in 1 .. MaxDelta, Spaced(ports, low, d)
  PROVE  infer_port_delta_pattern(ports) = d
  <1> DEFINE s == Upward(ports)
             deltas == Deltas(s)
  <1>1. MaxDelta \in Nat
    BY CandidatesAssumption
  <1>2. d \in Nat /\ d > 0 /\ n > 0
    BY <1>1
  <1>3. s \in Seq(Int) /\ Len(s) = n /\ Range(s) = Range(ports) /\ Rising(s, n)
    BY UpwardFacts, Zenon
  <1>4. infer_port_delta_pattern(ports) =
           IF Len(ports) >= 2 /\ Range(deltas) = {deltas[1]} /\ deltas[1] \in 1 .. MaxDelta
           THEN deltas[1] ELSE 1
    BY Zenon DEF infer_port_delta_pattern, Upward
  <1> HIDE DEF s
  <1>5. Spaced(s, low, d)
    BY <1>3, Zenon DEF Spaced
  <1>6. \A k \in 1 .. n : s[k] = low + d * (k - 1)
    BY <1>2, <1>3, <1>5, SpacedRising, Zenon
  <1>7. ASSUME NEW i \in 1 .. n - 1 PROVE s[i + 1] - s[i] = d
    <2>1. i \in 1 .. n /\ i + 1 \in 1 .. n /\ (i + 1) - 1 = i
      OBVIOUS
    <2>2. s[i + 1] = low + d * i /\ s[i] = low + d * (i - 1)
      BY <1>6, <2>1
    <2>3. d * (i - 1) = d * i - d /\ d * i \in Int
      BY <1>2
    <2> DEFINE x == d * i
               y == d * (i - 1)
    <2> HIDE DEF x, y
    <2>4. (low + x) - (low + y) = d
      BY <1>2, <2>3 DEF x, y
    <2> QED BY <2>2, <2>4 DEF x, y
  <1>8. deltas = [i \in 1 .. n - 1 |-> s[i + 1] - s[i]]
    BY <1>3, Zenon DEF Deltas
  <1> HIDE DEF deltas
  <1>9. DOMAIN deltas = 1 .. n - 1 /\ 1 \in 1 .. n - 1 /\ \A i \in 1 .. n - 1 : deltas[i] = d
    BY <1>7, <1>8
  <1>10. Range(deltas) = {d} /\ deltas[1] = d
    BY <1>9 DEF Range
  <1> QED BY <1>4, <1>10

Highest(ports) == CHOOSE p \in Range(ports) : \A q \in Range(ports) : q <= p

LEMMA HighestFacts ==
  ASSUME NEW ports \in Seq(Int), NEW n \in Nat, n > 0, Len(ports) = n
  PROVE  Highest(ports) \in Range(ports) /\ \A q \in Range(ports) : q <= Highest(ports)
  <1> DEFINE s == Upward(ports)
  <1>1. s \in Seq(Int) /\ Len(s) = n /\ Range(s) = Range(ports) /\ Rising(s, n)
    BY UpwardFacts, Zenon
  <1> HIDE DEF s
  <1>2. n \in 1 .. n /\ \A k \in 1 .. n : k <= n
    OBVIOUS
  <1>3. s[n] \in Range(ports)
    BY <1>1, <1>2, EntryIn, Zenon
  <1>4. ASSUME NEW q \in Range(ports) PROVE q <= s[n]
    <2>1. PICK k \in 1 .. n : q = s[k]
      BY <1>1, EntryAt, Zenon
    <2> QED BY <1>1, <1>2, <2>1, Zenon DEF Rising
  <1> QED BY <1>3, <1>4, Zenon DEF Highest

LEMMA HighestSpaced ==
  ASSUME NEW ports \in Seq(Int), NEW n \in Nat, n >= 2, Len(ports) = n, NEW low \in Int,
         NEW d \in 1 .. MaxDelta, Spaced(ports, low, d)
  PROVE  Highest(ports) = low + d * (n - 1)
  <1> DEFINE h == Highest(ports)
  <1>1. MaxDelta \in Nat
    BY CandidatesAssumption
  <1>2. d \in Nat /\ d > 0 /\ n > 0 /\ n - 1 \in 0 .. n - 1
    BY <1>1
  <1>3. h \in Range(ports) /\ \A q \in Range(ports) : q <= h
    BY <1>2, HighestFacts, Zenon
  <1> HIDE DEF h
  <1>4. PICK i \in 0 .. n - 1 : h = low + d * i
    BY <1>3, Zenon DEF Spaced
  <1>5. low + d * (n - 1) <= low + d * i
    BY <1>2, <1>3, <1>4, Zenon DEF Spaced
  <1>6. i \in Int /\ n - 1 \in Int
    OBVIOUS
  <1> DEFINE m == n - 1
  <1>7. m <= i
    <2> HIDE DEF m
    <2>1. low + d * m <= low + d * i <=> m <= i
      BY <1>2, <1>6, TimesOrder, Zenon DEF m
    <2> QED BY <1>5, <2>1, Zenon DEF m
  <1>8. i = n - 1
    BY <1>7
  <1> QED BY <1>4, <1>8, Zenon DEF h

(* The ports are not all the same. *)
LEMMA SpacedIsSymmetric ==
  ASSUME NEW ports \in Seq(Int), NEW n \in Nat, n >= 2, Len(ports) = n, NEW low \in Int,
         NEW d \in 1 .. MaxDelta, Spaced(ports, low, d)
  PROVE  infer_nat_type(ports) = "Symmetric"
  <1>1. MaxDelta \in Nat
    BY CandidatesAssumption
  <1>2. d \in Nat /\ d > 0 /\ 0 \in 0 .. n - 1 /\ 1 \in 0 .. n - 1 /\ 1 \in 1 .. n
    BY <1>1
  <1>3. ~(n < 2)
    OBVIOUS
  <1>4. ASSUME \A i \in 1 .. n - 1 : ports[i] = ports[i + 1] PROVE FALSE
    <2>1. low + d * 0 \in Range(ports) /\ low + d * 1 \in Range(ports)
      BY <1>2, Zenon DEF Spaced
    <2>2. low + d * 0 # low + d * 1
      BY <1>2
    <2> DEFINE S == {k \in 1 .. n : ports[k] # ports[1]}
    <2>3. S # {}
      <3>1. PICK i \in 1 .. n : low + d * 0 = ports[i]
        BY <2>1, EntryAt, Zenon
      <3>2. PICK j \in 1 .. n : low + d * 1 = ports[j]
        BY <2>1, EntryAt, Zenon
      <3> QED BY <2>2, <3>1, <3>2, Zenon
    <2>4. S \in SUBSET Nat
      OBVIOUS
    <2> HIDE DEF S
    <2>5. PICK k \in S : \A j \in S : k <= j
      BY <2>3, <2>4, LeastOf, Zenon
    <2>6. k \in 1 .. n /\ ports[k] # ports[1]
      BY <2>5, Zenon DEF S
    <2>7. k # 1
      BY <2>6, Zenon
    <2>8. k - 1 \in 1 .. n - 1 /\ k - 1 \in 1 .. n /\ (k - 1) + 1 = k /\ ~(k <= k - 1)
      BY <2>6, <2>7
    <2>9. ports[k - 1] = ports[k]
      BY <1>4, <2>8, Zenon
    <2>10. k - 1 \in S
      BY <2>6, <2>8, <2>9, Zenon DEF S
    <2> QED BY <2>5, <2>8, <2>10, Zenon
  <1>5. ~(\A i \in 1 .. Len(ports) - 1 : ports[i] = ports[i + 1])
    BY <1>4, Zenon
  <1> QED BY <1>3, <1>5, Zenon DEF infer_nat_type

(* The ports to come, as far as they are ports; see predict_from_fingerprint. *)
Ahead(ports) == [i \in 1 .. Forward |-> Highest(ports) + infer_port_delta_pattern(ports) * i]
Forwards(ports) == Picked(Ahead(ports), {i \in 1 .. Forward : Ahead(ports)[i] \in Ports})
NearHighest(ports) == [i \in 1 .. 2 * Window + 1 |-> Highest(ports) - Window - 1 + i]
Around(ports) ==
    Picked(NearHighest(ports), {i \in DOMAIN NearHighest(ports) :
                            NearHighest(ports)[i] \in Ports \ ({Highest(ports)} \cup Range(Forwards(ports)))})

LEMMA PredictIs ==
  ASSUME NEW ports
  PROVE  predict_from_fingerprint(ports) =
            IF infer_nat_type(ports) = "Symmetric" THEN Forwards(ports) \o Around(ports) ELSE <<>>
  BY Zenon DEF predict_from_fingerprint, Highest, Ahead, Forwards, NearHighest, Around

LEMMA ForwardsFacts ==
  ASSUME NEW ports \in Seq(Int), NEW n \in Nat, n > 0, Len(ports) = n
  PROVE  /\ Forwards(ports) \in Seq(Int) /\ Around(ports) \in Seq(Int)
         /\ Ahead(ports) \in Seq(Int) /\ Len(Ahead(ports)) = Forward
  <1> DEFINE h == Highest(ports)
             d == infer_port_delta_pattern(ports)
             ahead == Ahead(ports)
             near == NearHighest(ports)
  <1>1. Forward \in Nat /\ Window \in Nat /\ MaxDelta \in Nat
    BY CandidatesAssumption
  <1>2. h \in Int
    <2>1. h \in Range(ports)
      BY HighestFacts, Zenon
    <2>2. PICK i \in 1 .. Len(ports) : h = ports[i]
      BY <2>1, EntryAt, Zenon
    <2> QED BY <2>2
  <1>3. d \in Int
    <2> DEFINE deltas == Deltas(Upward(ports))
    <2>1. d = IF Len(ports) >= 2 /\ Range(deltas) = {deltas[1]} /\ deltas[1] \in 1 .. MaxDelta
              THEN deltas[1] ELSE 1
      BY Zenon DEF infer_port_delta_pattern, Upward
    <2> HIDE DEF d, deltas
    <2> QED BY <1>1, <2>1
  <1>4. ahead = [i \in 1 .. Forward |-> h + d * i]
    BY Zenon DEF Ahead
  <1>5. near = [i \in 1 .. 2 * Window + 1 |-> h - Window - 1 + i]
    BY Zenon DEF NearHighest
  <1> HIDE DEF h, d, ahead, near
  <1>6. \A i \in 1 .. Forward : h + d * i \in Int
    BY <1>1, <1>2, <1>3
  <1>7. ahead \in [1 .. Forward -> Int]
    BY <1>4, <1>6, Zenon
  <1>8. ahead \in Seq(Int) /\ Len(ahead) = Forward
    BY <1>1, <1>7, AList
  <1> DEFINE w == 2 * Window + 1
  <1>9. w \in Nat /\ \A i \in 1 .. w : h - Window - 1 + i \in Int
    BY <1>1, <1>2
  <1>10. near \in [1 .. w -> Int]
    BY <1>5, <1>9, Zenon
  <1> HIDE DEF w
  <1>11. near \in Seq(Int)
    BY <1>9, <1>10, AList
  <1>12. Forwards(ports) \in Seq(Int)
    BY <1>8, PickedFacts, Zenon DEF Forwards, ahead
  <1>13. Around(ports) \in Seq(Int)
    BY <1>11, PickedFacts, Zenon DEF Around, near
  <1> QED BY <1>8, <1>12, <1>13, Zenon DEF ahead

LEMMA PredictType ==
  ASSUME NEW ports \in Seq(Int)
  PROVE  predict_from_fingerprint(ports) \in Seq(Int)
  <1>1. CASE infer_nat_type(ports) = "Symmetric"
    <2>1. ~(Len(ports) < 2)
      BY <1>1 DEF infer_nat_type
    <2>2. Len(ports) \in Nat /\ Len(ports) > 0
      BY <2>1
    <2> DEFINE f == Forwards(ports)
               r == Around(ports)
    <2>3. f \in Seq(Int) /\ r \in Seq(Int)
      BY <2>2, ForwardsFacts, Zenon
    <2> HIDE DEF f, r
    <2>4. f \o r \in Seq(Int)
      BY <2>3, Joined, Zenon
    <2> QED BY <1>1, <2>4, PredictIs, Zenon DEF f, r
  <1>2. CASE infer_nat_type(ports) # "Symmetric"
    <2>1. predict_from_fingerprint(ports) = <<>>
      BY <1>2, PredictIs, Zenon
    <2> QED BY <2>1
  <1> QED BY <1>1, <1>2

LEMMA PredictsNext ==
  ASSUME NEW ports \in Seq(Int), NEW n \in Nat, n >= 2, Len(ports) = n, NEW low \in Int,
         NEW d \in 1 .. MaxDelta, Spaced(ports, low, d),
         NEW i \in n .. n + Forward - 1, low + d * i \in Ports
  PROVE  low + d * i \in Range(predict_from_fingerprint(ports))
  <1> DEFINE ahead == Ahead(ports)
             f == Forwards(ports)
             r == Around(ports)
             k == i - n + 1
             port == low + d * i
             keep == {j \in 1 .. Forward : ahead[j] \in Ports}
  <1>1. n > 0 /\ Forward \in Nat /\ MaxDelta \in Nat
    BY CandidatesAssumption
  <1>2. infer_nat_type(ports) = "Symmetric"
    BY SpacedIsSymmetric, Zenon
  <1>3. f \in Seq(Int) /\ r \in Seq(Int) /\ ahead \in Seq(Int) /\ Len(ahead) = Forward
    BY <1>1, ForwardsFacts, Zenon
  <1>4. k \in 1 .. Forward
    BY <1>1
  <1>5. ahead[k] = port
    <2>1. infer_port_delta_pattern(ports) = d
      BY DeltaFound, Zenon
    <2>2. Highest(ports) = low + d * (n - 1)
      BY HighestSpaced, Zenon
    <2>3. ahead[k] = Highest(ports) + infer_port_delta_pattern(ports) * k
      BY <1>4, Zenon DEF Ahead
    <2>4. ahead[k] = low + d * (n - 1) + d * k
      BY <2>1, <2>2, <2>3, Zenon
    <2>5. d * (n - 1) + d * k = d * i /\ d * (n - 1) \in Int /\ d * k \in Int
      BY <1>1, <1>4
    <2> DEFINE x == d * (n - 1)
               y == d * k
               z == d * i
    <2>6. x \in Int /\ y \in Int /\ x + y = z
      BY <2>5
    <2> HIDE DEF x, y, z
    <2>7. low + x + y = low + z
      BY <2>6
    <2> QED BY <2>4, <2>7, Zenon DEF x, y, z
  <1>6. f = Picked(ahead, keep)
    BY Zenon DEF Forwards
  <1> HIDE DEF ahead, k, port
  <1>7. k \in keep /\ k \in 1 .. Len(ahead)
    BY <1>3, <1>4, <1>5, Zenon DEF port
  <1> HIDE DEF keep, f, r
  <1>8. port \in Range(f)
    BY <1>3, <1>5, <1>6, <1>7, PickedRange, Zenon
  <1>9. Range(f \o r) = Range(f) \cup Range(r)
    <2>1. f \in Seq(Int) /\ r \in Seq(Int)
      BY <1>3, Zenon
    <2>2. Range(f \o r) = RangesOf(f, r)
      BY <2>1, JoinedRange, Zenon
    <2> QED BY <2>2, Zenon DEF RangesOf
  <1>10. predict_from_fingerprint(ports) = f \o r
    BY <1>2, PredictIs, Zenon DEF f, r
  <1> QED BY <1>8, <1>9, <1>10, Zenon DEF port

-----------------------------------------------------------------------------
(* What an edge advertises *)

LEMMA PublicAddrs ==
  ASSUME NEW port \in Int
  PROVE  Public(port) \in SocketAddrs
  BY DEF Public, SocketAddrs

(* Candidates that no mapping replaces *)
Found == {c \in CandidateRecords : c.source # "PortMapping"}

LEMMA CandidateIs ==
  ASSUME NEW kind \in CandidateKind, NEW source \in CandidateSource \ {"PortMapping"},
         NEW priority \in Int, NEW addr \in SocketAddrs
  PROVE  /\ Candidate(kind, source, priority, addr) \in Found
         /\ Candidate(kind, source, priority, addr).addr = addr
  BY DEF Candidate, CandidateRecords, Found

LEMMA ListIs ==
  ASSUME NEW l \in Nat, NEW S, NEW list, DOMAIN list = 1 .. l, list = [i \in 1 .. l |-> list[i]],
         \A i \in 1 .. l : list[i] \in S
  PROVE  list \in Seq(S) /\ Len(list) = l
  <1>1. list \in [1 .. l -> S]
    BY Zenon
  <1> QED BY <1>1, AList

Local(hosts) ==
    [i \in DOMAIN hosts |-> Candidate(hosts[i].kind, "LocalInterface", 100, hosts[i].addr)]
Probed(ports) ==
    [i \in DOMAIN ports |-> Candidate("ServerReflexive", "StunPrimary", 80, Public(ports[i]))]
Guessed(ports) ==
    [i \in DOMAIN ports |-> Candidate("PortPredicted", "PortPrediction", 50, Public(ports[i]))]

LEMMA LocalFacts ==
  ASSUME NEW hosts \in Interfaces
  PROVE  Local(hosts) \in Seq(Found)
  <1> DEFINE l == Len(hosts)
             list == Local(hosts)
  <1>1. hosts \in Seq([kind: CandidateKind, addr: SocketAddrs])
    BY CandidatesAssumption
  <1>2. l \in Nat /\ DOMAIN hosts = 1 .. l
    BY <1>1
  <1>3. list = [i \in 1 .. l |-> Candidate(hosts[i].kind, "LocalInterface", 100, hosts[i].addr)]
    BY <1>2, Zenon DEF Local
  <1>s. "LocalInterface" \in CandidateSource \ {"PortMapping"}
    BY DEF CandidateSource
  <1>t. 100 \in Int
    OBVIOUS
  <1>4. ASSUME NEW i \in 1 .. l PROVE list[i] \in Found
    <2> DEFINE kind == hosts[i].kind
               addr == hosts[i].addr
    <2>1. kind \in CandidateKind /\ addr \in SocketAddrs
      <3>1. hosts[i] \in [kind: CandidateKind, addr: SocketAddrs]
        BY <1>1, ElementOfList, Zenon
      <3> QED BY <3>1
    <2>2. list[i] = Candidate(kind, "LocalInterface", 100, addr)
      BY <1>3, Zenon
    <2> HIDE DEF kind, addr
    <2> QED BY <1>s, <1>t, <2>1, <2>2, CandidateIs, SMT
  <1>5. DOMAIN list = 1 .. l /\ list = [i \in 1 .. l |-> list[i]]
    BY <1>3
  <1> HIDE DEF l, list
  <1>6. list \in Seq(Found)
    BY <1>2, <1>4, <1>5, ListIs, Zenon
  <1> QED BY <1>6 DEF list

LEMMA ProbedFacts ==
  ASSUME NEW ports \in Seq(Int)
  PROVE  Probed(ports) \in Seq(Found)
  <1> DEFINE l == Len(ports)
             list == Probed(ports)
  <1>2. l \in Nat /\ DOMAIN ports = 1 .. l /\ \A i \in 1 .. l : ports[i] \in Int
    OBVIOUS
  <1>3. list = [i \in 1 .. l |-> Candidate("ServerReflexive", "StunPrimary", 80, Public(ports[i]))]
    BY <1>2, Zenon DEF Probed
  <1>s. /\ "StunPrimary" \in CandidateSource \ {"PortMapping"}
        /\ "ServerReflexive" \in CandidateKind
    BY DEF CandidateSource, CandidateKind
  <1>t. 80 \in Int
    OBVIOUS
  <1>4. ASSUME NEW i \in 1 .. l PROVE list[i] \in Found
    <2> DEFINE addr == Public(ports[i])
    <2>1. addr \in SocketAddrs
      BY <1>2, PublicAddrs, Zenon
    <2>2. list[i] = Candidate("ServerReflexive", "StunPrimary", 80, addr)
      BY <1>3, Zenon
    <2> HIDE DEF addr
    <2> QED BY <1>s, <1>t, <2>1, <2>2, CandidateIs, SMT
  <1>5. DOMAIN list = 1 .. l /\ list = [i \in 1 .. l |-> list[i]]
    BY <1>3
  <1> HIDE DEF l, list
  <1>6. list \in Seq(Found)
    BY <1>2, <1>4, <1>5, ListIs, Zenon
  <1> QED BY <1>6 DEF list

LEMMA GuessedFacts ==
  ASSUME NEW ports \in Seq(Int)
  PROVE  /\ Guessed(ports) \in Seq(Found)
         /\ \A port \in Range(ports) : \E x \in Range(Guessed(ports)) : x.addr = Public(port)
  <1> DEFINE l == Len(ports)
             list == Guessed(ports)
  <1>2. l \in Nat /\ DOMAIN ports = 1 .. l /\ \A i \in 1 .. l : ports[i] \in Int
    OBVIOUS
  <1>3. list = [i \in 1 .. l |-> Candidate("PortPredicted", "PortPrediction", 50, Public(ports[i]))]
    BY <1>2, Zenon DEF Guessed
  <1>s. /\ "PortPrediction" \in CandidateSource \ {"PortMapping"}
        /\ "PortPredicted" \in CandidateKind
    BY DEF CandidateSource, CandidateKind
  <1>t. 50 \in Int
    OBVIOUS
  <1>4. ASSUME NEW i \in 1 .. l PROVE list[i] \in Found /\ list[i].addr = Public(ports[i])
    <2> DEFINE addr == Public(ports[i])
    <2>1. addr \in SocketAddrs
      BY <1>2, PublicAddrs, Zenon
    <2>2. list[i] = Candidate("PortPredicted", "PortPrediction", 50, addr)
      BY <1>3, Zenon
    <2> HIDE DEF addr
    <2>3. list[i] \in Found /\ list[i].addr = addr
      BY <1>s, <1>t, <2>1, <2>2, CandidateIs, SMT
    <2> QED BY <2>3 DEF addr
  <1>5. DOMAIN list = 1 .. l /\ list = [i \in 1 .. l |-> list[i]]
    BY <1>3
  <1> HIDE DEF list
  <1>6. list \in Seq(Found) /\ Len(list) = l
    <2> HIDE DEF l
    <2> QED BY <1>2, <1>4, <1>5, ListIs, Zenon
  <1>7. ASSUME NEW port \in Range(ports) PROVE \E x \in Range(list) : x.addr = Public(port)
    <2>1. PICK i \in 1 .. l : port = ports[i]
      BY EntryAt, Zenon
    <2>2. list[i] \in Range(list)
      BY <1>6, EntryIn, Zenon
    <2> QED BY <1>4, <2>1, <2>2, Zenon
  <1> QED BY <1>6, <1>7, Zenon DEF list

LEMMA CollectFacts ==
  ASSUME NEW hosts \in Interfaces, NEW ports \in Seq(Int)
  PROVE  LET base == collect_candidates(hosts, ports)
         IN  /\ base \in Seq(CandidateRecords)
             /\ \A x \in Range(base) : x.source # "PortMapping"
             /\ \A port \in Range(predict_from_fingerprint(ports)) : \E x \in Range(base) : x.addr = Public(port)
  <1> DEFINE predicted == predict_from_fingerprint(ports)
             a == Local(hosts)
             b == Probed(ports)
             c == Guessed(predicted)
             ab == a \o b
             all == ab \o c
             base == collect_candidates(hosts, ports)
  <1>1. base = Tidied(all)
    BY Zenon DEF collect_candidates, Local, Probed, Guessed, Tidied
  <1>2. predicted \in Seq(Int)
    BY PredictType, Zenon
  <1> HIDE DEF predicted
  <1>3. a \in Seq(Found) /\ b \in Seq(Found)
    BY LocalFacts, ProbedFacts, Zenon
  <1>4. c \in Seq(Found) /\ \A port \in Range(predicted) : \E x \in Range(c) : x.addr = Public(port)
    BY <1>2, GuessedFacts, Zenon
  <1> HIDE DEF a, b, c, base
  <1>5. ab \in Seq(Found)
    BY <1>3, Joined, Zenon
  <1> HIDE DEF ab
  <1>6. all \in Seq(Found)
    BY <1>4, <1>5, Joined, Zenon
  <1>7. Range(all) = Range(ab) \cup Range(c)
    <2>1. Range(all) = RangesOf(ab, c)
      BY <1>4, <1>5, JoinedRange, Zenon
    <2> QED BY <2>1, Zenon DEF RangesOf
  <1> HIDE DEF all
  <1>8. all \in Seq(CandidateRecords)
    <2>1. \A i \in 1 .. Len(all) : all[i] \in Found /\ all[i] \in CandidateRecords
      <3>1. \A i \in 1 .. Len(all) : all[i] \in Found
        BY <1>6, ElementOfList, Zenon
      <3> QED BY <3>1, Zenon DEF Found
    <2>2. Len(all) \in Nat /\ DOMAIN all = 1 .. Len(all) /\ all = [i \in 1 .. Len(all) |-> all[i]]
      BY <1>6
    <2> QED BY <2>1, <2>2, ListIs, Zenon
  <1>9. /\ base \in Seq(CandidateRecords) /\ Range(base) \subseteq Range(all)
        /\ \A x \in Range(all) : x.addr \in AddrsOf(base)
    BY <1>1, <1>8, TidiedFacts, Zenon
  <1>10. \A x \in Range(base) : x.source # "PortMapping"
    <2> SUFFICES ASSUME NEW x \in Range(base) PROVE x.source # "PortMapping"
      OBVIOUS
    <2>1. x \in Range(all)
      BY <1>9
    <2>2. PICK i \in 1 .. Len(all) : x = all[i]
      BY <1>6, <2>1, EntryAt, Zenon
    <2>3. all[i] \in Found
      BY <1>6, ElementOfList, Zenon
    <2> QED BY <2>2, <2>3, Zenon DEF Found
  <1>11. ASSUME NEW port \in Range(predicted) PROVE \E x \in Range(base) : x.addr = Public(port)
    <2>1. PICK x \in Range(c) : x.addr = Public(port)
      BY <1>4, Zenon
    <2>2. Public(port) \in AddrsOf(base)
      BY <1>7, <1>9, <2>1, Zenon
    <2>3. DOMAIN base = 1 .. Len(base)
      BY <1>9
    <2>4. PICK i \in 1 .. Len(base) : base[i].addr = Public(port)
      BY <2>2, <2>3, Zenon DEF AddrsOf
    <2>5. base[i] \in Range(base)
      BY <1>9, EntryIn, Zenon
    <2> QED BY <2>4, <2>5, Zenon
  <1> QED BY <1>9, <1>10, <1>11, Zenon DEF base, predicted

(* What has been advertised comes from a probe, and what has been chosen from that. *)
CandidatesInv ==
    /\ public_addrs \in Seq(Ports)
    /\ base_candidates \in Seq(CandidateRecords)
    /\ advertised = NoAddr \/ advertised \in Seq(CandidateRecords)
    /\ \/ public_addrs = <<>>
       \/ \E hosts \in Interfaces, mapped \in Mappings \cup {NoAddr} :
             /\ base_candidates = collect_candidates(hosts, public_addrs)
             /\ advertised = merge_mapped_candidate(base_candidates, mapped)
    /\ PairsMeet(chosen.own, chosen.other)

LEMMA CandidatesInvariant == CandidatesSpec => []CandidatesInv
  <1>1. CandidatesInit => CandidatesInv
    <2> SUFFICES ASSUME CandidatesInit PROVE CandidatesInv
      OBVIOUS
    <2>1. public_addrs \in Seq(Ports) /\ base_candidates \in Seq(CandidateRecords)
      BY DEF CandidatesInit
    <2>2. chosen.own = <<>> /\ DOMAIN <<>> = {}
      BY DEF CandidatesInit, NoneChosen
    <2>3. PairsMeet(chosen.own, chosen.other)
      BY <2>2, Zenon DEF PairsMeet
    <2> QED BY <2>1, <2>3, Zenon DEF CandidatesInit, CandidatesInv
  <1>2. CandidatesInv /\ [CandidatesNext]_candidate_vars => CandidatesInv'
    <2> SUFFICES ASSUME CandidatesInv, [CandidatesNext]_candidate_vars PROVE CandidatesInv'
      OBVIOUS
    <2>1. ASSUME NEW hosts \in Interfaces, NEW ports \in Answers, NEW mapped \in Mappings \cup {NoAddr},
                 Probe(hosts, ports, mapped)
          PROVE  CandidatesInv'
      <3>1. TopServers \in Nat
        BY CandidatesAssumption
      <3>2. ports \in Seq(Ports)
        <4>1. PICK n \in 0 .. TopServers + 1 : ports \in [1 .. n -> Ports]
          BY Zenon DEF Answers
        <4>2. n \in Nat
          BY <3>1
        <4> QED BY <4>1, <4>2, AList
      <3>3. FirstOf(ports, TopServers) \in Seq(Ports)
        BY <3>1, <3>2, FirstOfFacts, Zenon
      <3>4. public_addrs' \in Seq(Ports) /\ public_addrs' \in Seq(Int)
        <4>1. public_addrs' \in Seq(Ports)
          BY <2>1, <3>3, Zenon DEF Probe
        <4>2. MaxPort \in Nat
          BY CandidatesAssumption
        <4>3. Ports \subseteq Int
          BY <4>2 DEF Ports
        <4>4. \A i \in 1 .. Len(public_addrs') : public_addrs'[i] \in Int
          BY <4>1, <4>3, ElementOfList, Zenon
        <4>5. /\ Len(public_addrs') \in Nat /\ DOMAIN public_addrs' = 1 .. Len(public_addrs')
              /\ public_addrs' = [i \in 1 .. Len(public_addrs') |-> public_addrs'[i]]
          BY <4>1
        <4> QED BY <4>1, <4>4, <4>5, ListIs, Zenon
      <3>5. base_candidates' \in Seq(CandidateRecords)
        BY <2>1, <3>4, CollectFacts, Zenon DEF Probe
      <3>6. advertised' \in Seq(CandidateRecords)
        BY <2>1, <3>5, MergeFacts, Zenon DEF Probe
      <3>7. PairsMeet(chosen.own, chosen.other)'
        BY <2>1, Zenon DEF Probe, CandidatesInv
      <3> QED BY <2>1, <3>4, <3>5, <3>6, <3>7, Zenon DEF Probe, CandidatesInv
    <2>2. ASSUME NEW mapped \in Mappings \cup {NoAddr}, ProbeFails(mapped) \/ MappingChanges(mapped)
          PROVE  CandidatesInv'
      <3>1. /\ advertised' = merge_mapped_candidate(base_candidates, mapped)
            /\ UNCHANGED <<public_addrs, base_candidates, chosen>>
        BY <2>2, Zenon DEF ProbeFails, MappingChanges
      <3>2. public_addrs' = public_addrs /\ base_candidates' = base_candidates /\ chosen' = chosen
        BY <3>1
      <3>3. advertised' \in Seq(CandidateRecords)
        BY <3>1, MergeFacts, Zenon DEF CandidatesInv
      <3> QED BY <3>1, <3>2, <3>3, Zenon DEF CandidatesInv
    <2>3. ASSUME NEW remote \in RemoteCandidates, Punch(remote) PROVE CandidatesInv'
      <3>1. advertised \in Seq(CandidateRecords) /\ remote \in Seq(CandidateRecords)
        BY <2>3, CandidatesAssumption DEF Punch, CandidatesInv
      <3>2. PairsMeet(selected_pairs(advertised, remote), selected_pairs(remote, advertised))
        BY <3>1, SelectedMeet, Zenon
      <3>3. /\ chosen'.own = selected_pairs(advertised, remote)
            /\ chosen'.other = selected_pairs(remote, advertised)
        BY <2>3 DEF Punch
      <3>4. PairsMeet(chosen.own, chosen.other)'
        BY <3>2, <3>3, Zenon
      <3>5. /\ public_addrs' = public_addrs /\ base_candidates' = base_candidates
            /\ advertised' = advertised
        BY <2>3 DEF Punch
      <3> QED BY <3>4, <3>5, Zenon DEF CandidatesInv
    <2>4. CASE UNCHANGED candidate_vars
      <3>1. /\ public_addrs' = public_addrs /\ base_candidates' = base_candidates
            /\ advertised' = advertised /\ chosen' = chosen
        BY <2>4 DEF candidate_vars
      <3> QED BY <3>1, Zenon DEF CandidatesInv
    <2> QED BY <2>1, <2>2, <2>3, <2>4, Zenon DEF CandidatesNext
  <1> QED BY <1>1, <1>2, PTL DEF CandidatesSpec

(***************************************************************************)
(* Two edges that a PunchRequest tells of each other punch the same pairs, *)
(* for lists of any length and any limit of pairs: build_candidate_pairs   *)
(* may order pairs of one score differently on the two sides, but what     *)
(* scores more than the last pair chosen is chosen by both.                *)
(***************************************************************************)
THEOREM BothEdgesPunch == CandidatesSpec => []PunchesMeet
  <1>1. CandidatesInv => PunchesMeet
    BY Zenon DEF CandidatesInv, PairsMeet, PunchesMeet, Turned
  <1> QED BY <1>1, CandidatesInvariant, PTL

(***************************************************************************)
(* predict_from_fingerprint is right about a NAT that counts its ports: if *)
(* the probes that were answered got ports at a fixed distance of at most  *)
(* MaxDelta, in any order, the next Forward ports are advertised, and stay *)
(* so whatever becomes of the port mapping.                                *)
(***************************************************************************)
THEOREM CountingNatPredicted == CandidatesSpec => []NextPortsPredicted
  <1>1. CandidatesInv => NextPortsPredicted
    <2> DEFINE n == Len(public_addrs)
    <2> SUFFICES ASSUME CandidatesInv, NEW d \in 1 .. MaxDelta, NEW low \in Ports, n >= 2,
                        Range(public_addrs) = {low + d * i : i \in 0 .. n - 1},
                        NEW port \in {low + d * i : i \in n .. n + Forward - 1} \cap Ports
                 PROVE  Public(port) \in AddrsOf(advertised)
      BY Zenon DEF NextPortsPredicted
    <2>1. MaxPort \in Nat
      BY CandidatesAssumption
    <2>2. Ports \subseteq Int /\ low \in Int
      BY <2>1 DEF Ports
    <2>3. public_addrs \in Seq(Int) /\ n \in Nat /\ public_addrs # <<>>
      <3>1. public_addrs \in Seq(Ports)
        BY Zenon DEF CandidatesInv
      <3>2. \A i \in 1 .. n : public_addrs[i] \in Int
        BY <2>2, <3>1, ElementOfList, Zenon
      <3>3. /\ n \in Nat /\ DOMAIN public_addrs = 1 .. n
            /\ public_addrs = [i \in 1 .. n |-> public_addrs[i]]
        BY <3>1
      <3>4. public_addrs \in Seq(Int)
        BY <3>2, <3>3, ListIs, Zenon
      <3>5. public_addrs # <<>>
        BY <3>1
      <3> QED BY <3>3, <3>4, <3>5
    <2>4. Spaced(public_addrs, low, d)
      BY Zenon DEF Spaced
    <2>5. PICK i \in n .. n + Forward - 1 : port = low + d * i
      BY Zenon
    <2> HIDE DEF n
    <2>6. Len(public_addrs) = n /\ low + d * i \in Ports
      BY <2>5, Zenon DEF n
    <2>7. port \in Range(predict_from_fingerprint(public_addrs))
      BY <2>2, <2>3, <2>4, <2>5, <2>6, PredictsNext, Zenon
    <2>8. PICK hosts \in Interfaces, mapped \in Mappings \cup {NoAddr} :
             /\ base_candidates = collect_candidates(hosts, public_addrs)
             /\ advertised = merge_mapped_candidate(base_candidates, mapped)
      BY <2>3, Zenon DEF CandidatesInv
    <2>9. /\ \A x \in Range(base_candidates) : x.source # "PortMapping"
          /\ \E x \in Range(base_candidates) : x.addr = Public(port)
      BY <2>3, <2>7, <2>8, CollectFacts, Zenon
    <2>10. base_candidates \in Seq(CandidateRecords)
      BY Zenon DEF CandidatesInv
    <2>11. \A x \in Range(base_candidates) : x.source # "PortMapping" => x.addr \in AddrsOf(advertised)
      BY <2>8, <2>10, MergeFacts, Zenon
    <2> QED BY <2>9, <2>11, Zenon
  <1> QED BY <1>1, CandidatesInvariant, PTL
==============================================================================
