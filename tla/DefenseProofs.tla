---------------------------- MODULE DefenseProofs ----------------------------
(***************************************************************************)
(* Defense, for segments with any options, packets of any length and any   *)
(* limits.                                                                 *)
(*                                                                         *)
(* ClampsTheList: the bytes of a list of options are laid one after the    *)
(* other (Laid); the walk of clamp_mss_tcp_in_place stops at the first     *)
(* byte of each option of the list and nowhere else, so the MSS options it *)
(* finds and rewrites are those of the list.                               *)
(*                                                                         *)
(* ChecksumsVerify: a sum of bytes is the same number whether its carries  *)
(* are folded in or not, but for a multiple of 65535; with the complement  *)
(* of the rest in place of the checksum it is 0 modulo 65535 and not 0,    *)
(* which folds to 65535 only.                                              *)
(***************************************************************************)
EXTENDS Defense, WellFoundedInduction, TLAPS

(* Facts about sequences, in the form in which they are used *)
LEMMA ElementOfList ==
  ASSUME NEW S, NEW list \in Seq(S), NEW n \in 1 .. Len(list)
  PROVE  list[n] \in S
  OBVIOUS

LEMMA Joined ==
  ASSUME NEW S, NEW first \in Seq(S), NEW second \in Seq(S)
  PROVE  /\ first \o second \in Seq(S)
         /\ Len(first \o second) = Len(first) + Len(second)
         /\ \A i \in 1 .. Len(first) + Len(second) :
               (first \o second)[i] = IF i <= Len(first) THEN first[i] ELSE second[i - Len(first)]
  OBVIOUS

LEMMA ListsEqual ==
  ASSUME NEW S, NEW first \in Seq(S), NEW second \in Seq(S), Len(first) = Len(second),
         \A i \in 1 .. Len(first) : first[i] = second[i]
  PROVE  first = second
  OBVIOUS

LEMMA LenOf ==
  ASSUME NEW S, NEW list \in Seq(S)
  PROVE  Len(list) \in Nat /\ list \in [1 .. Len(list) -> S] /\ DOMAIN list = 1 .. Len(list)
  OBVIOUS

(* Induction from 0 on, for a set of numbers: being in P, and being a number, follow one recursion. *)
LEMMA Upwards ==
  ASSUME NEW P \in SUBSET Nat, 0 \in P, \A n \in Nat : n \in P => n + 1 \in P
  PROVE  P = Nat
  <1> DEFINE In(v, n) == IF v = 1 \/ n \in P THEN 1 ELSE 0
             f == [n \in Nat |-> 1]
             g == [n \in Nat |-> IF n \in P THEN 1 ELSE 0]
  <1>1. NatInductiveDefConclusion(f, 1, In)
    BY DEF NatInductiveDefConclusion
  <1>2. NatInductiveDefConclusion(g, 1, In)
    <2>1. ASSUME NEW n \in Nat PROVE g[n] = IF n = 0 THEN 1 ELSE In(g[n - 1], n)
      <3>1. CASE n = 0
        BY <3>1
      <3>2. CASE n # 0
        <4>1. n - 1 \in Nat /\ (n - 1) + 1 = n
          BY <3>2
        <4>2. n - 1 \in P => n \in P
          BY <4>1
        <4> QED BY <3>2, <4>1, <4>2
      <3> QED BY <3>1, <3>2
    <2>2. g = [n \in Nat |-> IF n = 0 THEN 1 ELSE In(g[n - 1], n)]
      <3> HIDE DEF In
      <3> QED BY <2>1
    <2> QED BY <2>2, Zenon DEF NatInductiveDefConclusion
  <1>3. f = g
    <2> HIDE DEF f, g, In
    <2> QED BY <1>1, <1>2, NatInductiveUnique, Zenon
  <1>4. ASSUME NEW n \in Nat PROVE n \in P
    <2>1. f[n] = 1 /\ g[n] = (IF n \in P THEN 1 ELSE 0)
      OBVIOUS
    <2>2. g[n] = 1
      BY <1>3, <2>1, Zenon
    <2> QED BY <2>1, <2>2
  <1> QED BY <1>4

(* Every set of numbers has a least one: what induction over a list comes down to. *)
LEMMA LeastOf ==
  ASSUME NEW S \in SUBSET Nat, S # {}
  PROVE  \E m \in S : \A k \in S : m <= k
  <1> SUFFICES ASSUME \A m \in S : \E k \in S : ~(m <= k) PROVE FALSE
    OBVIOUS
  <1> DEFINE P == {n \in Nat : \A k \in S : n < k}
  <1>1. 0 \in P
    <2>1. ASSUME NEW k \in S PROVE 0 < k
      <3>1. PICK j \in S : ~(k <= j)
        OBVIOUS
      <3> QED BY <3>1
    <2> QED BY <2>1
  <1>2. ASSUME NEW n \in Nat, n \in P PROVE n + 1 \in P
    <2>1. ASSUME NEW k \in S PROVE n + 1 < k
      <3>1. PICK j \in S : ~(k <= j)
        OBVIOUS
      <3>2. n < j
        BY <1>2
      <3> QED BY <3>1, <3>2
    <2> QED BY <2>1
  <1>3. P = Nat
    <2>1. P \in SUBSET Nat
      OBVIOUS
    <2> HIDE DEF P
    <2> QED BY <1>1, <1>2, <2>1, Upwards
  <1>4. PICK k \in S : TRUE
    OBVIOUS
  <1>5. k \in P
    BY <1>3
  <1>6. k < k
    BY <1>5
  <1> QED BY <1>6

LEMMA WordFacts == Word \in Nat /\ Word > 1
  <1>1. Byte \in Nat /\ Byte > 1
    BY DefenseAssumption
  <1>2. Byte * Byte \in Nat /\ Byte * Byte >= Byte
    BY <1>1
  <1> QED BY <1>1, <1>2 DEF Word

(* Once around: what a fold takes away is a multiple of Word - 1. *)
LEMMA FoldStep ==
  ASSUME NEW n \in Nat, n >= Word
  PROVE  /\ n \div Word \in Nat /\ (n % Word) + (n \div Word) \in Nat
         /\ (n % Word) + (n \div Word) < n /\ (n % Word) + (n \div Word) # 0
         /\ n - ((n % Word) + (n \div Word)) = (n \div Word) * (Word - 1)
  <1> DEFINE q == n \div Word
             r == n % Word
  <1>1. Word \in Nat /\ Word > 1
    BY WordFacts
  <1>2. q \in Int /\ r \in 0 .. Word - 1 /\ n = q * Word + r
    BY <1>1
  <1> HIDE DEF q, r
  <1>3. q >= 1
    <2> SUFFICES ASSUME q <= 0 PROVE FALSE
      BY <1>2
    <2>1. q * Word <= 0
      BY <1>1, <1>2
    <2> QED BY <1>1, <1>2, <2>1
  <1>4. q * (Word - 1) = q * Word - q
    BY <1>1, <1>2
  <1>5. q * Word \in Int /\ q * Word >= 2 * q
    BY <1>1, <1>2, <1>3
  <1> DEFINE qw == q * Word
  <1> HIDE DEF qw
  <1>6. qw \in Int /\ qw >= 2 * q /\ n = qw + r
    BY <1>2, <1>5 DEF qw
  <1>7. n - (r + q) = qw - q /\ r + q < n /\ r + q # 0 /\ q \in Nat /\ r + q \in Nat
    BY <1>1, <1>2, <1>3, <1>6
  <1> QED BY <1>4, <1>7 DEF q, r, qw

(* The recursive functions of the module exist. *)
LEMMA FoldOf ==
  ASSUME NEW sum
  PROVE  \E f : /\ f = [n \in Nat |-> IF n < Word THEN n ELSE f[(n % Word) + (n \div Word)]]
                /\ Folded(sum) = f[sum]
  <1> DEFINE R == OpToRel(<, Nat)
             Def(g, n) == IF n < Word THEN n ELSE g[(n % Word) + (n \div Word)]
             f == CHOOSE g : g = [n \in Nat |-> Def(g, n)]
  <1>1. IsWellFoundedOn(R, Nat)
    BY NatLessThanWellFounded, Zenon
  <1>2. \A x, y \in Nat : x < y => <<x, y>> \in R
    BY DEF OpToRel
  <1> HIDE DEF R
  <1>3. ASSUME NEW g, NEW h, NEW n \in Nat, \A y \in SetLessThan(n, R, Nat) : g[y] = h[y]
        PROVE  Def(g, n) = Def(h, n)
    <2>1. CASE n < Word
      BY <2>1
    <2>2. CASE ~(n < Word)
      <3> DEFINE next == (n % Word) + (n \div Word)
      <3>1. n >= Word
        BY <2>2, WordFacts
      <3>2. next \in Nat /\ next < n
        BY <3>1, FoldStep, Zenon
      <3> HIDE DEF next
      <3>3. next \in SetLessThan(n, R, Nat)
        BY <1>2, <3>2, Zenon DEF SetLessThan
      <3>4. g[next] = h[next]
        BY <1>3, <3>3, Zenon
      <3> QED BY <2>2, <3>4, Zenon DEF next
    <2> QED BY <2>1, <2>2, Zenon
  <1>4. WFDefOn(R, Nat, Def)
    BY <1>3, Zenon DEF WFDefOn
  <1>5. OpDefinesFcn(f, Nat, Def)
    BY Zenon DEF OpDefinesFcn
  <1>6. WFInductiveDefines(f, Nat, Def)
    BY <1>1, <1>4, <1>5, WFInductiveDef, Zenon
  <1>7. f = [n \in Nat |-> Def(f, n)]
    BY <1>6, Zenon DEF WFInductiveDefines
  <1>8. Folded(sum) = f[sum]
    BY DEF Folded
  <1> HIDE DEF f
  <1> QED BY <1>7, <1>8, Zenon

(* A fold is the sum, but for a multiple of Word - 1, and zero for zero only. *)
LEMMA FoldedFacts ==
  ASSUME NEW sum \in Nat
  PROVE  /\ Folded(sum) \in 0 .. Word - 1
         /\ Folded(sum) = 0 <=> sum = 0
         /\ \E k \in Int : sum - Folded(sum) = k * (Word - 1)
  <1>1. PICK f : /\ f = [n \in Nat |-> IF n < Word THEN n ELSE f[(n % Word) + (n \div Word)]]
                 /\ Folded(sum) = f[sum]
    BY FoldOf, Zenon
  <1> DEFINE Good(n) == /\ f[n] \in 0 .. Word - 1
                        /\ f[n] = 0 <=> n = 0
                        /\ \E k \in Int : n - f[n] = k * (Word - 1)
             bad == {n \in Nat : ~Good(n)}
  <1>2. \A n \in Nat : n < Word => Good(n)
    <2> SUFFICES ASSUME NEW n \in Nat, n < Word PROVE Good(n)
      BY Zenon
    <2>1. f[n] = n
      BY <1>1, Zenon
    <2>2. n \in 0 .. Word - 1 /\ n - n = 0 * (Word - 1) /\ 0 \in Int
      BY WordFacts
    <2> QED BY <2>1, <2>2, Zenon
  <1>3. ASSUME NEW n \in Nat, n >= Word, \A m \in Nat : m < n => Good(m) PROVE Good(n)
    <2> DEFINE next == (n % Word) + (n \div Word)
               q == n \div Word
    <2>1. /\ next \in Nat /\ next < n /\ next # 0 /\ q \in Nat /\ n - next = q * (Word - 1)
      BY <1>3, FoldStep, Zenon
    <2>2. f[n] = f[next]
      <3>1. ~(n < Word)
        BY <1>3, WordFacts
      <3> QED BY <1>1, <3>1, Zenon
    <2> HIDE DEF next, q
    <2>3. Good(next)
      BY <1>3, <2>1, Zenon
    <2>4. PICK k \in Int : next - f[next] = k * (Word - 1)
      BY <2>3, Zenon
    <2>5. f[next] \in 0 .. Word - 1 /\ f[next] # 0
      BY <2>1, <2>3, Zenon
    <2>6. n - f[n] = (q + k) * (Word - 1)
      <3> DEFINE w == Word - 1
      <3>1. w \in Int
        BY WordFacts
      <3>2. f[next] \in Int /\ next - f[next] = k * w /\ n - next = q * w
        BY <2>1, <2>4, <2>5, WordFacts
      <3> HIDE DEF w
      <3>3. n - f[next] = q * w + k * w
        BY <2>1, <3>1, <3>2
      <3>4. (q + k) * w = q * w + k * w
        BY <2>1, <3>1
      <3> QED BY <2>2, <3>3, <3>4 DEF w
    <2>7. q + k \in Int
      BY <2>1
    <2>8. n # 0
      BY <2>1
    <2> QED BY <2>2, <2>5, <2>6, <2>7, <2>8, Zenon
  <1> HIDE DEF Good
  <1>4. bad = {}
    <2> SUFFICES ASSUME bad # {} PROVE FALSE
      OBVIOUS
    <2>1. bad \in SUBSET Nat
      OBVIOUS
    <2>2. PICK n \in bad : \A m \in bad : n <= m
      BY <2>1, LeastOf, Zenon
    <2>3. n \in Nat /\ ~Good(n)
      OBVIOUS
    <2>4. ASSUME NEW m \in Nat, m < n PROVE Good(m)
      <3>1. ~(n <= m)
        BY <2>3, <2>4
      <3>2. m \notin bad
        BY <2>2, <3>1, Zenon
      <3> QED BY <3>2, Zenon
    <2>5. n < Word \/ n >= Word
      BY <2>3, WordFacts
    <2> QED BY <1>2, <1>3, <2>3, <2>4, <2>5, Zenon
  <1>5. Good(sum)
    BY <1>4, Zenon
  <1> QED BY <1>1, <1>5, Zenon DEF Good

(* The receiver's check: with the checksum, the words of a sum fold to ones. *)
LEMMA FoldsToOnes ==
  ASSUME NEW sum \in Nat
  PROVE  ip_checksum(sum) \in Nat /\ Folded(sum + ip_checksum(sum)) = Word - 1
  <1> DEFINE w == Word - 1
             a == Folded(sum)
             total == sum + (w - a)
             b == Folded(total)
  <1>1. w \in Nat /\ w >= 1
    BY WordFacts
  <1>2. a \in 0 .. w /\ (a = 0 <=> sum = 0)
    BY FoldedFacts, Zenon
  <1>3. PICK k \in Int : sum - a = k * w
    BY FoldedFacts, Zenon
  <1>4. ip_checksum(sum) = w - a
    BY DEF ip_checksum
  <1> HIDE DEF w, a
  <1>5. total \in Nat /\ total # 0 /\ total = k * w + w /\ w - a \in Nat
    <2> DEFINE kw == k * w
    <2> HIDE DEF kw
    <2>1. kw \in Int /\ sum - a = kw
      BY <1>1, <1>3 DEF kw
    <2>2. total \in Nat /\ total # 0 /\ total = kw + w /\ w - a \in Nat
      BY <1>1, <1>2, <2>1
    <2> QED BY <2>2 DEF kw
  <1> HIDE DEF total
  <1>6. b \in 0 .. w /\ b # 0
    BY <1>5, FoldedFacts, Zenon DEF w
  <1>7. PICK j \in Int : total - b = j * w
    BY <1>5, FoldedFacts, Zenon DEF w
  <1> HIDE DEF b
  <1>8. b = (k + 1 - j) * w
    <2>1. b = k * w + w - j * w
      BY <1>1, <1>5, <1>6, <1>7
    <2>2. (k + 1 - j) * w = k * w + w - j * w
      BY <1>1
    <2> QED BY <2>1, <2>2
  <1>9. b = w
    <2> DEFINE m == k + 1 - j
    <2>1. m \in Int /\ b = m * w
      BY <1>8
    <2> HIDE DEF m
    <2>2. m >= 1
      <3> SUFFICES ASSUME m <= 0 PROVE FALSE
        BY <2>1
      <3>1. m * w <= 0
        BY <1>1, <2>1
      <3> QED BY <1>6, <2>1, <3>1
    <2>3. m <= 1
      <3> SUFFICES ASSUME m >= 2 PROVE FALSE
        BY <2>1
      <3>1. m * w >= 2 * w
        BY <1>1, <2>1
      <3> QED BY <1>1, <1>6, <2>1, <3>1
    <2>4. m = 1
      BY <2>1, <2>2, <2>3
    <2> QED BY <1>1, <2>1, <2>4
  <1> QED BY <1>4, <1>5, <1>9 DEF w, b, total

LEMMA SumOf ==
  ASSUME NEW bytes
  PROVE  \E f : /\ f = [n \in Nat |->
                          IF n = 0 THEN 0
                          ELSE f[n - 1] + (IF n % 2 = 1 THEN bytes[n] * Byte ELSE bytes[n])]
                /\ Sum(bytes) = f[Len(bytes)]
  <1> DEFINE Def(v, n) == v + (IF n % 2 = 1 THEN bytes[n] * Byte ELSE bytes[n])
             f == CHOOSE g : g = [i \in Nat |-> IF i = 0 THEN 0 ELSE Def(g[i - 1], i)]
  <1>1. NatInductiveDefHypothesis(f, 0, Def)
    BY DEF NatInductiveDefHypothesis
  <1>2. NatInductiveDefConclusion(f, 0, Def)
    BY <1>1, NatInductiveDef, Zenon
  <1>3. f = [i \in Nat |-> IF i = 0 THEN 0 ELSE Def(f[i - 1], i)]
    BY <1>2, Zenon DEF NatInductiveDefConclusion
  <1>4. Sum(bytes) = f[Len(bytes)]
    BY DEF Sum
  <1> HIDE DEF f
  <1> QED BY <1>3, <1>4, Zenon

LEMMA SumIsNat ==
  ASSUME NEW bytes \in Seq(Nat)
  PROVE  Sum(bytes) \in Nat
  <1>1. PICK f : /\ f = [n \in Nat |->
                          IF n = 0 THEN 0
                          ELSE f[n - 1] + (IF n % 2 = 1 THEN bytes[n] * Byte ELSE bytes[n])]
                 /\ Sum(bytes) = f[Len(bytes)]
    BY SumOf, Zenon
  <1> DEFINE Good(n) == n <= Len(bytes) => f[n] \in Nat
             P == {n \in Nat : Good(n)}
  <1>2. Good(0)
    BY <1>1
  <1>3. ASSUME NEW n \in Nat, Good(n) PROVE Good(n + 1)
    <2> SUFFICES ASSUME n + 1 <= Len(bytes) PROVE f[n + 1] \in Nat
      OBVIOUS
    <2>1. n + 1 \in Nat /\ n + 1 # 0 /\ (n + 1) - 1 = n /\ n <= Len(bytes)
      OBVIOUS
    <2>2. f[n + 1] = f[n] + (IF (n + 1) % 2 = 1 THEN bytes[n + 1] * Byte ELSE bytes[n + 1])
      BY <1>1, <2>1, Zenon
    <2>3. f[n] \in Nat
      BY <1>3, <2>1, Zenon
    <2>4. bytes[n + 1] \in Nat
      OBVIOUS
    <2> DEFINE byte == bytes[n + 1]
    <2> HIDE DEF byte
    <2>5. byte \in Nat /\ Byte \in Nat
      BY <2>4, DefenseAssumption DEF byte
    <2> DEFINE high == byte * Byte
               sum == f[n]
               more == f[n + 1]
    <2>6. high \in Nat /\ sum \in Nat
      BY <2>3, <2>5
    <2>7. more = sum + high \/ more = sum + byte
      BY <2>2, Zenon DEF byte
    <2> HIDE DEF high, sum, more
    <2>8. more \in Nat
      BY <2>5, <2>6, <2>7
    <2> QED BY <2>8 DEF more
  <1> HIDE DEF Good
  <1>4. P = Nat
    <2>1. P \in SUBSET Nat /\ 0 \in P /\ \A n \in Nat : n \in P => n + 1 \in P
      BY <1>2, <1>3
    <2> HIDE DEF P
    <2> QED BY <2>1, Upwards, Zenon
  <1>5. Len(bytes) \in Nat /\ Len(bytes) <= Len(bytes)
    OBVIOUS
  <1>6. Good(Len(bytes))
    BY <1>4, <1>5, Zenon
  <1> QED BY <1>1, <1>5, <1>6, Zenon DEF Good

-----------------------------------------------------------------------------
(* The bytes of a list of options *)

LEMMA EncodedFacts ==
  ASSUME NEW option \in Options
  PROVE  /\ Encoded(option) \in Seq(Nat) /\ Len(Encoded(option)) \in Nat \ {0}
         /\ option.kind \in {"nop", "mss", "other", "end"}
         /\ option.kind = "nop" => Len(Encoded(option)) = 1 /\ Encoded(option)[1] = 1
         /\ option.kind = "mss" => /\ option.mss \in Nat
                                   /\ Encoded(option) = <<2, 4, option.mss \div Byte, option.mss % Byte>>
                                   /\ Len(Encoded(option)) = 4
         /\ option.kind = "other" => /\ Len(Encoded(option)) >= 2 /\ Encoded(option)[1] = 3
                                     /\ Encoded(option)[2] = Len(Encoded(option))
         /\ option.kind = "end" => Encoded(option)[1] = 0
  <1>1. option.kind \in {"nop", "mss", "other", "end"}
    BY DEF Options
  <1>2. CASE option.kind = "nop"
    <2>1. Encoded(option) = <<1>>
      BY <1>2 DEF Encoded
    <2> QED BY <1>2, <2>1
  <1>3. CASE option.kind = "mss"
    <2>1. Encoded(option) = <<2, 4, option.mss \div Byte, option.mss % Byte>>
      BY <1>3 DEF Encoded
    <2>2. option.mss \in Nat
      BY <1>3 DEF Options
    <2>3. option.mss \div Byte \in Nat /\ option.mss % Byte \in Nat
      BY <2>2, DefenseAssumption
    <2> QED BY <1>3, <2>1, <2>2, <2>3
  <1>4. CASE option.kind = "other"
    <2>1. Encoded(option) = <<3, 2 + Len(option.data)>> \o option.data
      BY <1>4 DEF Encoded
    <2>2. option.data \in Seq(Nat)
      BY <1>4 DEF Options
    <2> QED BY <1>4, <2>1, <2>2
  <1>5. CASE option.kind = "end"
    <2>1. Encoded(option) = <<0>> \o option.data
      BY <1>5 DEF Encoded
    <2>2. option.data \in Seq(Nat)
      BY <1>5 DEF Options
    <2> QED BY <1>5, <2>1, <2>2
  <1> QED BY <1>1, <1>2, <1>3, <1>4, <1>5

LEMMA EncodedOf ==
  ASSUME NEW list
  PROVE  \E f : /\ f = [n \in Nat |-> IF n = 0 THEN <<>> ELSE f[n - 1] \o Encoded(list[n])]
                /\ EncodedList(list) = f[Len(list)]
  <1> DEFINE Def(v, n) == v \o Encoded(list[n])
             f == CHOOSE g : g = [i \in Nat |-> IF i = 0 THEN <<>> ELSE Def(g[i - 1], i)]
  <1>1. NatInductiveDefHypothesis(f, <<>>, Def)
    BY DEF NatInductiveDefHypothesis
  <1>2. NatInductiveDefConclusion(f, <<>>, Def)
    BY <1>1, NatInductiveDef, Zenon
  <1>3. f = [i \in Nat |-> IF i = 0 THEN <<>> ELSE Def(f[i - 1], i)]
    BY <1>2, Zenon DEF NatInductiveDefConclusion
  <1>4. EncodedList(list) = f[Len(list)]
    BY DEF EncodedList
  <1> HIDE DEF f
  <1> QED BY <1>3, <1>4, Zenon

(* The first n options lie in bytes one behind the other, option k up to off[k]. *)
Laid(off, bytes, list, n) ==
    /\ off \in [0 .. n -> Nat] /\ off[0] = 0
    /\ bytes \in Seq(Nat) /\ Len(bytes) = off[n]
    /\ \A i, k \in 0 .. n : i <= k => off[i] <= off[k]
    /\ \A p \in 1 .. Len(bytes) : \E k \in 1 .. n : off[k - 1] < p /\ p <= off[k]
    /\ \A k \in 1 .. n :
          /\ Encoded(list[k]) \in Seq(Nat)
          /\ off[k] = off[k - 1] + Len(Encoded(list[k]))
          /\ \A j \in 1 .. Len(Encoded(list[k])) : bytes[off[k - 1] + j] = Encoded(list[k])[j]

LEMMA LaidMore ==
  ASSUME NEW n \in Nat, NEW off, NEW bytes, NEW list, Laid(off, bytes, list, n),
         NEW code \in Seq(Nat), code = Encoded(list[n + 1]), Len(code) # 0
  PROVE  Laid([k \in 0 .. n + 1 |-> IF k <= n THEN off[k] ELSE off[n] + Len(code)],
              bytes \o code, list, n + 1)
  <1> DEFINE l == Len(code)
             to == [k \in 0 .. n + 1 |-> IF k <= n THEN off[k] ELSE off[n] + l]
             new == bytes \o code
             last == off[n]
  <1>1. /\ off \in [0 .. n -> Nat] /\ off[0] = 0
        /\ bytes \in Seq(Nat) /\ Len(bytes) = last
        /\ \A i, k \in 0 .. n : i <= k => off[i] <= off[k]
        /\ \A p \in 1 .. Len(bytes) : \E k \in 1 .. n : off[k - 1] < p /\ p <= off[k]
        /\ \A k \in 1 .. n :
              /\ Encoded(list[k]) \in Seq(Nat)
              /\ off[k] = off[k - 1] + Len(Encoded(list[k]))
              /\ \A j \in 1 .. Len(Encoded(list[k])) : bytes[off[k - 1] + j] = Encoded(list[k])[j]
    BY Zenon DEF Laid
  <1>2. l \in Nat /\ l # 0
    OBVIOUS
  <1>3. /\ new \in Seq(Nat) /\ Len(new) = Len(bytes) + l
        /\ \A i \in 1 .. Len(bytes) + l :
              new[i] = IF i <= Len(bytes) THEN bytes[i] ELSE code[i - Len(bytes)]
    <2>1. bytes \in Seq(Nat) /\ code \in Seq(Nat)
      BY <1>1, Zenon
    <2>2. /\ new \in Seq(Nat) /\ Len(new) = Len(bytes) + Len(code)
          /\ \A i \in 1 .. Len(bytes) + Len(code) :
                new[i] = IF i <= Len(bytes) THEN bytes[i] ELSE code[i - Len(bytes)]
      BY <2>1, Joined, Zenon
    <2> QED BY <2>2, Zenon
  <1> HIDE DEF l, new
  <1>4. last \in Nat /\ \A k \in 0 .. n : off[k] \in Nat /\ off[k] <= last
    BY <1>1
  <1>5. to \in [0 .. n + 1 -> Nat] /\ to[0] = 0 /\ to[n + 1] = last + l
    BY <1>1, <1>2, <1>4
  <1>6. \A k \in 0 .. n : to[k] = off[k]
    OBVIOUS
  <1> HIDE DEF to, last
  <1>7. Len(new) = to[n + 1]
    BY <1>1, <1>3, <1>5
  <1>8. ASSUME NEW i \in 0 .. n + 1, NEW k \in 0 .. n + 1, i <= k PROVE to[i] <= to[k]
    <2>1. CASE k \in 0 .. n
      <3>1. i \in 0 .. n
        BY <1>8, <2>1
      <3> QED BY <1>1, <1>6, <1>8, <2>1, <3>1, Zenon
    <2>2. CASE k = n + 1 /\ i \in 0 .. n
      <3>1. to[i] \in Nat /\ to[i] <= last /\ to[k] = last + l
        BY <1>4, <1>5, <1>6, <2>2, Zenon
      <3> QED BY <1>2, <1>4, <3>1
    <2>3. CASE k = n + 1 /\ i = n + 1
      BY <1>2, <1>4, <1>5, <2>3
    <2> QED BY <1>8, <2>1, <2>2, <2>3
  <1>9. ASSUME NEW p \in 1 .. Len(new) PROVE \E k \in 1 .. n + 1 : to[k - 1] < p /\ p <= to[k]
    <2>1. CASE p <= last
      <3>1. PICK k \in 1 .. n : off[k - 1] < p /\ p <= off[k]
        BY <1>1, <1>3, <1>4, <2>1
      <3>2. k \in 1 .. n + 1 /\ k \in 0 .. n /\ k - 1 \in 0 .. n
        OBVIOUS
      <3>3. to[k - 1] < p /\ p <= to[k]
        BY <1>6, <3>1, <3>2, Zenon
      <3> QED BY <3>2, <3>3, Zenon
    <2>2. CASE ~(p <= last)
      <3>1. n + 1 \in 1 .. n + 1 /\ (n + 1) - 1 = n /\ n \in 0 .. n
        OBVIOUS
      <3>2. to[n] = last
        BY <1>6, <3>1, Zenon DEF last
      <3>3. last < p /\ p <= to[n + 1]
        BY <1>1, <1>2, <1>3, <1>4, <1>5, <2>2
      <3> QED BY <3>1, <3>2, <3>3, Zenon
    <2> QED BY <2>1, <2>2
  <1>10. ASSUME NEW k \in 1 .. n + 1
         PROVE  /\ Encoded(list[k]) \in Seq(Nat)
                /\ to[k] = to[k - 1] + Len(Encoded(list[k]))
                /\ \A j \in 1 .. Len(Encoded(list[k])) : new[to[k - 1] + j] = Encoded(list[k])[j]
    <2>1. CASE k \in 1 .. n
      <3>1. k \in 0 .. n /\ k - 1 \in 0 .. n
        BY <2>1
      <3>2. /\ to[k] = off[k] /\ to[k - 1] = off[k - 1] /\ off[k] = off[k - 1] + Len(Encoded(list[k]))
            /\ Encoded(list[k]) \in Seq(Nat)
        BY <1>1, <1>6, <2>1, <3>1, Zenon
      <3>3. ASSUME NEW j \in 1 .. Len(Encoded(list[k]))
            PROVE  new[off[k - 1] + j] = Encoded(list[k])[j]
        <4>1. bytes[off[k - 1] + j] = Encoded(list[k])[j]
          BY <1>1, <2>1, Zenon
        <4> DEFINE o == off[k - 1]
                   m == Len(Encoded(list[k]))
        <4>2. o \in Nat /\ o + m <= last /\ o + m \in Nat
          BY <1>4, <3>1, <3>2
        <4>5. m \in Nat
          BY <3>2
        <4>3. j \in 1 .. m
          OBVIOUS
        <4> HIDE DEF o, m
        <4>4. j \in Nat /\ j >= 1 /\ j <= m
          BY <4>3
        <4>6. o + j \in 1 .. last + l /\ o + j <= last
          BY <1>2, <1>4, <4>2, <4>4, <4>5
        <4>7. new[o + j] = bytes[o + j]
          BY <1>1, <1>3, <4>6, Zenon
        <4> QED BY <4>1, <4>7, Zenon DEF o
      <3> QED BY <3>2, <3>3, Zenon
    <2>2. CASE k = n + 1
      <3>1. k - 1 = n /\ n \in 0 .. n
        BY <2>2
      <3>2. to[k - 1] = last /\ to[k] = last + l /\ Encoded(list[k]) = code
        BY <1>5, <1>6, <2>2, <3>1, Zenon DEF last
      <3>3. ASSUME NEW j \in 1 .. l PROVE new[last + j] = code[j]
        <4>1. last + j \in 1 .. last + l /\ ~(last + j <= last) /\ (last + j) - last = j
          BY <1>2, <1>4
        <4> QED BY <1>1, <1>3, <4>1, Zenon
      <3> QED BY <3>2, <3>3, Zenon DEF l
    <2> QED BY <2>1, <2>2
  <1>11. Laid(to, new, list, n + 1)
    BY <1>3, <1>5, <1>7, <1>8, <1>9, <1>10, Zenon DEF Laid
  <1> QED BY <1>11 DEF to, new, l, last

LEMMA LaidOut ==
  ASSUME NEW list \in Seq(Options)
  PROVE  \E off : Laid(off, EncodedList(list), list, Len(list))
  <1>1. PICK f : /\ f = [n \in Nat |-> IF n = 0 THEN <<>> ELSE f[n - 1] \o Encoded(list[n])]
                 /\ EncodedList(list) = f[Len(list)]
    BY EncodedOf, Zenon
  <1>2. f[0] = <<>>
    BY <1>1
  <1> DEFINE Good(n) == n <= Len(list) => \E off : Laid(off, f[n], list, n)
             P == {n \in Nat : Good(n)}
  <1>3. Good(0)
    <2>1. Laid([k \in 0 .. 0 |-> 0], f[0], list, 0)
      BY <1>2 DEF Laid
    <2> QED BY <2>1
  <1>4. ASSUME NEW n \in Nat, Good(n) PROVE Good(n + 1)
    <2> SUFFICES ASSUME n + 1 <= Len(list) PROVE \E off : Laid(off, f[n + 1], list, n + 1)
      OBVIOUS
    <2>1. n + 1 \in Nat /\ n + 1 # 0 /\ (n + 1) - 1 = n /\ n <= Len(list) /\ list[n + 1] \in Options
      OBVIOUS
    <2>2. f[n + 1] = f[n] \o Encoded(list[n + 1])
      BY <1>1, <2>1, Zenon
    <2>3. PICK off : Laid(off, f[n], list, n)
      BY <1>4, <2>1, Zenon
    <2> DEFINE code == Encoded(list[n + 1])
    <2>4. code \in Seq(Nat) /\ Len(code) # 0
      BY <2>1, EncodedFacts
    <2>5. code = Encoded(list[n + 1])
      OBVIOUS
    <2> HIDE DEF code
    <2>6. \E to : Laid(to, f[n] \o code, list, n + 1)
      BY <2>3, <2>4, <2>5, LaidMore, Zenon
    <2> QED BY <2>2, <2>5, <2>6, Zenon
  <1> HIDE DEF Good
  <1>5. P = Nat
    <2>1. P \in SUBSET Nat /\ 0 \in P /\ \A n \in Nat : n \in P => n + 1 \in P
      BY <1>3, <1>4
    <2> HIDE DEF P
    <2> QED BY <2>1, Upwards, Zenon
  <1>6. Len(list) \in Nat /\ Len(list) <= Len(list)
    OBVIOUS
  <1>7. Good(Len(list))
    BY <1>5, <1>6, Zenon
  <1> QED BY <1>1, <1>6, <1>7, Zenon DEF Good

(* The bytes are all that a list determines. *)
LEMMA LaidOnce ==
  ASSUME NEW l \in Nat, NEW list, NEW off, NEW bytes, Laid(off, bytes, list, l),
         NEW off2, NEW bytes2, Laid(off2, bytes2, list, l)
  PROVE  bytes = bytes2
  <1>1. /\ off[0] = 0 /\ bytes \in Seq(Nat) /\ Len(bytes) = off[l]
        /\ \A k \in 0 .. l : off[k] \in Nat
        /\ \A p \in 1 .. Len(bytes) : \E k \in 1 .. l : off[k - 1] < p /\ p <= off[k]
        /\ \A k \in 1 .. l :
              /\ Encoded(list[k]) \in Seq(Nat)
              /\ off[k] = off[k - 1] + Len(Encoded(list[k]))
              /\ \A j \in 1 .. Len(Encoded(list[k])) : bytes[off[k - 1] + j] = Encoded(list[k])[j]
    BY Zenon DEF Laid
  <1>2. /\ off2[0] = 0 /\ bytes2 \in Seq(Nat) /\ Len(bytes2) = off2[l]
        /\ \A k \in 1 .. l :
              /\ off2[k] = off2[k - 1] + Len(Encoded(list[k]))
              /\ \A j \in 1 .. Len(Encoded(list[k])) : bytes2[off2[k - 1] + j] = Encoded(list[k])[j]
    BY Zenon DEF Laid
  <1> DEFINE Good(n) == n <= l => off[n] = off2[n]
             P == {n \in Nat : Good(n)}
  <1>3. Good(0)
    BY <1>1, <1>2, Zenon
  <1>4. ASSUME NEW n \in Nat, Good(n) PROVE Good(n + 1)
    <2> SUFFICES ASSUME n + 1 <= l PROVE off[n + 1] = off2[n + 1]
      OBVIOUS
    <2>1. n + 1 \in 1 .. l /\ (n + 1) - 1 = n /\ n <= l
      OBVIOUS
    <2>2. off[n + 1] = off[n] + Len(Encoded(list[n + 1]))
      BY <1>1, <2>1, Zenon
    <2>3. off2[n + 1] = off2[n] + Len(Encoded(list[n + 1]))
      BY <1>2, <2>1, Zenon
    <2>4. off[n] = off2[n]
      BY <1>4, <2>1, Zenon
    <2> QED BY <2>2, <2>3, <2>4, Zenon
  <1> HIDE DEF Good
  <1>5. P = Nat
    <2>1. P \in SUBSET Nat /\ 0 \in P /\ \A n \in Nat : n \in P => n + 1 \in P
      BY <1>3, <1>4
    <2> HIDE DEF P
    <2> QED BY <2>1, Upwards, Zenon
  <1>6. \A n \in 0 .. l : off[n] = off2[n]
    <2> SUFFICES ASSUME NEW n \in 0 .. l PROVE off[n] = off2[n]
      OBVIOUS
    <2>1. n \in Nat /\ n <= l
      OBVIOUS
    <2>2. Good(n)
      BY <1>5, <2>1, Zenon
    <2> QED BY <2>1, <2>2, Zenon DEF Good
  <1>7. Len(bytes) = Len(bytes2)
    <2>1. l \in 0 .. l
      OBVIOUS
    <2> QED BY <1>1, <1>2, <1>6, <2>1, Zenon
  <1>8. ASSUME NEW p \in 1 .. Len(bytes) PROVE bytes[p] = bytes2[p]
    <2>1. PICK k \in 1 .. l : off[k - 1] < p /\ p <= off[k]
      BY <1>1, Zenon
    <2> DEFINE o == off[k - 1]
               m == Len(Encoded(list[k]))
               j == p - o
    <2>2. k - 1 \in 0 .. l /\ k \in 0 .. l
      OBVIOUS
    <2>3. o \in Nat /\ m \in Nat /\ off[k] = o + m /\ off2[k - 1] = o
      <3>1. o \in Nat /\ off[k] = o + m /\ off2[k - 1] = o /\ Encoded(list[k]) \in Seq(Nat)
        BY <1>1, <1>6, <2>2, Zenon
      <3>2. m \in Nat
        BY <3>1
      <3> QED BY <3>1, <3>2, Zenon
    <2>4. o < p /\ p <= o + m
      BY <2>1, <2>3, Zenon
    <2>5. \A i \in 1 .. m : bytes[o + i] = Encoded(list[k])[i]
      BY <1>1, Zenon
    <2>a. \A i \in 1 .. m : bytes2[off2[k - 1] + i] = Encoded(list[k])[i]
      BY <1>2, Zenon
    <2>b. \A i \in 1 .. m : bytes2[o + i] = Encoded(list[k])[i]
      <3> HIDE DEF o, m
      <3> QED BY <2>3, <2>a, Zenon
    <2> HIDE DEF o, m
    <2>6. j \in 1 .. m /\ o + j = p
      BY <2>3, <2>4
    <2> HIDE DEF j
    <2> QED BY <2>5, <2>6, <2>b, Zenon
  <1> QED BY <1>1, <1>2, <1>7, <1>8, ListsEqual

(* An option begins where the one before it ends, and each byte belongs to one of them. *)
ByteOf(off, list, k, j, at) == j \in 1 .. Len(Encoded(list[k])) /\ at = off[k - 1] + j

LEMMA OptionAt ==
  ASSUME NEW l \in Nat, NEW list, NEW off, NEW bytes, Laid(off, bytes, list, l),
         NEW k \in 1 .. l, NEW m \in 1 .. l, NEW j, NEW i, NEW at,
         ByteOf(off, list, k, j, at), ByteOf(off, list, m, i, at)
  PROVE  k = m /\ j = i
  <1>1. /\ \A n \in 0 .. l : off[n] \in Nat
        /\ \A a, b \in 0 .. l : a <= b => off[a] <= off[b]
        /\ \A n \in 1 .. l : /\ Encoded(list[n]) \in Seq(Nat)
                             /\ off[n] = off[n - 1] + Len(Encoded(list[n]))
    BY Zenon DEF Laid
  <1> DEFINE a == Len(Encoded(list[k]))
             b == Len(Encoded(list[m]))
             x == off[k - 1]
             y == off[m - 1]
  <1>2. a \in Nat /\ b \in Nat
    <2>1. Encoded(list[k]) \in Seq(Nat) /\ Encoded(list[m]) \in Seq(Nat)
      BY <1>1, Zenon
    <2> QED BY <2>1
  <1>3. off[k] = x + a /\ off[m] = y + b
    BY <1>1, Zenon
  <1>4. k \in 0 .. l /\ m \in 0 .. l /\ k - 1 \in 0 .. l /\ m - 1 \in 0 .. l
    OBVIOUS
  <1>5. x \in Nat /\ y \in Nat
    BY <1>1, <1>4, Zenon
  <1>6. k < m => x + a <= y
    <2> SUFFICES ASSUME k < m PROVE off[k] <= off[m - 1]
      BY <1>3
    <2>1. k <= m - 1
      OBVIOUS
    <2> QED BY <1>1, <1>4, <2>1, Zenon
  <1>7. m < k => y + b <= x
    <2> SUFFICES ASSUME m < k PROVE off[m] <= off[k - 1]
      BY <1>3
    <2>1. m <= k - 1
      OBVIOUS
    <2> QED BY <1>1, <1>4, <2>1, Zenon
  <1>8. j \in 1 .. a /\ i \in 1 .. b /\ x + j = y + i
    BY Zenon DEF ByteOf
  <1>9. k = m => x = y
    OBVIOUS
  <1> HIDE DEF a, b, x, y
  <1>10. k = m
    BY <1>2, <1>5, <1>6, <1>7, <1>8
  <1> QED BY <1>2, <1>5, <1>8, <1>9, <1>10

-----------------------------------------------------------------------------
(* The walk from option to option *)

WalkFrom(segment, from, i) ==
    IF \/ i > Len(segment.options)
       \/ i >= Len(segment.options) + Len(segment.data)
       \/ segment.options[i] = 0
    THEN {}
    ELSE IF segment.options[i] = 1 THEN from[i + 1]
    ELSE LET next == i + (segment.options \o segment.data)[i + 1]
         IN  IF next < i + 2 \/ next > Len(segment.options) + 1 THEN {}
             ELSE {j \in {i} : segment.options[i] = 2 /\ next = i + 4} \cup from[next]

(* A walk up to a place that is never passed comes to an end. *)
LEMMA UpIsWellFounded ==
  ASSUME NEW n \in Nat
  PROVE  IsWellFoundedOn({pair \in (1 .. n) \X (1 .. n) : pair[1] > pair[2]}, 1 .. n)
  <1> DEFINE S == 1 .. n
             R == {pair \in S \X S : pair[1] > pair[2]}
  <1>1. ASSUME NEW T \in SUBSET S, T # {} PROVE \E x \in T : \A y \in T : ~(<<y, x>> \in R)
    <2> DEFINE U == {n - x : x \in T}
    <2>1. U \in SUBSET Nat /\ U # {}
      <3>1. ASSUME NEW x \in T PROVE n - x \in Nat
        <4>1. x \in 1 .. n
          BY <3>1
        <4> QED BY <4>1
      <3> QED BY <1>1, <3>1
    <2>2. PICK m \in U : \A k \in U : m <= k
      <3> HIDE DEF U
      <3> QED BY <2>1, LeastOf, Zenon
    <2>3. PICK x \in T : m = n - x
      BY <2>2
    <2>4. ASSUME NEW y \in T PROVE ~(<<y, x>> \in R)
      <3>1. n - x <= n - y
        BY <2>2, <2>3
      <3>2. x \in S /\ y \in S
        OBVIOUS
      <3>3. ~(y > x)
        BY <3>1, <3>2
      <3> QED BY <3>3
    <2> QED BY <2>4
  <1> HIDE DEF R, S
  <1>2. IsWellFoundedOn(R, S)
    BY <1>1, MinWF, Zenon
  <1> QED BY <1>2 DEF R, S

LEMMA WalkOf ==
  ASSUME NEW segment, segment.options \in Seq(Nat), segment.data \in Seq(Nat)
  PROVE  \E f : /\ \A i \in 1 .. Len(segment.options) + 1 : f[i] = WalkFrom(segment, f, i)
                /\ MssOptions(segment) = f[1]
  <1> DEFINE n == Len(segment.options) + 1
             S == 1 .. n
             R == {pair \in S \X S : pair[1] > pair[2]}
             Def(g, i) == WalkFrom(segment, g, i)
             f == CHOOSE g : g = [i \in S |-> Def(g, i)]
  <1>1. n \in Nat /\ n = Len(segment.options) + 1
    OBVIOUS
  <1>2. IsWellFoundedOn(R, S)
    <2> HIDE DEF n
    <2> QED BY <1>1, UpIsWellFounded, Zenon
  <1>3. \A x, y \in S : y > x => <<y, x>> \in R
    OBVIOUS
  <1> HIDE DEF R
  <1>4. ASSUME NEW g, NEW h, NEW i \in S, \A y \in SetLessThan(i, R, S) : g[y] = h[y]
        PROVE  Def(g, i) = Def(h, i)
    <2> DEFINE next == i + (segment.options \o segment.data)[i + 1]
    <2>1. \A y \in S : y > i => g[y] = h[y]
      BY <1>3, <1>4, Zenon DEF SetLessThan
    <2>2. CASE i > Len(segment.options)
      BY <2>2, Zenon DEF WalkFrom
    <2>3. CASE ~(i > Len(segment.options)) /\ segment.options[i] = 1
      <3>1. i + 1 \in S /\ i + 1 > i
        BY <1>1, <2>3
      <3>2. g[i + 1] = h[i + 1]
        BY <2>1, <3>1, Zenon
      <3> QED BY <2>3, <3>2, Zenon DEF WalkFrom
    <2>4. CASE /\ ~(i > Len(segment.options)) /\ segment.options[i] # 1
               /\ \/ i >= Len(segment.options) + Len(segment.data)
                  \/ segment.options[i] = 0
                  \/ next < i + 2 \/ next > Len(segment.options) + 1
      BY <2>4, Zenon DEF WalkFrom
    <2>5. CASE /\ ~(i > Len(segment.options)) /\ segment.options[i] # 1
               /\ ~(i >= Len(segment.options) + Len(segment.data))
               /\ segment.options[i] # 0
               /\ ~(next < i + 2 \/ next > Len(segment.options) + 1)
      <3>1. next \in S /\ next > i
        <4> DEFINE both == segment.options \o segment.data
                   a == Len(segment.options)
                   d == Len(segment.data)
        <4>1. a \in Nat /\ d \in Nat /\ i \in 1 .. a + 1
          BY <1>1
        <4>2. both \in Seq(Nat) /\ Len(both) = a + d
          BY Joined, Zenon
        <4>3. /\ ~(i > a) /\ ~(i >= a + d) /\ ~(next < i + 2 \/ next > a + 1)
              /\ next = i + both[i + 1] /\ S = 1 .. a + 1
          BY <2>5, Zenon
        <4> HIDE DEF both, next, a, d, S
        <4>4. i + 1 \in 1 .. a + d
          BY <4>1, <4>3
        <4>5. both[i + 1] \in Nat
          BY <4>2, <4>4, ElementOfList, Zenon
        <4>6. i \in Nat /\ next \in Nat
          BY <4>1, <4>3, <4>5
        <4> QED BY <4>1, <4>3, <4>6
      <3>2. g[next] = h[next]
        BY <2>1, <3>1, Zenon
      <3> QED BY <2>5, <3>2, Zenon DEF WalkFrom
    <2> QED BY <2>2, <2>3, <2>4, <2>5, Zenon
  <1>5. WFDefOn(R, S, Def)
    BY <1>4, Zenon DEF WFDefOn
  <1>6. OpDefinesFcn(f, S, Def)
    BY Zenon DEF OpDefinesFcn
  <1>7. WFInductiveDefines(f, S, Def)
    BY <1>2, <1>5, <1>6, WFInductiveDef, Zenon
  <1>8. f = [i \in S |-> Def(f, i)]
    BY <1>7, Zenon DEF WFInductiveDefines
  <1>9. MssOptions(segment) = f[1]
    BY Zenon DEF MssOptions, WalkFrom
  <1> HIDE DEF f
  <1>10. \A i \in S : f[i] = Def(f, i)
    BY <1>8, Zenon
  <1> QED BY <1>9, <1>10, Zenon

StepsOver(f, off, list, k) ==
    /\ list[k].kind = "end" => f[off[k - 1] + 1] = {}
    /\ list[k].kind # "end" =>
          \A x : x \in f[off[k - 1] + 1] <=>
                    \/ list[k].kind = "mss" /\ x = off[k - 1] + 1
                    \/ x \in f[off[k] + 1]

(* At the first byte of an option, the walk notes an MSS and goes on with the next option. *)
LEMMA WalkStep ==
  ASSUME NEW segment, segment.data \in Seq(Nat), NEW list \in Seq(Options), NEW off,
         Laid(off, segment.options, list, Len(list)), NEW f,
         \A i \in 1 .. Len(segment.options) + 1 : f[i] = WalkFrom(segment, f, i),
         NEW k \in 1 .. Len(list)
  PROVE  StepsOver(f, off, list, k)
  <1> SUFFICES /\ list[k].kind = "end" => f[off[k - 1] + 1] = {}
               /\ list[k].kind # "end" =>
                     \A x : x \in f[off[k - 1] + 1] <=>
                               \/ list[k].kind = "mss" /\ x = off[k - 1] + 1
                               \/ x \in f[off[k] + 1]
    BY Zenon DEF StepsOver
  <1> DEFINE code == Encoded(list[k])
             c == Len(code)
             bytes == segment.options
             n == Len(bytes)
             d == Len(segment.data)
             o == off[k - 1]
             i == o + 1
             both == bytes \o segment.data
  <1>1. /\ off[Len(list)] = n /\ bytes \in Seq(Nat)
        /\ \A m \in 0 .. Len(list) : off[m] \in Nat
        /\ \A a, b \in 0 .. Len(list) : a <= b => off[a] <= off[b]
        /\ off[k] = o + c
        /\ \A j \in 1 .. c : bytes[o + j] = code[j]
    BY Zenon DEF Laid
  <1>2. n \in Nat /\ d \in Nat
    BY <1>1
  <1>3. k - 1 \in 0 .. Len(list) /\ k \in 0 .. Len(list) /\ Len(list) \in 0 .. Len(list) /\ k <= Len(list)
    OBVIOUS
  <1>4. o \in Nat /\ o + c <= n
    BY <1>1, <1>3, Zenon
  <1>5. list[k] \in Options
    OBVIOUS
  <1>6. /\ c \in Nat \ {0}
        /\ list[k].kind \in {"nop", "mss", "other", "end"}
        /\ list[k].kind = "nop" => c = 1 /\ code[1] = 1
        /\ list[k].kind = "mss" => c = 4 /\ code[1] = 2 /\ code[2] = 4
        /\ list[k].kind = "other" => c >= 2 /\ code[1] = 3 /\ code[2] = c
        /\ list[k].kind = "end" => code[1] = 0
    <2> DEFINE option == list[k]
    <2>1. option \in Options /\ code = Encoded(option)
      BY <1>5
    <2> HIDE DEF option
    <2>2. /\ code \in Seq(Nat) /\ Len(code) \in Nat \ {0}
          /\ option.kind \in {"nop", "mss", "other", "end"}
          /\ option.kind = "nop" => Len(code) = 1 /\ code[1] = 1
          /\ option.kind = "mss" => /\ Len(code) = 4
                                    /\ code = <<2, 4, option.mss \div Byte, option.mss % Byte>>
          /\ option.kind = "other" => Len(code) >= 2 /\ code[1] = 3 /\ code[2] = Len(code)
          /\ option.kind = "end" => code[1] = 0
      BY <2>1, EncodedFacts, Zenon
    <2> HIDE DEF code
    <2>3. option.kind = "mss" => code[1] = 2 /\ code[2] = 4
      BY <2>2
    <2> QED BY <2>2, <2>3, Zenon DEF option
  <1>7. f[i] = WalkFrom(segment, f, i) /\ f[n + 1] = WalkFrom(segment, f, n + 1)
    <2>1. \A j \in 1 .. n + 1 : f[j] = WalkFrom(segment, f, j)
      BY Zenon
    <2> HIDE DEF n, o, c
    <2>2. i \in 1 .. n + 1 /\ n + 1 \in 1 .. n + 1
      BY <1>2, <1>4, <1>6
    <2> QED BY <2>1, <2>2, Zenon
  <1>8. f[n + 1] = {}
    <2>1. n + 1 > n
      BY <1>2
    <2> QED BY <1>7, <2>1, Zenon DEF WalkFrom
  <1>9. \A j \in 1 .. n : both[j] = bytes[j]
    <2> DEFINE data == segment.data
    <2>a. bytes \in Seq(Nat) /\ data \in Seq(Nat) /\ both = bytes \o data
      BY <1>1, Zenon
    <2>b. n = Len(bytes) /\ d = Len(data)
      OBVIOUS
    <2> HIDE DEF bytes, data, both, n, d
    <2>c. \A j \in 1 .. Len(bytes) + Len(data) :
             (bytes \o data)[j] = IF j <= Len(bytes) THEN bytes[j] ELSE data[j - Len(bytes)]
      BY <2>a, Joined, Zenon
    <2>1. \A j \in 1 .. n + d : both[j] = IF j <= n THEN bytes[j] ELSE data[j - n]
      BY <2>a, <2>b, <2>c, Zenon
    <2> QED BY <1>2, <2>1
  <1>10. bytes[i] = code[1] /\ ~(i > n)
    <2>1. 1 \in 1 .. c
      BY <1>6
    <2>2. bytes[o + 1] = code[1]
      BY <1>1, <2>1, Zenon
    <2>3. ~(o + 1 > n)
      BY <1>2, <1>4, <1>6
    <2> QED BY <2>2, <2>3
  <1>11. f[i] = IF i >= n + d \/ bytes[i] = 0 THEN {}
                ELSE IF bytes[i] = 1 THEN f[i + 1]
                ELSE IF i + both[i + 1] < i + 2 \/ i + both[i + 1] > n + 1 THEN {}
                ELSE {j \in {i} : bytes[i] = 2 /\ i + both[i + 1] = i + 4} \cup f[i + both[i + 1]]
    BY <1>7, <1>10, Zenon DEF WalkFrom
  <1> HIDE DEF code, c, n, d, o, both, bytes
  <1>12. CASE list[k].kind = "end"
    <2>1. bytes[i] = 0
      BY <1>6, <1>10, <1>12
    <2>2. f[i] = {}
      BY <1>11, <2>1, Zenon
    <2> QED BY <1>12, <2>2 DEF o
  <1>13. CASE list[k].kind = "nop"
    <2>1. bytes[i] = 1 /\ bytes[i] # 0 /\ off[k] + 1 = i + 1
      BY <1>1, <1>4, <1>6, <1>10, <1>13
    <2>2. CASE i >= n + d
      <3>1. off[k] + 1 = n + 1
        BY <1>1, <1>2, <1>4, <1>6, <1>13, <2>2
      <3>2. f[i] = {} /\ f[off[k] + 1] = {}
        BY <1>8, <1>11, <2>2, <3>1, Zenon
      <3> QED BY <1>13, <3>2 DEF o
    <2>3. CASE ~(i >= n + d)
      <3>1. f[i] = f[off[k] + 1]
        BY <1>11, <2>1, <2>3, Zenon
      <3> QED BY <1>13, <3>1 DEF o
    <2> QED BY <2>2, <2>3
  <1>14. CASE list[k].kind = "mss" \/ list[k].kind = "other"
    <2>1. c >= 2 /\ code[2] = c /\ (code[1] = 2 \/ code[1] = 3)
      BY <1>6, <1>14
    <2>2. bytes[i] # 0 /\ bytes[i] # 1
      BY <1>10, <2>1
    <2>3. both[i + 1] = c
      <3>1. 2 \in 1 .. c /\ o + 2 = i + 1 /\ i + 1 \in 1 .. n
        BY <1>2, <1>4, <1>6, <2>1
      <3>2. bytes[o + 2] = code[2]
        BY <1>1, <3>1, Zenon
      <3> QED BY <1>9, <2>1, <3>1, <3>2, Zenon
    <2>4. /\ ~(i >= n + d) /\ ~(i + c < i + 2) /\ ~(i + c > n + 1)
          /\ i + c = off[k] + 1 /\ (i + c = i + 4 <=> c = 4)
      BY <1>1, <1>2, <1>4, <1>6, <2>1
    <2>5. f[i] = {j \in {i} : bytes[i] = 2 /\ i + c = i + 4} \cup f[i + c]
      BY <1>11, <2>2, <2>3, <2>4, Zenon
    <2>6. bytes[i] = 2 /\ c = 4 <=> list[k].kind = "mss"
      BY <1>6, <1>10, <1>14
    <2>7. \A x : x \in f[i] <=> (list[k].kind = "mss" /\ x = i) \/ x \in f[off[k] + 1]
      BY <2>4, <2>5, <2>6, Zenon
    <2>8. list[k].kind # "end"
      BY <1>14
    <2> QED BY <2>7, <2>8, Zenon DEF o
  <1> QED BY <1>6, <1>12, <1>13, <1>14

(* So it meets all MSS options of the list, and takes nothing else for one. *)
EndsLast(list) == \A i \in 1 .. Len(list) : list[i].kind = "end" => i = Len(list)

MetAt(found, list, off) ==
    \A x : x \in found <=> \E m \in 1 .. Len(list) : list[m].kind = "mss" /\ x = off[m - 1] + 1

LEMMA WalkMeets ==
  ASSUME NEW segment, segment.data \in Seq(Nat), NEW list \in Seq(Options), NEW off,
         Laid(off, segment.options, list, Len(list)), EndsLast(list)
  PROVE  MetAt(MssOptions(segment), list, off)
  <1> DEFINE l == Len(list)
  <1>1. /\ off[l] = Len(segment.options) /\ segment.options \in Seq(Nat) /\ off[0] = 0
        /\ \A k \in 0 .. l : off[k] \in Nat
    BY Zenon DEF Laid
  <1>2. PICK f : /\ \A i \in 1 .. Len(segment.options) + 1 : f[i] = WalkFrom(segment, f, i)
                 /\ MssOptions(segment) = f[1]
    BY <1>1, WalkOf, Zenon
  <1>3. ASSUME NEW k \in 1 .. l
        PROVE  /\ list[k].kind = "end" => f[off[k - 1] + 1] = {}
               /\ list[k].kind # "end" =>
                     \A x : x \in f[off[k - 1] + 1] <=>
                               \/ list[k].kind = "mss" /\ x = off[k - 1] + 1
                               \/ x \in f[off[k] + 1]
    <2>1. StepsOver(f, off, list, k)
      BY <1>2, WalkStep, Zenon
    <2> QED BY <2>1, Zenon DEF StepsOver
  <1>4. l \in Nat
    OBVIOUS
  <1>5. \A k \in 1 .. l : list[k].kind = "end" => k = l
    BY Zenon DEF EndsLast
  <1>6. f[off[l] + 1] = {}
    <2>1. /\ Len(segment.options) + 1 \in 1 .. Len(segment.options) + 1
          /\ Len(segment.options) + 1 > Len(segment.options)
      BY <1>1
    <2> QED BY <1>1, <1>2, <2>1, Zenon DEF WalkFrom
  <1> HIDE DEF l
  <1> DEFINE Met(k, x) == \E m \in k + 1 .. l : list[m].kind = "mss" /\ x = off[m - 1] + 1
             Good(n) == n <= l => \A x : x \in f[off[l - n] + 1] <=> Met(l - n, x)
             P == {n \in Nat : Good(n)}
  <1>7. Good(0)
    <2>1. l - 0 = l /\ \A m : ~(m \in l + 1 .. l)
      BY <1>4
    <2> QED BY <1>6, <2>1, Zenon
  <1>8. ASSUME NEW n \in Nat, Good(n) PROVE Good(n + 1)
    <2> SUFFICES ASSUME n + 1 <= l, NEW x PROVE x \in f[off[l - (n + 1)] + 1] <=> Met(l - (n + 1), x)
      BY Zenon
    <2> DEFINE k == l - n
    <2>1. k \in 1 .. l /\ l - (n + 1) = k - 1 /\ n <= l /\ (k - 1) + 1 = k
      BY <1>4
    <2>2. \A y : y \in f[off[k] + 1] <=> Met(k, y)
      BY <1>8, <2>1, Zenon
    <2> HIDE DEF k
    <2>3. \A m : m \in k .. l <=> m = k \/ m \in k + 1 .. l
      BY <1>4, <2>1
    <2>4. Met(k - 1, x) <=> (list[k].kind = "mss" /\ x = off[k - 1] + 1) \/ Met(k, x)
      BY <2>1, <2>3, Zenon
    <2>5. CASE list[k].kind = "end"
      <3>1. f[off[k - 1] + 1] = {} /\ k = l /\ list[k].kind # "mss"
        BY <1>3, <1>5, <2>1, <2>5
      <3>2. ~Met(k, x)
        <4>1. \A m : ~(m \in l + 1 .. l)
          BY <1>4
        <4> QED BY <3>1, <4>1, Zenon
      <3> QED BY <2>1, <2>4, <3>1, <3>2, Zenon
    <2>6. CASE list[k].kind # "end"
      <3>1. x \in f[off[k - 1] + 1] <=> (list[k].kind = "mss" /\ x = off[k - 1] + 1) \/ x \in f[off[k] + 1]
        BY <1>3, <2>1, <2>6, Zenon
      <3> QED BY <2>1, <2>2, <2>4, <3>1, Zenon
    <2> QED BY <2>5, <2>6
  <1> HIDE DEF Good
  <1>9. P = Nat
    <2>1. P \in SUBSET Nat /\ 0 \in P /\ \A n \in Nat : n \in P => n + 1 \in P
      BY <1>7, <1>8
    <2> HIDE DEF P
    <2> QED BY <2>1, Upwards, Zenon
  <1>10. Good(l)
    BY <1>4, <1>9, Zenon
  <1>11. l <= l /\ l - l = 0 /\ 0 + 1 = 1
    BY <1>4
  <1>12. \A x : x \in f[1] <=> Met(0, x)
    <2>1. \A x : x \in f[off[l - l] + 1] <=> Met(l - l, x)
      BY <1>10, <1>11, Zenon DEF Good
    <2>2. off[l - l] + 1 = 1
      BY <1>1, <1>11
    <2> HIDE DEF Met
    <2> QED BY <1>11, <2>1, <2>2, Zenon
  <1>13. \A x : Met(0, x) <=> \E m \in 1 .. l : list[m].kind = "mss" /\ x = off[m - 1] + 1
    BY <1>11, Zenon
  <1> HIDE DEF Met
  <1> QED BY <1>2, <1>12, <1>13, Zenon DEF l, MetAt

-----------------------------------------------------------------------------
(* Lowering the MSS in the bytes and in the list *)

TooHigh(segment, list, m) ==
    segment.syn /\ list[m].kind = "mss" /\ list[m].mss > max_mss(segment)

HighMss(segment) ==
    {i \in MssOptions(segment) : segment.syn /\ WordAt(segment.options, i + 2) > max_mss(segment)}

LoweredBytes(segment) ==
    [k \in DOMAIN segment.options |->
        IF k - 2 \in HighMss(segment) THEN max_mss(segment) \div Byte
        ELSE IF k - 3 \in HighMss(segment) THEN max_mss(segment) % Byte
        ELSE segment.options[k]]

LoweredList(segment, list) ==
    [i \in DOMAIN list |-> IF segment.syn THEN Lowered(list[i], max_mss(segment)) ELSE list[i]]

LEMMA DivMod ==
  ASSUME NEW n \in Nat
  PROVE  n \div Byte \in Nat /\ n % Byte \in Nat /\ (n \div Byte) * Byte + (n % Byte) = n
  <1>1. Byte \in Nat /\ Byte > 1
    BY DefenseAssumption
  <1> QED BY <1>1

LEMMA MaxIsNat ==
  ASSUME NEW segment, segment.headers \in Nat
  PROVE  max_mss(segment) \in Nat
  BY DefenseAssumption DEF max_mss

LEMMA LoweredFacts ==
  ASSUME NEW segment, segment.headers \in Nat, NEW list \in Seq(Options)
  PROVE  /\ LoweredList(segment, list) \in Seq(Options) /\ Len(LoweredList(segment, list)) = Len(list)
         /\ \A m \in 1 .. Len(list) :
               /\ ~TooHigh(segment, list, m) => LoweredList(segment, list)[m] = list[m]
               /\ TooHigh(segment, list, m) =>
                     /\ LoweredList(segment, list)[m].kind = "mss"
                     /\ LoweredList(segment, list)[m].mss = max_mss(segment)
  <1> DEFINE max == max_mss(segment)
             low == LoweredList(segment, list)
             l == Len(list)
  <1>1. max \in Nat
    BY MaxIsNat
  <1>2. l \in Nat /\ DOMAIN list = 1 .. l
    OBVIOUS
  <1>3. low = [i \in 1 .. l |-> IF segment.syn THEN Lowered(list[i], max) ELSE list[i]]
    BY <1>2, Zenon DEF LoweredList
  <1>a. \A m \in 1 .. l : list[m] \in Options
    OBVIOUS
  <1> HIDE DEF max, low, l
  <1>4. ASSUME NEW m \in 1 .. l
        PROVE  /\ low[m] \in Options
               /\ ~(segment.syn /\ list[m].kind = "mss" /\ list[m].mss > max) => low[m] = list[m]
               /\ segment.syn /\ list[m].kind = "mss" /\ list[m].mss > max =>
                     low[m].kind = "mss" /\ low[m].mss = max
    <2> DEFINE option == list[m]
    <2>1. option \in Options /\ low[m] = IF segment.syn THEN Lowered(option, max) ELSE option
      BY <1>3, <1>a, Zenon
    <2> HIDE DEF option
    <2>2. CASE ~(segment.syn /\ option.kind = "mss" /\ option.mss > max)
      <3>1. low[m] = option
        BY <2>1, <2>2, Zenon DEF Lowered
      <3> QED BY <2>1, <2>2, <3>1, Zenon DEF option
    <2>3. CASE segment.syn /\ option.kind = "mss" /\ option.mss > max
      <3>1. low[m] = [option EXCEPT !.mss = max]
        BY <2>1, <2>3, Zenon DEF Lowered
      <3>2. option \in [kind: {"mss"}, mss: Nat]
        BY <2>1, <2>3 DEF Options
      <3>3. low[m] \in [kind: {"mss"}, mss: Nat] /\ low[m].kind = "mss" /\ low[m].mss = max
        BY <1>1, <3>1, <3>2
      <3>4. low[m] \in Options
        BY <3>3 DEF Options
      <3> QED BY <2>3, <3>3, <3>4, Zenon DEF option
    <2> QED BY <2>2, <2>3, Zenon
  <1>5. low \in [1 .. l -> Options]
    BY <1>3, <1>4
  <1>6. low \in Seq(Options) /\ Len(low) = l
    BY <1>2, <1>5
  <1> QED BY <1>4, <1>6, Zenon DEF low, l, max, TooHigh

HighAt(high, segment, list, off) ==
    \A x : x \in high <=>
              \E m \in 1 .. Len(list) : TooHigh(segment, list, m) /\ x = off[m - 1] + 1

(* The options found too high are those of the list. *)
LEMMA HighFacts ==
  ASSUME NEW segment, segment.data \in Seq(Nat), NEW list \in Seq(Options), NEW off,
         Laid(off, segment.options, list, Len(list)), EndsLast(list)
  PROVE  HighAt(HighMss(segment), segment, list, off)
  <1>1. \A x : x \in MssOptions(segment) <=>
                  \E m \in 1 .. Len(list) : list[m].kind = "mss" /\ x = off[m - 1] + 1
    <2>1. MetAt(MssOptions(segment), list, off)
      BY WalkMeets, Zenon
    <2> QED BY <2>1, Zenon DEF MetAt
  <1>2. ASSUME NEW m \in 1 .. Len(list), list[m].kind = "mss"
        PROVE  WordAt(segment.options, (off[m - 1] + 1) + 2) = list[m].mss
    <2> DEFINE option == list[m]
               code == Encoded(option)
               o == off[m - 1]
               bytes == segment.options
    <2>1. /\ \A j \in 1 .. Len(code) : bytes[o + j] = code[j]
          /\ \A k \in 0 .. Len(list) : off[k] \in Nat
      BY Zenon DEF Laid
    <2>2. option \in Options /\ option.kind = "mss" /\ m - 1 \in 0 .. Len(list)
      BY <1>2
    <2> HIDE DEF option
    <2>3. /\ option.mss \in Nat /\ Len(code) = 4
          /\ code = <<2, 4, option.mss \div Byte, option.mss % Byte>>
      BY <2>2, EncodedFacts, Zenon
    <2>4. o \in Nat
      BY <2>1, <2>2, Zenon
    <2> HIDE DEF o, code, bytes
    <2>5. (o + 1) + 2 = o + 3 /\ (o + 3) + 1 = o + 4
      BY <2>4
    <2>6. bytes[o + 3] = option.mss \div Byte /\ bytes[o + 4] = option.mss % Byte
      <3>1. code[3] = option.mss \div Byte /\ code[4] = option.mss % Byte
        BY <2>3
      <3>2. 3 \in 1 .. Len(code) /\ 4 \in 1 .. Len(code)
        BY <2>3
      <3> QED BY <2>1, <3>1, <3>2, Zenon
    <2>7. WordAt(bytes, (o + 1) + 2) = (option.mss \div Byte) * Byte + (option.mss % Byte)
      BY <2>5, <2>6, Zenon DEF WordAt
    <2>8. (option.mss \div Byte) * Byte + (option.mss % Byte) = option.mss
      BY <2>3, DivMod, Zenon
    <2> QED BY <2>7, <2>8, Zenon DEF option, o, bytes
  <1>3. ASSUME NEW x
        PROVE  x \in HighMss(segment) <=>
                  \E m \in 1 .. Len(list) : TooHigh(segment, list, m) /\ x = off[m - 1] + 1
    <2>1. ASSUME x \in HighMss(segment)
          PROVE  \E m \in 1 .. Len(list) : TooHigh(segment, list, m) /\ x = off[m - 1] + 1
      <3>1. /\ x \in MssOptions(segment) /\ segment.syn
            /\ WordAt(segment.options, x + 2) > max_mss(segment)
        BY <2>1, Zenon DEF HighMss
      <3>2. PICK m \in 1 .. Len(list) : list[m].kind = "mss" /\ x = off[m - 1] + 1
        BY <1>1, <3>1, Zenon
      <3>3. TooHigh(segment, list, m)
        BY <1>2, <3>1, <3>2, Zenon DEF TooHigh
      <3> QED BY <3>2, <3>3, Zenon
    <2>2. ASSUME NEW m \in 1 .. Len(list), TooHigh(segment, list, m), x = off[m - 1] + 1
          PROVE  x \in HighMss(segment)
      <3>1. list[m].kind = "mss" /\ segment.syn /\ list[m].mss > max_mss(segment)
        BY <2>2, Zenon DEF TooHigh
      <3>2. x \in MssOptions(segment)
        BY <1>1, <2>2, <3>1, Zenon
      <3>3. WordAt(segment.options, x + 2) > max_mss(segment)
        BY <1>2, <2>2, <3>1, Zenon
      <3> QED BY <3>1, <3>2, <3>3, Zenon DEF HighMss
    <2> QED BY <2>1, <2>2, Zenon
  <1> QED BY <1>3, Zenon DEF HighAt

LEMMA BytesLowered ==
  ASSUME NEW segment, segment.headers \in Nat, segment.data \in Seq(Nat),
         NEW list \in Seq(Options), segment.options = EncodedList(list), EndsLast(list)
  PROVE  LoweredBytes(segment) = EncodedList(LoweredList(segment, list))
  <1> DEFINE max == max_mss(segment)
             l == Len(list)
             low == LoweredList(segment, list)
             bytes == segment.options
             new == LoweredBytes(segment)
             high == HighMss(segment)
             Hi(m) == TooHigh(segment, list, m)
  <1>1. PICK off : Laid(off, bytes, list, l)
    BY LaidOut, Zenon
  <1>2. \A x : x \in high <=> \E m \in 1 .. l : Hi(m) /\ x = off[m - 1] + 1
    <2>1. HighAt(high, segment, list, off)
      BY <1>1, HighFacts, Zenon
    <2> QED BY <2>1, Zenon DEF HighAt
  <1>3. /\ low \in Seq(Options) /\ Len(low) = l
        /\ \A m \in 1 .. l : /\ ~Hi(m) => low[m] = list[m]
                             /\ Hi(m) => low[m].kind = "mss" /\ low[m].mss = max
    BY LoweredFacts, Zenon
  <1>4. l \in Nat /\ max \in Nat /\ \A m \in 1 .. l : list[m] \in Options
    BY MaxIsNat
  <1>5. \A m \in 1 .. l : Hi(m) => list[m].kind = "mss"
    BY Zenon DEF TooHigh
  <1>6. /\ off \in [0 .. l -> Nat] /\ off[0] = 0
        /\ bytes \in Seq(Nat) /\ Len(bytes) = off[l]
        /\ \A i, k \in 0 .. l : i <= k => off[i] <= off[k]
        /\ \A p \in 1 .. Len(bytes) : \E k \in 1 .. l : off[k - 1] < p /\ p <= off[k]
        /\ \A k \in 1 .. l :
              /\ Encoded(list[k]) \in Seq(Nat)
              /\ off[k] = off[k - 1] + Len(Encoded(list[k]))
              /\ \A j \in 1 .. Len(Encoded(list[k])) : bytes[off[k - 1] + j] = Encoded(list[k])[j]
    BY <1>1, Zenon DEF Laid
  <1>7. DOMAIN bytes = 1 .. Len(bytes)
    BY <1>6
  <1>8. new = [k \in 1 .. Len(bytes) |->
                 IF k - 2 \in high THEN max \div Byte
                 ELSE IF k - 3 \in high THEN max % Byte ELSE bytes[k]]
    BY <1>7, Zenon DEF LoweredBytes
  <1> HIDE DEF max, low, bytes, new, high, Hi, l
  <1>9. max \div Byte \in Nat /\ max % Byte \in Nat
    BY <1>4, DivMod, Zenon
  <1>10. new \in Seq(Nat) /\ Len(new) = Len(bytes)
    <2>1. \A k \in 1 .. Len(bytes) : bytes[k] \in Nat
      BY <1>6, ElementOfList, Zenon
    <2>2. Len(bytes) \in Nat
      BY <1>6, LenOf, Zenon
    <2> DEFINE n == Len(bytes)
    <2> HIDE DEF n
    <2>3. new \in [1 .. n -> Nat]
      BY <1>8, <1>9, <2>1 DEF n
    <2> QED BY <2>2, <2>3 DEF n
  <1>11. ASSUME NEW k \in 1 .. l, Hi(k)
         PROVE  /\ Encoded(list[k]) = <<2, 4, list[k].mss \div Byte, list[k].mss % Byte>>
                /\ Encoded(low[k]) = <<2, 4, max \div Byte, max % Byte>>
                /\ Len(Encoded(list[k])) = 4 /\ Len(Encoded(low[k])) = 4
    <2> DEFINE a == list[k]
               b == low[k]
    <2>1. a \in Options /\ a.kind = "mss"
      BY <1>4, <1>5, <1>11, Zenon
    <2>2. b \in Options /\ b.kind = "mss" /\ b.mss = max
      <3>1. k \in 1 .. Len(low)
        BY <1>3, Zenon
      <3>2. b \in Options
        BY <1>3, <3>1, ElementOfList, Zenon
      <3> QED BY <1>3, <1>11, <3>2, Zenon
    <2> HIDE DEF a, b
    <2>3. Encoded(a) = <<2, 4, a.mss \div Byte, a.mss % Byte>> /\ Len(Encoded(a)) = 4
      BY <2>1, EncodedFacts, Zenon
    <2>4. Encoded(b) = <<2, 4, b.mss \div Byte, b.mss % Byte>> /\ Len(Encoded(b)) = 4
      BY <2>2, EncodedFacts, Zenon
    <2> QED BY <2>2, <2>3, <2>4, Zenon DEF a, b
  <1>12. ASSUME NEW k \in 1 .. l
         PROVE  Encoded(low[k]) \in Seq(Nat) /\ Len(Encoded(low[k])) = Len(Encoded(list[k]))
    <2>1. CASE Hi(k)
      <3>1. low[k] \in Options
        BY <1>3, ElementOfList, Zenon
      <3> DEFINE b == low[k]
      <3> HIDE DEF b
      <3>2. Encoded(b) \in Seq(Nat)
        BY <3>1, EncodedFacts, Zenon DEF b
      <3> QED BY <1>11, <2>1, <3>2, Zenon DEF b
    <2>2. CASE ~Hi(k)
      BY <1>3, <1>6, <2>2, Zenon
    <2> QED BY <2>1, <2>2
  <1>13. ASSUME NEW k \in 1 .. l, NEW j \in 1 .. Len(Encoded(list[k]))
         PROVE  new[off[k - 1] + j] = Encoded(low[k])[j]
    <2> DEFINE o == off[k - 1]
               p == o + j
               c == Len(Encoded(list[k]))
    <2>1. k - 1 \in 0 .. l /\ k \in 0 .. l /\ l \in 0 .. l /\ k <= l
      BY <1>4
    <2>2. o \in Nat /\ c \in Nat /\ o + c <= Len(bytes) /\ Len(bytes) \in Nat
      <3>1. o \in Nat /\ off[k] <= off[l] /\ off[k] = o + c
        BY <1>6, <2>1, Zenon
      <3>2. c \in Nat
        BY <1>6, LenOf, Zenon
      <3>3. Len(bytes) \in Nat
        BY <1>6, LenOf, Zenon
      <3> QED BY <1>6, <3>1, <3>2, <3>3, Zenon
    <2>3. j \in 1 .. c
      OBVIOUS
    <2>4. bytes[p] = Encoded(list[k])[j]
      BY <1>6, Zenon
    <2>5. ASSUME NEW i \in {2, 3}, p - i \in high PROVE Hi(k) /\ j = i + 1
      <3>1. PICK m \in 1 .. l : Hi(m) /\ p - i = off[m - 1] + 1
        BY <1>2, <2>5, Zenon
      <3>2. i + 1 \in 1 .. Len(Encoded(list[m]))
        <4>1. Len(Encoded(list[m])) = 4
          BY <1>11, <3>1, Zenon
        <4>2. i + 1 \in 1 .. 4
          OBVIOUS
        <4> QED BY <4>1, <4>2, Zenon
      <3>3. off[m - 1] \in Nat
        <4>1. m - 1 \in 0 .. l
          BY <1>4
        <4> QED BY <1>6, <4>1
      <3>4. off[k - 1] + j = off[m - 1] + (i + 1)
        <4> DEFINE q == off[m - 1]
        <4> HIDE DEF o, q
        <4>1. p - i = q + 1 /\ q \in Nat
          BY <3>1, <3>3 DEF q
        <4>2. o + j = q + (i + 1)
          BY <2>2, <2>3, <2>5, <4>1
        <4> QED BY <4>2 DEF o, q
      <3>5. k = m /\ j = i + 1
        <4> DEFINE r == i + 1
        <4> HIDE DEF r
        <4>1. ByteOf(off, list, k, j, p) /\ ByteOf(off, list, m, r, p)
          BY <3>2, <3>4, Zenon DEF r, ByteOf
        <4> HIDE DEF p
        <4>2. k = m /\ j = r
          BY <1>1, <1>4, <4>1, OptionAt, Zenon
        <4> QED BY <4>2, Zenon DEF r
      <3> QED BY <3>1, <3>5, Zenon
    <2>6. Hi(k) => o + 1 \in high
      BY <1>2, Zenon
    <2> HIDE DEF o, c
    <2>7. p \in 1 .. Len(bytes)
      BY <2>2, <2>3
    <2>8. new[p] = IF p - 2 \in high THEN max \div Byte
                   ELSE IF p - 3 \in high THEN max % Byte ELSE bytes[p]
      BY <1>8, <2>7, Zenon
    <2>9. CASE ~Hi(k)
      <3>1. p - 2 \notin high /\ p - 3 \notin high
        BY <2>5, <2>9
      <3> QED BY <1>3, <2>4, <2>8, <2>9, <3>1, Zenon DEF o
    <2>10. CASE Hi(k)
      <3>0. c = 4
        BY <1>11, <2>10, Zenon DEF c
      <3>1. j \in {1, 2, 3, 4}
        BY <2>3, <3>0
      <3>2. Encoded(low[k])[j] = CASE j = 1 -> 2 [] j = 2 -> 4 [] j = 3 -> max \div Byte [] j = 4 -> max % Byte
        BY <1>11, <2>10, <3>1
      <3>3. CASE j = 3
        <4>1. p - 2 = o + 1
          BY <2>2, <3>3
        <4> QED BY <2>6, <2>8, <2>10, <3>2, <3>3, <4>1 DEF o
      <3>4. CASE j = 4
        <4>1. p - 3 = o + 1 /\ p - 2 \notin high
          BY <2>2, <2>5, <3>4
        <4> QED BY <2>6, <2>8, <2>10, <3>2, <3>4, <4>1 DEF o
      <3>5. CASE j = 1 \/ j = 2
        <4>1. p - 3 \notin high /\ p - 2 \notin high
          BY <2>5, <3>5
        <4>2. new[p] = Encoded(list[k])[j]
          BY <2>4, <2>8, <4>1, Zenon
        <4>3. Encoded(list[k])[1] = 2 /\ Encoded(list[k])[2] = 4
          BY <1>11, <2>10
        <4> QED BY <3>2, <3>5, <4>2, <4>3 DEF o
      <3> QED BY <3>1, <3>3, <3>4, <3>5
    <2> QED BY <2>9, <2>10
  <1>14. Laid(off, new, low, l)
    <2>1. \A k \in 1 .. l :
              /\ Encoded(low[k]) \in Seq(Nat)
              /\ off[k] = off[k - 1] + Len(Encoded(low[k]))
              /\ \A j \in 1 .. Len(Encoded(low[k])) : new[off[k - 1] + j] = Encoded(low[k])[j]
      BY <1>6, <1>12, <1>13, Zenon
    <2> QED BY <1>6, <1>10, <2>1, Zenon DEF Laid
  <1>15. \E to : Laid(to, EncodedList(low), low, l)
    BY <1>3, LaidOut, Zenon
  <1>16. new = EncodedList(low)
    BY <1>4, <1>14, <1>15, LaidOnce, Zenon
  <1> QED BY <1>16 DEF new, low

-----------------------------------------------------------------------------
(* Segments and packets *)

Segments == [options: Seq(Nat), syn: BOOLEAN, data: Seq(Nat), headers: Nat, pseudo: Nat, checksum: Nat]

LEMMA SumOfSegment ==
  ASSUME NEW segment \in Segments
  PROVE  SegmentSum(segment) \in Nat
  <1>1. segment.options \in Seq(Nat) /\ segment.data \in Seq(Nat) /\ segment.pseudo \in Nat
    BY DEF Segments
  <1> DEFINE a == Sum(segment.options)
             b == Sum(segment.data)
  <1>2. a \in Nat /\ b \in Nat
    BY <1>1, SumIsNat, Zenon
  <1> HIDE DEF a, b
  <1>3. segment.pseudo + a + b \in Nat
    BY <1>1, <1>2
  <1> QED BY <1>3 DEF SegmentSum, a, b

(* recompute_tcp_checksum touches the checksum only, and leaves the right one. *)
LEMMA Recomputed ==
  ASSUME NEW segment \in Segments
  PROVE  LET new == recompute_tcp_checksum(segment)
         IN  /\ new \in Segments /\ new.checksum = ip_checksum(SegmentSum(new))
             /\ new.options = segment.options /\ new.data = segment.data /\ new.syn = segment.syn
             /\ new.headers = segment.headers /\ new.pseudo = segment.pseudo
  <1> DEFINE sum == SegmentSum(segment)
             checksum == ip_checksum(sum)
             new == recompute_tcp_checksum(segment)
  <1>1. checksum \in Nat
    BY SumOfSegment, FoldsToOnes, Zenon
  <1>2. new = [segment EXCEPT !.checksum = checksum]
    BY Zenon DEF recompute_tcp_checksum
  <1> HIDE DEF checksum, new
  <1>3. /\ new \in Segments /\ new.checksum = checksum
        /\ new.options = segment.options /\ new.data = segment.data /\ new.syn = segment.syn
        /\ new.headers = segment.headers /\ new.pseudo = segment.pseudo
    BY <1>1, <1>2 DEF Segments
  <1>4. SegmentSum(new) = sum
    BY <1>3, Zenon DEF SegmentSum
  <1> QED BY <1>3, <1>4, Zenon DEF checksum, new

MadeFrom(made, list) ==
    /\ made.kind = "segment" /\ made.list = list /\ list \in Seq(Options) /\ EndsLast(list)
    /\ made.segment \in Segments /\ made.segment.options = EncodedList(list)
    /\ made.segment.checksum = ip_checksum(SegmentSum(made.segment))

LEMMA SynFacts ==
  ASSUME NEW list \in OptionLists, NEW syn \in BOOLEAN, NEW data \in Payloads,
         NEW headers \in Headers, NEW pseudo \in Pseudo
  PROVE  MadeFrom(Syn(list, syn, data, headers, pseudo), list)
  <1> DEFINE options == EncodedList(list)
             bare == [options |-> options, syn |-> syn, data |-> data,
                      headers |-> headers, pseudo |-> pseudo, checksum |-> 0]
             made == Syn(list, syn, data, headers, pseudo)
  <1>1. /\ list \in Seq(Options) /\ data \in Seq(Nat) /\ headers \in Nat /\ pseudo \in Nat
        /\ \A i \in DOMAIN list : list[i].kind = "end" => i = Len(list)
    BY DefenseAssumption
  <1>2. EndsLast(list)
    BY <1>1 DEF EndsLast
  <1>3. options \in Seq(Nat)
    <2>1. PICK off : Laid(off, options, list, Len(list))
      BY <1>1, LaidOut, Zenon
    <2> QED BY <2>1, Zenon DEF Laid
  <1> HIDE DEF options
  <1>4. bare \in Segments /\ bare.options = options
    BY <1>1, <1>3 DEF Segments
  <1>5. made = [kind |-> "segment", list |-> list, segment |-> recompute_tcp_checksum(bare)]
    BY Zenon DEF Syn, options
  <1> HIDE DEF bare, made
  <1> DEFINE new == recompute_tcp_checksum(bare)
  <1>6. new \in Segments /\ new.checksum = ip_checksum(SegmentSum(new)) /\ new.options = bare.options
    BY <1>4, Recomputed, Zenon
  <1> HIDE DEF new
  <1>7. made.kind = "segment" /\ made.list = list /\ made.segment = new
    BY <1>5 DEF new
  <1> QED BY <1>1, <1>2, <1>4, <1>6, <1>7, Zenon DEF made, options, MadeFrom

(* clamp_mss, whether it finds something to lower or not *)
LEMMA ClampFacts ==
  ASSUME NEW segment \in Segments, segment.checksum = ip_checksum(SegmentSum(segment)),
         LoweredBytes(segment) \in Seq(Nat)
  PROVE  LET new == clamp_mss(segment)
         IN  /\ new \in Segments /\ new.checksum = ip_checksum(SegmentSum(new))
             /\ new.options = LoweredBytes(segment) /\ new.data = segment.data
  <1> DEFINE low == LoweredBytes(segment)
             high == HighMss(segment)
             lowered == [segment EXCEPT !.options = low]
  <1>1. clamp_mss(segment) = IF high = {} THEN segment ELSE recompute_tcp_checksum(lowered)
    BY Zenon DEF clamp_mss, HighMss, LoweredBytes
  <1>2. CASE high = {}
    <2>1. segment.options \in Seq(Nat)
      BY DEF Segments
    <2>2. low = segment.options
      <3>1. low = [k \in DOMAIN segment.options |-> segment.options[k]]
        BY <1>2, Zenon DEF LoweredBytes
      <3> QED BY <2>1, <3>1
    <2> QED BY <1>1, <1>2, <2>2, Zenon
  <1>3. CASE high # {}
    <2> HIDE DEF low, high
    <2>1. lowered \in Segments /\ lowered.options = low /\ lowered.data = segment.data
      BY DEF Segments, low
    <2> DEFINE new == recompute_tcp_checksum(lowered)
    <2> HIDE DEF lowered
    <2>2. /\ new \in Segments /\ new.checksum = ip_checksum(SegmentSum(new))
          /\ new.options = lowered.options /\ new.data = lowered.data
      BY <2>1, Recomputed, Zenon
    <2> QED BY <1>1, <1>3, <2>1, <2>2, Zenon DEF low
  <1> QED BY <1>2, <1>3

(* The message for a packet that is too long *)
LEMMA FragNeededFacts ==
  ASSUME NEW packet \in LongPackets
  PROVE  LET frag == build_icmp_frag_needed(packet)
         IN  frag = <<>> \/ \E body \in Seq(Nat) : \E from, to :
                frag = <<[from |-> from, to |-> to, checksum |-> ip_checksum(Sum(body)), body |-> body]>>
  <1>1. PICK n \in {Mtu + 1, Mtu + 2}, k \in 0 .. Byte - 1 :
           packet = [src |-> "near", dst |-> "far", ihl |-> 20,
                     bytes |-> [i \in 1 .. n |-> (i * k) % Byte]]
    BY DEF LongPackets
  <1>2. n \in Nat /\ k \in Nat /\ Byte \in Nat /\ Byte > 1 /\ Mtu \in Nat
    BY DefenseAssumption
  <1>3. packet.bytes = [i \in 1 .. n |-> (i * k) % Byte] /\ packet.ihl = 20
    BY <1>1
  <1>4. packet.bytes \in Seq(Nat) /\ Len(packet.bytes) = n
    <2>1. \A i \in 1 .. n : i * k \in Nat
      BY <1>2
    <2>2. \A i \in 1 .. n : (i * k) % Byte \in Nat
      BY <1>2, <2>1
    <2>3. packet.bytes \in [1 .. n -> Nat]
      BY <1>3, <2>2, Zenon
    <2> QED BY <1>2, <2>3
  <1> DEFINE bytes == packet.bytes
             part == SubSeq(bytes, 1, packet.ihl + 8)
             head == <<3, 4, 0, 0, 0, 0, Mtu \div Byte, Mtu % Byte>>
             body == head \o part
  <1>5. CASE Len(bytes) < packet.ihl + 8
    BY <1>5, Zenon DEF build_icmp_frag_needed
  <1>6. CASE ~(Len(bytes) < packet.ihl + 8)
    <2>1. Mtu \div Byte \in Nat /\ Mtu % Byte \in Nat
      BY <1>2, DivMod, Zenon
    <2>2. head \in Seq(Nat)
      BY <2>1
    <2>3. part \in Seq(Nat)
      <3>0. bytes \in Seq(Nat) /\ Len(bytes) \in Nat /\ packet.ihl = 20 /\ ~(Len(bytes) < packet.ihl + 8)
        BY <1>2, <1>3, <1>4, <1>6, Zenon
      <3> HIDE DEF bytes
      <3>1. packet.ihl + 8 <= Len(bytes) /\ packet.ihl + 8 \in Nat
        BY <3>0
      <3> DEFINE upto == packet.ihl + 8
      <3> HIDE DEF upto
      <3>2. 1 \in 1 .. Len(bytes) + 1 /\ upto \in 0 .. Len(bytes)
        BY <3>0, <3>1 DEF upto
      <3>3. SubSeq(bytes, 1, upto) \in Seq(Nat)
        BY <3>0, <3>2
      <3> QED BY <3>3, Zenon DEF upto
    <2> HIDE DEF head, part
    <2>4. body \in Seq(Nat)
      BY <2>2, <2>3, Joined, Zenon
    <2>5. build_icmp_frag_needed(packet) =
            <<[from |-> packet.dst, to |-> packet.src, checksum |-> ip_checksum(Sum(body)), body |-> body]>>
      BY <1>6, Zenon DEF build_icmp_frag_needed, head, part
    <2> HIDE DEF body
    <2> QED BY <2>4, <2>5, Zenon
  <1> QED BY <1>5, <1>6

(* What has been read and what has become of it belong together. *)
DefenseInv ==
    \/ given = [kind |-> "none"] /\ result = <<>>
    \/ \E list \in OptionLists, syn \in BOOLEAN, data \in Payloads, headers \in Headers, pseudo \in Pseudo :
          /\ given = Syn(list, syn, data, headers, pseudo)
          /\ result = <<clamp_mss(given.segment)>>
    \/ \E packet \in LongPackets :
          /\ given = [kind |-> "packet", packet |-> packet]
          /\ result = build_icmp_frag_needed(packet)

LEMMA DefenseInvariant == DefenseSpec => []DefenseInv
  <1>1. DefenseInit => DefenseInv
    BY Zenon DEF DefenseInit, DefenseInv
  <1>2. DefenseInv /\ [DefenseNext]_defense_vars => DefenseInv'
    <2> SUFFICES ASSUME DefenseInv, [DefenseNext]_defense_vars PROVE DefenseInv'
      OBVIOUS
    <2>1. ASSUME NEW list \in OptionLists, NEW syn \in BOOLEAN, NEW data \in Payloads,
                 NEW headers \in Headers, NEW pseudo \in Pseudo, Clamp(list, syn, data, headers, pseudo)
          PROVE  DefenseInv'
      BY <2>1, Zenon DEF Clamp, DefenseInv
    <2>2. ASSUME NEW packet \in LongPackets, FragNeeded(packet) PROVE DefenseInv'
      BY <2>2, Zenon DEF FragNeeded, DefenseInv
    <2>3. CASE UNCHANGED defense_vars
      BY <2>3, Zenon DEF defense_vars, DefenseInv
    <2> QED BY <2>1, <2>2, <2>3, Zenon DEF DefenseNext
  <1> QED BY <1>1, <1>2, PTL DEF DefenseSpec

(* What clamp_mss leaves of a segment the device delivers *)
LEMMA ClampedSegment ==
  ASSUME NEW list \in OptionLists, NEW syn \in BOOLEAN, NEW data \in Payloads,
         NEW headers \in Headers, NEW pseudo \in Pseudo
  PROVE  LET segment == Syn(list, syn, data, headers, pseudo).segment
             new == clamp_mss(segment)
         IN  /\ new \in Segments /\ new.checksum = ip_checksum(SegmentSum(new))
             /\ new.options = EncodedList(LoweredList(segment, list)) /\ new.data = segment.data
  <1> DEFINE made == Syn(list, syn, data, headers, pseudo)
             segment == made.segment
             low == LoweredList(segment, list)
  <1>1. /\ list \in Seq(Options) /\ EndsLast(list)
        /\ segment \in Segments /\ segment.options = EncodedList(list)
        /\ segment.checksum = ip_checksum(SegmentSum(segment))
    <2>1. MadeFrom(made, list)
      BY SynFacts, Zenon
    <2> QED BY <2>1, Zenon DEF MadeFrom
  <1> HIDE DEF segment
  <1>2. segment.headers \in Nat /\ segment.data \in Seq(Nat)
    BY <1>1 DEF Segments
  <1>3. LoweredBytes(segment) = EncodedList(low)
    BY <1>1, <1>2, BytesLowered, Zenon
  <1>4. LoweredBytes(segment) \in Seq(Nat)
    <2>1. low \in Seq(Options)
      BY <1>1, <1>2, LoweredFacts, Zenon
    <2> HIDE DEF low
    <2>2. PICK off : Laid(off, EncodedList(low), low, Len(low))
      BY <2>1, LaidOut, Zenon
    <2> QED BY <1>3, <2>2, Zenon DEF Laid
  <1> HIDE DEF low
  <1> DEFINE new == clamp_mss(segment)
  <1>5. /\ new \in Segments /\ new.checksum = ip_checksum(SegmentSum(new))
        /\ new.options = LoweredBytes(segment) /\ new.data = segment.data
    BY <1>1, <1>4, ClampFacts, Zenon
  <1> QED BY <1>3, <1>5, Zenon DEF segment, low

(***************************************************************************)
(* Whatever options a SYN carries, in whatever order, and whatever its     *)
(* payload: clamp_mss lowers the MSS options it carries to what fits the   *)
(* tunnel's MTU and touches no other byte of the options or of the data.   *)
(***************************************************************************)
THEOREM ClampingIsExact == DefenseSpec => []ClampsTheList
  <1>1. DefenseInv => ClampsTheList
    <2> SUFFICES ASSUME DefenseInv, given.kind = "segment" PROVE ClampsTheList
      BY Zenon DEF ClampsTheList
    <2>1. given # [kind |-> "none"] /\ \A packet : given # [kind |-> "packet", packet |-> packet]
      OBVIOUS
    <2>2. PICK list \in OptionLists, syn \in BOOLEAN, data \in Payloads, headers \in Headers,
               pseudo \in Pseudo :
             given = Syn(list, syn, data, headers, pseudo) /\ result = <<clamp_mss(given.segment)>>
      BY <2>1, Zenon DEF DefenseInv
    <2>3. given.list = list
      <3>1. MadeFrom(given, list)
        BY <2>2, SynFacts, Zenon
      <3> QED BY <3>1, Zenon DEF MadeFrom
    <2>4. /\ clamp_mss(given.segment).options = EncodedList(LoweredList(given.segment, list))
          /\ clamp_mss(given.segment).data = given.segment.data
      BY <2>2, ClampedSegment, Zenon
    <2>5. result[1] = clamp_mss(given.segment)
      BY <2>2
    <2> QED BY <2>3, <2>4, <2>5, Zenon DEF ClampsTheList, LoweredList
  <1> QED BY <1>1, DefenseInvariant, PTL

(***************************************************************************)
(* Every segment and every "fragmentation needed" message that leaves has  *)
(* a checksum its receiver accepts, for every size of a word: the sum of   *)
(* all words and of ip_checksum's complement folds to a word of ones.      *)
(***************************************************************************)
THEOREM ReceiversAcceptChecksums == DefenseSpec => []ChecksumsVerify
  <1>1. DefenseInv => ChecksumsVerify
    <2> SUFFICES ASSUME DefenseInv, NEW i \in DOMAIN result
                 PROVE  Folded((IF given.kind = "segment" THEN SegmentSum(result[i])
                                ELSE Sum(result[i].body)) + result[i].checksum) = Word - 1
      BY Zenon DEF ChecksumsVerify
    <2>1. ASSUME NEW list \in OptionLists, NEW syn \in BOOLEAN, NEW data \in Payloads,
                 NEW headers \in Headers, NEW pseudo \in Pseudo,
                 given = Syn(list, syn, data, headers, pseudo), result = <<clamp_mss(given.segment)>>
          PROVE  given.kind = "segment" /\ Folded(SegmentSum(result[i]) + result[i].checksum) = Word - 1
      <3> DEFINE new == clamp_mss(given.segment)
      <3>1. given.kind = "segment"
        <4>1. MadeFrom(given, list)
          BY <2>1, SynFacts, Zenon
        <4> QED BY <4>1, Zenon DEF MadeFrom
      <3>2. new \in Segments /\ new.checksum = ip_checksum(SegmentSum(new))
        BY <2>1, ClampedSegment, Zenon
      <3> HIDE DEF new
      <3>3. result[i] = new
        BY <2>1 DEF new
      <3>4. SegmentSum(new) \in Nat
        BY <3>2, SumOfSegment, Zenon
      <3>5. Folded(SegmentSum(new) + ip_checksum(SegmentSum(new))) = Word - 1
        BY <3>4, FoldsToOnes, Zenon
      <3> QED BY <3>1, <3>2, <3>3, <3>5, Zenon
    <2>2. ASSUME NEW packet \in LongPackets, given = [kind |-> "packet", packet |-> packet],
                 result = build_icmp_frag_needed(packet)
          PROVE  given.kind # "segment" /\ Folded(Sum(result[i].body) + result[i].checksum) = Word - 1
      <3>1. given.kind # "segment"
        BY <2>2
      <3>2. result # <<>>
        OBVIOUS
      <3>3. PICK body \in Seq(Nat) : \E from, to :
               result = <<[from |-> from, to |-> to, checksum |-> ip_checksum(Sum(body)), body |-> body]>>
        BY <2>2, <3>2, FragNeededFacts, Zenon
      <3>4. result[i].body = body /\ result[i].checksum = ip_checksum(Sum(body))
        BY <3>3
      <3>5. Sum(body) \in Nat
        BY SumIsNat, Zenon
      <3>6. Folded(Sum(body) + ip_checksum(Sum(body))) = Word - 1
        BY <3>5, FoldsToOnes, Zenon
      <3> QED BY <3>1, <3>4, <3>6, Zenon
    <2>3. CASE given = [kind |-> "none"] /\ result = <<>>
      <3>1. DOMAIN result = {}
        BY <2>3
      <3> QED BY <3>1
    <2> QED BY <2>1, <2>2, <2>3, Zenon DEF DefenseInv
  <1> QED BY <1>1, DefenseInvariant, PTL
==============================================================================
