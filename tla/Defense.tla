------------------------------- MODULE Defense ------------------------------
(***************************************************************************)
(* What the TUN loop does to IPv4 packets that would not fit the tunnel    *)
(* (crates/r2n-dataplane, defense.rs): the maximum segment size that a TCP *)
(* SYN announces is lowered, and a packet that is too long and must not be *)
(* fragmented is answered with an ICMP message.                            *)
(*                                                                         *)
(* Bytes are digits to the base Byte, words are pairs of them.  A segment  *)
(* has a header, of which the checksum and the SYN flag matter, options,   *)
(* given as the bytes up to data_offset, and data.  The operating system   *)
(* hands over packets as long as their headers say.                        *)
(***************************************************************************)
EXTENDS Integers, Sequences

CONSTANTS
    Byte,            \* 256
    Mtu,             \* tun_mtu
    Headers,         \* lengths of IPv4 header plus 20, ihl + 20
    OptionLists,     \* lists of TCP options, see Encoded
    Payloads,        \* data of segments
    Pseudo           \* sums of the pseudo header and of the header without the checksum

(* The kinds an option may have, with what its bytes are made from; see Encoded *)
Options ==
    [kind: {"nop"}] \cup [kind: {"mss"}, mss: Nat] \cup [kind: {"other", "end"}, data: Seq(Nat)]

(* Nothing but padding follows the end of a list of options. *)
ASSUME DefenseAssumption ==
    /\ Byte \in Nat /\ Byte > 1 /\ Mtu \in Nat /\ Headers \subseteq Nat /\ Pseudo \subseteq Nat
    /\ Payloads \subseteq Seq(Nat)
    /\ \A list \in OptionLists :
          /\ list \in Seq(Options)
          /\ \A i \in DOMAIN list : list[i].kind = "end" => i = Len(list)

VARIABLES
    given,           \* the packet read from the device
    result           \* what becomes of it

defense_vars == <<given, result>>

Word == Byte * Byte
WordAt(bytes, i) == bytes[i] * Byte + bytes[i + 1]

(* The sum of the words, an odd byte being the upper half of the last, folded to one word *)
Sum(bytes) ==
    LET sum[n \in Nat] ==
            IF n = 0 THEN 0 ELSE sum[n - 1] + (IF n % 2 = 1 THEN bytes[n] * Byte ELSE bytes[n])
    IN  sum[Len(bytes)]
Folded(sum) ==
    LET fold[n \in Nat] == IF n < Word THEN n ELSE fold[(n % Word) + (n \div Word)]
    IN  fold[sum]

(* Mutant of ip_checksum: the carry is dropped. *)
ip_checksum_truncated(sum) == Word - 1 - (sum % Word)

ip_checksum(sum) == Word - 1 - Folded(sum)

SegmentSum(segment) == segment.pseudo + Sum(segment.options) + Sum(segment.data)

recompute_tcp_checksum(segment) ==
    [segment EXCEPT !.checksum = ip_checksum(SegmentSum(segment))]

(* Mutant of MssOptions: any 2, 4 is taken for an option. *)
MssOptionsAnywhere(segment) ==
    {i \in 1 .. Len(segment.options) - 3 : SubSeq(segment.options, i, i + 1) = <<2, 4>>}

(* The walk from option to option: where the MSS options are that it meets *)
MssOptions(segment) ==
    LET bytes == segment.options
        tcp_end == Len(bytes) + Len(segment.data)
        from[i \in 1 .. Len(bytes) + 1] ==
            IF i > Len(bytes) \/ i >= tcp_end \/ bytes[i] = 0 THEN {}
            ELSE IF bytes[i] = 1 THEN from[i + 1]
            ELSE LET next == i + (bytes \o segment.data)[i + 1] IN
                 IF next < i + 2 \/ next > Len(bytes) + 1 THEN {}
                 ELSE {j \in {i} : bytes[i] = 2 /\ next = i + 4} \cup from[next]
    IN  from[1]

max_mss(segment) == IF Mtu > segment.headers THEN Mtu - segment.headers ELSE 0

clamp_mss(segment) ==
    LET high == {i \in MssOptions(segment) :
                    segment.syn /\ WordAt(segment.options, i + 2) > max_mss(segment)}
        options == [k \in DOMAIN segment.options |->
                        IF k - 2 \in high THEN max_mss(segment) \div Byte
                        ELSE IF k - 3 \in high THEN max_mss(segment) % Byte
                        ELSE segment.options[k]]
    IN  IF high = {} THEN segment
        ELSE recompute_tcp_checksum([segment EXCEPT !.options = options])

(* The header of the original and 8 bytes more go into the answer, back to the sender. *)
build_icmp_frag_needed(packet) ==
    LET body == <<3, 4, 0, 0, 0, 0, Mtu \div Byte, Mtu % Byte>> \o SubSeq(packet.bytes, 1, packet.ihl + 8)
    IN  IF Len(packet.bytes) < packet.ihl + 8 THEN <<>>
        ELSE <<[from |-> packet.dst, to |-> packet.src, checksum |-> ip_checksum(Sum(body)),
                body |-> body]>>

-----------------------------------------------------------------------------

(* Options as a list: NOP, an MSS, or another kind with the bytes of its data *)
Encoded(option) ==
    CASE option.kind = "nop" -> <<1>>
      [] option.kind = "mss" -> <<2, 4, option.mss \div Byte, option.mss % Byte>>
      [] option.kind = "other" -> <<3, 2 + Len(option.data)>> \o option.data
      [] option.kind = "end" -> <<0>> \o option.data
EncodedList(list) ==
    LET bytes[n \in Nat] == IF n = 0 THEN <<>> ELSE bytes[n - 1] \o Encoded(list[n])
    IN  bytes[Len(list)]

Syn(list, syn, data, headers, pseudo) ==
    LET segment == [options |-> EncodedList(list), syn |-> syn, data |-> data,
                    headers |-> headers, pseudo |-> pseudo, checksum |-> 0]
    IN  [kind |-> "segment", list |-> list, segment |-> recompute_tcp_checksum(segment)]

DefenseInit ==
    /\ given = [kind |-> "none"]
    /\ result = <<>>

(* run_tun_loop, a packet that is short enough or may be fragmented *)
Clamp(list, syn, data, headers, pseudo) ==
    /\ given' = Syn(list, syn, data, headers, pseudo)
    /\ result' = <<clamp_mss(given'.segment)>>

(* run_tun_loop, a packet longer than the MTU with the DF flag *)
FragNeeded(packet) ==
    /\ Len(packet.bytes) > Mtu
    /\ given' = [kind |-> "packet", packet |-> packet]
    /\ result' = build_icmp_frag_needed(packet)

(* Packets too long by a byte or two, with headers of 20 bytes *)
LongPackets ==
    {[src |-> "near", dst |-> "far", ihl |-> 20, bytes |-> [i \in 1 .. n |-> (i * k) % Byte]] :
        n \in {Mtu + 1, Mtu + 2}, k \in 0 .. Byte - 1}

DefenseNext ==
    /\ given.kind = "none"
    /\ \/ \E list \in OptionLists, syn \in BOOLEAN, data \in Payloads, headers \in Headers,
             pseudo \in Pseudo : Clamp(list, syn, data, headers, pseudo)
       \/ \E packet \in LongPackets : FragNeeded(packet)

DefenseSpec == DefenseInit /\ [][DefenseNext]_defense_vars

-----------------------------------------------------------------------------

Lowered(option, max) ==
    IF option.kind = "mss" /\ option.mss > max THEN [option EXCEPT !.mss = max] ELSE option

(***************************************************************************)
(* Clamping a SYN is lowering the MSS options of its list, all of them and *)
(* nothing else: bytes inside of other options, behind the end of the list *)
(* or in the data that look like an MSS stay, and other segments too.      *)
(***************************************************************************)
ClampsTheList ==
    given.kind = "segment" =>
        LET max == max_mss(given.segment)
            list == [i \in DOMAIN given.list |->
                        IF given.segment.syn THEN Lowered(given.list[i], max) ELSE given.list[i]]
        IN  /\ result[1].options = EncodedList(list)
            /\ result[1].data = given.segment.data

(***************************************************************************)
(* The checksums are right afterwards: whoever adds up all words of what   *)
(* is sent, with the carries, gets a word of ones.                         *)
(***************************************************************************)
ChecksumsVerify ==
    \A i \in DOMAIN result :
        LET sum == IF given.kind = "segment" THEN SegmentSum(result[i]) ELSE Sum(result[i].body)
        IN  Folded(sum + result[i].checksum) = Word - 1
=============================================================================
