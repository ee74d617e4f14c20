------------------------------- MODULE Prefix -------------------------------
(***************************************************************************)
(* Whether an address is in a network: ac_net_ipv4_isin, ac_net_ipv6_isin  *)
(* and their variants (src/ac_net.c).  The addresses have been parsed; one *)
(* of IPv4 is a word, one of IPv6 a sequence of bytes.  Words and bytes    *)
(* are the sequences of their bits, the most significant first.            *)
(***************************************************************************)
EXTENDS Integers, Sequences

CONSTANTS AddressBits,        \* 32, of an IPv4 address
          ByteBits, Bytes     \* 8 and 16, of an IPv6 address

BitStrings(n) == [1..n -> {0, 1}]
Ones(n)       == [i \in 1..n |-> 1]
Shifted(w, n) == [i \in DOMAIN w |-> IF i + n \in DOMAIN w THEN w[i + n] ELSE 0]
Lowest(w, n)  == [i \in 1..n |-> w[Len(w) - n + i]]
Masked(v, w)  == [i \in DOMAIN v |-> IF w[i] = 1 THEN v[i] ELSE 0]

Mask4Narrow(cidr) ==     \* faulty: ~0U for ~0UL, and machines shift by 32 as by 0
    Shifted(Ones(AddressBits), (AddressBits - cidr) % AddressBits)

(***************************************************************************)
(* ~0UL << (32 - cidr), cut to a word by htonl.  A long is taken to be     *)
(* wider than a word, as on all 64-bit Linux; where it has 32 bits, a cidr *)
(* of 0 shifts by its width, which C leaves undefined (ac_net.c:178).      *)
(***************************************************************************)
Mask4(cidr) == Lowest(Shifted(Ones(2 * AddressBits), AddressBits - cidr), AddressBits)

ipv4_isin(network, cidr, addr) == Masked(addr, Mask4(cidr)) = network

(***************************************************************************)
(* The mask takes up to ByteBits of the prefix length for each byte.       *)
(***************************************************************************)
UpToByte(left) == IF left > ByteBits THEN ByteBits ELSE left

Mask6(prefixlen) ==
    LET left[i \in 0..Bytes] == IF i = 0 THEN prefixlen ELSE left[i - 1] - UpToByte(left[i - 1])
    IN  [i \in 1..Bytes |-> Shifted(Ones(ByteBits), ByteBits - UpToByte(left[i - 1]))]

ipv6_isin(network, prefixlen, addr) ==
    \A i \in 1..Bytes : Masked(addr[i], Mask6(prefixlen)[i]) = network[i]
----------------------------------------------------------------------------
(***************************************************************************)
(* An address is in a network exactly if their first bits are the same, as *)
(* many as the prefix is long, from none to all, and the network has no    *)
(* others set: one that has contains nothing (ac_net.c:178-180, :236-246). *)
(***************************************************************************)
Isin4IsPrefix(network, cidr, addr, answer) ==
    answer <=> \A i \in 1..AddressBits : network[i] = IF i <= cidr THEN addr[i] ELSE 0

Isin6IsPrefix(network, prefixlen, addr, answer) ==
    answer <=> \A i \in 1..Bytes, j \in 1..ByteBits :
                  network[i][j] = IF (i - 1) * ByteBits + j <= prefixlen THEN addr[i][j] ELSE 0
=============================================================================
