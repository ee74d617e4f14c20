---------------------------- MODULE HelperProofs ----------------------------
(***************************************************************************)
(* Proofs about the helpers: the functions of PureCalls that keep no state *)
(* - on strings, escapes, arrays, times, amounts and addresses of any      *)
(* lengths and sizes -, and Random, for all tables, word widths and seeds, *)
(* and any number of arrays.                                               *)
(***************************************************************************)
EXTENDS PureCalls, Random, Lemmas, FiniteSetTheorems

(***************************************************************************)
(* What is asked never changes, and what is replied is what the function   *)
(* returns for it.                                                         *)
(***************************************************************************)
Replied ==
    /\ Is("split") => reply = ac_str_split(asked.string, asked.delim, asked.flags)
    /\ Is("chomp") => reply = ac_str_chomp(asked.memory)
    /\ Is("levenshtein") =>
          \E cell \in Cells : reply = ac_str_levenshtein(asked.s, asked.t, cell)
    /\ Is("name") => reply = ac_fs_is_posix_name(asked.name)
    /\ Is("substr") => reply = ac_str_substr(asked.src, asked.dest, asked.start, asked.len)
    /\ Is("escape") => reply = make_escaped_string(asked.str, asked.signed)
    /\ Is("shuffle") => reply = ac_misc_shuffle(asked.base, asked.draws, asked.algo)
    /\ Is("diff") => reply = tspec_diff(asked.end, asked.start)
    /\ Is("hms") => reply = secs_to_hms(asked.total)
    /\ Is("dms") => \E by60, by3600 \in Nearby(asked.angle) :
                       reply = dd_to_dms(asked.angle, by60, by3600)
    /\ Is("ppb") => reply = ppb(asked.total, asked.si)
    /\ Is("port") => reply = ac_net_port_from_sa(asked.sa)
    /\ Is("ntop") => reply = ac_net_inet_ntop(asked.sa, asked.size)
    /\ Is("pton") => reply = ac_net_inet_pton(asked.text)
    /\ Is("ipv4") => reply = ipv4_isin(asked.network, asked.len, asked.addr)
    /\ Is("ipv6") => reply = ipv6_isin(asked.network, asked.len, asked.addr)
    /\ Is("luhn") => reply = luhn_check(asked.num)
    /\ Is("hash") => reply = table_uses(asked.type, asked.a, asked.b)
    /\ Is("passcrypt") => reply = passcrypt(asked.hash_type, asked.draws)
    /\ Is("uuid") => reply = gen_uuid(asked.opened, asked.count)
    /\ Is("twalk_r") => reply = twalk_r(asked.tree)
    /\ Is("tdestroy") => reply = tdestroy[asked.tree]

FreedAgain ==
    Is("split") /\ reply = ac_str_freev(ac_str_split(asked.string, asked.delim, asked.flags))

Parsed ==
    LET text == ac_net_inet_ntop(asked.sa, asked.size)
    IN  Is("ntop") /\ text # NoText /\ reply = ac_net_inet_pton(text)

AskInv ==
    /\ Asks
    /\ step \in {"idle", "done", "freed", "parsed"}
    /\ step = "done" => Replied
    /\ step = "freed" => FreedAgain
    /\ step = "parsed" => Parsed

LEMMA AsksStays == ASSUME Asks, UNCHANGED asked PROVE Asks'
  BY DEF Asks, AsksSplit, AsksChomp, AsksLevenshtein, AsksName, AsksSubstr, AsksEscape,
         AsksShuffle, AsksDiff, AsksHms, AsksDms, AsksAmount, AsksPort, AsksNtop, AsksPton,
         AsksIpv4, AsksIpv6, AsksLuhn, AsksHash, AsksPasscrypt, AsksUuid, AsksWalk

LEMMA AsksOne ==
    ASSUME AskInv
    PROVE  /\ Is("split") => AsksSplit
           /\ Is("chomp") => AsksChomp
           /\ Is("levenshtein") => AsksLevenshtein
           /\ Is("name") => AsksName
           /\ Is("substr") => AsksSubstr
           /\ Is("escape") => AsksEscape
           /\ Is("shuffle") => AsksShuffle
           /\ Is("diff") => AsksDiff
           /\ Is("hms") => AsksHms
           /\ Is("dms") => AsksDms
           /\ Is("ppb") => AsksAmount
           /\ Is("port") => AsksPort
           /\ Is("ntop") => AsksNtop
           /\ Is("pton") => AsksPton
           /\ Is("ipv4") => AsksIpv4
           /\ Is("ipv6") => AsksIpv6
           /\ Is("luhn") => AsksLuhn
           /\ Is("hash") => AsksHash
           /\ Is("passcrypt") => AsksPasscrypt
           /\ Is("uuid") => AsksUuid
           /\ Is("twalk_r") \/ Is("tdestroy") => AsksWalk
  <1>1. (AsksSplit => Is("split")) /\ (AsksChomp => Is("chomp"))
        /\ (AsksLevenshtein => Is("levenshtein")) /\ (AsksName => Is("name"))
        BY DEF AsksSplit, AsksChomp, AsksLevenshtein, AsksName, Is
  <1>2. (AsksSubstr => Is("substr")) /\ (AsksEscape => Is("escape"))
        /\ (AsksShuffle => Is("shuffle")) /\ (AsksDiff => Is("diff"))
        BY DEF AsksSubstr, AsksEscape, AsksShuffle, AsksDiff, Is
  <1>3. (AsksHms => Is("hms")) /\ (AsksDms => Is("dms"))
        /\ (AsksAmount => Is("ppb")) /\ (AsksPort => Is("port"))
        BY DEF AsksHms, AsksDms, AsksAmount, AsksPort, Is
  <1>4. (AsksNtop => Is("ntop")) /\ (AsksPton => Is("pton"))
        /\ (AsksIpv4 => Is("ipv4")) /\ (AsksIpv6 => Is("ipv6"))
        BY DEF AsksNtop, AsksPton, AsksIpv4, AsksIpv6, Is
  <1>5. (AsksLuhn => Is("luhn")) /\ (AsksHash => Is("hash"))
        /\ (AsksPasscrypt => Is("passcrypt")) /\ (AsksUuid => Is("uuid"))
        /\ (AsksWalk => Is("twalk_r") \/ Is("tdestroy"))
        BY DEF AsksLuhn, AsksHash, AsksPasscrypt, AsksUuid, AsksWalk, Is
  <1>6. Asks
        BY DEF AskInv
  <1> QED BY <1>1, <1>2, <1>3, <1>4, <1>5, <1>6 DEF Asks, Is

LEMMA AskInitInv == AskInit => AskInv
  BY DEF AskInit, AskInv

LEMMA AskNextInv == ASSUME AskInv, [AskNext]_askVars PROVE AskInv'
  <1>a. ASSUME step' = "done", UNCHANGED asked, Replied' PROVE AskInv'
        BY <1>a, AsksStays DEF AskInv
  <1>1. CASE Split
        BY <1>1, <1>a DEF Split, Answers, Is, Replied
  <1>2. CASE Chomp
        BY <1>2, <1>a DEF Chomp, Answers, Is, Replied
  <1>3. CASE Levenshtein
        BY <1>3, <1>a DEF Levenshtein, Answers, Is, Replied
  <1>4. CASE Name
        BY <1>4, <1>a DEF Name, Answers, Is, Replied
  <1>5. CASE Substr
        BY <1>5, <1>a DEF Substr, Answers, Is, Replied
  <1>6. CASE Escaping
        BY <1>6, <1>a DEF Escaping, Answers, Is, Replied
  <1>7. CASE Shuffling
        BY <1>7, <1>a DEF Shuffling, Answers, Is, Replied
  <1>8. CASE Diff
        BY <1>8, <1>a DEF Diff, Answers, Is, Replied
  <1>9. CASE Hms
        BY <1>9, <1>a DEF Hms, Answers, Is, Replied
  <1>10. CASE Dms
        BY <1>10, <1>a DEF Dms, Answers, Is, Replied
  <1>11. CASE Amount
        BY <1>11, <1>a DEF Amount, Answers, Is, Replied
  <1>12. CASE Port
        BY <1>12, <1>a DEF Port, Answers, Is, Replied
  <1>13. CASE Ntop
        BY <1>13, <1>a DEF Ntop, Answers, Is, Replied
  <1>14. CASE Pton
        BY <1>14, <1>a DEF Pton, Answers, Is, Replied
  <1>15. CASE Ipv4
        BY <1>15, <1>a DEF Ipv4, Answers, Is, Replied
  <1>16. CASE Ipv6
        BY <1>16, <1>a DEF Ipv6, Answers, Is, Replied
  <1>17. ASSUME Freev PROVE AskInv'
    <2>1. FreedAgain' /\ step' = "freed" /\ UNCHANGED asked
          BY <1>17 DEF Freev, Is, AskInv, Replied, FreedAgain
    <2> QED BY <2>1, AsksStays DEF AskInv
  <1>18. ASSUME Reparse PROVE AskInv'
    <2>1. Parsed' /\ step' = "parsed" /\ UNCHANGED asked
          BY <1>18 DEF Reparse, Is, AskInv, Replied, Parsed
    <2> QED BY <2>1, AsksStays DEF AskInv
  <1>19. ASSUME UNCHANGED askVars PROVE AskInv'
    <2>1. UNCHANGED <<asked, step, reply>>
          BY <1>19 DEF askVars
    <2>2. (Replied => Replied') /\ (FreedAgain => FreedAgain') /\ (Parsed => Parsed')
          BY <2>1 DEF Replied, FreedAgain, Parsed, Is
    <2> QED BY <2>1, <2>2, AsksStays DEF AskInv
  <1>20. CASE Luhn
        BY <1>20, <1>a DEF Luhn, Answers, Is, Replied
  <1>21. CASE Hashing
        BY <1>21, <1>a DEF Hashing, Answers, Is, Replied
  <1>22. CASE Passcrypt
        BY <1>22, <1>a DEF Passcrypt, Answers, Is, Replied
  <1>23. CASE Uuid
        BY <1>23, <1>a DEF Uuid, Answers, Is, Replied
  <1>24. CASE Walking
        BY <1>24, <1>a DEF Walking, Answers, Is, Replied
  <1>25. CASE Destroying
        BY <1>25, <1>a DEF Destroying, Answers, Is, Replied
  <1> QED BY <1>1, <1>2, <1>3, <1>4, <1>5, <1>6, <1>7, <1>8, <1>9, <1>10, <1>11, <1>12, <1>13,
             <1>14, <1>15, <1>16, <1>17, <1>18, <1>19, <1>20, <1>21, <1>22, <1>23, <1>24, <1>25
             DEF AskNext, AllAnswers

LEMMA AskAlways == AskSpec => []AskInv
  BY AskInitInv, AskNextInv, PTL DEF AskSpec
----------------------------------------------------------------------------
(***************************************************************************)
(* The prefixes of addresses.                                              *)
(***************************************************************************)
LEMMA BitsOfWords ==
    ASSUME NEW n \in Nat, NEW w \in BitStrings(n)
    PROVE  Len(w) = n /\ DOMAIN w = 1..n /\ \A i \in 1..n : w[i] \in {0, 1}
  BY DEF BitStrings

(***************************************************************************)
(* Ones, shifted: those that stay are in front.                            *)
(***************************************************************************)
LEMMA ShiftedOnes ==
    ASSUME NEW n \in Nat, NEW k \in 0..n
    PROVE  LET w == Shifted(Ones(n), k)
           IN  /\ w \in BitStrings(n)
               /\ \A i \in 1..n : w[i] = IF i <= n - k THEN 1 ELSE 0
  <1> DEFINE o == Ones(n)
             w == Shifted(o, k)
  <1>1. DOMAIN o = 1..n /\ \A i \in 1..n : o[i] = 1
        BY DEF Ones
  <1> HIDE DEF o
  <1>2. w = [i \in 1..n |-> IF i + k \in 1..n THEN o[i + k] ELSE 0]
        BY <1>1 DEF Shifted
  <1>3. \A i \in 1..n : w[i] = IF i <= n - k THEN 1 ELSE 0
        BY <1>1, <1>2
  <1>4. w \in BitStrings(n)
        BY <1>1, <1>2 DEF BitStrings
  <1> HIDE DEF w
  <1> QED BY <1>3, <1>4 DEF w, o

LEMMA MaskedBits ==
    ASSUME NEW n \in Nat, NEW v \in BitStrings(n), NEW w, NEW l \in Nat,
           \A i \in 1..n : w[i] = IF i <= l THEN 1 ELSE 0,
           NEW x \in BitStrings(n)
    PROVE  Masked(v, w) = x <=> \A i \in 1..n : x[i] = IF i <= l THEN v[i] ELSE 0
  <1>1. DOMAIN v = 1..n /\ x = [i \in 1..n |-> x[i]]
        BY DEF BitStrings
  <1>2. Masked(v, w) = [i \in 1..n |-> IF i <= l THEN v[i] ELSE 0]
        BY <1>1 DEF Masked
  <1> QED BY <1>1, <1>2

LEMMA Mask4Is ==
    ASSUME NEW cidr \in 0..AddressBits
    PROVE  \A i \in 1..AddressBits : Mask4(cidr)[i] = IF i <= cidr THEN 1 ELSE 0
  <1> DEFINE n == AddressBits
             m == 2 * n
             k == n - cidr
             w == Shifted(Ones(m), k)
  <1>1. n \in Nat /\ m \in Nat /\ k \in 0..m /\ k = n - cidr /\ m = n + n
        BY CallsAssumption DEF AddressAssumption
  <1>2. w \in BitStrings(m) /\ \A i \in 1..m : w[i] = IF i <= m - k THEN 1 ELSE 0
        BY <1>1, ShiftedOnes
  <1>3. Len(w) = m
        BY <1>1, <1>2, BitsOfWords
  <1>4. Mask4(cidr) = [i \in 1..n |-> w[m - n + i]]
        BY <1>3 DEF Mask4, Lowest
  <1> HIDE DEF w, m, k
  <1>5. ASSUME NEW i \in 1..n PROVE w[m - n + i] = IF i <= cidr THEN 1 ELSE 0
    <2>1. m - n + i \in 1..m /\ (m - n + i <= m - k <=> i <= cidr)
          BY <1>1
    <2> QED BY <1>2, <2>1
  <1> QED BY <1>4, <1>5

LEMMA Ipv4Right ==
    ASSUME NEW network \in Addrs4, NEW addr \in Addrs4, NEW cidr \in 0..AddressBits
    PROVE  Isin4IsPrefix(network, cidr, addr, ipv4_isin(network, cidr, addr))
  <1>1. AddressBits \in Nat /\ cidr \in Nat
        BY CallsAssumption DEF AddressAssumption
  <1> DEFINE w == Mask4(cidr)
  <1>2. \A i \in 1..AddressBits : w[i] = IF i <= cidr THEN 1 ELSE 0
        BY Mask4Is
  <1>3. addr \in BitStrings(AddressBits) /\ network \in BitStrings(AddressBits)
        BY DEF Addrs4
  <1> HIDE DEF w
  <1>4. Masked(addr, w) = network
          <=> \A i \in 1..AddressBits : network[i] = IF i <= cidr THEN addr[i] ELSE 0
        BY <1>1, <1>2, <1>3, MaskedBits
  <1> QED BY <1>4 DEF Isin4IsPrefix, ipv4_isin, w

(***************************************************************************)
(* What is left of the prefix for a byte is what the bytes in front of it  *)
(* leave.                                                                  *)
(***************************************************************************)
IsLeft(left, p, N) ==
    left = [i \in 0..N |-> IF i = 0 THEN p ELSE left[i - 1] - UpToByte(left[i - 1])]

LEMMA LeftIs ==
    ASSUME NEW p \in Nat,
           NEW N \in Nat, NEW B \in Nat, B = ByteBits,
           NEW left, IsLeft(left, p, N)
    PROVE  \A i \in 0..N : left[i] = IF p >= i * B THEN p - i * B ELSE 0
  <1> DEFINE S == {i \in Nat : i <= N => left[i] = IF p >= i * B THEN p - i * B ELSE 0}
  <1>1. 0 \in S
        BY DEF IsLeft
  <1>2. ASSUME NEW i \in Nat, i \in S PROVE i + 1 \in S
    <2> SUFFICES ASSUME i + 1 <= N
                 PROVE  left[i + 1] = IF p >= (i + 1) * B THEN p - (i + 1) * B ELSE 0
        OBVIOUS
    <2> DEFINE x == i * B
               y == (i + 1) * B
               l == left[i]
    <2>1. x \in Nat /\ y = x + B
          OBVIOUS
    <2>2. l = IF p >= x THEN p - x ELSE 0
          BY <1>2
    <2>3. left[i + 1] = l - UpToByte(l)
      <3>1. i + 1 \in 0..N /\ i + 1 # 0 /\ (i + 1) - 1 = i
            OBVIOUS
      <3> QED BY <3>1 DEF IsLeft
    <2> HIDE DEF x, y, l
    <2>4. l - UpToByte(l) = IF p >= y THEN p - y ELSE 0
          BY <2>1, <2>2 DEF UpToByte
    <2> QED BY <2>3, <2>4 DEF y
  <1> HIDE DEF S
  <1>3. Nat \subseteq S
        BY <1>1, <1>2, Induct
  <1>4. ASSUME NEW i \in 0..N PROVE left[i] = IF p >= i * B THEN p - i * B ELSE 0
    <2>1. i \in Nat /\ i <= N
          OBVIOUS
    <2>2. i \in S
          BY <1>3, <2>1
    <2> QED BY <2>1, <2>2 DEF S
  <1> QED BY <1>4

LEMMA Mask6Is ==
    ASSUME NEW p \in Nat, NEW i \in 1..Bytes
    PROVE  \A j \in 1..ByteBits :
              Mask6(p)[i][j] = IF (i - 1) * ByteBits + j <= p THEN 1 ELSE 0
  <1> DEFINE B == ByteBits
             E(f, n) == IF n = 0 THEN p ELSE f[n - 1] - UpToByte(f[n - 1])
             Goes(f) == f = [n \in 0..Bytes |-> E(f, n)]
             left == CHOOSE f : Goes(f)
             mask == [n \in 1..Bytes |-> Shifted(Ones(B), B - UpToByte(left[n - 1]))]
  <1>0. B \in Nat \ {0} /\ Bytes \in Nat /\ B = ByteBits
        BY CallsAssumption DEF AddressAssumption
  <1>1. \E f : Goes(f)
    <2> DEFINE G == [n \in 1..Bytes |-> [l \in Int |-> l - UpToByte(l)]]
    <2>1. G \in [1..Bytes -> [Int -> Int]] /\ p \in Int
          BY <1>0 DEF UpToByte
    <2>2. \A n \in 1..Bytes, l \in Int : G[n][l] = l - UpToByte(l)
          OBVIOUS
    <2> HIDE DEF G
    <2>3. PICK f \in [0..Bytes -> Int] : f[0] = p /\ \A n \in 1..Bytes : f[n] = G[n][f[n - 1]]
      <3>1. Bytes \in Nat /\ p \in Int /\ G \in Steps(Int, Bytes)
            BY <1>0, <2>1 DEF Steps
      <3>2. \E f : Follows(f, Int, Bytes, p, G)
            BY <3>1, Recursion
      <3> QED BY <3>2 DEF Follows
    <2>4. ASSUME NEW n \in 0..Bytes PROVE f[n] = E(f, n)
      <3>1. CASE n = 0
            BY <2>3, <3>1
      <3>2. CASE n # 0
        <4>1. n \in 1..Bytes /\ n - 1 \in 0..Bytes
              BY <1>0, <3>2
        <4> QED BY <2>2, <2>3, <3>2, <4>1
      <3> QED BY <3>1, <3>2
    <2> HIDE DEF E
    <2>5. Goes(f)
          BY <2>3, <2>4
    <2> QED BY <2>5
  <1>2. Goes(left)
    <2> HIDE DEF Goes
    <2> QED BY <1>1
  <1>3. Mask6(p) = mask
        BY DEF Mask6
  <1> HIDE DEF left
  <1>4. \A n \in 0..Bytes : left[n] = IF p >= n * B THEN p - n * B ELSE 0
    <2> DEFINE N == Bytes
    <2>1. N \in Nat /\ B \in Nat /\ B = ByteBits
          BY <1>0
    <2>2. IsLeft(left, p, N)
          BY <1>2 DEF IsLeft
    <2> HIDE DEF N, B, Goes
    <2>3. \A n \in 0..N : left[n] = IF p >= n * B THEN p - n * B ELSE 0
          BY <2>1, <2>2, LeftIs
    <2> QED BY <2>3 DEF N
  <1> DEFINE l == left[i - 1]
             x == (i - 1) * B
             u == UpToByte(l)
  <1>5. l = IF p >= x THEN p - x ELSE 0
    <2>1. i - 1 \in 0..Bytes
          BY <1>0
    <2> QED BY <1>4, <2>1
  <1>6. x \in Nat
        BY <1>0
  <1>7. mask[i] = Shifted(Ones(B), B - u)
        OBVIOUS
  <1> HIDE DEF l, x, mask
  <1>8. u \in 0..B /\ \A j \in 1..B : j <= u <=> x + j <= p
        BY <1>0, <1>5, <1>6 DEF UpToByte
  <1> HIDE DEF u
  <1> DEFINE k == B - u
             w == Shifted(Ones(B), k)
  <1>9. k \in 0..B /\ B - k = u
        BY <1>0, <1>8
  <1> HIDE DEF B, k
  <1>10. \A j \in 1..B : w[j] = IF j <= B - k THEN 1 ELSE 0
        BY <1>0, <1>9, ShiftedOnes
  <1>11. Mask6(p)[i] = w
        BY <1>3, <1>7 DEF k
  <1> HIDE DEF w
  <1> QED BY <1>8, <1>9, <1>10, <1>11 DEF B, x

LEMMA Ipv6Right ==
    ASSUME NEW network \in Addrs6, NEW addr \in Addrs6, NEW prefixlen \in Nat
    PROVE  Isin6IsPrefix(network, prefixlen, addr, ipv6_isin(network, prefixlen, addr))
  <1> DEFINE Byte(i) == \A j \in 1..ByteBits :
                 network[i][j] = IF (i - 1) * ByteBits + j <= prefixlen THEN addr[i][j] ELSE 0
  <1>1. ASSUME NEW i \in 1..Bytes
        PROVE  Masked(addr[i], Mask6(prefixlen)[i]) = network[i] <=> Byte(i)
    <2> DEFINE v == addr[i]
               x == network[i]
               w == Mask6(prefixlen)[i]
               o == (i - 1) * ByteBits
               l == IF o > prefixlen THEN 0 ELSE prefixlen - o
    <2>1. ByteBits \in Nat /\ Bytes \in Nat /\ i \in Nat /\ i - 1 \in Nat
          BY CallsAssumption DEF AddressAssumption
    <2>2. o \in Nat
          BY <2>1
    <2>3. v \in BitStrings(ByteBits) /\ x \in BitStrings(ByteBits)
          BY DEF Addrs6
    <2>4. \A j \in 1..ByteBits : w[j] = IF o + j <= prefixlen THEN 1 ELSE 0
          BY Mask6Is
    <2> HIDE DEF o, w, v, x
    <2>5. l \in Nat /\ \A j \in 1..ByteBits : o + j <= prefixlen <=> j <= l
          BY <2>1, <2>2
    <2> HIDE DEF l
    <2>6. \A j \in 1..ByteBits : w[j] = IF j <= l THEN 1 ELSE 0
          BY <2>4, <2>5
    <2>7. Masked(v, w) = x <=> \A j \in 1..ByteBits : x[j] = IF j <= l THEN v[j] ELSE 0
      <3> DEFINE n == ByteBits
      <3>1. n \in Nat /\ v \in BitStrings(n) /\ x \in BitStrings(n) /\ l \in Nat
            BY <2>1, <2>3, <2>5
      <3>2. \A j \in 1..n : w[j] = IF j <= l THEN 1 ELSE 0
            BY <2>6
      <3> HIDE DEF n
      <3>3. Masked(v, w) = x <=> \A j \in 1..n : x[j] = IF j <= l THEN v[j] ELSE 0
            BY <3>1, <3>2, MaskedBits
      <3> QED BY <3>3 DEF n
    <2> QED BY <2>5, <2>7 DEF v, w, x, o
  <1> QED BY <1>1 DEF Isin6IsPrefix, ipv6_isin

LEMMA PrefixNow == ASSUME AskInv PROVE PrefixIsNetwork
  <1>1. ASSUME Answered("ipv4")
        PROVE  Isin4IsPrefix(asked.network, asked.len, asked.addr, reply)
    <2>1. PICK network \in Addrs4, addr \in Addrs4, cidr \in 0..AddressBits :
            asked = [fn |-> "ipv4", network |-> network, len |-> cidr, addr |-> addr]
          BY <1>1, AsksOne DEF AsksIpv4, Answered
    <2>2. reply = ipv4_isin(network, cidr, addr)
          BY <1>1, <2>1 DEF AskInv, Answered, Replied, Is
    <2> QED BY <2>1, <2>2, Ipv4Right
  <1>2. ASSUME Answered("ipv6")
        PROVE  Isin6IsPrefix(asked.network, asked.len, asked.addr, reply)
    <2>1. PICK network \in Addrs6, addr \in Addrs6, prefixlen \in 0..Bytes * ByteBits :
            asked = [fn |-> "ipv6", network |-> network, len |-> prefixlen, addr |-> addr]
          BY <1>2, AsksOne DEF AsksIpv6, Answered
    <2>2. reply = ipv6_isin(network, prefixlen, addr)
          BY <1>2, <2>1 DEF AskInv, Answered, Replied, Is
    <2>3. prefixlen \in Nat
          BY CallsAssumption DEF AddressAssumption
    <2> QED BY <2>1, <2>2, <2>3, Ipv6Right
  <1> QED BY <1>1, <1>2 DEF PrefixIsNetwork

(***************************************************************************)
(* Whether an address is in a network depends on as many of its first bits *)
(* as the prefix is long, for every length from none to all.               *)
(***************************************************************************)
THEOREM PrefixesDecide == AskSpec => []PrefixIsNetwork
  BY AskAlways, PrefixNow, PTL
----------------------------------------------------------------------------
(***************************************************************************)
(* Quotients and remainders that round towards zero.                       *)
(***************************************************************************)
Rounded(a, b, q, r) ==
    /\ q \in Int /\ r \in Int /\ a = b * q + r
    /\ a >= 0 => q >= 0 /\ r \in 0..b - 1
    /\ a <= 0 => q <= 0 /\ -r \in 0..b - 1

LEMMA QuotRem ==
    ASSUME NEW a \in Int, NEW b \in Nat \ {0}
    PROVE  Rounded(a, b, Quot(a, b), Rem(a, b))
  <1> DEFINE q(x) == x \div b
             r(x) == x % b
  <1>1. ASSUME NEW x \in Nat PROVE x = b * q(x) + r(x) /\ q(x) \in Nat /\ r(x) \in 0..b - 1
    <2>1. x = q(x) * b + r(x) /\ r(x) \in 0..b - 1 /\ q(x) \in Int
          BY ModBounds
    <2>2. q(x) >= 0
          OBVIOUS
    <2> HIDE DEF q, r
    <2> QED BY <2>1, <2>2, Products
  <1>2. CASE a >= 0
    <2>1. Quot(a, b) = q(a) /\ Rem(a, b) = a - b * q(a) /\ a \in Nat
          BY <1>2 DEF Quot, Rem
    <2> HIDE DEF q, r
    <2>2. a = b * q(a) + r(a) /\ q(a) \in Nat /\ r(a) \in 0..b - 1
          BY <1>1, <2>1
    <2>3. b * q(a) \in Int /\ Rem(a, b) = r(a)
          BY <2>1, <2>2, Products
    <2>4. a = 0 => q(a) = 0 /\ r(a) = 0
      <3> SUFFICES ASSUME a = 0 PROVE q(a) = 0 /\ r(a) = 0
          OBVIOUS
      <3>1. (0 * b + 0) % b = 0 /\ (0 * b + 0) \div b = 0
            BY DivMod
      <3> QED BY <3>1 DEF q, r
    <2> DEFINE u == q(a)
               v == r(a)
    <2>5. Quot(a, b) = u /\ Rem(a, b) = v
          BY <2>1, <2>3
    <2>6. a = b * u + v /\ u \in Nat /\ v \in 0..b - 1 /\ (a = 0 => u = 0 /\ v = 0)
          BY <2>2, <2>4
    <2> HIDE DEF u, v
    <2>7. Rounded(a, b, u, v)
          BY <1>2, <2>6 DEF Rounded
    <2> QED BY <2>5, <2>7
  <1>3. CASE a < 0
    <2>1. Quot(a, b) = -q(-a) /\ Rem(a, b) = a - b * (-q(-a)) /\ -a \in Nat
          BY <1>3 DEF Quot, Rem, Abs
    <2> HIDE DEF q, r
    <2>2. -a = b * q(-a) + r(-a) /\ q(-a) \in Nat /\ r(-a) \in 0..b - 1
          BY <1>1, <2>1
    <2> DEFINE u == q(-a)
               v == r(-a)
    <2> HIDE DEF u, v
    <2>3. b * (-u) = -(b * u) /\ b * u \in Int
          BY <2>2, Products DEF u
    <2>4. Quot(a, b) = -u /\ Rem(a, b) = -v
          BY <2>1, <2>2, <2>3 DEF u, v
    <2>5. Rounded(a, b, -u, -v)
          BY <1>3, <2>2, <2>3 DEF Rounded, u, v
    <2> QED BY <2>4, <2>5
  <1> QED BY <1>2, <1>3

LEMMA SameSign ==
    ASSUME NEW a \in Int, NEW b \in Int, (a >= 0 /\ b >= 0) \/ (a <= 0 /\ b <= 0)
    PROVE  a * b >= 0
  OBVIOUS

LEMMA DiffRight ==
    ASSUME NEW end \in Timespecs, NEW start \in Timespecs
    PROVE  DiffAdds(end, start, tspec_diff(end, start))
  <1> DEFINE e == end.sec    m == end.nsec
             s == start.sec  n == start.nsec
             N == NsPerSec
             d == tspec_diff(end, start)
  <1>1. /\ N \in Nat \ {0} /\ e \in Int /\ s \in Int /\ m \in 0..N - 1 /\ n \in 0..N - 1
        BY CallsAssumption DEF UnitsAssumption
  <1>2. m < n => d.sec = e - s - 1 /\ d.nsec = N - (n - m)
        BY DEF tspec_diff
  <1>3. ~(m < n) => d.sec = e - s /\ d.nsec = m - n
        BY DEF tspec_diff
  <1>4. DiffAdds(end, start, d)
        <=> s * N + n + (d.sec * N + d.nsec) = e * N + m /\ d.nsec \in 0..N - 1
        BY DEF DiffAdds
  <1> HIDE DEF e, m, s, n, N, d
  <1>5. /\ s * N \in Int /\ e * N \in Int
        /\ (e - s) * N = e * N - s * N
        /\ (e - s - 1) * N = e * N - s * N - N
        BY <1>1
  <1>6. CASE m < n
        BY <1>1, <1>2, <1>4, <1>5, <1>6 DEF d
  <1>7. CASE ~(m < n)
        BY <1>1, <1>3, <1>4, <1>5, <1>7 DEF d
  <1> QED BY <1>6, <1>7

LEMMA HmsRight == ASSUME NEW total \in Int PROVE HmsAddsUp(total, secs_to_hms(total))
  <1> DEFINE t == secs_to_hms(total)
             m == Quot(total, 60)
             h == Quot(m, 60)
             r == Rem(total, 60)
             k == Rem(m, 60)
  <1>1. t.h = Narrow(h) /\ t.m = k /\ t.s = r
        BY DEF secs_to_hms, Hours
  <1>2. Rounded(total, 60, m, r)
        BY QuotRem
  <1> HIDE DEF m, r
  <1>3. /\ m \in Int /\ r \in Int /\ total = 60 * m + r
        /\ (total >= 0 => m >= 0 /\ r \in 0..59)
        /\ (total <= 0 => m <= 0 /\ -r \in 0..59)
        BY <1>2 DEF Rounded
  <1>7. Rounded(m, 60, h, k)
        BY <1>3, QuotRem
  <1> HIDE DEF h, k
  <1>8. /\ h \in Int /\ k \in Int /\ m = 60 * h + k
        /\ (m >= 0 => h >= 0 /\ k \in 0..59)
        /\ (m <= 0 => h <= 0 /\ -k \in 0..59)
        BY <1>7 DEF Rounded
  <1>9. Abs(total) < 3600 * IntHalf => Narrow(h) = h
    <2>1. IntHalf \in Nat \ {0}
          BY CallsAssumption DEF UnitsAssumption
    <2>2. ASSUME Abs(total) < 3600 * IntHalf PROVE Narrow(h) = h
      <3>1. h + IntHalf \in 0..2 * IntHalf - 1
            BY <1>3, <1>8, <2>1, <2>2 DEF Abs
      <3> DEFINE x == h + IntHalf
                 n == 2 * IntHalf
      <3>2. x \in 0..n - 1 /\ n \in Nat \ {0}
            BY <2>1, <3>1
      <3> HIDE DEF x, n
      <3>3. x % n = x
            BY <3>2, x = 0 * n + x, DivMod
      <3>4. Narrow(h) = x - IntHalf /\ x - IntHalf = h
            BY <1>8, <2>1, <3>3 DEF Narrow, x, n
      <3> QED BY <3>4
    <2> QED BY <2>2
  <1>4. h * total >= 0 /\ k * total >= 0 /\ r * total >= 0
        BY <1>3, <1>8, SameSign
  <1>5. h * 3600 + k * 60 + r = total
        BY <1>3, <1>8
  <1>6. Abs(k) < 60 /\ Abs(r) < 60
        BY <1>3, <1>8 DEF Abs
  <1> HIDE DEF t
  <1> QED BY <1>1, <1>4, <1>5, <1>6, <1>9 DEF HmsAddsUp, t

(***************************************************************************)
(* a is n multiples of b and a rest r.                                     *)
(***************************************************************************)
Made(a, b, n, r) == b \in Nat \ {0} /\ n \in Nat /\ r \in 0..b - 1 /\ a = n * b + r

LEMMA QuotIs ==
    ASSUME NEW a, NEW b, NEW n, NEW r, Made(a, b, n, r)
    PROVE  Quot(a, b) = n /\ Rem(a, b) = r /\ a \in Nat /\ a % b = r
  <1>1. /\ b \in Nat \ {0} /\ n \in Nat /\ r \in 0..b - 1 /\ a = n * b + r
        /\ n * b = b * n /\ b * n \in Nat
        BY DEF Made
  <1>2. a \in Nat /\ a = b * n + r
        BY <1>1
  <1>3. a \div b = n /\ a % b = r
        BY <1>1, DivMod
  <1>4. Quot(a, b) = n
        BY <1>2, <1>3 DEF Quot
  <1>5. Rem(a, b) = r
        BY <1>1, <1>2, <1>4 DEF Rem
  <1> QED BY <1>2, <1>3, <1>4, <1>5

(***************************************************************************)
(* An angle of m minutes and s grains, the minutes d degrees and k of the  *)
(* next, and what a product of it may be rounded to: it has as many        *)
(* minutes, or is where the next minute of the same degree begins.         *)
(***************************************************************************)
LEMMA AngleParts ==
    ASSUME NEW angle \in Nat
    PROVE  \E m, s, d, k : /\ Made(angle, OneMinute, m, s) /\ Made(m, 60, d, k)
                           /\ Quot(angle, OneDegree) = d
  <1>1. OneMinute \in Nat \ {0} /\ OneDegree = 60 * OneMinute
        BY CallsAssumption DEF UnitsAssumption, OneMinute, OneDegree
  <1> DEFINE M == OneMinute
             m == Quot(angle, M)
             s == Rem(angle, M)
             d == Quot(m, 60)
             k == Rem(m, 60)
  <1> HIDE DEF M
  <1>2. M \in Nat \ {0} /\ OneDegree = 60 * M
        BY <1>1 DEF M
  <1>3. Rounded(angle, M, m, s)
        BY <1>2, QuotRem
  <1> HIDE DEF m, s
  <1>4. m \in Nat /\ s \in 0..M - 1 /\ angle = M * m + s /\ M * m = m * M
        BY <1>2, <1>3 DEF Rounded
  <1>5. Rounded(m, 60, d, k)
        BY <1>4, QuotRem
  <1> HIDE DEF d, k
  <1>6. d \in Nat /\ k \in 0..59 /\ m = 60 * d + k
        BY <1>4, <1>5 DEF Rounded
  <1> DEFINE z == k * M + s
             n == 60 * M
  <1>7. k * M \in Nat /\ k * M <= 59 * M
        BY <1>2, <1>6, Products
  <1>8. z \in 0..n - 1 /\ n \in Nat \ {0}
        BY <1>2, <1>4, <1>7
  <1>9. angle = d * n + z
    <2>1. m * M = d * n + k * M /\ d * n \in Nat
          BY <1>2, <1>6
    <2> DEFINE u == d * n
               v == k * M
    <2>2. u \in Nat /\ v \in Nat /\ angle = (u + v) + s /\ s \in Int
          BY <1>4, <1>7, <2>1
    <2> HIDE DEF u, v
    <2>3. angle = u + (v + s)
          BY <2>2
    <2> QED BY <2>3 DEF u, v
  <1> HIDE DEF z, n
  <1>10. Quot(angle, n) = d
    <2>1. Made(angle, n, d, z)
          BY <1>6, <1>8, <1>9 DEF Made
    <2> QED BY <2>1, QuotIs
  <1>11. Quot(angle, OneDegree) = d
        BY <1>2, <1>10 DEF n
  <1>12. Made(angle, M, m, s) /\ Made(m, 60, d, k)
        BY <1>2, <1>4, <1>6 DEF Made
  <1> QED BY <1>11, <1>12 DEF M

LEMMA NearbyParts ==
    ASSUME NEW angle, NEW m, NEW s, NEW d, NEW k,
           Made(angle, OneMinute, m, s), Made(m, 60, d, k),
           NEW product \in Nearby(angle)
    PROVE  /\ product \in Nat /\ (angle % Grains = 0 => product = angle)
           /\ (angle + 1) % OneMinute = 0 <=> s = OneMinute - 1
           /\ \/ /\ Rem(Quot(product, OneMinute), 60) = k
                 /\ Rem(product, OneMinute) - s \in -1..1
                 /\ product = angle => Rem(product, OneMinute) = s
              \/ /\ s = OneMinute - 1 /\ product = angle + 1
                 /\ Rem(Quot(product, OneMinute), 60) = k + 1
                 /\ Rem(product, OneMinute) = 0
  <1> DEFINE M == OneMinute
             G == Grains
  <1>1. G \in Nat \ {0} /\ M = 60 * G /\ OneDegree = 60 * M
        BY CallsAssumption DEF UnitsAssumption, OneMinute, OneDegree
  <1>2. /\ Made(angle, M, m, s)
        /\ product \in {angle - 1, angle, angle + 1}
        /\ angle % G = 0 => product = angle
        /\ angle % G # 0 => product % OneDegree # 0
        BY DEF Nearby
  <1> HIDE DEF M, G
  <1>3. /\ M \in Nat \ {0} /\ m \in Nat /\ s \in 0..M - 1 /\ angle = m * M + s
        /\ m * M \in Nat /\ (m + 1) * M = m * M + M
        /\ d \in Nat /\ k \in 0..59 /\ m = d * 60 + k
        BY <1>2 DEF Made
  <1>4. Rem(m, 60) = k
        BY QuotIs
  <1>5. s = 0 => angle % G = 0
    <2>1. ASSUME s = 0 PROVE angle % G = 0
      <3>1. m * (60 * G) = (m * 60) * G /\ m * 60 \in Nat /\ 0 \in 0..G - 1
            BY <1>1, <1>3
      <3>2. Made(angle, G, m * 60, 0)
            BY <1>1, <1>3, <2>1, <3>1 DEF Made
      <3> QED BY <3>2, QuotIs
    <2> QED BY <2>1
  <1>6. (angle + 1) % M = 0 <=> s = M - 1
    <2>1. CASE s = M - 1
      <3>1. Made(angle + 1, M, m + 1, 0)
            BY <1>3, <2>1 DEF Made
      <3> QED BY <2>1, <3>1, QuotIs
    <2>2. CASE s # M - 1
      <3>1. Made(angle + 1, M, m, s + 1) /\ s + 1 # 0
            BY <1>3, <2>2 DEF Made
      <3>2. (angle + 1) % M = s + 1
            BY <3>1, QuotIs
      <3> QED BY <2>2, <3>1, <3>2
    <2> QED BY <2>1, <2>2
  <1> DEFINE Same(p) == /\ Rem(Quot(p, M), 60) = k
                        /\ Rem(p, M) - s \in -1..1
                        /\ p = angle => Rem(p, M) = s
             Over(p) == /\ s = M - 1 /\ p = angle + 1
                        /\ Rem(Quot(p, M), 60) = k + 1
                        /\ Rem(p, M) = 0
  <1>7. CASE product = angle
    <2>1. Quot(product, M) = m /\ Rem(product, M) = s /\ product \in Nat
          BY <1>2, <1>7, QuotIs
    <2>2. Same(product)
          BY <1>3, <1>4, <2>1
    <2> QED BY <1>6, <1>7, <2>1, <2>2 DEF M, G
  <1>8. CASE product = angle - 1
    <2>1. angle % G # 0 /\ s # 0 /\ product # angle
          BY <1>2, <1>3, <1>5, <1>8
    <2>2. Made(product, M, m, s - 1)
          BY <1>3, <1>8, <2>1 DEF Made
    <2>3. Quot(product, M) = m /\ Rem(product, M) = s - 1 /\ product \in Nat
          BY <2>2, QuotIs
    <2>4. Same(product)
          BY <1>3, <1>4, <2>1, <2>3
    <2> QED BY <1>6, <2>1, <2>3, <2>4 DEF M, G
  <1>9. CASE product = angle + 1
    <2>1. angle % G # 0 /\ product # angle
          BY <1>2, <1>3, <1>9
    <2>2. CASE s # M - 1
      <3>1. Made(product, M, m, s + 1)
            BY <1>3, <1>9, <2>2 DEF Made
      <3>2. Quot(product, M) = m /\ Rem(product, M) = s + 1 /\ product \in Nat
            BY <3>1, QuotIs
      <3>3. Same(product)
            BY <1>3, <1>4, <2>1, <3>2
      <3> QED BY <1>6, <2>1, <3>2, <3>3 DEF M, G
    <2>3. CASE s = M - 1
      <3>1. Made(product, M, m + 1, 0)
            BY <1>3, <1>9, <2>3 DEF Made
      <3>2. Quot(product, M) = m + 1 /\ Rem(product, M) = 0 /\ product \in Nat
            BY <3>1, QuotIs
      <3>3. k + 1 # 60
        <4>1. ASSUME k + 1 = 60 PROVE FALSE
          <5>1. m + 1 = (d + 1) * 60 /\ d + 1 \in Nat
                BY <1>3, <4>1
          <5>2. ((d + 1) * 60) * M = (d + 1) * (60 * M) /\ 60 * M \in Nat \ {0}
                BY <1>3
          <5>3. product = (m + 1) * M
                BY <1>3, <1>9, <2>3
          <5>4. Made(product, 60 * M, d + 1, 0)
                BY <5>1, <5>2, <5>3 DEF Made
          <5>5. product % (60 * M) = 0
                BY <5>4, QuotIs
          <5> QED BY <1>1, <1>2, <2>1, <5>5
        <4> QED BY <4>1
      <3>4. Rem(m + 1, 60) = k + 1
        <4>1. Made(m + 1, 60, d, k + 1)
              BY <1>3, <3>3 DEF Made
        <4> QED BY <4>1, QuotIs
      <3>5. Over(product)
            BY <1>9, <2>3, <3>2, <3>4
      <3> QED BY <1>6, <2>1, <3>2, <3>5 DEF M, G
    <2> QED BY <2>2, <2>3
  <1> QED BY <1>2, <1>7, <1>8, <1>9

LEMMA DmsRight ==
    ASSUME NEW angle \in Int, NEW by60 \in Nearby(angle), NEW by3600 \in Nearby(angle)
    PROVE  AngleReturns(angle, dd_to_dms(angle, by60, by3600))
  <1> DEFINE dms == dd_to_dms(angle, by60, by3600)
             off == Abs(dms_to_dd(dms) - angle)
             M   == OneMinute
  <1> SUFFICES ASSUME angle >= 0
               PROVE  /\ angle % Grains = 0 => off = 0
                      /\ (angle + 1) % M # 0 => off <= 1
                      /\ off <= M
      BY DEF AngleReturns
  <1>1. PICK m, s, d, k : /\ Made(angle, OneMinute, m, s) /\ Made(m, 60, d, k)
                          /\ Quot(angle, OneDegree) = d
    <2>1. angle \in Nat
          OBVIOUS
    <2> QED BY <2>1, AngleParts
  <1> DEFINE minutes == Rem(Quot(by60, M), 60)
             seconds == Rem(by3600, M)
  <1>2. /\ (angle % Grains = 0 => by60 = angle)
        /\ (angle + 1) % M = 0 <=> s = M - 1
        /\ minutes = k \/ (s = M - 1 /\ minutes = k + 1 /\ by60 = angle + 1)
    <2> QED BY <1>1, NearbyParts
  <1>3. /\ by3600 \in Nat /\ (angle % Grains = 0 => by3600 = angle)
        /\ \/ seconds - s \in -1..1 /\ (by3600 = angle => seconds = s)
           \/ s = M - 1 /\ seconds = 0 /\ by3600 = angle + 1
    <2> QED BY <1>1, NearbyParts
  <1>4. M \in Nat /\ M >= 60 /\ OneDegree = 60 * M
        BY CallsAssumption DEF UnitsAssumption, OneMinute, OneDegree
  <1>5. dms_to_dd(dms) = d * OneDegree + minutes * M + seconds
    <2>1. d \in Nat
          BY <1>1 DEF Made
    <2> QED BY <1>1, <1>3, <2>1 DEF dms_to_dd, dd_to_dms, Abs
  <1>6. seconds \in 0..M - 1
    <2>1. Rounded(by3600, M, Quot(by3600, M), seconds)
          BY <1>3, <1>4, QuotRem
    <2> QED BY <1>3, <1>4, <2>1 DEF Rounded
  <1> HIDE DEF dms, minutes, seconds
  <1>7. /\ s \in 0..M - 1 /\ k \in 0..59 /\ d \in Nat
        /\ angle = m * M + s /\ m = d * 60 + k
        BY <1>1 DEF Made
  <1> HIDE DEF M
  <1>8. /\ m * M = d * (60 * M) + k * M /\ d * (60 * M) \in Int /\ k * M \in Int
        /\ (k + 1) * M = k * M + M
        BY <1>4, <1>7
  <1> DEFINE more == dms_to_dd(dms) - angle
  <1>9. minutes = k => more = seconds - s
        BY <1>4, <1>5, <1>6, <1>7, <1>8
  <1>10. minutes = k + 1 => more = M + seconds - s
        BY <1>4, <1>5, <1>6, <1>7, <1>8
  <1> HIDE DEF more
  <1>11. angle % Grains = 0 => more = 0
    <2>1. by60 = angle => minutes = k
          BY <1>2, <1>7, <1>4
    <2>2. by3600 = angle => seconds = s
          BY <1>3, <1>7, <1>4
    <2> QED BY <1>2, <1>3, <1>6, <1>9, <2>1, <2>2
  <1>12. s # M - 1 => more \in -1..1
        BY <1>2, <1>3, <1>9
  <1>13. more \in -M..M
    <2>1. CASE s # M - 1
          BY <1>4, <1>12, <2>1
    <2>2. CASE s = M - 1
      <3>1. seconds = M - 2 \/ seconds = M - 1 \/ seconds = 0
            BY <1>3, <1>4, <1>6, <2>2
      <3>2. minutes = k => more \in -M..M
            BY <1>4, <1>9, <2>2, <3>1
      <3>3. minutes = k + 1 => more \in -M..M
            BY <1>4, <1>10, <2>2, <3>1
      <3> QED BY <1>2, <3>2, <3>3
    <2> QED BY <2>1, <2>2
  <1> QED BY <1>2, <1>4, <1>11, <1>12, <1>13 DEF Abs, more

LEMMA PortRight ==
    ASSUME NEW sa \in Sockaddrs, NEW other \in Sockaddrs
    PROVE  PortsDiffer(sa, other, ac_net_port_from_sa(sa))
  <1> DEFINE a == sa.port[1]     b == sa.port[2]
             c == other.port[1]  d == other.port[2]
  <1>1. sa.family \in Families /\ other.family \in Families
        BY CallsAssumption DEF AddressAssumption
  <1>2. sa.port \in (0..255) \X (0..255) /\ other.port \in (0..255) \X (0..255)
        BY CallsAssumption DEF AddressAssumption
  <1>3. /\ sa.port = <<a, b>> /\ other.port = <<c, d>>
        /\ a \in 0..255 /\ b \in 0..255 /\ c \in 0..255 /\ d \in 0..255
    <2>1. sa.port = <<a, b>> /\ a \in 0..255 /\ b \in 0..255
          BY <1>2
    <2>2. other.port = <<c, d>> /\ c \in 0..255 /\ d \in 0..255
          BY <1>2
    <2> QED BY <2>1, <2>2
  <1>4. /\ ac_net_port_from_sa(sa) = IF sa.family = "AF_UNIX" THEN -1 ELSE a * 256 + b
        /\ ac_net_port_from_sa(other) = IF other.family = "AF_UNIX" THEN -1 ELSE c * 256 + d
        BY <1>1 DEF ac_net_port_from_sa, Families
  <1> HIDE DEF a, b, c, d
  <1> QED BY <1>3, <1>4 DEF PortsDiffer

LEMMA NtopRight ==
    ASSUME NEW sa \in Located, NEW size \in Rooms
    PROVE  /\ AddressIsWritten(sa, size, ac_net_inet_ntop(sa, size))
           /\ LET text == ac_net_inet_ntop(sa, size)
              IN  text # NoText => AddressReturns(sa, ac_net_inet_pton(text))
  <1> DEFINE text == ac_net_inet_ntop(sa, size)
             needed == TextSizes[sa.family][sa.addr]
             written == [family |-> sa.family, addr |-> sa.addr, colon |-> sa.family = "AF_INET6"]
  <1>1. size \in Nat
        BY CallsAssumption DEF AddressAssumption
  <1>2. sa.family \in Families /\ sa.addr \in {"shortest", "longest"}
        BY DEF Located
  <1>3. CASE sa.family = "AF_UNIX"
        BY <1>3 DEF AddressIsWritten, ac_net_inet_ntop
  <1>4. CASE sa.family # "AF_UNIX"
    <2>1. sa.family \in {"AF_INET", "AF_INET6"}
          BY <1>2, <1>4 DEF Families
    <2>2. needed \in {3, 8, 16, 46}
          BY <1>2, <2>1 DEF TextSizes
    <2>3. text = IF size < needed THEN NoText ELSE written
          BY <2>1 DEF ac_net_inet_ntop, inet_ntop
    <2>4. written # NoText
      <3>1. written.family # NoText.family
            BY <2>1 DEF NoText
      <3> QED BY <3>1
    <2>5. ac_net_inet_pton(written) = [ret |-> 1, dst |-> sa.addr]
          BY <2>1 DEF ac_net_inet_pton, inet_pton
    <2> HIDE DEF text, needed, written
    <2>6. size >= 46 => text = written
          BY <1>1, <2>2, <2>3
    <2>7. text # NoText => text = written
          BY <2>3
    <2> QED BY <2>4, <2>5, <2>6, <2>7 DEF AddressIsWritten, AddressReturns, text
  <1> QED BY <1>3, <1>4

LEMMA PtonRight ==
    ASSUME NEW colon \in BOOLEAN
    PROVE  ac_net_inet_pton([NoText EXCEPT !.colon = colon]).ret = 0
  BY DEF ac_net_inet_pton, inet_pton, NoText

(***************************************************************************)
(* The units of amounts, and the one that is chosen.                       *)
(***************************************************************************)
KiloOf(si) == IF si THEN KiloSi ELSE Kilo

UnitE(K, f, n) == IF n = 0 THEN 1 ELSE K * f[n - 1]
IsUnit(f, K) == f = [n \in 0..7 |-> UnitE(K, f, n)]

LEMMA UnitIs ==
    ASSUME NEW si \in BOOLEAN
    PROVE  /\ \A f \in 0..7 : Unit(si, f) \in Nat
           /\ Unit(si, 0) = 1
           /\ \A f \in 0..6 : Unit(si, f + 1) = KiloOf(si) * Unit(si, f)
  <1> DEFINE K == KiloOf(si)
             unit == CHOOSE f : IsUnit(f, K)
  <1>1. K \in Nat
        BY CallsAssumption DEF UnitsAssumption, KiloOf
  <1>2. \A f \in 0..7 : Unit(si, f) = unit[f]
        BY DEF Unit, UnitE, IsUnit, KiloOf
  <1> HIDE DEF K
  <1>3. PICK g \in [0..7 -> Nat] : IsUnit(g, K)
    <2> DEFINE G == [n \in 1..7 |-> [x \in Nat |-> K * x]]
    <2>1. G \in Steps(Nat, 7)
          BY <1>1 DEF Steps
    <2>2. \A n \in 1..7, x \in Nat : G[n][x] = K * x
          OBVIOUS
    <2> HIDE DEF G
    <2>3. PICK f : Follows(f, Nat, 7, 1, G)
          BY <2>1, Recursion
    <2>4. f \in [0..7 -> Nat] /\ f[0] = 1
          BY <2>3 DEF Follows
    <2>5. ASSUME NEW n \in 0..7 PROVE f[n] = UnitE(K, f, n)
      <3>1. CASE n = 0
            BY <2>4, <3>1 DEF UnitE
      <3>2. CASE n # 0
        <4>1. n \in 1..7 /\ n - 1 \in 0..7
              BY <3>2
        <4>2. f[n] = G[n][f[n - 1]]
              BY <2>3, <4>1 DEF Follows
        <4> QED BY <2>2, <2>4, <3>2, <4>1, <4>2 DEF UnitE
      <3> QED BY <3>1, <3>2
    <2>6. IsUnit(f, K)
          BY <2>4, <2>5 DEF IsUnit
    <2> QED BY <2>4, <2>6
  <1>4. IsUnit(unit, K)
        BY <1>3
  <1> HIDE DEF unit
  <1>5. unit[0] = 1 /\ \A n \in 1..7 : unit[n] = K * unit[n - 1]
        BY <1>4 DEF IsUnit, UnitE
  <1>6. \A n \in 0..6 : unit[n + 1] = K * unit[n]
    <2> TAKE n \in 0..6
    <2>1. n + 1 \in 1..7 /\ (n + 1) - 1 = n
          OBVIOUS
    <2> QED BY <1>5, <2>1
  <1>7. ASSUME NEW f \in 0..7 PROVE unit[f] \in Nat
    <2> DEFINE S == {n \in Nat : n <= 7 => unit[n] \in Nat}
    <2>1. 0 \in S
          BY <1>5
    <2>2. ASSUME NEW n \in Nat, n \in S PROVE n + 1 \in S
      <3> SUFFICES ASSUME n + 1 <= 7 PROVE unit[n + 1] \in Nat
          OBVIOUS
      <3>1. n \in 0..6 /\ unit[n] \in Nat
            BY <2>2
      <3> QED BY <1>1, <1>6, <3>1
    <2> HIDE DEF S
    <2>3. f \in S
          BY <2>1, <2>2, Induct
    <2> QED BY <2>3 DEF S
  <1>8. \A f \in 0..6 : Unit(si, f + 1) = unit[f + 1]
    <2> TAKE f \in 0..6
    <2>1. f + 1 \in 0..7
          OBVIOUS
    <2> QED BY <1>2, <2>1
  <1> QED BY <1>2, <1>5, <1>6, <1>7, <1>8 DEF K

LEMMA AmountRight ==
    ASSUME NEW bytes \in Nat, NEW si \in BOOLEAN
    PROVE  AmountFits(bytes, si, ppb(bytes, si))
  <1> DEFINE Ends(f) == f < 6 => bytes < Unit(si, f + 1)
             Starts(f) == \A g \in 1..f : bytes >= Unit(si, g)
             factor == CHOOSE f \in 0..6 : Ends(f) /\ Starts(f)
             S == {f \in 0..6 : Ends(f)}
             answer == ppb(bytes, si)
  <1>1. \E f \in 0..6 : Ends(f) /\ Starts(f)
    <2>1. S \in SUBSET Nat /\ 6 \in S
          OBVIOUS
    <2> HIDE DEF S
    <2>2. PICK f \in S : \A m \in S : f <= m
          BY <2>1, Least
    <2>3. f \in 0..6 /\ Ends(f)
          BY <2>2 DEF S
    <2>4. ASSUME NEW g \in 1..f PROVE bytes >= Unit(si, g)
      <3>1. g - 1 \in 0..6 /\ g - 1 < f /\ g - 1 < 6 /\ (g - 1) + 1 = g /\ g \in 0..7
            BY <2>3
      <3>2. g - 1 \notin S
            BY <2>2, <2>3, <3>1
      <3>3. ~(bytes < Unit(si, g))
            BY <3>1, <3>2 DEF S
      <3>4. Unit(si, g) \in Nat
            BY <3>1, UnitIs
      <3> QED BY <3>3, <3>4
    <2> QED BY <2>3, <2>4
  <1> HIDE DEF Ends, Starts
  <1>2. factor \in 0..6 /\ Ends(factor) /\ Starts(factor)
        BY <1>1
  <1>3. answer = [factor |-> factor, value |-> <<bytes, Unit(si, factor)>>,
                  prefix |-> Prefixes(si)[factor + 1]]
        BY DEF ppb, Ends, Starts
  <1> HIDE DEF factor, answer
  <1>4. /\ answer.factor = factor /\ answer.value[2] = Unit(si, factor)
        /\ answer.prefix = Prefixes(si)[factor + 1]
        BY <1>3
  <1>5. factor > 0 => bytes >= Unit(si, factor)
        BY <1>2 DEF Starts
  <1>6. ASSUME factor > 0 PROVE Prefixes(si)[factor + 1] # Prefixes(~si)[factor + 1]
    <2>1. factor \in {1, 2, 3, 4, 5, 6}
          BY <1>2, <1>6
    <2> QED BY <2>1 DEF Prefixes
  <1>7. ASSUME factor < 6 PROVE bytes < Unit(si, factor) * KiloOf(si)
    <2>1. factor \in 0..6 /\ factor \in 0..7
          BY <1>2
    <2>2. Unit(si, factor + 1) = KiloOf(si) * Unit(si, factor) /\ Unit(si, factor) \in Nat
          BY <2>1, UnitIs
    <2>3. KiloOf(si) \in Nat
          BY CallsAssumption DEF UnitsAssumption, KiloOf
    <2>4. KiloOf(si) * Unit(si, factor) = Unit(si, factor) * KiloOf(si)
          BY <2>2, <2>3, Products
    <2> QED BY <1>2, <1>7, <2>2, <2>4 DEF Ends
  <1> QED BY <1>4, <1>5, <1>6, <1>7 DEF AmountFits, answer, KiloOf

LEMMA ConversionsNow == ASSUME AskInv PROVE ConversionsRight
  <1>1. ASSUME Answered("diff") PROVE DiffAdds(asked.end, asked.start, reply)
    <2>1. PICK end \in Timespecs, start \in Timespecs :
            asked = [fn |-> "diff", end |-> end, start |-> start]
          BY <1>1, AsksOne DEF AsksDiff, Answered
    <2>2. reply = tspec_diff(end, start)
          BY <1>1, <2>1 DEF AskInv, Answered, Replied, Is
    <2> QED BY <2>1, <2>2, DiffRight
  <1>2. ASSUME Answered("hms") PROVE HmsAddsUp(asked.total, reply)
    <2>1. PICK total \in Totals :
            asked = [fn |-> "hms", total |-> total]
          BY <1>2, AsksOne DEF AsksHms, Answered
    <2>2. reply = secs_to_hms(total)
          BY <1>2, <2>1 DEF AskInv, Answered, Replied, Is
    <2>3. total \in Int
          BY CallsAssumption DEF UnitsAssumption
    <2> QED BY <2>1, <2>2, HmsRight, <2>3
  <1>3. ASSUME Answered("dms") PROVE AngleReturns(asked.angle, reply)
    <2>1. PICK angle \in Angles :
            asked = [fn |-> "dms", angle |-> angle]
          BY <1>3, AsksOne DEF AsksDms, Answered
    <2>2. PICK by60 \in Nearby(angle), by3600 \in Nearby(angle) :
            reply = dd_to_dms(angle, by60, by3600)
          BY <1>3, <2>1 DEF AskInv, Answered, Replied, Is
    <2>3. angle \in Int
          BY CallsAssumption DEF UnitsAssumption
    <2> QED BY <2>1, <2>2, DmsRight, <2>3
  <1>4. ASSUME Answered("port") PROVE PortsDiffer(asked.sa, asked.other, reply)
    <2>1. PICK sa \in Sockaddrs, other \in Sockaddrs :
            asked = [fn |-> "port", sa |-> sa, other |-> other]
          BY <1>4, AsksOne DEF AsksPort, Answered
    <2>2. reply = ac_net_port_from_sa(sa)
          BY <1>4, <2>1 DEF AskInv, Answered, Replied, Is
    <2> QED BY <2>1, <2>2, PortRight
  <1>5. ASSUME Answered("ntop") PROVE AddressIsWritten(asked.sa, asked.size, reply)
    <2>1. PICK sa \in Located, size \in Rooms :
            asked = [fn |-> "ntop", sa |-> sa, size |-> size]
          BY <1>5, AsksOne DEF AsksNtop, Answered
    <2>2. reply = ac_net_inet_ntop(sa, size)
          BY <1>5, <2>1 DEF AskInv, Answered, Replied, Is
    <2> QED BY <2>1, <2>2, NtopRight
  <1>6. ASSUME Answered("pton") PROVE reply.ret = 0
    <2>1. PICK colon \in BOOLEAN :
            asked = [fn |-> "pton", text |-> [NoText EXCEPT !.colon = colon]]
          BY <1>6, AsksOne DEF AsksPton, Answered
    <2>2. reply = ac_net_inet_pton([NoText EXCEPT !.colon = colon])
          BY <1>6, <2>1 DEF AskInv, Answered, Replied, Is
    <2> QED BY <2>1, <2>2, PtonRight
  <1>7. ASSUME step = "parsed" PROVE AddressReturns(asked.sa, reply)
    <2>1. Parsed
          BY <1>7 DEF AskInv
    <2>2. PICK sa \in Located, size \in Rooms : asked = [fn |-> "ntop", sa |-> sa, size |-> size]
          BY <2>1, AsksOne DEF AsksNtop, Parsed
    <2> DEFINE text == ac_net_inet_ntop(sa, size)
    <2>3. text # NoText /\ reply = ac_net_inet_pton(text)
          BY <2>1, <2>2 DEF Parsed
    <2> QED BY <2>2, <2>3, NtopRight
  <1>8. ASSUME Answered("ppb") PROVE AmountFits(asked.total, asked.si, reply)
    <2>1. PICK total \in Totals \cap Nat, si \in BOOLEAN :
            asked = [fn |-> "ppb", total |-> total, si |-> si]
          BY <1>8, AsksOne DEF AsksAmount, Answered
    <2>2. reply = ppb(total, si)
          BY <1>8, <2>1 DEF AskInv, Answered, Replied, Is
    <2>3. total \in Nat
          OBVIOUS
    <2> QED BY <2>1, <2>2, <2>3, AmountRight
  <1> QED BY <1>1, <1>2, <1>3, <1>4, <1>5, <1>6, <1>7, <1>8 DEF ConversionsRight

(***************************************************************************)
(* The parts of differences, amounts, ports and addresses are those of     *)
(* what was given, whatever it is; of a time too, as long as its hours fit *)
(* into an int.  Those of an angle that is not negative are put together   *)
(* to the angle but for the rounding, and to one up to a minute of arc off *)
(* if it is within a rounding below a whole minute (ac_geo.c:48-50).       *)
(***************************************************************************)
THEOREM ConversionsKeep == AskSpec => []ConversionsRight
  BY AskAlways, ConversionsNow, PTL
----------------------------------------------------------------------------
(***************************************************************************)
(* What is written of a string, character by character.                    *)
(***************************************************************************)
OutE(str, signed, f, n) == IF n = 0 THEN << >> ELSE f[n - 1] \o Escaped(char(str[n], signed))
IsOut(f, str, signed) == f = [n \in 0..Len(str) |-> OutE(str, signed, f, n)]
Out(str, signed) == CHOOSE f : IsOut(f, str, signed)

LEMMA BytesOf ==
    ASSUME NEW str \in Seq(1..255), NEW n \in 1..Len(str)
    PROVE  str[n] \in 1..255
  <1> DEFINE S == 1..255
  <1> HIDE DEF S
  <1>1. str \in Seq(S) => str[n] \in S
        OBVIOUS
  <1> QED BY <1>1 DEF S

LEMMA CharIs ==
    ASSUME NEW byte \in 1..255, NEW signed \in BOOLEAN
    PROVE  /\ char(byte, signed) \in Int
           /\ (~signed \/ byte < 128) => char(byte, signed) = byte
  <1>1. CASE signed
        BY <1>1 DEF char
  <1>2. CASE ~signed
        BY <1>2 DEF char
  <1> QED BY <1>1, <1>2

LEMMA EscapedIs ==
    ASSUME NEW c \in Int
    PROVE  Escaped(c) \in Seq(Int) /\ Len(Escaped(c)) <= 6
  <1>1. Letter(c) \in Int
        BY DEF Letter
  <1>2. CASE c < 32 /\ Letter(c) = c
    <2> DEFINE n == IF c < 0 THEN 65535 ELSE c
               p(i) == IF i = 1 THEN 4096 ELSE IF i = 2 THEN 256 ELSE IF i = 3 THEN 16 ELSE 1
               d(i) == Digit((n \div p(i)) % 16)
               a == <<Backslash, 117>>
               b == [i \in 1..4 |-> d(i)]
    <2>1. Escaped(c) = a \o b
          BY <1>2 DEF Escaped, Unicode
    <2>2. \A i \in 1..4 : d(i) \in Int
      <3> TAKE i \in 1..4
      <3> DEFINE q == n \div p(i)
      <3>1. n \in Int /\ p(i) \in {4096, 256, 16, 1}
            OBVIOUS
      <3> HIDE DEF n, p
      <3>2. q \in Int
            BY <3>1
      <3> HIDE DEF q
      <3>3. Digit(q % 16) \in Int
            BY <3>2 DEF Digit
      <3> QED BY <3>3 DEF q
    <2> HIDE DEF d
    <2>3. a \in Seq(Int) /\ Len(a) = 2 /\ b \in Seq(Int) /\ Len(b) = 4
          BY <2>2 DEF Backslash
    <2> HIDE DEF a, b
    <2>4. a \o b \in Seq(Int) /\ Len(a \o b) = Len(a) + Len(b)
          BY <2>3, ConcatProperties
    <2> QED BY <2>1, <2>3, <2>4
  <1>3. CASE ~(c < 32 /\ Letter(c) = c)
    <2>1. Escaped(c) = <<Backslash, Letter(c)>> \/ Escaped(c) = <<c>>
          BY <1>3 DEF Escaped
    <2> DEFINE b == Backslash
               l == Letter(c)
    <2>2. b \in Int /\ l \in Int
          BY <1>1 DEF Backslash
    <2> HIDE DEF b, l
    <2>3. <<b, l>> \in Seq(Int) /\ Len(<<b, l>>) = 2 /\ <<c>> \in Seq(Int) /\ Len(<<c>>) = 1
          BY <2>2
    <2>4. CASE Escaped(c) = <<b, l>>
          BY <2>3, <2>4
    <2>5. CASE Escaped(c) = <<c>>
          BY <2>3, <2>5
    <2> QED BY <2>1, <2>4, <2>5 DEF b, l
  <1> QED BY <1>2, <1>3

LEMMA OutIs ==
    ASSUME NEW str \in Seq(1..255), NEW signed \in BOOLEAN
    PROVE  LET out == Out(str, signed)
           IN  /\ make_escaped_string(str, signed) = out[Len(str)]
               /\ out[0] = << >>
               /\ \A n \in 1..Len(str) :
                     out[n] = out[n - 1] \o Escaped(char(str[n], signed))
               /\ \A n \in 0..Len(str) : out[n] \in Seq(Int) /\ Len(out[n]) <= 6 * n
  <1> DEFINE out == Out(str, signed)
             N == Len(str)
             e(n) == Escaped(char(str[n], signed))
  <1>1. N \in Nat
        OBVIOUS
  <1>2. \A n \in 1..N : e(n) \in Seq(Int) /\ Len(e(n)) <= 6
    <2> TAKE n \in 1..N
    <2>1. char(str[n], signed) \in Int
          BY BytesOf, CharIs
    <2> QED BY <2>1, EscapedIs
  <1>3. \E f : IsOut(f, str, signed)
    <2> DEFINE G == [n \in 1..N |-> [o \in Seq(Int) |-> o \o e(n)]]
    <2> HIDE DEF e, N
    <2>1. \A n \in 1..N, o \in Seq(Int) : o \o e(n) \in Seq(Int)
          BY <1>2
    <2>2. G \in Steps(Seq(Int), N)
          BY <2>1 DEF Steps
    <2>3. \A n \in 1..N, o \in Seq(Int) : G[n][o] = o \o e(n)
          OBVIOUS
    <2> HIDE DEF G
    <2>4. << >> \in Seq(Int)
          OBVIOUS
    <2>5. PICK f : Follows(f, Seq(Int), N, << >>, G)
          BY <1>1, <2>2, <2>4, Recursion
    <2>6. f \in [0..N -> Seq(Int)] /\ f[0] = << >>
          BY <2>5 DEF Follows
    <2>7. ASSUME NEW n \in 0..N PROVE f[n] = OutE(str, signed, f, n)
      <3>1. CASE n = 0
            BY <2>6, <3>1 DEF OutE
      <3>2. CASE n # 0
        <4>1. n \in 1..N /\ n - 1 \in 0..N
              BY <1>1, <3>2
        <4>2. f[n] = G[n][f[n - 1]] /\ f[n - 1] \in Seq(Int)
              BY <2>5, <2>6, <4>1 DEF Follows
        <4>3. f[n] = f[n - 1] \o e(n)
              BY <2>3, <4>1, <4>2
        <4> QED BY <3>2, <4>3 DEF OutE, e
      <3> QED BY <3>1, <3>2
    <2>8. IsOut(f, str, signed)
          BY <2>6, <2>7 DEF IsOut, N
    <2> QED BY <2>8
  <1>4. IsOut(out, str, signed)
        BY <1>3 DEF Out
  <1>5. make_escaped_string(str, signed) = out[N]
        BY DEF make_escaped_string, Out, IsOut, OutE
  <1> HIDE DEF out, e
  <1>6. out[0] = << >> /\ \A n \in 1..N : out[n] = out[n - 1] \o e(n)
    <2>1. out[0] = << >>
          BY <1>1, <1>4 DEF IsOut, OutE
    <2>2. ASSUME NEW n \in 1..N PROVE out[n] = out[n - 1] \o e(n)
      <3>1. n \in 0..Len(str) /\ n # 0
            OBVIOUS
      <3>2. out[n] = OutE(str, signed, out, n)
            BY <1>4, <3>1 DEF IsOut
      <3> QED BY <3>1, <3>2 DEF OutE, e
    <2> QED BY <2>1, <2>2
  <1> DEFINE S == {n \in Nat : n <= N => out[n] \in Seq(Int) /\ Len(out[n]) <= 6 * n}
  <1>7. 0 \in S
    <2>1. << >> \in Seq(Int) /\ Len(<< >>) = 0
          OBVIOUS
    <2>2. out[0] \in Seq(Int) /\ Len(out[0]) <= 6 * 0
          BY <1>6, <2>1
    <2> QED BY <2>2
  <1>8. ASSUME NEW n \in Nat, n \in S PROVE n + 1 \in S
    <2> SUFFICES ASSUME n + 1 <= N
                 PROVE  out[n + 1] \in Seq(Int) /\ Len(out[n + 1]) <= 6 * (n + 1)
        OBVIOUS
    <2> DEFINE o == out[n]
               w == e(n + 1)
    <2>1. n + 1 \in 1..N /\ (n + 1) - 1 = n
          BY <1>1
    <2>2. out[n + 1] = o \o w
          BY <1>6, <2>1
    <2>3. o \in Seq(Int) /\ Len(o) <= 6 * n /\ w \in Seq(Int) /\ Len(w) <= 6
          BY <1>2, <1>8, <2>1
    <2> HIDE DEF o, w
    <2>4. o \o w \in Seq(Int) /\ Len(o \o w) = Len(o) + Len(w) /\ Len(o) \in Nat /\ Len(w) \in Nat
          BY <2>3
    <2> QED BY <2>2, <2>3, <2>4
  <1> HIDE DEF S
  <1>9. Nat \subseteq S
        BY <1>7, <1>8, Induct
  <1>10. ASSUME NEW n \in 0..N PROVE out[n] \in Seq(Int) /\ Len(out[n]) <= 6 * n
    <2>1. n \in S /\ n <= N
          BY <1>1, <1>9
    <2> QED BY <2>1 DEF S
  <1> QED BY <1>5, <1>6, <1>10 DEF out, e

(***************************************************************************)
(* What a reader knows after each character of a sequence.                 *)
(***************************************************************************)
State == [text : Seq(Int), escape : Seq(Int)]
At(text, escape) == [text |-> text, escape |-> escape]
Fresh == At(<< >>, << >>)

SeenE(o, f, n) == IF n = 0 THEN Fresh ELSE Lexed(f[n - 1], o[n])
IsSeen(f, o)   == f = [n \in 0..Len(o) |-> SeenE(o, f, n)]
Seen(o)        == CHOOSE f : IsSeen(f, o)
Read(o)        == Seen(o)[Len(o)]

Hex(e, c) == 4096 * Value(e[3]) + 256 * Value(e[4]) + 16 * Value(e[5]) + Value(c)

LEMMA LexedIs ==
    ASSUME NEW t \in Seq(Int), NEW e \in Seq(Int), NEW c \in Int
    PROVE  /\ e = << >> =>
                 Lexed(At(t, e), c) = IF c = Backslash THEN At(t, <<c>>)
                                      ELSE At(Append(t, IF c < 32 \/ c = Quote THEN -1 ELSE c), << >>)
           /\ Len(e) = 1 /\ c # 117 => Lexed(At(t, e), c) = At(Append(t, Meaning(c)), << >>)
           /\ Len(e) \in 1..4 /\ ~(Len(e) = 1 /\ c # 117) =>
                 Lexed(At(t, e), c) = At(t, Append(e, c))
           /\ Len(e) >= 5 => Lexed(At(t, e), c) = At(Append(t, Hex(e, c)), << >>)
  <1>1. At(t, e).text = t /\ At(t, e).escape = e
        BY DEF At
  <1>2. \A d : [At(t, e) EXCEPT !.escape = d] = At(t, d)
        BY DEF At
  <1>3. [At(t, e) EXCEPT !.escape = Append(@, c)] = At(t, Append(e, c))
        BY <1>1, <1>2
  <1>4. Len(e) \in Nat /\ (e # << >> <=> Len(e) >= 1)
        OBVIOUS
  <1>5. ASSUME e = << >>
        PROVE  Lexed(At(t, e), c) = IF c = Backslash THEN At(t, <<c>>)
                                    ELSE At(Append(t, IF c < 32 \/ c = Quote THEN -1 ELSE c), << >>)
        BY <1>1, <1>2, <1>5 DEF Lexed, At
  <1>6. ASSUME Len(e) = 1, c # 117 PROVE Lexed(At(t, e), c) = At(Append(t, Meaning(c)), << >>)
        BY <1>1, <1>4, <1>6 DEF Lexed, At
  <1>7. ASSUME Len(e) \in 1..4, ~(Len(e) = 1 /\ c # 117)
        PROVE  Lexed(At(t, e), c) = At(t, Append(e, c))
    <2> DEFINE n == Len(e)
    <2>a. n \in Nat /\ n \in 1..4 /\ (e # << >> <=> n >= 1)
          BY <1>4, <1>7
    <2> HIDE DEF n
    <2>b. e # << >> /\ n < 5
          BY <2>a
    <2>1. e # << >> /\ ~(Len(e) = 1 /\ c # 117) /\ Len(e) < 5
          BY <1>7, <2>b DEF n
    <2>2. Lexed(At(t, e), c) = [At(t, e) EXCEPT !.escape = Append(@, c)]
          BY <1>1, <2>1 DEF Lexed
    <2> QED BY <1>3, <2>2
  <1>8. ASSUME Len(e) >= 5 PROVE Lexed(At(t, e), c) = At(Append(t, Hex(e, c)), << >>)
    <2>1. Len(e) \in Nat /\ Len(e) # 1 /\ ~(Len(e) < 5) /\ e # << >>
          BY <1>4, <1>8
    <2> QED BY <1>1, <2>1 DEF Lexed, Hex, At
  <1> QED BY <1>5, <1>6, <1>7, <1>8

LEMMA LexedFirst ==
    ASSUME NEW t \in Seq(Int), NEW c \in Int
    PROVE  /\ c = Backslash => Lexed(At(t, << >>), c) = At(t, <<c>>)
           /\ (c # Backslash /\ c # Quote /\ ~(c < 32)) =>
                 Lexed(At(t, << >>), c) = At(Append(t, c), << >>)
  <1>1. << >> \in Seq(Int)
        OBVIOUS
  <1>2. Lexed(At(t, << >>), c)
          = IF c = Backslash THEN At(t, <<c>>)
            ELSE At(Append(t, IF c < 32 \/ c = Quote THEN -1 ELSE c), << >>)
        BY <1>1, LexedIs
  <1> QED BY <1>2

More(d, t, e, x) ==
    /\ d \in Seq(Int) /\ Lexed(At(t, e), x) = At(t, d)
    /\ Len(d) = Len(e) + 1 /\ d[Len(e) + 1] = x
    /\ \A i \in 1..Len(e) : d[i] = e[i]

LEMMA LexedMore ==
    ASSUME NEW t \in Seq(Int), NEW e \in Seq(Int), NEW x \in Int,
           Len(e) \in 1..4, ~(Len(e) = 1 /\ x # 117)
    PROVE  \E d : More(d, t, e, x)
  <1> DEFINE d == Append(e, x)
  <1>1. Lexed(At(t, e), x) = At(t, d)
        BY LexedIs
  <1>2. d \in Seq(Int) /\ Len(d) = Len(e) + 1 /\ d[Len(e) + 1] = x
        /\ \A i \in 1..Len(e) : d[i] = e[i]
        BY AppendProperties
  <1> HIDE DEF d
  <1>3. More(d, t, e, x)
        BY <1>1, <1>2 DEF More
  <1> QED BY <1>3

LEMMA LexedLast ==
    ASSUME NEW t \in Seq(Int), NEW e \in Seq(Int), NEW c \in Int, Len(e) = 5
    PROVE  Lexed(At(t, e), c) = At(Append(t, Hex(e, c)), << >>)
  <1>1. Len(e) >= 5
        OBVIOUS
  <1> QED BY <1>1, LexedIs

LEMMA LexedState == ASSUME NEW s \in State, NEW c \in Int PROVE Lexed(s, c) \in State
  <1> DEFINE t == s.text
             e == s.escape
  <1>1. t \in Seq(Int) /\ e \in Seq(Int) /\ s = At(t, e)
        BY DEF State, At
  <1> HIDE DEF t, e
  <1>2. \A u, v \in Seq(Int) : At(u, v) \in State
        BY DEF State, At
  <1>3. << >> \in Seq(Int) /\ <<c>> \in Seq(Int) /\ \A x \in Int : Append(t, x) \in Seq(Int)
        BY <1>1
  <1>4. CASE e = << >>
    <2> DEFINE x == IF c < 32 \/ c = Quote THEN -1 ELSE c
    <2>1. x \in Int
          BY DEF Quote
    <2> HIDE DEF x
    <2>2. At(Append(t, x), << >>) \in State /\ At(t, <<c>>) \in State
          BY <1>1, <1>2, <1>3, <2>1
    <2>3. Lexed(At(t, e), c) = IF c = Backslash THEN At(t, <<c>>) ELSE At(Append(t, x), << >>)
          BY <1>1, <1>4, LexedIs DEF x
    <2> QED BY <1>1, <2>2, <2>3
  <1>5. CASE Len(e) = 1 /\ c # 117
    <2> DEFINE x == Meaning(c)
    <2>1. x \in Int
          BY DEF Meaning, Quote, Backslash
    <2>2. Lexed(At(t, e), c) = At(Append(t, x), << >>)
          BY <1>1, <1>5, LexedIs
    <2> HIDE DEF x
    <2>3. Append(t, x) \in Seq(Int)
          BY <1>3, <2>1
    <2>4. At(Append(t, x), << >>) \in State
          BY <1>2, <1>3, <2>3
    <2> QED BY <1>1, <2>2, <2>4
  <1>6. CASE Len(e) \in 1..4 /\ ~(Len(e) = 1 /\ c # 117)
    <2>1. Append(e, c) \in Seq(Int)
          BY <1>1
    <2>2. Lexed(At(t, e), c) = At(t, Append(e, c))
          BY <1>1, <1>6, LexedIs
    <2> QED BY <1>1, <1>2, <2>1, <2>2
  <1>7. CASE Len(e) >= 5
    <2>1. e[3] \in Int /\ e[4] \in Int /\ e[5] \in Int
          BY <1>1, <1>7
    <2>2. \A d \in Int : Value(d) \in Int
          BY DEF Value
    <2>3. Hex(e, c) \in Int
      <3> DEFINE i == Value(e[3])
                 j == Value(e[4])
                 k == Value(e[5])
                 l == Value(c)
      <3>1. i \in Int /\ j \in Int /\ k \in Int /\ l \in Int
            BY <2>1, <2>2
      <3> HIDE DEF i, j, k, l
      <3>2. 4096 * i + 256 * j + 16 * k + l \in Int
            BY <3>1
      <3> QED BY <3>2 DEF Hex, i, j, k, l
    <2> DEFINE x == Hex(e, c)
    <2>4. Lexed(At(t, e), c) = At(Append(t, x), << >>)
          BY <1>1, <1>7, LexedIs
    <2> HIDE DEF x
    <2>5. At(Append(t, x), << >>) \in State
          BY <1>1, <1>2, <1>3, <2>3 DEF x
    <2> QED BY <1>1, <2>4, <2>5
  <1>8. e = << >> \/ Len(e) \in 1..4 \/ Len(e) >= 5
    <2> DEFINE n == Len(e)
    <2>1. n \in Nat /\ (e # << >> <=> n >= 1)
          BY <1>1
    <2> HIDE DEF n
    <2>2. e = << >> \/ n \in 1..4 \/ n >= 5
          BY <2>1
    <2> QED BY <2>2 DEF n
  <1> QED BY <1>4, <1>5, <1>6, <1>7, <1>8

LEMMA SeenIs ==
    ASSUME NEW o \in Seq(Int)
    PROVE  /\ Seen(o)[0] = Fresh
           /\ \A n \in 1..Len(o) : Seen(o)[n] = Lexed(Seen(o)[n - 1], o[n])
  <1> DEFINE N == Len(o)
             G == [n \in 1..N |-> [s \in State |-> Lexed(s, o[n])]]
  <1>1. N \in Nat /\ Fresh \in State /\ \A n \in 1..N : o[n] \in Int
        BY DEF Fresh, State, At
  <1> HIDE DEF N
  <1>2. G \in Steps(State, N)
        BY <1>1, LexedState DEF Steps
  <1>3. \A n \in 1..N, s \in State : G[n][s] = Lexed(s, o[n])
        OBVIOUS
  <1> HIDE DEF G
  <1>4. PICK f : Follows(f, State, N, Fresh, G)
        BY <1>1, <1>2, Recursion
  <1>5. f \in [0..N -> State] /\ f[0] = Fresh
        BY <1>4 DEF Follows
  <1>6. ASSUME NEW n \in 0..N PROVE f[n] = SeenE(o, f, n)
    <2>1. CASE n = 0
          BY <1>5, <2>1 DEF SeenE
    <2>2. CASE n # 0
      <3>1. n \in 1..N /\ n - 1 \in 0..N
            BY <1>1, <2>2
      <3>2. f[n] = G[n][f[n - 1]] /\ f[n - 1] \in State
            BY <1>4, <1>5, <3>1 DEF Follows
      <3> QED BY <1>3, <2>2, <3>1, <3>2 DEF SeenE
    <2> QED BY <2>1, <2>2
  <1>7. IsSeen(f, o)
        BY <1>5, <1>6 DEF IsSeen, N
  <1>8. IsSeen(Seen(o), o)
        BY <1>7 DEF Seen
  <1> DEFINE g == Seen(o)
  <1> HIDE DEF g
  <1>9. \A n \in 0..N : g[n] = SeenE(o, g, n)
        BY <1>8 DEF IsSeen, g, N
  <1>10. g[0] = Fresh /\ \A n \in 1..N : g[n] = Lexed(g[n - 1], o[n])
        BY <1>1, <1>9 DEF SeenE
  <1> QED BY <1>10 DEF g, N

LEMMA ReadEmpty == Read(<< >>) = Fresh
  <1>1. << >> \in Seq(Int) /\ Len(<< >>) = 0
        OBVIOUS
  <1> QED BY <1>1, SeenIs DEF Read
(***************************************************************************)
(* What a reader knows of a text that goes on.                             *)
(***************************************************************************)
GoesOn(f, s, w) == f[0] = s /\ \A j \in 1..Len(w) : f[j] = Lexed(f[j - 1], w[j])

LEMMA ReadOn ==
    ASSUME NEW o \in Seq(Int), NEW w \in Seq(Int)
    PROVE  \E f : GoesOn(f, Read(o), w) /\ Read(o \o w) = f[Len(w)]
  <1> DEFINE N == Len(o)
             M == Len(w)
             p == o \o w
             f == Seen(o)
             g == Seen(p)
             S == {n \in Nat : n <= N => g[n] = f[n]}
             h == [j \in 0..M |-> g[N + j]]
  <1>1. /\ N \in Nat /\ M \in Nat /\ p \in Seq(Int) /\ Len(p) = N + M
        /\ \A n \in 1..N + M : p[n] = IF n <= N THEN o[n] ELSE w[n - N]
        BY ConcatProperties
  <1>2. f[0] = Fresh /\ \A n \in 1..N : f[n] = Lexed(f[n - 1], o[n])
        BY SeenIs
  <1> HIDE DEF p
  <1>3. g[0] = Fresh /\ \A n \in 1..N + M : g[n] = Lexed(g[n - 1], p[n])
        BY <1>1, SeenIs
  <1>4. Read(o) = f[N] /\ Read(p) = g[N + M]
        BY <1>1 DEF Read
  <1> HIDE DEF f, g, N, M
  <1>5. 0 \in S
        BY <1>2, <1>3
  <1>6. ASSUME NEW n \in Nat, n \in S PROVE n + 1 \in S
    <2> SUFFICES ASSUME n + 1 <= N PROVE g[n + 1] = f[n + 1]
        OBVIOUS
    <2>0. n <= N /\ n + 1 \in 1..N /\ n + 1 \in 1..N + M /\ (n + 1) - 1 = n
          BY <1>1
    <2>1. n + 1 \in 1..N /\ n + 1 \in 1..N + M /\ (n + 1) - 1 = n /\ g[n] = f[n]
          BY <1>6, <2>0
    <2>2. p[n + 1] = o[n + 1]
          BY <1>1, <2>1
    <2> HIDE DEF S
    <2> QED BY <1>2, <1>3, <2>1, <2>2
  <1> HIDE DEF S
  <1>7. N \in S
        BY <1>1, <1>5, <1>6, Induct
  <1>8. g[N] = f[N]
        BY <1>1, <1>7 DEF S
  <1>9. h[0] = g[N] /\ h[M] = g[N + M]
        BY <1>1
  <1>10. ASSUME NEW j \in 1..M PROVE h[j] = Lexed(h[j - 1], w[j])
    <2>0. /\ N + j \in 1..N + M /\ (N + j) - 1 = N + (j - 1)
          /\ j \in 0..M /\ j - 1 \in 0..M
          BY <1>1
    <2>1. /\ N + j \in 1..N + M /\ (N + j) - 1 = N + (j - 1) /\ p[N + j] = w[j]
          /\ j \in 0..M /\ j - 1 \in 0..M
          BY <1>1, <2>0
    <2>2. g[N + j] = Lexed(g[N + (j - 1)], w[j])
          BY <1>3, <2>1
    <2> QED BY <2>1, <2>2
  <1> HIDE DEF h
  <1>11. GoesOn(h, Read(o), w)
        BY <1>4, <1>8, <1>9, <1>10 DEF GoesOn, M
  <1> QED BY <1>4, <1>9, <1>11 DEF p, M

LEMMA Lone ==
    ASSUME NEW a \in Int
    PROVE  <<a>> \in Seq(Int) /\ Len(<<a>>) = 1 /\ <<a>>[1] = a
  OBVIOUS

LEMMA Pair ==
    ASSUME NEW a \in Int, NEW b \in Int
    PROVE  <<a, b>> \in Seq(Int) /\ Len(<<a, b>>) = 2 /\ <<a, b>>[1] = a /\ <<a, b>>[2] = b
  OBVIOUS

LEMMA AsSeq ==
    ASSUME NEW n \in Nat, NEW S, NEW w \in [1..n -> S]
    PROVE  w \in Seq(S) /\ Len(w) = n
  OBVIOUS

HexOf(w) == 4096 * Value(w[3]) + 256 * Value(w[4]) + 16 * Value(w[5]) + Value(w[6])

LEMMA ReadUnicode ==
    ASSUME NEW o \in Seq(Int), NEW t \in Seq(Int), Read(o) = At(t, << >>),
           NEW w \in Seq(Int), Len(w) = 6, w[1] = Backslash, w[2] = 117
    PROVE  Read(o \o w) = At(Append(t, HexOf(w)), << >>)
  <1>r. \E f : GoesOn(f, Read(o), w) /\ Read(o \o w) = f[Len(w)]
        BY ReadOn, ZenonT(60)
  <1>0. PICK f : GoesOn(f, Read(o), w) /\ Read(o \o w) = f[Len(w)]
        BY <1>r
  <1>1. GoesOn(f, At(t, << >>), w) /\ Read(o \o w) = f[6]
        BY <1>0
  <1>2. /\ f[0] = At(t, << >>) /\ f[1] = Lexed(f[0], w[1]) /\ f[2] = Lexed(f[1], w[2])
        /\ f[3] = Lexed(f[2], w[3]) /\ f[4] = Lexed(f[3], w[4])
        /\ f[5] = Lexed(f[4], w[5]) /\ f[6] = Lexed(f[5], w[6])
    <2>1. f[0] = At(t, << >>) /\ \A j \in 1..6 : f[j] = Lexed(f[j - 1], w[j])
          BY <1>1 DEF GoesOn
    <2> QED BY <2>1
  <1>3. /\ w[1] \in Int /\ w[2] \in Int /\ w[3] \in Int
        /\ w[4] \in Int /\ w[5] \in Int /\ w[6] \in Int
    <2>1. \A i \in 1..6 : w[i] \in Int
          BY ElementOfSeq
    <2> QED BY <2>1
  <1> DEFINE e1 == <<Backslash>>
  <1>4. f[1] = At(t, e1) /\ e1 \in Seq(Int) /\ Len(e1) = 1
    <2>1. Lexed(At(t, << >>), Backslash) = At(t, e1)
          BY <1>3, LexedFirst
    <2> QED BY <1>2, <1>3, <2>1, Lone
  <1> HIDE DEF e1
  <1>5. PICK e2 \in Seq(Int) :
          /\ f[2] = At(t, e2) /\ Len(e2) = 2
    <2>1. Len(e1) \in 1..4 /\ ~(Len(e1) = 1 /\ w[2] # 117)
          BY <1>4
    <2>2. PICK d : More(d, t, e1, w[2])
          BY <1>3, <1>4, <2>1, LexedMore
    <2>3. d \in Seq(Int) /\ f[2] = At(t, d) /\ Len(d) = 2 /\ d[2] = w[2]
          BY <1>2, <1>4, <2>2 DEF More
    <2> QED BY <2>3
  <1>6. PICK e3 \in Seq(Int) :
          /\ f[3] = At(t, e3) /\ Len(e3) = 3 /\ e3[3] = w[3]
    <2>1. Len(e2) \in 1..4 /\ ~(Len(e2) = 1 /\ w[3] # 117)
          BY <1>5
    <2>2. PICK d : More(d, t, e2, w[3])
          BY <1>3, <1>5, <2>1, LexedMore
    <2>3. d \in Seq(Int) /\ f[3] = At(t, d) /\ Len(d) = 3 /\ d[3] = w[3]
          BY <1>2, <1>5, <2>2 DEF More
    <2> QED BY <2>3
  <1>7. PICK e4 \in Seq(Int) :
          /\ f[4] = At(t, e4) /\ Len(e4) = 4 /\ e4[3] = w[3] /\ e4[4] = w[4]
    <2>1. Len(e3) \in 1..4 /\ ~(Len(e3) = 1 /\ w[4] # 117)
          BY <1>6
    <2>2. PICK d : More(d, t, e3, w[4])
          BY <1>3, <1>6, <2>1, LexedMore
    <2>3. d \in Seq(Int) /\ f[4] = At(t, d) /\ Len(d) = 4 /\ d[4] = w[4]
          BY <1>2, <1>6, <2>2 DEF More
    <2>4. d[3] = w[3]
          BY <1>6, <2>2 DEF More
    <2> QED BY <2>3, <2>4
  <1>8. PICK e5 \in Seq(Int) :
          /\ f[5] = At(t, e5) /\ Len(e5) = 5 /\ e5[3] = w[3] /\ e5[4] = w[4] /\ e5[5] = w[5]
    <2>1. Len(e4) \in 1..4 /\ ~(Len(e4) = 1 /\ w[5] # 117)
          BY <1>7
    <2>2. PICK d : More(d, t, e4, w[5])
          BY <1>3, <1>7, <2>1, LexedMore
    <2>3. d \in Seq(Int) /\ f[5] = At(t, d) /\ Len(d) = 5 /\ d[5] = w[5]
          BY <1>2, <1>7, <2>2 DEF More
    <2>4. d[3] = w[3] /\ d[4] = w[4]
          BY <1>7, <2>2 DEF More
    <2> QED BY <2>3, <2>4
  <1>9. Lexed(At(t, e5), w[6]) = At(Append(t, Hex(e5, w[6])), << >>)
        BY <1>3, <1>8, LexedLast
  <1>10. Hex(e5, w[6]) = HexOf(w)
        BY <1>8 DEF Hex, HexOf
  <1> QED BY <1>1, <1>2, <1>8, <1>9, <1>10

LEMMA UnicodeIs ==
    ASSUME NEW c \in 1..31
    PROVE  LET w == Unicode(c)
           IN  /\ w \in Seq(Int) /\ Len(w) = 6 /\ w[1] = Backslash /\ w[2] = 117
               /\ Value(w[3]) = 0 /\ Value(w[4]) = 0
               /\ Value(w[5]) = c \div 16 /\ Value(w[6]) = c % 16
  <1> DEFINE p(i) == IF i = 1 THEN 4096 ELSE IF i = 2 THEN 256 ELSE IF i = 3 THEN 16 ELSE 1
             d(i) == (c \div p(i)) % 16
             a == <<Backslash, 117>>
             b == [i \in 1..4 |-> Digit(d(i))]
             w == a \o b
  <1>1. Unicode(c) = w
        BY DEF Unicode
  <1>2. d(1) = 0 /\ d(2) = 0
    <2>1. d(1) = (c \div 4096) % 16 /\ d(2) = (c \div 256) % 16
          OBVIOUS
    <2>2. c \div 4096 = 0 /\ c \div 256 = 0
          OBVIOUS
    <2> QED BY <2>1, <2>2
  <1>3. d(3) = c \div 16 /\ d(3) \in {0, 1}
    <2>1. d(3) = (c \div 16) % 16
          OBVIOUS
    <2>2. c \div 16 \in {0, 1}
          OBVIOUS
    <2> DEFINE q == c \div 16
    <2> HIDE DEF q
    <2>3. q \in {0, 1} => q % 16 = q
          OBVIOUS
    <2> QED BY <2>1, <2>2, <2>3 DEF q
  <1>4. d(4) = c % 16 /\ d(4) \in 0..15
    <2>1. d(4) = (c \div 1) % 16
          OBVIOUS
    <2>2. c \div 1 = c /\ c % 16 \in 0..15
          OBVIOUS
    <2> QED BY <2>1, <2>2
  <1> HIDE DEF d
  <1>5. ASSUME NEW x \in 0..15 PROVE Digit(x) \in Int /\ Value(Digit(x)) = x
    <2>1. CASE x < 10
          BY <2>1 DEF Digit, Value
    <2>2. CASE ~(x < 10)
          BY <2>2 DEF Digit, Value
    <2> QED BY <2>1, <2>2
  <1>6. d(1) \in 0..15 /\ d(2) \in 0..15 /\ d(3) \in 0..15 /\ d(4) \in 0..15
        BY <1>2, <1>3, <1>4
  <1>7. /\ b[1] = Digit(d(1)) /\ b[2] = Digit(d(2)) /\ b[3] = Digit(d(3)) /\ b[4] = Digit(d(4))
        /\ b[1] \in Int /\ b[2] \in Int /\ b[3] \in Int /\ b[4] \in Int
        BY <1>5, <1>6
  <1>8. b \in Seq(Int) /\ Len(b) = 4
    <2>1. b \in [1..4 -> Int]
          BY <1>5, <1>6
    <2> HIDE DEF b
    <2> QED BY <2>1, AsSeq
  <1>9. a \in Seq(Int) /\ Len(a) = 2 /\ a[1] = Backslash /\ a[2] = 117
        BY Pair DEF Backslash
  <1> HIDE DEF a, b
  <1>10. /\ w \in Seq(Int) /\ Len(w) = 6
         /\ \A i \in 1..6 : w[i] = IF i <= 2 THEN a[i] ELSE b[i - 2]
    <2>1. /\ w \in Seq(Int) /\ Len(w) = Len(a) + Len(b)
          /\ \A i \in 1..Len(a) + Len(b) : w[i] = IF i <= Len(a) THEN a[i] ELSE b[i - Len(a)]
      <3>1. a \in Seq(Int) /\ b \in Seq(Int)
            BY <1>8, <1>9
      <3> QED BY <3>1, ConcatProperties
    <2>2. Len(a) = 2 /\ Len(b) = 4
          BY <1>8, <1>9
    <2> HIDE DEF w
    <2> QED BY <2>1, <2>2
  <1> HIDE DEF w
  <1>11. /\ w[1] = a[1] /\ w[2] = a[2] /\ w[3] = b[1] /\ w[4] = b[2]
         /\ w[5] = b[3] /\ w[6] = b[4]
        BY <1>10
  <1>12. /\ Value(w[3]) = 0 /\ Value(w[4]) = 0
         /\ Value(w[5]) = c \div 16 /\ Value(w[6]) = c % 16
        BY <1>2, <1>3, <1>4, <1>5, <1>6, <1>7, <1>11
  <1> QED BY <1>1, <1>9, <1>10, <1>11, <1>12

LEMMA ReadEscaped ==
    ASSUME NEW o \in Seq(Int), NEW t \in Seq(Int), Read(o) = At(t, << >>),
           NEW c \in 1..255
    PROVE  Read(o \o Escaped(c)) = At(Append(t, c), << >>)
  <1>0. << >> \in Seq(Int) /\ Backslash \in Int
        BY DEF Backslash
  <1>1. CASE c < 32 /\ Letter(c) = c
    <2> DEFINE w == Unicode(c)
               x == HexOf(w)
    <2>1. Escaped(c) = w /\ c \in 1..31
          BY <1>1 DEF Escaped
    <2>2. /\ w \in Seq(Int) /\ Len(w) = 6 /\ w[1] = Backslash /\ w[2] = 117
          /\ Value(w[3]) = 0 /\ Value(w[4]) = 0
          /\ Value(w[5]) = c \div 16 /\ Value(w[6]) = c % 16
          BY <2>1, UnicodeIs
    <2> HIDE DEF w
    <2>3. x = c
          BY <2>1, <2>2 DEF HexOf
    <2>4. Read(o \o w) = At(Append(t, x), << >>)
          BY <2>2, ReadUnicode
    <2> QED BY <2>1, <2>3, <2>4
  <1>2. CASE c \in {Quote, Backslash} \/ Letter(c) # c
    <2> DEFINE l == Letter(c)
               w == <<Backslash, l>>
               e == <<Backslash>>
    <2>1. l \in Int /\ l # 117 /\ Meaning(l) = c
          BY <1>2 DEF Letter, Meaning, Quote, Backslash
    <2>2. ~(c < 32 /\ Letter(c) = c)
          BY <1>2 DEF Quote, Backslash
    <2>3. Escaped(c) = w
          BY <1>2, <2>2 DEF Escaped
    <2> HIDE DEF l
    <2>4. w \in Seq(Int) /\ Len(w) = 2 /\ w[1] = Backslash /\ w[2] = l
          BY <1>0, <2>1, Pair
    <2> HIDE DEF w
    <2>5. e \in Seq(Int) /\ Len(e) = 1
          BY <1>0, Lone
    <2>6. PICK f : GoesOn(f, At(t, << >>), w) /\ Read(o \o w) = f[2]
          BY <2>4, ReadOn
    <2>7. f[0] = At(t, << >>) /\ f[1] = Lexed(f[0], Backslash) /\ f[2] = Lexed(f[1], l)
      <3>1. f[0] = At(t, << >>) /\ \A j \in 1..2 : f[j] = Lexed(f[j - 1], w[j])
            BY <2>4, <2>6 DEF GoesOn
      <3> QED BY <2>4, <3>1
    <2>8. Lexed(At(t, << >>), Backslash) = At(t, e)
          BY <1>0, LexedFirst
    <2> HIDE DEF e
    <2>9. Lexed(At(t, e), l) = At(Append(t, Meaning(l)), << >>)
          BY <2>1, <2>5, LexedIs
    <2> QED BY <2>1, <2>3, <2>6, <2>7, <2>8, <2>9
  <1>3. CASE ~(c < 32 /\ Letter(c) = c) /\ ~(c \in {Quote, Backslash} \/ Letter(c) # c)
    <2> DEFINE w == <<c>>
    <2>1. c # Backslash /\ c # Quote /\ ~(c < 32)
          BY <1>3
    <2>2. Escaped(c) = w
          BY <1>3 DEF Escaped
    <2>3. w \in Seq(Int) /\ Len(w) = 1 /\ w[1] = c
          BY Lone
    <2> HIDE DEF w
    <2>4. PICK f : GoesOn(f, At(t, << >>), w) /\ Read(o \o w) = f[1]
          BY <2>3, ReadOn
    <2>5. f[0] = At(t, << >>) /\ f[1] = Lexed(f[0], c)
      <3>1. f[0] = At(t, << >>) /\ \A j \in 1..1 : f[j] = Lexed(f[j - 1], w[j])
            BY <2>3, <2>4 DEF GoesOn
      <3> QED BY <2>3, <3>1
    <2>6. Lexed(At(t, << >>), c) = At(Append(t, c), << >>)
      <3>1. c \in Int
            OBVIOUS
      <3> QED BY <2>1, <3>1, LexedFirst
    <2> QED BY <2>2, <2>4, <2>5, <2>6
  <1> QED BY <1>1, <1>2, <1>3

LEMMA UnescapeIs ==
    ASSUME NEW o
    PROVE  Unescape(o) = IF Read(o).escape = << >> THEN Read(o).text ELSE Append(Read(o).text, -1)
  BY DEF Unescape, Read, Seen, IsSeen, SeenE, Fresh, At

LEMMA EscapeRight ==
    ASSUME NEW str \in Seq(1..255), NEW signed \in BOOLEAN
    PROVE  EscapeDecodes(str, signed, make_escaped_string(str, signed))
  <1> DEFINE N == Len(str)
             out == Out(str, signed)
             e(n) == Escaped(char(str[n], signed))
             t(n) == SubSeq(str, 1, n)
             S == {n \in Nat : n <= N => Read(out[n]) = At(t(n), << >>)}
  <1>1. N \in Nat /\ str \in Seq(Int)
    <2> DEFINE B == 1..255
    <2>1. B \subseteq Int
          OBVIOUS
    <2> HIDE DEF B
    <2>2. str \in Seq(B) => str \in Seq(Int)
          BY <2>1, SeqMonotonic
    <2> QED BY <2>2 DEF B
  <1>2. make_escaped_string(str, signed) = out[N]
        BY OutIs
  <1>3. out[0] = << >> /\ \A n \in 1..N : out[n] = out[n - 1] \o e(n)
        BY OutIs
  <1>4. \A n \in 0..N : out[n] \in Seq(Int) /\ Len(out[n]) <= 6 * n
        BY OutIs
  <1> HIDE DEF out
  <1>5. ASSUME ~signed \/ \A i \in 1..N : str[i] < 128 PROVE Unescape(out[N]) = str
    <2>1. ASSUME NEW n \in 1..N PROVE str[n] \in 1..255 /\ e(n) = Escaped(str[n])
      <3>1. str[n] \in 1..255
            BY BytesOf
      <3>2. char(str[n], signed) = str[n]
            BY <1>5, <3>1, CharIs
      <3> QED BY <3>1, <3>2
    <2> HIDE DEF e
    <2>2. \A n \in 0..N : t(n) \in Seq(Int)
      <3> TAKE n \in 0..N
      <3>1. \A i \in 1..n : str[i] \in Int
            BY <1>1, ElementOfSeq
      <3> QED BY <3>1, SubSeqProperties
    <2>3. \A n \in 0..N - 1 : t(n + 1) = Append(t(n), str[n + 1])
          BY <1>1
    <2>4. 0 \in S
      <3>1. t(0) = << >>
            BY <1>1
      <3>2. Read(out[0]) = At(<< >>, << >>)
            BY <1>3, ReadEmpty DEF Fresh
      <3> QED BY <3>1, <3>2
    <2>5. ASSUME NEW n \in Nat, n \in S PROVE n + 1 \in S
      <3> SUFFICES ASSUME n + 1 <= N PROVE Read(out[n + 1]) = At(t(n + 1), << >>)
          OBVIOUS
      <3> DEFINE o == out[n]
                 u == t(n)
                 c == str[n + 1]
      <3>1. n + 1 \in 1..N /\ (n + 1) - 1 = n /\ n \in 0..N /\ n \in 0..N - 1
            BY <1>1
      <3>2. o \in Seq(Int) /\ u \in Seq(Int) /\ Read(o) = At(u, << >>)
            BY <1>4, <2>2, <2>5, <3>1
      <3>3. c \in 1..255 /\ out[n + 1] = o \o Escaped(c)
            BY <1>3, <2>1, <3>1
      <3>4. t(n + 1) = Append(u, c)
            BY <2>3, <3>1
      <3> HIDE DEF o, u, c, t
      <3>5. Read(o \o Escaped(c)) = At(Append(u, c), << >>)
            BY <3>2, <3>3, ReadEscaped
      <3> QED BY <3>3, <3>4, <3>5
    <2> HIDE DEF S
    <2>6. N \in S
          BY <1>1, <2>4, <2>5, Induct
    <2>7. Read(out[N]) = At(t(N), << >>)
          BY <1>1, <2>6 DEF S
    <2>8. t(N) = str
          BY <1>1, SubSeqFull
    <2> HIDE DEF t
    <2> QED BY <2>7, <2>8, UnescapeIs DEF At
  <1>6. Len(out[N]) + 1 <= N * 6 + 1
    <2>1. out[N] \in Seq(Int) /\ Len(out[N]) <= 6 * N
          BY <1>1, <1>4
    <2>2. Len(out[N]) \in Nat
          BY <2>1
    <2> QED BY <1>1, <2>1, <2>2
  <1> QED BY <1>2, <1>5, <1>6 DEF EscapeDecodes

LEMMA EscapesNow == ASSUME AskInv PROVE EscapesDecode
  <1>1. ASSUME Answered("escape") PROVE EscapeDecodes(asked.str, asked.signed, reply)
    <2>1. PICK str \in Bytestrings, signed \in BOOLEAN :
            asked = [fn |-> "escape", str |-> str, signed |-> signed]
          BY <1>1, AsksOne DEF AsksEscape, Answered
    <2>2. reply = make_escaped_string(str, signed)
          BY <1>1, <2>1 DEF AskInv, Answered, Replied, Is
    <2>3. str \in Seq(1..255)
          BY CallsAssumption DEF CharsAssumption
    <2> QED BY <2>1, <2>2, <2>3, EscapeRight
  <1> QED BY <1>1 DEF EscapesDecode

(***************************************************************************)
(* What is written of a string is read as that string, of any length, and  *)
(* fits the memory set aside for it.                                       *)
(***************************************************************************)
THEOREM EscapesAreRead == AskSpec => []EscapesDecode
  BY AskAlways, EscapesNow, PTL
----------------------------------------------------------------------------
(***************************************************************************)
(* Strings.                                                                *)
(***************************************************************************)
LEMMA ElementsAre ==
    ASSUME NEW S, NEW s \in Seq(S)
    PROVE  Texts!ToSet(s) = {s[i] : i \in 1..Len(s)}
  BY DEF Texts!ToSet

LEMMA SameSeq ==
    ASSUME NEW S, NEW s \in Seq(S), NEW t \in Seq(S), NEW n \in Nat, Len(s) = n, Len(t) = n,
           \A i \in 1..n : s[i] = t[i]
    PROVE  s = t
  BY SeqEqual

LEMMA NameRight ==
    ASSUME NEW name \in Seq(Kinds)
    PROVE  NameIsOrdinary(name, ac_fs_is_posix_name(name))
  <1> DEFINE N == Len(name)
             T == Texts!ToSet(name)
  <1>1. N \in Nat /\ (name = << >> <=> N = 0) /\ (N > 0 => Head(name) = name[1])
        BY EmptySeq
  <1>2. T = {name[i] : i \in 1..N}
        BY ElementsAre
  <1> HIDE DEF N, T
  <1>3. ASSUME ac_fs_is_posix_name(name), NEW c \in Portable
        PROVE  ac_fs_is_posix_name(Append(name, c))
    <2> DEFINE a == Append(name, c)
    <2>1. c \in Kinds
          BY DEF Kinds
    <2>2. name # << >> /\ Head(name) # "-" /\ name # <<".">> /\ T \subseteq Portable
          BY <1>3 DEF ac_fs_is_posix_name, T
    <2>3. /\ a \in Seq(Kinds) /\ a # << >> /\ Len(a) = N + 1
          /\ (\A i \in 1..N : a[i] = name[i]) /\ a[N + 1] = c
          BY <2>1, AppendProperties DEF N
    <2>4. Head(a) = a[1]
          BY <2>3
    <2>5. Texts!ToSet(a) = {a[i] : i \in 1..N + 1}
          BY <2>3, ElementsAre
    <2> HIDE DEF a
    <2>6. N >= 1 /\ Head(a) = Head(name)
          BY <1>1, <2>2, <2>3, <2>4
    <2>7. a # <<".">>
      <3> SUFFICES ASSUME a = <<".">> PROVE FALSE
          OBVIOUS
      <3>1. Len(a) = 1
            OBVIOUS
      <3> QED BY <1>1, <2>3, <2>6, <3>1
    <2>8. a # <<".", ".">>
      <3> SUFFICES ASSUME a = <<".", ".">> PROVE FALSE
          OBVIOUS
      <3>1. Len(a) = 2 /\ a[1] = "."
            OBVIOUS
      <3>2. N = 1
            BY <1>1, <2>3, <3>1
      <3>3. name[1] = "."
            BY <2>3, <3>1, <3>2
      <3>4. name = <<".">>
            BY <3>2, <3>3 DEF N
      <3> QED BY <2>2, <3>4
    <2>9. Texts!ToSet(a) \subseteq Portable
      <3>1. ASSUME NEW i \in 1..N + 1 PROVE a[i] \in Portable
        <4>1. CASE i = N + 1
              BY <2>3, <4>1
        <4>2. CASE i # N + 1
          <5>1. i \in 1..N
                BY <1>1, <4>2
          <5> QED BY <1>2, <2>2, <2>3, <5>1
        <4> QED BY <4>1, <4>2
      <3> QED BY <2>5, <3>1
    <2> QED BY <2>2, <2>3, <2>6, <2>7, <2>8, <2>9 DEF ac_fs_is_posix_name, a
  <1>4. ASSUME ac_fs_is_posix_name(name) PROVE "/" \notin T /\ Head(name) # "-"
        BY <1>4 DEF ac_fs_is_posix_name, Portable, T
  <1>5. ASSUME ~ac_fs_is_posix_name(name)
        PROVE  \/ N < 3 /\ T \subseteq {"."}
               \/ \E i \in 1..N : name[i] \notin Portable \/ (i = 1 /\ name[i] = "-")
    <2>1. CASE name = << >>
      <3>1. N = 0
            BY <1>1, <2>1
      <3> QED BY <1>2, <3>1
    <2>2. CASE name # << >> /\ Head(name) = "-"
      <3>1. 1 \in 1..N /\ name[1] = "-"
            BY <1>1, <2>2
      <3> QED BY <3>1
    <2>3. CASE name = <<".">>
      <3>1. N = 1 /\ name[1] = "."
            BY <2>3 DEF N
      <3> QED BY <1>2, <3>1
    <2>4. CASE name = <<".", ".">>
      <3>1. N = 2 /\ name[1] = "." /\ name[2] = "."
            BY <2>4 DEF N
      <3>2. \A i \in 1..2 : name[i] = "."
            BY <3>1
      <3> QED BY <1>2, <3>1, <3>2
    <2>5. CASE ~(T \subseteq Portable)
          BY <1>2, <2>5
    <2> QED BY <1>5, <2>1, <2>2, <2>3, <2>4, <2>5 DEF ac_fs_is_posix_name, T
  <1> QED BY <1>3, <1>4, <1>5 DEF NameIsOrdinary, N, T

(***************************************************************************)
(* The string in memory is what is in front of the first NUL.              *)
(***************************************************************************)
FirstNul(m, z) == z \in 1..Len(m) /\ m[z] = NUL /\ \A i \in 1..z - 1 : m[i] # NUL

LEMMA StringAtIs ==
    ASSUME NEW S, NEW m \in Seq(S), NEW z, FirstNul(m, z)
    PROVE  StringAt(m) = SubSeq(m, 1, z - 1)
  <1> DEFINE N == Len(m)
             P(n) == m[n] = NUL /\ \A i \in 1..n - 1 : m[i] # NUL
             y == CHOOSE n \in 1..N : P(n)
  <1>1. z \in 1..N /\ P(z) /\ N \in Nat
        BY DEF FirstNul
  <1>2. StringAt(m) = SubSeq(m, 1, y - 1)
        BY DEF StringAt
  <1>3. y \in 1..N /\ P(y)
    <2> HIDE DEF P, N
    <2> QED BY <1>1
  <1> HIDE DEF y, N
  <1>4. y = z
    <2>1. ASSUME y < z PROVE FALSE
      <3>1. y \in 1..z - 1
            BY <1>1, <1>3, <2>1
      <3> QED BY <1>1, <1>3, <3>1
    <2>2. ASSUME z < y PROVE FALSE
      <3>1. z \in 1..y - 1
            BY <1>1, <1>3, <2>2
      <3> QED BY <1>1, <1>3, <3>1
    <2>3. y \in Int /\ z \in Int
          BY <1>1, <1>3
    <2> QED BY <2>1, <2>2, <2>3
  <1> QED BY <1>2, <1>4

LEMMA NulExists ==
    ASSUME NEW S, NEW m \in Seq(S), HasString(m)
    PROVE  \E z : FirstNul(m, z)
  <1> DEFINE Z == {i \in 1..Len(m) : m[i] = NUL}
  <1>1. Z \in SUBSET Nat /\ Z # {}
        BY DEF HasString
  <1> HIDE DEF Z
  <1>2. PICK z \in Z : \A i \in Z : z <= i
        BY <1>1, Least
  <1>3. z \in 1..Len(m) /\ m[z] = NUL
        BY <1>2 DEF Z
  <1>4. ASSUME NEW i \in 1..z - 1 PROVE m[i] # NUL
    <2>1. i \in 1..Len(m) /\ ~(z <= i)
          BY <1>3
    <2> QED BY <1>2, <2>1 DEF Z
  <1>5. FirstNul(m, z)
        BY <1>3, <1>4 DEF FirstNul
  <1> QED BY <1>5

LEMMA SubstrRight ==
    ASSUME NEW S, NEW src \in Seq(S), NEW dest \in Seq(S), NUL \in S,
           NEW start \in Nat, NEW len \in Nat,
           HasString(src), start <= Len(StringAt(src)),
           start + len <= Len(src), len < Len(dest)
    PROVE  SubstrIsPart(src, dest, start, len, ac_str_substr(src, dest, start, len))
  <1> DEFINE N == Len(src)
             M == Len(dest)
             after == ac_str_substr(src, dest, start, len)
  <1>1. PICK z : FirstNul(src, z)
        BY NulExists
  <1> DEFINE rest == SubSeq(src, start + 1, z - 1)
             r == z - 1 - start
  <1>2. /\ N \in Nat /\ M \in Nat /\ z \in 1..N /\ src[z] = NUL
        /\ \A i \in 1..z - 1 : src[i] # NUL
        BY <1>1 DEF FirstNul
  <1>3. StringAt(src) = SubSeq(src, 1, z - 1)
        BY <1>1, StringAtIs
  <1>4. \A i \in 1..N : src[i] \in S
        BY ElementOfSeq
  <1>5. Len(StringAt(src)) = z - 1
    <2>1. \A i \in 1..z - 1 : src[i] \in S
          BY <1>2, <1>4
    <2>2. Len(SubSeq(src, 1, z - 1)) = IF 1 <= z - 1 THEN (z - 1) - 1 + 1 ELSE 0
          BY <1>2, <2>1, SubSeqProperties
    <2> QED BY <1>2, <1>3, <2>2
  <1>6. r \in Nat /\ r = z - 1 - start
        BY <1>2, <1>5
  <1>7. /\ rest \in Seq(S) /\ Len(rest) = r /\ \A i \in 1..r : rest[i] = src[start + i]
    <2>1. \A i \in start + 1..z - 1 : src[i] \in S
          BY <1>2, <1>4
    <2>2. /\ rest \in Seq(S)
          /\ Len(rest) = IF start + 1 <= z - 1 THEN (z - 1) - (start + 1) + 1 ELSE 0
          /\ \A i \in 1..(z - 1) - (start + 1) + 1 : rest[i] = src[(start + 1) + i - 1]
          BY <1>2, <2>1, SubSeqProperties
    <2> HIDE DEF rest
    <2>3. Len(rest) = r
          BY <1>2, <1>6, <2>2
    <2>4. ASSUME NEW i \in 1..r PROVE rest[i] = src[start + i]
      <3>1. i \in 1..(z - 1) - (start + 1) + 1 /\ (start + 1) + i - 1 = start + i
            BY <1>2, <1>6
      <3> QED BY <2>2, <3>1
    <2> QED BY <2>2, <2>3, <2>4
  <1>8. /\ after \in [1..M -> S] /\ len \in 0..M - 1
        /\ \A i \in 1..M : after[i] = IF i <= len THEN src[start + i]
                                      ELSE IF i = len + 1 THEN NUL ELSE dest[i]
    <2>1. DOMAIN dest = 1..M
          OBVIOUS
    <2>2. after = [i \in 1..M |-> IF i <= len THEN src[start + i]
                                  ELSE IF i = len + 1 THEN NUL ELSE dest[i]]
          BY <2>1 DEF ac_str_substr
    <2>3. ASSUME NEW i \in 1..M
          PROVE  (IF i <= len THEN src[start + i] ELSE IF i = len + 1 THEN NUL ELSE dest[i]) \in S
      <3>1. i <= len => start + i \in 1..N
            BY <1>2
      <3>2. dest[i] \in S
            BY ElementOfSeq
      <3> QED BY <1>4, <3>1, <3>2
    <2> HIDE DEF after, N
    <2> QED BY <1>2, <2>2, <2>3
  <1> HIDE DEF after, rest, r, N, M
  <1>9. after \in Seq(S) /\ Len(after) = M
        BY <1>2, <1>8, AsSeq
  <1>10. \A i \in len + 2..M : after[i] = dest[i]
    <2> TAKE i \in len + 2..M
    <2>1. i \in 1..M /\ ~(i <= len) /\ i # len + 1
          BY <1>2
    <2> QED BY <1>8, <2>1
  <1> DEFINE l == IF len < r THEN len ELSE r
  <1>11. l \in Nat /\ l <= len /\ l <= r /\ l + 1 \in 1..M /\ (l < len => l = r)
        BY <1>2, <1>6, <1>8
  <1>12. FirstNul(after, l + 1)
    <2> HIDE DEF l
    <2>1. after[l + 1] = NUL
      <3>1. CASE l = len
        <4>1. ~(l + 1 <= len) /\ l + 1 = len + 1
              BY <1>11, <3>1
        <4> QED BY <1>8, <1>11, <4>1
      <3>2. CASE l < len
        <4>1. l + 1 <= len /\ start + (l + 1) = z
              BY <1>2, <1>6, <1>11, <3>2
        <4> QED BY <1>2, <1>8, <1>11, <4>1
      <3> QED BY <1>11, <3>1, <3>2
    <2>2. ASSUME NEW i \in 1..(l + 1) - 1 PROVE after[i] # NUL
      <3>1. i \in 1..M /\ i <= len /\ start + i \in 1..z - 1
            BY <1>2, <1>6, <1>11
      <3> QED BY <1>2, <1>8, <3>1
    <2> QED BY <1>9, <1>11, <2>1, <2>2 DEF FirstNul
  <1> DEFINE a == SubSeq(after, 1, l)
             b == SubSeq(rest, 1, l)
  <1>13. StringAt(after) = a
    <2>1. (l + 1) - 1 = l
          BY <1>11
    <2> HIDE DEF l
    <2> QED BY <1>9, <1>12, <2>1, StringAtIs
  <1>14. a = b
    <2> HIDE DEF l
    <2>1. \A i \in 1..l : after[i] \in S /\ after[i] = src[start + i] /\ rest[i] \in S
          /\ rest[i] = src[start + i]
      <3> TAKE i \in 1..l
      <3>1. i \in 1..M /\ i <= len /\ i \in 1..r /\ start + i \in 1..N
            BY <1>2, <1>6, <1>11
      <3> QED BY <1>4, <1>7, <1>8, <3>1
    <2>2. /\ a \in Seq(S) /\ Len(a) = (IF 1 <= l THEN l - 1 + 1 ELSE 0)
          /\ \A i \in 1..l - 1 + 1 : a[i] = after[1 + i - 1]
          BY <1>11, <2>1, SubSeqProperties
    <2>3. /\ b \in Seq(S) /\ Len(b) = (IF 1 <= l THEN l - 1 + 1 ELSE 0)
          /\ \A i \in 1..l - 1 + 1 : b[i] = rest[1 + i - 1]
          BY <1>11, <2>1, SubSeqProperties
    <2> HIDE DEF a, b
    <2>4. Len(a) = l /\ Len(b) = l
          BY <1>11, <2>2, <2>3
    <2>5. ASSUME NEW i \in 1..l PROVE a[i] = b[i]
      <3>1. i \in 1..l - 1 + 1 /\ 1 + i - 1 = i
            BY <1>11
      <3> QED BY <2>1, <2>2, <2>3, <3>1
    <2> QED BY <1>11, <2>2, <2>3, <2>4, <2>5, SameSeq
  <1>15. b = IF len < Len(rest) THEN SubSeq(rest, 1, len) ELSE rest
    <2>1. CASE len < r
          BY <1>7, <2>1
    <2>2. CASE ~(len < r)
      <3>1. l = Len(rest) /\ ~(len < Len(rest))
            BY <1>7, <2>2
      <3>2. SubSeq(rest, 1, Len(rest)) = rest
            BY <1>7, SubSeqFull
      <3> HIDE DEF l
      <3> QED BY <3>1, <3>2
    <2> QED BY <2>1, <2>2
  <1>16. rest = SubSeq(src, start + 1, Len(StringAt(src)))
        BY <1>5 DEF rest
  <1> HIDE DEF a, b
  <1> QED BY <1>10, <1>13, <1>14, <1>15, <1>16 DEF SubstrIsPart, after, M

(***************************************************************************)
(* Where the loop of chomp stops.                                          *)
(***************************************************************************)
StopsAt(m, n) ==
    /\ n \in 0..Len(m) - 1
    /\ n > 0 => m[n] \notin White
    /\ \A i \in n + 1..Len(m) - 1 : m[i] \in White

LEMMA StopIs ==
    ASSUME NEW S, NEW m \in Seq(S), Len(m) > 0
    PROVE  StopsAt(m, Stop(m))
  <1> DEFINE N == Len(m)
             W(n) == \A i \in n + 1..N - 1 : m[i] \in White
             Z == {n \in 0..N - 1 : W(n)}
             P(n) == (n > 0 => m[n] \notin White) /\ W(n)
  <1>1. N \in Nat /\ N - 1 \in 0..N - 1
        OBVIOUS
  <1>2. N - 1 \in Z
    <2>1. \A i \in (N - 1) + 1..N - 1 : FALSE
          BY <1>1
    <2> QED BY <1>1, <2>1
  <1>3. Z \in SUBSET Nat
        BY <1>1
  <1> HIDE DEF Z
  <1>4. PICK n \in Z : \A k \in Z : n <= k
        BY <1>2, <1>3, Least
  <1>5. n \in 0..N - 1 /\ W(n)
        BY <1>4 DEF Z
  <1>6. ASSUME n > 0, m[n] \in White PROVE FALSE
    <2>1. n - 1 \in 0..N - 1 /\ ~(n <= n - 1)
          BY <1>1, <1>5, <1>6
    <2>2. ASSUME NEW i \in (n - 1) + 1..N - 1 PROVE m[i] \in White
      <3>1. i = n \/ i \in n + 1..N - 1
            BY <1>1, <1>5
      <3> QED BY <1>5, <1>6, <3>1
    <2>3. n - 1 \in Z
          BY <2>1, <2>2 DEF Z
    <2> QED BY <1>4, <2>1, <2>3
  <1>7. \E k \in 0..N - 1 : P(k)
        BY <1>5, <1>6
  <1>8. Stop(m) = CHOOSE k \in 0..N - 1 : P(k)
        BY DEF Stop
  <1>9. Stop(m) \in 0..N - 1 /\ P(Stop(m))
    <2> HIDE DEF P, N
    <2> QED BY <1>7, <1>8
  <1> QED BY <1>9 DEF StopsAt

LEMMA ChompRight ==
    ASSUME NEW before \in Seq(Chars \cup {NUL}), NEW line \in Seq(Chars)
    PROVE  LET memory == (before \o line) \o <<NUL>>
           IN  ChompTrims(Len(before), memory, ac_str_chomp(memory))
  <1> DEFINE S == Chars \cup {NUL}
             b == Len(before)
             l == Len(line)
             memory == (before \o line) \o <<NUL>>
             s == Stop(memory)
             after == ac_str_chomp(memory)
             N == b + l + 1
  <1>1. b \in Nat /\ l \in Nat /\ NUL \notin Chars
        BY CallsAssumption DEF CharsAssumption
  <1>2. /\ memory \in Seq(S) /\ Len(memory) = N
        /\ \A i \in b + 1..b + l : memory[i] \in Chars
    <2> DEFINE p == before \o line
               q == <<NUL>>
    <2>1. before \in Seq(S) /\ line \in Seq(S)
      <3>1. Chars \subseteq S
            OBVIOUS
      <3> HIDE DEF S
      <3>2. line \in Seq(S)
            BY <3>1, SeqMonotonic
      <3> QED BY <3>2 DEF S
    <2>2. NUL \in S
          OBVIOUS
    <2> HIDE DEF S
    <2>3. /\ p \in Seq(S) /\ Len(p) = b + l
          /\ \A i \in 1..b + l : p[i] = IF i <= b THEN before[i] ELSE line[i - b]
          BY <2>1, ConcatProperties
    <2>4. q \in Seq(S) /\ Len(q) = 1
          BY <2>2
    <2> HIDE DEF p, q
    <2>5. /\ p \o q \in Seq(S) /\ Len(p \o q) = Len(p) + Len(q)
          /\ \A i \in 1..Len(p) + Len(q) : (p \o q)[i] = IF i <= Len(p) THEN p[i] ELSE q[i - Len(p)]
      <3>1. p \in Seq(S) /\ q \in Seq(S)
            BY <2>3, <2>4
      <3> QED BY <3>1, ConcatProperties
    <2>6. memory = p \o q
          BY DEF p, q
    <2>7. ASSUME NEW i \in b + 1..b + l PROVE memory[i] \in Chars
      <3>1. i \in 1..b + l /\ i \in 1..Len(p) + Len(q) /\ i <= Len(p) /\ ~(i <= b)
            BY <1>1, <2>3, <2>4
      <3>2. i - b \in 1..l
            BY <1>1
      <3>3. line[i - b] \in Chars
            BY <3>2, ElementOfSeq
      <3> QED BY <2>3, <2>5, <2>6, <3>1, <3>3
    <2> HIDE DEF memory
    <2> QED BY <2>3, <2>4, <2>5, <2>6, <2>7
  <1> HIDE DEF memory, S, b, l
  <1>3. StopsAt(memory, s)
    <2>1. Len(memory) > 0
          BY <1>1, <1>2
    <2> QED BY <1>2, <2>1, StopIs
  <1>4. \A i \in 1..N : after[i] = IF i > s THEN NUL ELSE memory[i]
        BY <1>2 DEF ac_str_chomp
  <1>4a. after \in Seq(S) /\ Len(after) = N
    <2>1. NUL \in S /\ \A i \in 1..N : memory[i] \in S
          BY <1>2, ElementOfSeq DEF S
    <2>2. after = [i \in 1..N |-> IF i > s THEN NUL ELSE memory[i]]
          BY <1>2 DEF ac_str_chomp
    <2> HIDE DEF after
    <2>3. after \in [1..N -> S]
          BY <2>1, <2>2
    <2> QED BY <1>1, <2>3, AsSeq
  <1> HIDE DEF s, after
  <1>5. /\ s \in 0..N - 1 /\ (s > 0 => memory[s] \notin White)
        /\ \A i \in s + 1..N - 1 : memory[i] \in White
        BY <1>2, <1>3 DEF StopsAt
  <1> DEFINE P(i) == after[i] = NUL /\ \A j \in b + 1..i - 1 : after[j] # NUL
             first == CHOOSE i \in b + 1..N : P(i)
             found == IF s < b THEN b ELSE s
             end == IF \E i \in b + 1..N : after[i] = NUL THEN first - 1 ELSE N
  <1>6. found \in b..N - 1 /\ (found = s \/ found = b) /\ s <= found
        /\ (found > b => found = s)
        BY <1>1, <1>5
  <1>7. P(found + 1) /\ found + 1 \in b + 1..N
    <2> HIDE DEF found
    <2>1. found + 1 \in 1..N /\ found + 1 > s
          BY <1>1, <1>5, <1>6
    <2>2. after[found + 1] = NUL
          BY <1>4, <2>1
    <2>3. ASSUME NEW j \in b + 1..(found + 1) - 1 PROVE after[j] # NUL
      <3>1. found > b /\ j \in 1..N /\ ~(j > s) /\ j \in b + 1..b + l
            BY <1>1, <1>5, <1>6
      <3> QED BY <1>1, <1>2, <1>4, <3>1
    <2>4. found + 1 \in b + 1..N
          BY <1>1, <1>6
    <2> QED BY <2>2, <2>3, <2>4
  <1>8. first \in b + 1..N /\ P(first)
    <2> HIDE DEF P, found, N
    <2> QED BY <1>7
  <1> HIDE DEF first, found
  <1>9. first = found + 1
    <2> DEFINE g == found + 1
    <2>0. g \in Int /\ first \in Int /\ g \in b + 1..N /\ P(g)
          BY <1>6, <1>7, <1>8
    <2> HIDE DEF g
    <2>1. ASSUME first < g PROVE FALSE
      <3>1. first \in b + 1..g - 1
            BY <1>1, <1>8, <2>0, <2>1
      <3> QED BY <1>8, <2>0, <3>1
    <2>2. ASSUME g < first PROVE FALSE
      <3>1. g \in b + 1..first - 1
            BY <1>1, <1>8, <2>0, <2>2
      <3> QED BY <1>8, <2>0, <3>1
    <2>3. first = g
          BY <2>0, <2>1, <2>2
    <2> QED BY <2>3 DEF g
  <1>10. end = found
    <2>1. \E i \in b + 1..N : after[i] = NUL
          BY <1>8
    <2>2. found \in Int
          BY <1>1, <1>6
    <2> HIDE DEF N
    <2> QED BY <1>9, <2>1, <2>2
  <1>11. ChompTrims(b, memory, after)
           <=> /\ \A i \in b + 1..end : after[i] = memory[i]
               /\ \A i \in end + 1..N - 1 : memory[i] \in White
               /\ end > b => memory[end] \notin White /\ SubSeq(after, 1, b) = SubSeq(memory, 1, b)
        BY <1>2 DEF ChompTrims, first
  <1> HIDE DEF end
  <1>12. ASSUME NEW i \in b + 1..found PROVE after[i] = memory[i]
    <2>1. i \in 1..N /\ ~(i > s)
          BY <1>1, <1>5, <1>6
    <2> QED BY <1>4, <2>1
  <1>13. ASSUME NEW i \in found + 1..N - 1 PROVE memory[i] \in White
    <2>1. i \in s + 1..N - 1
          BY <1>1, <1>5, <1>6
    <2> QED BY <1>5, <2>1
  <1>14. ASSUME found > b
         PROVE  memory[found] \notin White /\ SubSeq(after, 1, b) = SubSeq(memory, 1, b)
    <2>1. found = s /\ s > 0 /\ b < s
          BY <1>1, <1>5, <1>6, <1>14
    <2> DEFINE a == SubSeq(after, 1, b)
               c == SubSeq(memory, 1, b)
    <2>2. \A i \in 1..b : after[i] = memory[i] /\ after[i] \in S /\ memory[i] \in S
      <3> TAKE i \in 1..b
      <3>1. i \in 1..N /\ ~(i > s)
            BY <1>1, <1>5, <2>1
      <3>2. memory[i] \in S
            BY <1>2, <3>1, ElementOfSeq
      <3> QED BY <1>4, <3>1, <3>2
    <2>3. /\ a \in Seq(S) /\ Len(a) = (IF 1 <= b THEN b - 1 + 1 ELSE 0)
          /\ \A i \in 1..b - 1 + 1 : a[i] = after[1 + i - 1]
          BY <1>1, <2>2, SubSeqProperties
    <2>4. /\ c \in Seq(S) /\ Len(c) = (IF 1 <= b THEN b - 1 + 1 ELSE 0)
          /\ \A i \in 1..b - 1 + 1 : c[i] = memory[1 + i - 1]
          BY <1>1, <2>2, SubSeqProperties
    <2> HIDE DEF a, c
    <2>5. Len(a) = b /\ Len(c) = b
          BY <1>1, <2>3, <2>4
    <2>6. ASSUME NEW i \in 1..b PROVE a[i] = c[i]
      <3>1. i \in 1..b - 1 + 1 /\ 1 + i - 1 = i
            BY <1>1
      <3> QED BY <2>2, <2>3, <2>4, <3>1
    <2>7. a = c
          BY <1>1, <2>3, <2>4, <2>5, <2>6, SameSeq
    <2> QED BY <1>5, <2>1, <2>7 DEF a, c
  <1> QED BY <1>10, <1>11, <1>12, <1>13, <1>14 DEF memory, after, b

(***************************************************************************)
(* The fields of a string, and the string that fields are joined to.       *)
(***************************************************************************)
Line      == Seq(Chars)
FieldSeqs == Seq(Line) \ {<< >>}

LEMMA FieldsHave ==
    ASSUME NEW fields \in FieldSeqs
    PROVE  Len(fields) \in Nat \ {0} /\ \A i \in 1..Len(fields) : fields[i] \in Line
  BY EmptySeq, ElementOfSeq DEF FieldSeqs

LEMMA TakenIs ==
    ASSUME NEW fields \in FieldSeqs, NEW c \in Chars, NEW delim \in Chars
    PROVE  LET t == Taken(fields, c, delim)
               n == Len(fields)
           IN  /\ t \in FieldSeqs
               /\ Len(t) = IF c = delim THEN n + 1 ELSE n
               /\ \A i \in 1..n - 1 : t[i] = fields[i]
               /\ c = delim => t[n] = fields[n] /\ t[n + 1] = << >>
               /\ c # delim => t[n] = Append(fields[n], c)
  <1> DEFINE t == Taken(fields, c, delim)
             n == Len(fields)
             e == Append(fields[n], c)
  <1>1. n \in Nat \ {0} /\ n \in 1..n /\ fields \in Seq(Line) /\ fields[n] \in Line
        BY FieldsHave DEF FieldSeqs
  <1>2. << >> \in Line /\ e \in Line
    <2> DEFINE f == fields[n]
    <2>1. f \in Seq(Chars)
          BY <1>1 DEF Line
    <2> HIDE DEF f
    <2>2. Append(f, c) \in Seq(Chars)
          BY <2>1, AppendProperties
    <2> QED BY <2>2, EmptySeq DEF Line, f
  <1> HIDE DEF n, e
  <1>3. CASE c = delim
    <2>1. t = Append(fields, << >>)
          BY <1>3 DEF Taken
    <2>2. /\ t \in Seq(Line) /\ t # << >> /\ Len(t) = n + 1
          /\ (\A i \in 1..n : t[i] = fields[i]) /\ t[n + 1] = << >>
          BY <1>1, <1>2, <2>1, AppendProperties DEF n
    <2> HIDE DEF t
    <2>3. t \in FieldSeqs /\ t[n] = fields[n] /\ \A i \in 1..n - 1 : t[i] = fields[i]
          BY <1>1, <2>2 DEF FieldSeqs
    <2> QED BY <1>3, <2>2, <2>3 DEF n, t
  <1>4. CASE c # delim
    <2>1. t = [fields EXCEPT ![n] = e]
          BY <1>4 DEF Taken, n, e
    <2>2. /\ t \in Seq(Line) /\ Len(t) = n
          /\ \A j \in 1..n : t[j] = IF j = n THEN e ELSE fields[j]
          BY <1>1, <1>2, <2>1, ExceptSeq DEF n
    <2>3. t # << >>
          BY <1>1, <2>2, EmptySeq
    <2> HIDE DEF t
    <2>4. t \in FieldSeqs /\ t[n] = e /\ \A i \in 1..n - 1 : t[i] = fields[i]
          BY <1>1, <2>2, <2>3 DEF FieldSeqs
    <2> QED BY <1>4, <2>2, <2>4 DEF n, t, e
  <1> QED BY <1>3, <1>4

JoinE(fields, delim, f, n) == IF n = 1 THEN fields[1] ELSE (f[n - 1] \o <<delim>>) \o fields[n]
IsJoined(f, fields, delim) == f = [n \in 1..Len(fields) |-> JoinE(fields, delim, f, n)]
Joined(fields, delim)      == CHOOSE f : IsJoined(f, fields, delim)

LEMMA LongerLine ==
    ASSUME NEW x \in Line, NEW y \in Line, NEW d \in Chars
    PROVE  (x \o <<d>>) \o y \in Line
  <1>1. <<d>> \in Seq(Chars)
        OBVIOUS
  <1>2. x \o <<d>> \in Seq(Chars)
        BY <1>1, ConcatProperties DEF Line
  <1> QED BY <1>2, ConcatProperties DEF Line

LEMMA JoinedIs ==
    ASSUME NEW fields \in FieldSeqs, NEW delim \in Chars
    PROVE  LET f == Joined(fields, delim)
           IN  /\ Join(fields, delim) = f[Len(fields)]
               /\ f[1] = fields[1]
               /\ \A n \in 2..Len(fields) : f[n] = (f[n - 1] \o <<delim>>) \o fields[n]
               /\ \A n \in 1..Len(fields) : f[n] \in Line
  <1> DEFINE L == Len(fields)
             N == L - 1
             f == Joined(fields, delim)
             G == [k \in 1..N |-> [x \in Line |-> (x \o <<delim>>) \o fields[k + 1]]]
  <1>1. L \in Nat \ {0} /\ \A i \in 1..L : fields[i] \in Line
        BY FieldsHave
  <1>2. Join(fields, delim) = f[L]
        BY DEF Join, Joined, IsJoined, JoinE
  <1> HIDE DEF L
  <1>3. N \in Nat /\ N = L - 1 /\ fields[1] \in Line
        BY <1>1
  <1> HIDE DEF N
  <1>4. \A k \in 1..N, x \in Line : (x \o <<delim>>) \o fields[k + 1] \in Line
    <2> TAKE k \in 1..N, x \in Line
    <2>1. fields[k + 1] \in Line
      <3>1. k + 1 \in 1..L
            BY <1>1, <1>3
      <3> QED BY <1>1, <3>1
    <2> QED BY <2>1, LongerLine
  <1>5. G \in Steps(Line, N)
        BY <1>4 DEF Steps
  <1>6. \A k \in 1..N, x \in Line : G[k][x] = (x \o <<delim>>) \o fields[k + 1]
        OBVIOUS
  <1> HIDE DEF G
  <1>7. PICK g : Follows(g, Line, N, fields[1], G)
        BY <1>3, <1>5, Recursion
  <1>8. g \in [0..N -> Line] /\ g[0] = fields[1] /\ \A k \in 1..N : g[k] = G[k][g[k - 1]]
        BY <1>7 DEF Follows
  <1> DEFINE h == [n \in 1..L |-> g[n - 1]]
  <1>9. ASSUME NEW n \in 1..L PROVE h[n] = JoinE(fields, delim, h, n)
    <2>1. CASE n = 1
          BY <1>8, <2>1 DEF JoinE
    <2>2. CASE n # 1
      <3>1. n - 1 \in 1..N /\ n - 1 \in 1..L /\ (n - 1) - 1 \in 0..N /\ (n - 1) + 1 = n
            BY <1>1, <1>3, <2>2
      <3>2. h[n] = g[n - 1] /\ h[n - 1] = g[(n - 1) - 1]
            BY <3>1
      <3>3. g[n - 1] = G[n - 1][g[(n - 1) - 1]] /\ g[(n - 1) - 1] \in Line
            BY <1>8, <3>1
      <3>4. G[n - 1][g[(n - 1) - 1]] = (g[(n - 1) - 1] \o <<delim>>) \o fields[(n - 1) + 1]
            BY <1>6, <3>1, <3>3
      <3> HIDE DEF h
      <3>5. h[n] = (h[n - 1] \o <<delim>>) \o fields[n]
            BY <3>1, <3>2, <3>3, <3>4
      <3> QED BY <2>2, <3>5 DEF JoinE
    <2> QED BY <2>1, <2>2
  <1>10. IsJoined(h, fields, delim)
    <2>1. h = [n \in 1..L |-> h[n]]
          OBVIOUS
    <2> HIDE DEF h
    <2> QED BY <1>9, <2>1 DEF IsJoined, L
  <1> HIDE DEF h
  <1>11. IsJoined(f, fields, delim)
        BY <1>10 DEF Joined
  <1> HIDE DEF f
  <1>12. \A n \in 1..L : f[n] = JoinE(fields, delim, f, n)
        BY <1>11 DEF IsJoined, L
  <1>13. f[1] = fields[1]
        BY <1>1, <1>12 DEF JoinE
  <1>14. \A n \in 2..L : f[n] = (f[n - 1] \o <<delim>>) \o fields[n]
    <2> TAKE n \in 2..L
    <2>1. n \in 1..L /\ n # 1
          BY <1>1
    <2> QED BY <1>12, <2>1 DEF JoinE
  <1> DEFINE S == {k \in Nat : k + 1 <= L => f[k + 1] \in Line}
  <1>15. 0 \in S
        BY <1>3, <1>13
  <1>16. ASSUME NEW k \in Nat, k \in S PROVE k + 1 \in S
    <2> SUFFICES ASSUME (k + 1) + 1 <= L PROVE f[(k + 1) + 1] \in Line
        OBVIOUS
    <2>1. /\ (k + 1) + 1 \in 2..L /\ (k + 1) + 1 \in 1..L
          /\ ((k + 1) + 1) - 1 = k + 1 /\ f[k + 1] \in Line
          BY <1>1, <1>16
    <2>2. f[(k + 1) + 1] = (f[k + 1] \o <<delim>>) \o fields[(k + 1) + 1]
          BY <1>14, <2>1
    <2>3. fields[(k + 1) + 1] \in Line
          BY <1>1, <2>1
    <2> QED BY <2>1, <2>2, <2>3, LongerLine
  <1> HIDE DEF S
  <1>17. ASSUME NEW n \in 1..L PROVE f[n] \in Line
    <2>1. n - 1 \in Nat /\ (n - 1) + 1 = n /\ n <= L
          BY <1>1
    <2>2. n - 1 \in S
          BY <1>15, <1>16, <2>1, Induct
    <2> QED BY <2>1, <2>2 DEF S
  <1> QED BY <1>2, <1>13, <1>14, <1>17 DEF f, L

LEMMA JoinTaken ==
    ASSUME NEW fields \in FieldSeqs, NEW c \in Chars, NEW delim \in Chars
    PROVE  Join(Taken(fields, c, delim), delim) = Append(Join(fields, delim), c)
  <1> DEFINE t == Taken(fields, c, delim)
             L == Len(fields)
             M == Len(t)
             K == IF c = delim THEN L ELSE L - 1
             f == Joined(fields, delim)
             g == Joined(t, delim)
             S == {k \in Nat : k + 1 <= K => g[k + 1] = f[k + 1]}
  <1>1. L \in Nat \ {0} /\ \A i \in 1..L : fields[i] \in Line
        BY FieldsHave
  <1>2. /\ t \in FieldSeqs /\ M = (IF c = delim THEN L + 1 ELSE L)
        /\ \A i \in 1..L - 1 : t[i] = fields[i]
        /\ (c = delim => t[L] = fields[L] /\ t[L + 1] = << >>)
        /\ (c # delim => t[L] = Append(fields[L], c))
        BY TakenIs
  <1>3. /\ Join(fields, delim) = f[L] /\ f[1] = fields[1]
        /\ \A n \in 2..L : f[n] = (f[n - 1] \o <<delim>>) \o fields[n]
        /\ \A n \in 1..L : f[n] \in Line
        BY JoinedIs
  <1> HIDE DEF t
  <1>4. /\ Join(t, delim) = g[M] /\ g[1] = t[1]
        /\ \A n \in 2..M : g[n] = (g[n - 1] \o <<delim>>) \o t[n]
        BY <1>2, JoinedIs
  <1> HIDE DEF f, g, L, M
  <1>5. K \in Nat /\ K <= L /\ K <= M /\ \A i \in 1..K : t[i] = fields[i]
    <2>1. K \in Nat /\ K <= L /\ K <= M
          BY <1>1, <1>2
    <2>2. ASSUME NEW i \in 1..K PROVE t[i] = fields[i]
      <3>1. i \in 1..L - 1 \/ (i = L /\ c = delim)
            BY <1>1
      <3> QED BY <1>2, <3>1
    <2> QED BY <2>1, <2>2
  <1> HIDE DEF K
  <1>6. 0 \in S
    <2> SUFFICES ASSUME 0 + 1 <= K PROVE g[0 + 1] = f[0 + 1]
        OBVIOUS
    <2>1. 1 \in 1..K
          BY <1>5
    <2> QED BY <1>3, <1>4, <1>5, <2>1
  <1>7. ASSUME NEW k \in Nat, k \in S PROVE k + 1 \in S
    <2> SUFFICES ASSUME (k + 1) + 1 <= K PROVE g[(k + 1) + 1] = f[(k + 1) + 1]
        OBVIOUS
    <2> DEFINE n == (k + 1) + 1
    <2>1. /\ n \in 2..L /\ n \in 2..M /\ n \in 1..K /\ n - 1 = k + 1 /\ g[k + 1] = f[k + 1]
          BY <1>1, <1>2, <1>5, <1>7
    <2> HIDE DEF n, S
    <2>2. f[n] = (f[n - 1] \o <<delim>>) \o fields[n]
          BY <1>3, <2>1
    <2>3. g[n] = (g[n - 1] \o <<delim>>) \o t[n]
          BY <1>4, <2>1
    <2>4. t[n] = fields[n]
          BY <1>5, <2>1
    <2>5. g[n] = f[n]
          BY <2>1, <2>2, <2>3, <2>4
    <2> QED BY <2>5 DEF n
  <1> HIDE DEF S
  <1>8. ASSUME NEW n \in 1..K PROVE g[n] = f[n]
    <2>1. n - 1 \in Nat /\ (n - 1) + 1 = n /\ n <= K
          BY <1>5
    <2>2. n - 1 \in S
          BY <1>6, <1>7, <2>1, Induct
    <2> QED BY <2>1, <2>2 DEF S
  <1>9. \A x \in Line, y \in Chars : Append(x, y) = x \o <<y>> /\ x \o <<y>> \in Line
    <2> TAKE x \in Line, y \in Chars
    <2>1. <<y>> \in Seq(Chars) /\ x \in Seq(Chars)
          BY DEF Line
    <2>2. x \o <<y>> \in Seq(Chars)
          BY <2>1, ConcatProperties
    <2> QED BY <2>1, <2>2 DEF Line
  <1>10. L \in 1..L /\ f[L] \in Line
        BY <1>1, <1>3
  <1>11. CASE c = delim
    <2>1. K = L /\ M = L + 1 /\ L + 1 \in 2..M /\ (L + 1) - 1 = L /\ L \in 1..K
          BY <1>1, <1>2, <1>11 DEF K
    <2>2. g[L + 1] = (g[L] \o <<delim>>) \o << >>
          BY <1>2, <1>4, <1>11, <2>1
    <2>3. g[L] = f[L]
          BY <1>8, <2>1
    <2> DEFINE x == f[L] \o <<delim>>
    <2>4. x \in Seq(Chars) /\ Append(f[L], c) = x
          BY <1>9, <1>10, <1>11 DEF Line
    <2> HIDE DEF x
    <2>5. x \o << >> = x
          BY <2>4, ConcatEmptySeq
    <2> QED BY <1>3, <1>4, <2>1, <2>2, <2>3, <2>4, <2>5 DEF x, t
  <1>12. CASE c # delim /\ L = 1
    <2>1. M = 1
          BY <1>2, <1>12
    <2> QED BY <1>2, <1>3, <1>4, <1>12, <2>1 DEF t
  <1>13. CASE c # delim /\ L # 1
    <2>1. /\ M = L /\ L \in 2..M /\ L \in 2..L /\ L - 1 \in 1..K /\ L - 1 \in 1..L
          BY <1>1, <1>2, <1>13 DEF K
    <2> DEFINE x == f[L - 1] \o <<delim>>
               y == fields[L]
               z == <<c>>
    <2>2. g[L] = (g[L - 1] \o <<delim>>) \o t[L] /\ t[L] = Append(y, c)
          BY <1>2, <1>4, <1>13, <2>1
    <2>3. g[L - 1] = f[L - 1]
          BY <1>8, <2>1
    <2>4. f[L] = x \o y
          BY <1>3, <2>1
    <2>5. x \in Seq(Chars) /\ y \in Seq(Chars) /\ Append(y, c) = y \o z
      <3>1. f[L - 1] \in Line /\ y \in Line
            BY <1>1, <1>3, <1>10, <2>1
      <3> QED BY <1>9, <3>1 DEF Line
    <2>6. z \in Seq(Chars)
          OBVIOUS
    <2>7. Append(f[L], c) = f[L] \o z
          BY <1>9, <1>10
    <2>8. g[L] = x \o Append(y, c)
          BY <2>2, <2>3
    <2> HIDE DEF x, y, z
    <2>9. (x \o y) \o z = x \o (y \o z)
          BY <2>5, <2>6, ConcatAssociative
    <2> QED BY <1>3, <1>4, <2>1, <2>4, <2>5, <2>7, <2>8, <2>9 DEF t
  <1> QED BY <1>11, <1>12, <1>13

(***************************************************************************)
(* The fields after each character of a string.                            *)
(***************************************************************************)
FieldsE(string, delim, f, n) == IF n = 0 THEN << << >> >> ELSE Taken(f[n - 1], string[n], delim)
IsFields(f, string, delim) == f = [n \in 0..Len(string) |-> FieldsE(string, delim, f, n)]
Fields(string, delim) == CHOOSE f : IsFields(f, string, delim)

LEMMA FieldsAre ==
    ASSUME NEW string \in Line, NEW delim \in Chars
    PROVE  LET f == Fields(string, delim)
           IN  /\ Tokens(string, delim) = f[Len(string)]
               /\ f[0] = << << >> >>
               /\ \A n \in 1..Len(string) : f[n] = Taken(f[n - 1], string[n], delim)
               /\ \A n \in 0..Len(string) : f[n] \in FieldSeqs
  <1> DEFINE N == Len(string)
             f == Fields(string, delim)
             G == [n \in 1..N |-> [x \in FieldSeqs |-> Taken(x, string[n], delim)]]
  <1>1. N \in Nat /\ \A n \in 1..N : string[n] \in Chars
        BY ElementOfSeq DEF Line
  <1>2. Tokens(string, delim) = f[N]
        BY DEF Tokens, Fields, IsFields, FieldsE
  <1> HIDE DEF N
  <1>3. << << >> >> \in FieldSeqs
    <2>1. << >> \in Line
          BY EmptySeq DEF Line
    <2> DEFINE x == << >>
    <2> HIDE DEF x
    <2>2. x \in Line => <<x>> \in Seq(Line) /\ Len(<<x>>) = 1
          OBVIOUS
    <2>3. <<x>> # << >>
          OBVIOUS
    <2> QED BY <2>1, <2>2, <2>3 DEF FieldSeqs, x
  <1>4. \A n \in 1..N, x \in FieldSeqs : Taken(x, string[n], delim) \in FieldSeqs
        BY <1>1, TakenIs
  <1>5. G \in Steps(FieldSeqs, N)
        BY <1>4 DEF Steps
  <1>6. \A n \in 1..N, x \in FieldSeqs : G[n][x] = Taken(x, string[n], delim)
        OBVIOUS
  <1> HIDE DEF G
  <1>7. PICK g : Follows(g, FieldSeqs, N, << << >> >>, G)
        BY <1>1, <1>3, <1>5, Recursion
  <1>8. /\ g \in [0..N -> FieldSeqs] /\ g[0] = << << >> >>
        /\ \A k \in 1..N : g[k] = G[k][g[k - 1]]
        BY <1>7 DEF Follows
  <1>9. ASSUME NEW n \in 0..N PROVE g[n] = FieldsE(string, delim, g, n)
    <2>1. CASE n = 0
          BY <1>8, <2>1 DEF FieldsE
    <2>2. CASE n # 0
      <3>1. n \in 1..N /\ n - 1 \in 0..N
            BY <1>1, <2>2
      <3>2. g[n] = G[n][g[n - 1]] /\ g[n - 1] \in FieldSeqs
            BY <1>8, <3>1
      <3> QED BY <1>6, <2>2, <3>1, <3>2 DEF FieldsE
    <2> QED BY <2>1, <2>2
  <1>10. IsFields(g, string, delim)
        BY <1>8, <1>9 DEF IsFields, N
  <1>11. IsFields(f, string, delim)
        BY <1>10 DEF Fields
  <1> HIDE DEF f
  <1>12. \A n \in 0..N : f[n] = FieldsE(string, delim, f, n)
        BY <1>11 DEF IsFields, N
  <1>13. f[0] = << << >> >>
        BY <1>1, <1>12 DEF FieldsE
  <1>14. \A n \in 1..N : f[n] = Taken(f[n - 1], string[n], delim)
    <2> TAKE n \in 1..N
    <2>1. n \in 0..N /\ n # 0
          BY <1>1
    <2> QED BY <1>12, <2>1 DEF FieldsE
  <1> DEFINE S == {k \in Nat : k <= N => f[k] \in FieldSeqs}
  <1>15. 0 \in S
        BY <1>3, <1>13
  <1>16. ASSUME NEW k \in Nat, k \in S PROVE k + 1 \in S
    <2> SUFFICES ASSUME k + 1 <= N PROVE f[k + 1] \in FieldSeqs
        OBVIOUS
    <2>1. k + 1 \in 1..N /\ (k + 1) - 1 = k /\ f[k] \in FieldSeqs
          BY <1>1, <1>16
    <2>2. f[k + 1] = Taken(f[k], string[k + 1], delim)
          BY <1>14, <2>1
    <2> QED BY <1>4, <2>1, <2>2
  <1> HIDE DEF S
  <1>17. ASSUME NEW n \in 0..N PROVE f[n] \in FieldSeqs
    <2>1. n \in Nat /\ n <= N
          BY <1>1
    <2>2. n \in S
          BY <1>15, <1>16, <2>1, Induct
    <2> QED BY <2>1, <2>2 DEF S
  <1> QED BY <1>2, <1>13, <1>14, <1>17 DEF f, N

(***************************************************************************)
(* No field has a delimiter.                                               *)
(***************************************************************************)
Clean(fields, delim) ==
    \A i \in 1..Len(fields) : \A j \in 1..Len(fields[i]) : fields[i][j] # delim

LEMMA TakenClean ==
    ASSUME NEW fields \in FieldSeqs, NEW c \in Chars, NEW delim \in Chars, Clean(fields, delim)
    PROVE  Clean(Taken(fields, c, delim), delim)
  <1> DEFINE t == Taken(fields, c, delim)
             L == Len(fields)
  <1>1. L \in Nat \ {0} /\ \A i \in 1..L : fields[i] \in Line
        BY FieldsHave
  <1>2. /\ t \in FieldSeqs /\ Len(t) = (IF c = delim THEN L + 1 ELSE L)
        /\ \A i \in 1..L - 1 : t[i] = fields[i]
        /\ (c = delim => t[L] = fields[L] /\ t[L + 1] = << >>)
        /\ (c # delim => t[L] = Append(fields[L], c))
        BY TakenIs
  <1> HIDE DEF t, L
  <1>3. ASSUME NEW i \in 1..Len(t) PROVE \A j \in 1..Len(t[i]) : t[i][j] # delim
    <2>1. CASE i \in 1..L - 1
      <3>1. t[i] = fields[i] /\ i \in 1..L
            BY <1>1, <1>2, <2>1
      <3> QED BY <3>1 DEF Clean, L
    <2>2. CASE i = L /\ c = delim
      <3>1. t[i] = fields[i] /\ i \in 1..L
            BY <1>1, <1>2, <2>2
      <3> QED BY <3>1 DEF Clean, L
    <2>3. CASE i = L + 1 /\ c = delim
      <3>1. t[i] = << >>
            BY <1>2, <2>3
      <3>2. Len(t[i]) = 0
            BY <3>1
      <3> QED BY <3>2
    <2>4. CASE i = L /\ c # delim
      <3> DEFINE x == fields[L]
      <3>1. x \in Seq(Chars) /\ L \in 1..L
            BY <1>1 DEF Line
      <3>2. \A j \in 1..Len(x) : x[j] # delim
            BY <3>1 DEF Clean, L
      <3>3. t[i] = Append(x, c)
            BY <1>2, <2>4
      <3> HIDE DEF x
      <3>4. /\ Len(t[i]) = Len(x) + 1 /\ Len(x) \in Nat /\ t[i][Len(x) + 1] = c
            /\ \A j \in 1..Len(x) : t[i][j] = x[j]
            BY <3>1, <3>3, AppendProperties
      <3>5. ASSUME NEW j \in 1..Len(t[i]) PROVE t[i][j] # delim
        <4>1. j \in 1..Len(x) \/ j = Len(x) + 1
              BY <3>4
        <4> QED BY <2>4, <3>2, <3>4, <4>1
      <3> QED BY <3>5
    <2>5. i \in 1..L - 1 \/ (i = L /\ c = delim) \/ (i = L + 1 /\ c = delim) \/ (i = L /\ c # delim)
          BY <1>1, <1>2
    <2> QED BY <2>1, <2>2, <2>3, <2>4, <2>5
  <1> QED BY <1>3 DEF Clean, t

Delims(string, delim, n) == {i \in 1..n : string[i] = delim}

LEMMA DelimsMore ==
    ASSUME NEW string, NEW delim, NEW n \in Nat
    PROVE  /\ IsFiniteSet(Delims(string, delim, n))
           /\ Cardinality(Delims(string, delim, n)) \in Nat
           /\ Delims(string, delim, 0) = {}
           /\ Cardinality(Delims(string, delim, n + 1))
                 = IF string[n + 1] = delim THEN Cardinality(Delims(string, delim, n)) + 1
                   ELSE Cardinality(Delims(string, delim, n))
  <1> DEFINE D == Delims(string, delim, n)
             E == Delims(string, delim, n + 1)
  <1>1. D \subseteq 1..n
        BY DEF Delims
  <1>2. IsFiniteSet(1..n)
        BY FS_Interval
  <1>3. IsFiniteSet(D)
        BY <1>1, <1>2, FS_Subset
  <1>4. Cardinality(D) \in Nat
        BY <1>3, FS_CardinalityType
  <1>5. Delims(string, delim, 0) = {}
        BY DEF Delims
  <1>6. E = IF string[n + 1] = delim THEN D \cup {n + 1} ELSE D
    <2>1. 1..n + 1 = (1..n) \cup {n + 1}
          OBVIOUS
    <2> QED BY <2>1 DEF Delims
  <1>7. n + 1 \notin D
        BY <1>1
  <1> HIDE DEF D, E
  <1>8. Cardinality(D \cup {n + 1}) = Cardinality(D) + 1
        BY <1>3, <1>7, FS_AddElement
  <1> QED BY <1>3, <1>4, <1>5, <1>6, <1>8 DEF D, E

LEMMA TokensAre ==
    ASSUME NEW string \in Line, NEW delim \in Chars
    PROVE  LET t == Tokens(string, delim)
           IN  /\ t \in FieldSeqs
               /\ Join(t, delim) = string
               /\ Clean(t, delim)
               /\ Len(t) = Cardinality(Delims(string, delim, Len(string))) + 1
  <1> DEFINE N == Len(string)
             f == Fields(string, delim)
             D(n) == Cardinality(Delims(string, delim, n))
             u(n) == SubSeq(string, 1, n)
             P(n) == Join(f[n], delim) = u(n) /\ Clean(f[n], delim) /\ Len(f[n]) = D(n) + 1
             S == {n \in Nat : n <= N => P(n)}
  <1>1. N \in Nat /\ (\A n \in 1..N : string[n] \in Chars) /\ string \in Seq(Chars)
        BY ElementOfSeq DEF Line
  <1>2. /\ Tokens(string, delim) = f[N] /\ f[0] = << << >> >>
        /\ \A n \in 1..N : f[n] = Taken(f[n - 1], string[n], delim)
        /\ \A n \in 0..N : f[n] \in FieldSeqs
        BY FieldsAre
  <1> HIDE DEF f
  <1>3. P(0)
    <2> DEFINE x == f[0]
    <2>0. 0 \in 0..N
          BY <1>1
    <2>1. x = << << >> >> /\ x \in FieldSeqs
          BY <1>2, <2>0
    <2>2. Len(x) = 1 /\ x[1] = << >> /\ Len(x[1]) = 0
          BY <2>1
    <2> HIDE DEF x
    <2>3. Join(x, delim) = << >>
      <3>1. Join(x, delim) = Joined(x, delim)[1] /\ Joined(x, delim)[1] = x[1]
            BY <2>1, <2>2, JoinedIs
      <3> QED BY <2>2, <3>1
    <2>4. Clean(x, delim)
      <3>1. \A i \in 1..1 : i = 1
            OBVIOUS
      <3> QED BY <2>2, <3>1 DEF Clean
    <2>5. D(0) = 0
          BY DelimsMore, FS_EmptySet
    <2>6. u(0) = << >>
          BY <1>1
    <2> QED BY <2>2, <2>3, <2>4, <2>5, <2>6 DEF x
  <1>4. ASSUME NEW n \in Nat, n + 1 <= N, P(n) PROVE P(n + 1)
    <2> DEFINE x == f[n]
               c == string[n + 1]
               y == f[n + 1]
    <2>1. n \in 0..N /\ n + 1 \in 1..N /\ (n + 1) - 1 = n
          BY <1>1, <1>4
    <2>2. x \in FieldSeqs /\ c \in Chars /\ y = Taken(x, c, delim)
          BY <1>1, <1>2, <2>1
    <2>3. Join(x, delim) = u(n) /\ Clean(x, delim) /\ Len(x) = D(n) + 1
          BY <1>4
    <2>4. u(n + 1) = Append(u(n), c)
          BY <1>1, <2>1
    <2>5. D(n + 1) = (IF c = delim THEN D(n) + 1 ELSE D(n)) /\ D(n) \in Nat
          BY DelimsMore
    <2> HIDE DEF x, c, y, u, D
    <2>6. Join(y, delim) = u(n + 1)
          BY <2>2, <2>3, <2>4, JoinTaken
    <2>7. Clean(y, delim)
          BY <2>2, <2>3, TakenClean
    <2>8. Len(y) = IF c = delim THEN Len(x) + 1 ELSE Len(x)
          BY <2>2, TakenIs
    <2>9. Len(y) = D(n + 1) + 1
          BY <2>3, <2>5, <2>8
    <2> QED BY <2>6, <2>7, <2>9 DEF y
  <1> HIDE DEF P
  <1>5. 0 \in S
        BY <1>3
  <1>6. ASSUME NEW n \in Nat, n \in S PROVE n + 1 \in S
    <2> SUFFICES ASSUME n + 1 <= N PROVE P(n + 1)
        OBVIOUS
    <2>1. n <= N
          BY <1>1
    <2> QED BY <1>4, <1>6, <2>1
  <1> HIDE DEF S
  <1>7. N \in S
        BY <1>1, <1>5, <1>6, Induct
  <1>8. P(N)
        BY <1>1, <1>7 DEF S
  <1>9. u(N) = string
        BY <1>1, SubSeqFull
  <1>10. f[N] \in FieldSeqs
        BY <1>1, <1>2
  <1> QED BY <1>2, <1>8, <1>9, <1>10 DEF P

LEMMA SplitRight ==
    ASSUME NEW string \in Line, NEW delim \in Chars, NEW flags
    PROVE  LET fields == ac_str_split(string, delim, flags)
           IN  /\ SplitJoins(string, delim, flags, fields)
               /\ FreevReleasesAll(string, delim, flags, ac_str_freev(fields))
  <1> DEFINE N == Len(string)
             T == Texts!ToSet(string)
             delims == Cardinality({i \in 1..N : string[i] = delim})
             fields == ac_str_split(string, delim, flags)
             t == Tokens(string, delim)
  <1>1. N \in Nat /\ T = {string[i] : i \in 1..N}
        BY ElementsAre DEF Line
  <1>2. /\ t \in FieldSeqs /\ Join(t, delim) = string /\ Clean(t, delim) /\ Len(t) = delims + 1
        BY TokensAre DEF Delims
  <1>3. delims \in Nat /\ (delims = 0 <=> \A i \in 1..N : string[i] # delim)
    <2> DEFINE D == {i \in 1..N : string[i] = delim}
    <2>1. D = Delims(string, delim, N)
          BY DEF Delims
    <2>2. IsFiniteSet(D) /\ Cardinality(D) \in Nat
      <3> HIDE DEF D, N
      <3> QED BY <1>1, <2>1, DelimsMore
    <2>3. Cardinality(D) = 0 <=> D = {}
          BY <2>2, FS_EmptySet
    <2> QED BY <2>2, <2>3
  <1>4. NoAnswer \notin Seq(Line)
        BY CallsAssumption DEF CharsAssumption, Line
  <1> DEFINE empty == string = << >> \/ (flags = "strict" /\ delim \notin T)
  <1>5. delim \notin T <=> delims = 0
        BY <1>1, <1>3
  <1>6. fields = IF flags = "unknown" THEN NoAnswer ELSE IF empty THEN << >> ELSE t
        BY DEF ac_str_split
  <1> HIDE DEF delims, t, T, N
  <1>7. << >> \in Seq(Line) /\ Len(<< >>) = 0
        BY EmptySeq
  <1>8. FreevReleasesAll(string, delim, flags, ac_str_freev(fields))
         <=> ac_str_freev(fields) = (IF flags = "unknown" THEN 0
                                     ELSE IF string = << >> \/ (flags = "strict" /\ delims = 0) THEN 1
                                     ELSE delims + 2)
        BY DEF FreevReleasesAll, delims, N
  <1> HIDE DEF fields
  <1>9. CASE flags = "unknown"
    <2>1. fields = NoAnswer
          BY <1>6, <1>9
    <2> QED BY <1>8, <1>9, <2>1 DEF SplitJoins, ac_str_freev, fields
  <1>10. CASE flags # "unknown" /\ empty
    <2>1. fields = << >> /\ fields # NoAnswer
          BY <1>4, <1>6, <1>7, <1>10
    <2>2. ac_str_freev(fields) = 1
          BY <1>7, <2>1 DEF ac_str_freev
    <2>3. string = << >> \/ (flags = "strict" /\ \A i \in 1..Len(string) : string[i] # delim)
          BY <1>3, <1>5, <1>10 DEF N
    <2> QED BY <1>5, <1>8, <1>10, <2>1, <2>2, <2>3 DEF SplitJoins, fields
  <1>11. CASE flags # "unknown" /\ ~empty
    <2>1. fields = t /\ fields # NoAnswer /\ fields # << >>
          BY <1>2, <1>4, <1>6, <1>11 DEF FieldSeqs
    <2>2. ac_str_freev(fields) = delims + 2
          BY <1>2, <1>3, <2>1 DEF ac_str_freev
    <2>3. ASSUME NEW i \in 1..Len(t) PROVE delim \notin Texts!ToSet(t[i])
      <3>1. t[i] \in Seq(Chars)
            BY <1>2, FieldsHave DEF Line
      <3>2. Texts!ToSet(t[i]) = {t[i][j] : j \in 1..Len(t[i])}
            BY <3>1, ElementsAre
      <3> QED BY <1>2, <3>2 DEF Clean
    <2>4. SplitJoins(string, delim, flags, fields)
          BY <1>2, <1>11, <2>1, <2>3 DEF SplitJoins
    <2> QED BY <1>5, <1>8, <1>11, <2>2, <2>4 DEF fields
  <1> QED BY <1>9, <1>10, <1>11

LEMMA StringsNow == ASSUME AskInv, DistancesRight PROVE StringsRight
  <1>1. ASSUME Is("split")
        PROVE  /\ asked.string \in Line /\ asked.delim \in Chars
    <2>1. PICK split \in Splits :
            asked = [fn |-> "split", string |-> split.string, delim |-> split.delim,
                     flags |-> split.flags]
          BY <1>1, AsksOne DEF AsksSplit
    <2>2. split \in [string : Seq(Chars), delim : Chars, flags : Flags]
          BY CallsAssumption DEF CharsAssumption
    <2> QED BY <2>1, <2>2 DEF Line
  <1>2. ASSUME Answered("split") PROVE SplitJoins(asked.string, asked.delim, asked.flags, reply)
    <2>1. reply = ac_str_split(asked.string, asked.delim, asked.flags)
          BY <1>2 DEF AskInv, Answered, Replied
    <2> QED BY <1>1, <1>2, <2>1, SplitRight DEF Answered
  <1>3. ASSUME step = "freed"
        PROVE  FreevReleasesAll(asked.string, asked.delim, asked.flags, reply)
    <2>1. Is("split") /\ reply = ac_str_freev(ac_str_split(asked.string, asked.delim, asked.flags))
          BY <1>3 DEF AskInv, FreedAgain
    <2> QED BY <1>1, <2>1, SplitRight
  <1>4. ASSUME Answered("chomp") PROVE ChompTrims(asked.before, asked.memory, reply)
    <2>1. PICK before \in Befores, line \in Lines :
            asked = [fn |-> "chomp", before |-> Len(before),
                     memory |-> (before \o line) \o <<NUL>>]
          BY <1>4, AsksOne DEF AsksChomp, Answered
    <2>2. reply = ac_str_chomp((before \o line) \o <<NUL>>)
          BY <1>4, <2>1 DEF AskInv, Answered, Replied, Is
    <2>3. before \in Seq(Chars \cup {NUL}) /\ line \in Seq(Chars)
          BY CallsAssumption DEF CharsAssumption
    <2> QED BY <2>1, <2>2, <2>3, ChompRight
  <1>5. ASSUME Answered("name") PROVE NameIsOrdinary(asked.name, reply)
    <2>1. PICK name \in FileNames : asked = [fn |-> "name", name |-> name]
          BY <1>5, AsksOne DEF AsksName, Answered
    <2>2. reply = ac_fs_is_posix_name(name)
          BY <1>5, <2>1 DEF AskInv, Answered, Replied, Is
    <2>3. name \in Seq(Kinds)
          BY CallsAssumption DEF CharsAssumption
    <2> QED BY <2>1, <2>2, <2>3, NameRight
  <1>6. ASSUME Answered("substr")
        PROVE  SubstrIsPart(asked.src, asked.dest, asked.start, asked.len, reply)
    <2>1. PICK part \in Substrings :
            asked = [fn |-> "substr", src |-> part.src, dest |-> part.dest,
                     start |-> part.start, len |-> part.len]
          BY <1>6, AsksOne DEF AsksSubstr, Answered
    <2>2. reply = ac_str_substr(part.src, part.dest, part.start, part.len)
          BY <1>6, <2>1 DEF AskInv, Answered, Replied, Is
    <2> DEFINE S == Chars \cup {NUL}
    <2>3. /\ part \in [src : Seq(S), dest : Seq(S), start : Nat, len : Nat] /\ NUL \in S
          /\ HasString(part.src) /\ part.start <= Len(StringAt(part.src))
          /\ part.start + part.len <= Len(part.src) /\ part.len < Len(part.dest)
          BY CallsAssumption DEF CharsAssumption
    <2> HIDE DEF S
    <2> DEFINE src == part.src   dest == part.dest   start == part.start   len == part.len
    <2>4. /\ src \in Seq(S) /\ dest \in Seq(S) /\ NUL \in S /\ start \in Nat /\ len \in Nat
          /\ HasString(src) /\ start <= Len(StringAt(src))
          /\ start + len <= Len(src) /\ len < Len(dest)
          BY <2>3
    <2> HIDE DEF src, dest, start, len
    <2>5. SubstrIsPart(src, dest, start, len, ac_str_substr(src, dest, start, len))
          BY <2>4, SubstrRight
    <2> QED BY <2>1, <2>2, <2>5 DEF src, dest, start, len
  <1> QED BY <1>2, <1>3, <1>4, <1>5, <1>6 DEF StringsRight
----------------------------------------------------------------------------
(***************************************************************************)
(* Shuffles.                                                               *)
(***************************************************************************)
Injective(a, n) == \A i, j \in 1..n : a[i] = a[j] => i = j

Swaps(s, a, i, j, n, T) ==
    /\ s \in [1..n -> T]
    /\ \A l \in 1..n : s[l] = IF l = j THEN a[i] ELSE IF l = i THEN a[j] ELSE a[l]
    /\ Injective(a, n) => Injective(s, n)

LEMMA SwapIs ==
    ASSUME NEW n \in Nat, NEW T, NEW a \in [1..n -> T], NEW i \in 1..n, NEW j \in 1..n
    PROVE  Swaps(swap(a, i, j), a, i, j, n, T)
  <1> DEFINE s == swap(a, i, j)
  <1>1. s \in [1..n -> T]
        BY DEF swap
  <1>2. \A l \in 1..n : s[l] = IF l = j THEN a[i] ELSE IF l = i THEN a[j] ELSE a[l]
        BY DEF swap
  <1> HIDE DEF s
  <1>3. ASSUME Injective(a, n), NEW k \in 1..n, NEW l \in 1..n, s[k] = s[l] PROVE k = l
        BY <1>2, <1>3 DEF Injective
  <1> QED BY <1>1, <1>2, <1>3 DEF Injective, s, Swaps

ShuffleE(base, draws, f, k) ==
    IF k = 0 THEN base
    ELSE swap(f[k - 1], Choose(draws[Len(base) + 1 - k], Len(base) + 1 - k), Len(base) + 1 - k)
IsShuffle(f, base, draws) == f = [k \in 0..Len(base) |-> ShuffleE(base, draws, f, k)]
Shuffled(base, draws) == CHOOSE f : IsShuffle(f, base, draws)

Draws(n) == [1..n -> Nat]

LEMMA ChosenIs ==
    ASSUME NEW r \in Nat, NEW m \in Nat \ {0}
    PROVE  Choose(r, m) \in 1..m /\ Choose(r, m) = (r % m) + 1 /\ r % m \in Nat
  <1>1. r % m \in 0..m - 1
        BY ModBounds
  <1> DEFINE q == r % m
  <1>2. Choose(r, m) = q + 1 /\ q \in 0..m - 1
        BY <1>1 DEF Choose
  <1> HIDE DEF q
  <1>3. q + 1 \in 1..m /\ q \in Nat
        BY <1>2
  <1> QED BY <1>2, <1>3 DEF q

LEMMA ShuffledIs ==
    ASSUME NEW base \in Seq(Elements), NEW n \in Nat, n = Len(base), NEW draws \in Draws(n)
    PROVE  LET f == Shuffled(base, draws)
           IN  /\ shuffle_fisher_yates(base, draws) = f[n]
               /\ f \in [0..n -> [1..n -> Elements]]
               /\ f[0] = base
               /\ \A k \in 1..n :
                     f[k] = swap(f[k - 1], Choose(draws[n + 1 - k], n + 1 - k), n + 1 - k)
  <1> DEFINE f == Shuffled(base, draws)
             A == [1..n -> Elements]
             c(k) == Choose(draws[n + 1 - k], n + 1 - k)
             G == [k \in 1..n |-> [x \in A |-> swap(x, c(k), n + 1 - k)]]
  <1>1. shuffle_fisher_yates(base, draws) = f[n]
        BY DEF shuffle_fisher_yates, Shuffled, IsShuffle, ShuffleE
  <1>2. base \in A
        OBVIOUS
  <1>3. \A k \in 1..n : n + 1 - k \in 1..n /\ c(k) \in 1..n
    <2> TAKE k \in 1..n
    <2> DEFINE m == n + 1 - k
    <2>1. m \in 1..n /\ m \in Nat \ {0}
          OBVIOUS
    <2> HIDE DEF m
    <2>2. draws[m] \in Nat
          BY <2>1 DEF Draws
    <2>3. Choose(draws[m], m) \in 1..m
          BY <2>1, <2>2, ChosenIs
    <2>4. Choose(draws[m], m) \in 1..n
          BY <2>1, <2>3
    <2> QED BY <2>1, <2>4 DEF m
  <1> HIDE DEF c, A
  <1>4. \A k \in 1..n, x \in A : swap(x, c(k), n + 1 - k) \in A
    <2> TAKE k \in 1..n, x \in A
    <2> DEFINE i == c(k)
               j == n + 1 - k
    <2>1. i \in 1..n /\ j \in 1..n /\ x \in [1..n -> Elements]
          BY <1>3 DEF A
    <2> HIDE DEF i, j
    <2>3. Swaps(swap(x, i, j), x, i, j, n, Elements)
          BY <2>1, SwapIs
    <2>2. swap(x, i, j) \in [1..n -> Elements]
          BY <2>3 DEF Swaps
    <2> QED BY <2>2 DEF A, i, j
  <1>5. G \in Steps(A, n)
        BY <1>4 DEF Steps
  <1>6. \A k \in 1..n, x \in A : G[k][x] = swap(x, c(k), n + 1 - k)
        OBVIOUS
  <1> HIDE DEF G
  <1>7. PICK g : Follows(g, A, n, base, G)
        BY <1>2, <1>5, Recursion
  <1>8. /\ g \in [0..n -> A] /\ g[0] = base
        /\ \A k \in 1..n : g[k] = G[k][g[k - 1]]
        BY <1>7 DEF Follows
  <1>9. ASSUME NEW k \in 0..n PROVE g[k] = ShuffleE(base, draws, g, k)
    <2>1. CASE k = 0
          BY <1>8, <2>1 DEF ShuffleE
    <2>2. CASE k # 0
      <3>1. k \in 1..n /\ k - 1 \in 0..n
            BY <2>2
      <3>2. g[k] = G[k][g[k - 1]] /\ g[k - 1] \in A
            BY <1>8, <3>1
      <3>3. g[k] = swap(g[k - 1], c(k), n + 1 - k)
            BY <1>6, <3>1, <3>2
      <3> QED BY <2>2, <3>3 DEF ShuffleE, c
    <2> QED BY <2>1, <2>2
  <1>10. IsShuffle(g, base, draws)
        BY <1>8, <1>9 DEF IsShuffle
  <1>11. IsShuffle(f, base, draws)
        BY <1>10 DEF Shuffled
  <1> HIDE DEF f
  <1>12. f = [k \in 0..n |-> ShuffleE(base, draws, f, k)]
        BY <1>11 DEF IsShuffle
  <1>13. f[0] = base
        BY <1>12 DEF ShuffleE
  <1>14. \A k \in 1..n : f[k] = swap(f[k - 1], c(k), n + 1 - k)
    <2> TAKE k \in 1..n
    <2>1. k \in 0..n /\ k # 0
          OBVIOUS
    <2>2. f[k] = ShuffleE(base, draws, f, k)
          BY <1>12, <2>1
    <2> QED BY <2>1, <2>2 DEF ShuffleE, c
  <1> DEFINE S == {k \in Nat : k <= n => f[k] \in A}
  <1>15. 0 \in S
        BY <1>2, <1>13
  <1>16. ASSUME NEW k \in Nat, k \in S PROVE k + 1 \in S
    <2> SUFFICES ASSUME k + 1 <= n PROVE f[k + 1] \in A
        OBVIOUS
    <2>1. k + 1 \in 1..n /\ (k + 1) - 1 = k /\ f[k] \in A
          BY <1>16
    <2>2. f[k + 1] = swap(f[k], c(k + 1), n + 1 - (k + 1))
          BY <1>14, <2>1
    <2> QED BY <1>4, <2>1, <2>2
  <1> HIDE DEF S
  <1>17. ASSUME NEW k \in 0..n PROVE f[k] \in A
    <2>1. k \in Nat /\ k <= n
          OBVIOUS
    <2>2. k \in S
          BY <1>15, <1>16, <2>1, Induct
    <2> QED BY <2>1, <2>2 DEF S
  <1>18. f \in [0..n -> A]
        BY <1>12, <1>17
  <1> QED BY <1>1, <1>13, <1>14, <1>18 DEF A, c, f

(***************************************************************************)
(* A shuffle, step by step: at step k, place n + 1 - k gets what is at a   *)
(* place up to it, and keeps it.                                           *)
(***************************************************************************)
Chosen(draws, n, k) == Choose(draws[n + 1 - k], n + 1 - k)

IsRun(f, base, draws, n) ==
    /\ f \in [0..n -> [1..n -> Elements]] /\ f[0] = base
    /\ \A k \in 1..n : f[k] = swap(f[k - 1], Chosen(draws, n, k), n + 1 - k)

LEMMA ChosenPlace ==
    ASSUME NEW n \in Nat, NEW draws \in Draws(n), NEW k \in 1..n
    PROVE  /\ n + 1 - k \in 1..n
           /\ Chosen(draws, n, k) \in 1..n + 1 - k /\ Chosen(draws, n, k) \in 1..n
           /\ Chosen(draws, n, k) = (draws[n + 1 - k] % (n + 1 - k)) + 1
           /\ draws[n + 1 - k] % (n + 1 - k) \in Nat
  <1> DEFINE m == n + 1 - k
             c == Choose(draws[m], m)
             q == draws[m] % m
  <1>1. m \in 1..n /\ m \in Nat \ {0}
        OBVIOUS
  <1> HIDE DEF m
  <1>2. draws[m] \in Nat
        BY <1>1 DEF Draws
  <1>3. c \in 1..m /\ c = q + 1 /\ q \in Nat
        BY <1>1, <1>2, ChosenIs
  <1> HIDE DEF c, q
  <1>4. c \in 1..n
        BY <1>1, <1>3
  <1> QED BY <1>1, <1>3, <1>4 DEF Chosen, m, c, q

LEMMA RunKeeps ==
    ASSUME NEW base, NEW n \in Nat, NEW draws \in Draws(n), NEW f, IsRun(f, base, draws, n),
           Injective(base, n)
    PROVE  \A k \in 0..n : Injective(f[k], n)
  <1> DEFINE S == {k \in Nat : k <= n => Injective(f[k], n)}
  <1>1. 0 \in S
        BY DEF IsRun
  <1>2. ASSUME NEW k \in Nat, k \in S PROVE k + 1 \in S
    <2> SUFFICES ASSUME k + 1 <= n PROVE Injective(f[k + 1], n)
        OBVIOUS
    <2> DEFINE i == Chosen(draws, n, k + 1)
               j == n + 1 - (k + 1)
               a == f[k]
    <2>1. k + 1 \in 1..n /\ (k + 1) - 1 = k /\ k \in 0..n /\ Injective(a, n)
          BY <1>2
    <2>2. a \in [1..n -> Elements] /\ f[k + 1] = swap(a, i, j)
          BY <2>1 DEF IsRun
    <2>3. i \in 1..n /\ j \in 1..n
          BY <2>1, ChosenPlace
    <2> HIDE DEF a, i, j
    <2>4. Swaps(swap(a, i, j), a, i, j, n, Elements)
          BY <2>2, <2>3, SwapIs
    <2> QED BY <2>1, <2>2, <2>4 DEF Swaps
  <1> HIDE DEF S
  <1>3. ASSUME NEW k \in 0..n PROVE Injective(f[k], n)
    <2>1. k \in Nat /\ k <= n
          OBVIOUS
    <2>2. k \in S
          BY <1>1, <1>2, <2>1, Induct
    <2> QED BY <2>1, <2>2 DEF S
  <1> QED BY <1>3

Reordered(base, n, r) == \E p \in Orders(n) : r = [i \in 1..n |-> base[p[i]]]

LEMMA RunOrders ==
    ASSUME NEW base, NEW n \in Nat, NEW draws \in Draws(n), NEW f, IsRun(f, base, draws, n)
    PROVE  \A k \in 0..n : Reordered(base, n, f[k])
  <1> DEFINE O(k) == \E p \in Orders(n) : f[k] = [i \in 1..n |-> base[p[i]]]
             S == {k \in Nat : k <= n => O(k)}
  <1>1. O(0)
    <2> DEFINE p == [i \in 1..n |-> i]
    <2>1. p \in Orders(n)
          BY DEF Orders
    <2>2. base \in [1..n -> Elements] /\ f[0] = base
          BY DEF IsRun
    <2>3. base = [i \in 1..n |-> base[p[i]]]
          BY <2>2
    <2> HIDE DEF p
    <2> QED BY <2>1, <2>2, <2>3
  <1>2. ASSUME NEW k \in Nat, k + 1 <= n, O(k) PROVE O(k + 1)
    <2> DEFINE i == Chosen(draws, n, k + 1)
               j == n + 1 - (k + 1)
               a == f[k]
    <2>1. k + 1 \in 1..n /\ (k + 1) - 1 = k /\ k \in 0..n
          BY <1>2
    <2>2. a \in [1..n -> Elements] /\ f[k + 1] = swap(a, i, j)
          BY <2>1 DEF IsRun
    <2>3. i \in 1..n /\ j \in 1..n
          BY <2>1, ChosenPlace
    <2>4. PICK p \in Orders(n) : a = [l \in 1..n |-> base[p[l]]]
          BY <1>2
    <2>5. p \in [1..n -> 1..n] /\ Injective(p, n)
          BY DEF Orders, Injective
    <2> HIDE DEF a, i, j
    <2> DEFINE q == swap(p, i, j)
               b == swap(a, i, j)
    <2>6. /\ q \in [1..n -> 1..n] /\ Injective(q, n)
          /\ \A l \in 1..n : q[l] = IF l = j THEN p[i] ELSE IF l = i THEN p[j] ELSE p[l]
      <3>1. Swaps(q, p, i, j, n, 1..n)
            BY <2>3, <2>5, SwapIs
      <3> HIDE DEF q
      <3> QED BY <2>5, <3>1 DEF Swaps
    <2>7. /\ b \in [1..n -> Elements]
          /\ \A l \in 1..n : b[l] = IF l = j THEN a[i] ELSE IF l = i THEN a[j] ELSE a[l]
      <3>1. Swaps(b, a, i, j, n, Elements)
            BY <2>2, <2>3, SwapIs
      <3> HIDE DEF b
      <3> QED BY <3>1 DEF Swaps
    <2> HIDE DEF q, b
    <2>8. q \in Orders(n)
          BY <2>6 DEF Orders, Injective
    <2>9. \A l \in 1..n : b[l] = base[q[l]]
          BY <2>3, <2>4, <2>6, <2>7
    <2>10. b = [l \in 1..n |-> base[q[l]]]
          BY <2>7, <2>9
    <2> QED BY <2>2, <2>8, <2>10 DEF b
  <1> HIDE DEF O
  <1>3. 0 \in S
        BY <1>1
  <1>4. ASSUME NEW k \in Nat, k \in S PROVE k + 1 \in S
    <2> SUFFICES ASSUME k + 1 <= n PROVE O(k + 1)
        OBVIOUS
    <2> QED BY <1>2, <1>4
  <1> HIDE DEF S
  <1>5. ASSUME NEW k \in 0..n PROVE O(k)
    <2>1. k \in Nat /\ k <= n
          OBVIOUS
    <2>2. k \in S
          BY <1>3, <1>4, <2>1, Induct
    <2> QED BY <2>1, <2>2 DEF S
  <1> QED BY <1>5 DEF O, Reordered

Settles(f, draws, n, k) == f[n][n + 1 - k] = f[k - 1][Chosen(draws, n, k)]

LEMMA RunSettles ==
    ASSUME NEW base, NEW n \in Nat, NEW draws \in Draws(n), NEW f, IsRun(f, base, draws, n),
           NEW k \in 1..n
    PROVE  Settles(f, draws, n, k)
  <1> DEFINE m == n + 1 - k
             S == {d \in Nat : k + d <= n => f[k + d][m] = f[k][m]}
  <1>0. m \in 1..n /\ n - k \in Nat /\ k \in Nat /\ m = n + 1 - k
        OBVIOUS
  <1> HIDE DEF m
  <1>1. 0 \in S
        BY <1>0
  <1>2. ASSUME NEW d \in Nat, d \in S PROVE d + 1 \in S
    <2> SUFFICES ASSUME k + (d + 1) <= n PROVE f[k + (d + 1)][m] = f[k][m]
        OBVIOUS
    <2> DEFINE h == k + (d + 1)
               a == f[h - 1]
               i == Chosen(draws, n, h)
               j == n + 1 - h
    <2>1. h \in 1..n /\ h - 1 = k + d /\ h - 1 \in 0..n /\ f[k + d][m] = f[k][m]
          BY <1>0, <1>2
    <2> HIDE DEF h
    <2>2. a \in [1..n -> Elements] /\ f[h] = swap(a, i, j)
          BY <2>1 DEF IsRun
    <2>3. i \in 1..n /\ j \in 1..n /\ i \in 1..j
          BY <2>1, ChosenPlace
    <2>4. j < m
          BY <1>0, <2>1 DEF h
    <2> HIDE DEF a, i, j
    <2>5. swap(a, i, j)[m] = a[m]
      <3>1. \A l \in 1..n : swap(a, i, j)[l] = IF l = j THEN a[i] ELSE IF l = i THEN a[j] ELSE a[l]
        <4>1. Swaps(swap(a, i, j), a, i, j, n, Elements)
              BY <2>2, <2>3, SwapIs
        <4> QED BY <4>1 DEF Swaps
      <3>2. m # j /\ m # i
            BY <1>0, <2>3, <2>4
      <3> QED BY <1>0, <3>1, <3>2
    <2> QED BY <2>1, <2>2, <2>5 DEF a, h
  <1> HIDE DEF S
  <1>3. f[n][m] = f[k][m]
    <2>1. n - k \in S
          BY <1>0, <1>1, <1>2, Induct
    <2>2. k + (n - k) = n /\ k + (n - k) <= n
          BY <1>0
    <2> DEFINE d == n - k
    <2> HIDE DEF d
    <2>3. k + d <= n => f[k + d][m] = f[k][m]
          BY <2>1 DEF S, d
    <2> QED BY <2>2, <2>3 DEF d
  <1>4. f[k][m] = f[k - 1][Chosen(draws, n, k)]
    <2> DEFINE a == f[k - 1]
               i == Chosen(draws, n, k)
    <2>1. a \in [1..n -> Elements] /\ f[k] = swap(a, i, m)
      <3>1. k - 1 \in 0..n
            BY <1>0
      <3> QED BY <1>0, <3>1 DEF IsRun, m
    <2>2. i \in 1..n
          BY ChosenPlace
    <2> HIDE DEF a, i
    <2>3. swap(a, i, m)[m] = a[i]
      <3>1. Swaps(swap(a, i, m), a, i, m, n, Elements)
            BY <1>0, <2>1, <2>2, SwapIs
      <3> QED BY <1>0, <3>1 DEF Swaps
    <2> QED BY <2>1, <2>3 DEF a, i
  <1> QED BY <1>3, <1>4 DEF m, Settles

LEMMA RunOf ==
    ASSUME NEW base \in Seq(Elements), NEW n \in Nat, n = Len(base), NEW draws \in Draws(n)
    PROVE  /\ IsRun(Shuffled(base, draws), base, draws, n)
           /\ shuffle_fisher_yates(base, draws) = Shuffled(base, draws)[n]
  <1> DEFINE f == Shuffled(base, draws)
  <1>1. /\ shuffle_fisher_yates(base, draws) = f[n]
        /\ f \in [0..n -> [1..n -> Elements]]
        /\ f[0] = base
        /\ \A k \in 1..n :
              f[k] = swap(f[k - 1], Choose(draws[n + 1 - k], n + 1 - k), n + 1 - k)
        BY ShuffledIs
  <1> HIDE DEF f
  <1> QED BY <1>1 DEF IsRun, Chosen, f

(***************************************************************************)
(* Two runs over the same elements end alike only if every draw of one     *)
(* leaves the residue that the other's leaves.                             *)
(***************************************************************************)
Agrees(x, y, n, k) == x[n + 1 - k] % (n + 1 - k) = y[n + 1 - k] % (n + 1 - k)

Alike(x, y, n, h) == \A k \in 1..h : Agrees(x, y, n, k)

LEMMA AgreeChosen ==
    ASSUME NEW n \in Nat, NEW x \in Draws(n), NEW y \in Draws(n), NEW k \in 1..n
    PROVE  (Chosen(x, n, k) = Chosen(y, n, k)) <=> Agrees(x, y, n, k)
  <1> DEFINE a == x[n + 1 - k] % (n + 1 - k)
             b == y[n + 1 - k] % (n + 1 - k)
  <1>1. Chosen(x, n, k) = a + 1 /\ a \in Nat
        BY ChosenPlace
  <1>2. Chosen(y, n, k) = b + 1 /\ b \in Nat
        BY ChosenPlace
  <1> HIDE DEF a, b
  <1>3. (Chosen(x, n, k) = Chosen(y, n, k)) <=> a = b
        BY <1>1, <1>2
  <1> QED BY <1>3 DEF Agrees, a, b

LEMMA RunsSame ==
    ASSUME NEW base, NEW n \in Nat, NEW x \in Draws(n), NEW y \in Draws(n), NEW f, NEW g,
           IsRun(f, base, x, n), IsRun(g, base, y, n),
           NEW h \in 0..n, Alike(x, y, n, h)
    PROVE  f[h] = g[h]
  <1> DEFINE S == {k \in Nat : k <= h => f[k] = g[k]}
  <1>1. 0 \in S
        BY DEF IsRun
  <1>2. ASSUME NEW k \in Nat, k \in S PROVE k + 1 \in S
    <2> SUFFICES ASSUME k + 1 <= h PROVE f[k + 1] = g[k + 1]
        OBVIOUS
    <2> DEFINE m == k + 1
    <2>1. m \in 1..n /\ m \in 1..h /\ m - 1 = k /\ f[k] = g[k]
          BY <1>2
    <2> HIDE DEF m
    <2>2. Chosen(x, n, m) = Chosen(y, n, m)
      <3>1. Agrees(x, y, n, m)
            BY <2>1 DEF Alike
      <3> QED BY <2>1, <3>1, AgreeChosen
    <2>3. /\ f[m] = swap(f[k], Chosen(x, n, m), n + 1 - m)
          /\ g[m] = swap(g[k], Chosen(y, n, m), n + 1 - m)
          BY <2>1 DEF IsRun
    <2> QED BY <2>1, <2>2, <2>3 DEF m
  <1> HIDE DEF S
  <1>3. h \in S
        BY <1>1, <1>2, Induct
  <1> QED BY <1>3 DEF S

LEMMA RunsDiffer ==
    ASSUME NEW base, NEW n \in Nat, NEW x \in Draws(n), NEW y \in Draws(n), NEW f, NEW g,
           IsRun(f, base, x, n), IsRun(g, base, y, n), Injective(base, n), f[n] = g[n]
    PROVE  Alike(x, y, n, n)
  <1> USE DEF Alike
  <1> DEFINE S == {h \in Nat : h <= n => Alike(x, y, n, h)}
  <1>1. 0 \in S
        OBVIOUS
  <1>2. ASSUME NEW h \in Nat, h \in S PROVE h + 1 \in S
    <2> SUFFICES ASSUME h + 1 <= n PROVE Alike(x, y, n, h + 1)
        OBVIOUS
    <2>1. h \in 0..n /\ Alike(x, y, n, h)
          BY <1>2
    <2> HIDE DEF Alike
    <2>2. f[h] = g[h]
          BY <2>1, RunsSame
    <2> DEFINE m == h + 1
    <2>3. m \in 1..n /\ m - 1 = h
          OBVIOUS
    <2> HIDE DEF m
    <2> DEFINE i == Chosen(x, n, m)
               j == Chosen(y, n, m)
               a == f[h]
               p == n + 1 - m
    <2>4. i \in 1..n /\ j \in 1..n
          BY <2>3, ChosenPlace
    <2>5. f[n][p] = f[m - 1][i]
      <3>1. Settles(f, x, n, m)
            BY <2>3, RunSettles
      <3> QED BY <3>1 DEF Settles
    <2>6. g[n][p] = g[m - 1][j]
      <3>1. Settles(g, y, n, m)
            BY <2>3, RunSettles
      <3> QED BY <3>1 DEF Settles
    <2>7. Injective(a, n)
          BY <2>1, RunKeeps
    <2> HIDE DEF i, j, p
    <2>8. a[i] = a[j]
          BY <2>2, <2>3, <2>5, <2>6
    <2> HIDE DEF a
    <2>9. i = j
          BY <2>4, <2>7, <2>8 DEF Injective
    <2>10. Agrees(x, y, n, m)
          BY <2>3, <2>9, AgreeChosen DEF i, j
    <2> QED BY <2>1, <2>10 DEF m, Alike
  <1> HIDE DEF S
  <1>3. n \in S
        BY <1>1, <1>2, Induct
  <1> QED BY <1>3 DEF S

LEMMA AgreeAll ==
    ASSUME NEW n \in Nat, NEW x \in Draws(n), NEW d \in Residues(n)
    PROVE  /\ d \in Draws(n)
           /\ Alike(x, d, n, n) <=> (\A m \in 1..n : x[m] % m = d[m])
  <1> USE DEF Alike
  <1>1. d \in Draws(n) /\ \A m \in 1..n : d[m] \in Nat /\ d[m] < m
        BY DEF Residues, Draws
  <1>2. \A m \in 1..n : d[m] % m = d[m]
    <2> TAKE m \in 1..n
    <2> DEFINE e == d[m]
    <2>1. e \in Nat /\ e < m
          BY <1>1
    <2> HIDE DEF e
    <2>2. e % m = e
          BY <2>1
    <2> QED BY <2>2 DEF e
  <1>3. ASSUME \A k \in 1..n : Agrees(x, d, n, k), NEW m \in 1..n PROVE x[m] % m = d[m]
    <2>1. n + 1 - m \in 1..n /\ n + 1 - (n + 1 - m) = m
          OBVIOUS
    <2>2. Agrees(x, d, n, n + 1 - m)
          BY <1>3, <2>1
    <2>3. x[m] % m = d[m] % m
          BY <2>1, <2>2 DEF Agrees
    <2> QED BY <1>2, <2>3
  <1>4. ASSUME \A m \in 1..n : x[m] % m = d[m], NEW k \in 1..n PROVE Agrees(x, d, n, k)
    <2> DEFINE m == n + 1 - k
    <2>1. m \in 1..n
          OBVIOUS
    <2> HIDE DEF m
    <2>2. x[m] % m = d[m] % m
          BY <1>2, <1>4, <2>1
    <2> QED BY <2>2 DEF Agrees, m
  <1> QED BY <1>1, <1>3, <1>4

LEMMA ShuffleRight ==
    ASSUME NEW base \in Seq(Elements), NEW draws \in Draws(Len(base)), NEW algo
    PROVE  ShuffleIsFair(base, draws, ac_misc_shuffle(base, draws, algo))
  <1> DEFINE n == Len(base)
             f == Shuffled(base, draws)
             r == shuffle_fisher_yates(base, draws)
  <1>0. ASSUME algo # "fisher_yates" PROVE ShuffleIsFair(base, draws, ac_misc_shuffle(base, draws, algo))
    <2>1. ac_misc_shuffle(base, draws, algo).ret = -1
          BY <1>0 DEF ac_misc_shuffle
    <2> QED BY <2>1 DEF ShuffleIsFair
  <1> SUFFICES ASSUME algo = "fisher_yates" PROVE ShuffleIsFair(base, draws, [ret |-> 0, base |-> r])
    <2>1. algo = "fisher_yates" => ac_misc_shuffle(base, draws, algo) = [ret |-> 0, base |-> r]
          BY DEF ac_misc_shuffle
    <2> HIDE DEF r
    <2> QED BY <1>0, <2>1
  <1>1. n \in Nat
        OBVIOUS
  <1> HIDE DEF n
  <1>2. n = Len(base) /\ draws \in Draws(n)
        BY DEF n
  <1>3. IsRun(f, base, draws, n) /\ r = f[n]
        BY <1>1, <1>2, RunOf
  <1> HIDE DEF f, r
  <1>4. \E p \in Orders(n) : r = [i \in 1..n |-> base[p[i]]]
    <2>1. n \in 0..n
          BY <1>1
    <2>2. Reordered(base, n, f[n])
          BY <1>1, <1>2, <1>3, <2>1, RunOrders
    <2> QED BY <1>3, <2>2 DEF Reordered
  <1>5. ASSUME Injective(base, n), NEW d \in Residues(n)
        PROVE  (shuffle_fisher_yates(base, d) = r) <=> (\A m \in 1..n : draws[m] % m = d[m])
    <2> DEFINE g == Shuffled(base, d)
               s == shuffle_fisher_yates(base, d)
               All == Alike(draws, d, n, n)
    <2>1. d \in Draws(n) /\ (All <=> (\A m \in 1..n : draws[m] % m = d[m]))
          BY <1>1, <1>2, AgreeAll
    <2>2. IsRun(g, base, d, n) /\ s = g[n]
          BY <1>1, <1>2, <2>1, RunOf
    <2> HIDE DEF g, s
    <2>3. ASSUME All PROVE f[n] = g[n]
      <3>1. n \in 0..n
            BY <1>1
      <3> QED BY <1>1, <1>2, <1>3, <2>1, <2>2, <2>3, <3>1, RunsSame
    <2>4. ASSUME f[n] = g[n] PROVE All
          BY <1>1, <1>2, <1>3, <1>5, <2>1, <2>2, <2>4, RunsDiffer
    <2> HIDE DEF All
    <2>5. s = r <=> All
          BY <1>3, <2>2, <2>3, <2>4
    <2> QED BY <2>1, <2>5 DEF s
  <1> QED BY <1>4, <1>5 DEF ShuffleIsFair, Injective, n

LEMMA ShufflesNow == ASSUME AskInv PROVE ShufflesFairly
  <1>1. ASSUME Answered("shuffle") PROVE ShuffleIsFair(asked.base, asked.draws, reply)
    <2>1. PICK base \in Bases, algo \in {"fisher_yates", "unknown"} :
            \E draws \in [1..Len(base) -> 0..RandMax] :
               asked = [fn |-> "shuffle", base |-> base, draws |-> draws, algo |-> algo]
          BY <1>1, AsksOne DEF AsksShuffle, Answered
    <2>2. PICK draws \in [1..Len(base) -> 0..RandMax] :
            asked = [fn |-> "shuffle", base |-> base, draws |-> draws, algo |-> algo]
          BY <2>1
    <2>3. reply = ac_misc_shuffle(base, draws, algo)
          BY <1>1, <2>2 DEF AskInv, Answered, Replied, Is
    <2>4. base \in Seq(Elements) /\ draws \in Draws(Len(base))
          BY CallsAssumption DEF ArraysAssumption, Draws
    <2> QED BY <2>2, <2>3, <2>4, ShuffleRight
  <1> QED BY <1>1 DEF ShufflesFairly

(***************************************************************************)
(* An array of any length is shuffled into an order of its elements, and   *)
(* into each order of them by one choice of the residues of the draws: no  *)
(* order is left out or preferred.                                         *)
(***************************************************************************)
THEOREM ShufflesAreFair == AskSpec => []ShufflesFairly
  BY AskAlways, ShufflesNow, PTL
----------------------------------------------------------------------------
(***************************************************************************)
(* Distances: alignments of the first i characters of s with the first j   *)
(* of t, and what they cost.                                               *)
(***************************************************************************)
Ordered(a) ==
    \A p, q \in a : p # q => (p[1] < q[1] /\ p[2] < q[2]) \/ (q[1] < p[1] /\ q[2] < p[2])
Aligned(i, j) == {a \in SUBSET ((1..i) \X (1..j)) : Ordered(a)}

Deleted(i, a)     == {l \in 1..i : \A p \in a : p[1] # l}
Inserted(j, a)    == {l \in 1..j : \A p \in a : p[2] # l}
Replaced(s, t, a) == {p \in a : s[p[1]] # t[p[2]]}
Price(s, t, i, j, a) ==
    Cardinality(Deleted(i, a)) + Cardinality(Inserted(j, a)) + Cardinality(Replaced(s, t, a))

Unlike(s, t, i, j) == IF s[i] = t[j] THEN 0 ELSE 1

Counted(i, j, a, s, t) ==
    /\ IsFiniteSet(Deleted(i, a)) /\ Cardinality(Deleted(i, a)) \in Nat
    /\ IsFiniteSet(Inserted(j, a)) /\ Cardinality(Inserted(j, a)) \in Nat
    /\ IsFiniteSet(a)
    /\ IsFiniteSet(Replaced(s, t, a)) /\ Cardinality(Replaced(s, t, a)) \in Nat

LEMMA Countable ==
    ASSUME NEW i \in Nat, NEW j \in Nat, NEW a \in Aligned(i, j), NEW s, NEW t
    PROVE  Counted(i, j, a, s, t)
  <1>1. IsFiniteSet(1..i) /\ IsFiniteSet(1..j)
        BY FS_Interval
  <1>2. IsFiniteSet((1..i) \X (1..j))
        BY <1>1, FS_Product
  <1>3. IsFiniteSet(a)
        BY <1>2, FS_Subset DEF Aligned
  <1>4. Deleted(i, a) \in SUBSET (1..i) /\ Inserted(j, a) \in SUBSET (1..j)
        /\ Replaced(s, t, a) \in SUBSET a
        BY DEF Deleted, Inserted, Replaced
  <1>5. IsFiniteSet(Deleted(i, a)) /\ IsFiniteSet(Inserted(j, a)) /\ IsFiniteSet(Replaced(s, t, a))
        BY <1>1, <1>3, <1>4, FS_Subset
  <1> QED BY <1>3, <1>5, FS_CardinalityType DEF Counted

LEMMA DeleteOne ==
    ASSUME NEW i \in Nat, NEW j \in Nat, NEW a \in Aligned(i, j), NEW s, NEW t
    PROVE  /\ a \in Aligned(i + 1, j)
           /\ Price(s, t, i + 1, j, a) = Price(s, t, i, j, a) + 1
           /\ Price(s, t, i, j, a) \in Nat
  <1>1. Counted(i, j, a, s, t)
        BY Countable
  <1>2. a \in SUBSET ((1..i) \X (1..j)) /\ Ordered(a)
        BY DEF Aligned
  <1>3. \A p \in a : p[1] \in 1..i
        BY <1>2
  <1>4. a \in Aligned(i + 1, j)
    <2>1. (1..i) \X (1..j) \subseteq (1..i + 1) \X (1..j)
          OBVIOUS
    <2> QED BY <1>2, <2>1 DEF Aligned
  <1>5. Deleted(i + 1, a) = Deleted(i, a) \cup {i + 1} /\ i + 1 \notin Deleted(i, a)
        BY <1>3 DEF Deleted
  <1>6. Cardinality(Deleted(i + 1, a)) = Cardinality(Deleted(i, a)) + 1
        BY <1>1, <1>5, FS_AddElement DEF Counted
  <1> QED BY <1>1, <1>4, <1>6 DEF Counted, Price

LEMMA InsertOne ==
    ASSUME NEW i \in Nat, NEW j \in Nat, NEW a \in Aligned(i, j), NEW s, NEW t
    PROVE  /\ a \in Aligned(i, j + 1)
           /\ Price(s, t, i, j + 1, a) = Price(s, t, i, j, a) + 1
           /\ Price(s, t, i, j, a) \in Nat
  <1>1. Counted(i, j, a, s, t)
        BY Countable
  <1>2. a \in SUBSET ((1..i) \X (1..j)) /\ Ordered(a)
        BY DEF Aligned
  <1>3. \A p \in a : p[2] \in 1..j
        BY <1>2
  <1>4. a \in Aligned(i, j + 1)
    <2>1. (1..i) \X (1..j) \subseteq (1..i) \X (1..j + 1)
          OBVIOUS
    <2> QED BY <1>2, <2>1 DEF Aligned
  <1>5. Inserted(j + 1, a) = Inserted(j, a) \cup {j + 1} /\ j + 1 \notin Inserted(j, a)
        BY <1>3 DEF Inserted
  <1>6. Cardinality(Inserted(j + 1, a)) = Cardinality(Inserted(j, a)) + 1
        BY <1>1, <1>5, FS_AddElement DEF Counted
  <1> QED BY <1>1, <1>4, <1>6 DEF Counted, Price

PairOne(i, j, a, s, t, b) ==
    /\ b \in Aligned(i + 1, j + 1)
    /\ Price(s, t, i + 1, j + 1, b) = Price(s, t, i, j, a) + Unlike(s, t, i + 1, j + 1)
    /\ Price(s, t, i, j, a) \in Nat

LEMMA Paired ==
    ASSUME NEW i \in Nat, NEW j \in Nat, NEW a \in Aligned(i, j), NEW s, NEW t
    PROVE  PairOne(i, j, a, s, t, a \cup {<<i + 1, j + 1>>})
  <1> DEFINE x == <<i + 1, j + 1>>
             b == a \cup {x}
  <1>1. Counted(i, j, a, s, t)
        BY Countable
  <1>2. a \in SUBSET ((1..i) \X (1..j)) /\ Ordered(a)
        BY DEF Aligned
  <1>3. \A p \in a : p[1] \in 1..i /\ p[2] \in 1..j
        BY <1>2
  <1>4. x[1] = i + 1 /\ x[2] = j + 1 /\ x \in (1..i + 1) \X (1..j + 1)
        OBVIOUS
  <1> HIDE DEF x
  <1>5. x \notin a
        BY <1>3, <1>4
  <1>6. b \in Aligned(i + 1, j + 1)
    <2>1. (1..i) \X (1..j) \subseteq (1..i + 1) \X (1..j + 1)
          OBVIOUS
    <2>2. b \in SUBSET ((1..i + 1) \X (1..j + 1))
          BY <1>2, <1>4, <2>1
    <2>3. ASSUME NEW p \in a PROVE p[1] < x[1] /\ p[2] < x[2]
          BY <1>3, <1>4
    <2>4. Ordered(b)
          BY <1>2, <2>3 DEF Ordered
    <2> QED BY <2>2, <2>4 DEF Aligned
  <1>7. Deleted(i + 1, b) = Deleted(i, a) /\ Inserted(j + 1, b) = Inserted(j, a)
        BY <1>3, <1>4 DEF Deleted, Inserted
  <1>8. Cardinality(Replaced(s, t, b)) = Cardinality(Replaced(s, t, a)) + Unlike(s, t, i + 1, j + 1)
    <2>1. CASE s[i + 1] = t[j + 1]
      <3>1. Replaced(s, t, b) = Replaced(s, t, a)
            BY <1>4, <2>1 DEF Replaced
      <3> QED BY <1>1, <2>1, <3>1 DEF Counted, Unlike
    <2>2. CASE s[i + 1] # t[j + 1]
      <3>1. Replaced(s, t, b) = Replaced(s, t, a) \cup {x} /\ x \notin Replaced(s, t, a)
            BY <1>4, <1>5, <2>2 DEF Replaced
      <3>2. Cardinality(Replaced(s, t, b)) = Cardinality(Replaced(s, t, a)) + 1
            BY <1>1, <3>1, FS_AddElement DEF Counted
      <3> QED BY <2>2, <3>2 DEF Unlike
    <2> QED BY <2>1, <2>2
  <1> DEFINE u == Unlike(s, t, i + 1, j + 1)
  <1>9. u \in Nat
        BY DEF Unlike
  <1> HIDE DEF u, b
  <1>10. Price(s, t, i + 1, j + 1, b) = Price(s, t, i, j, a) + u /\ Price(s, t, i, j, a) \in Nat
        BY <1>1, <1>7, <1>8, <1>9 DEF Counted, Price, u
  <1> QED BY <1>6, <1>10 DEF PairOne, b, u, x

(***************************************************************************)
(* The last characters are paired, or one of them is not.                  *)
(***************************************************************************)
EndsPaired(i, j, a) == \E b \in Aligned(i, j) : a = b \cup {<<i + 1, j + 1>>}

LEMMA Ends ==
    ASSUME NEW i \in Nat, NEW j \in Nat, NEW a \in Aligned(i + 1, j + 1)
    PROVE  a \in Aligned(i, j + 1) \/ a \in Aligned(i + 1, j) \/ EndsPaired(i, j, a)
  <1>1. a \in SUBSET ((1..i + 1) \X (1..j + 1)) /\ Ordered(a)
        BY DEF Aligned
  <1>2. \A p \in a : p = <<p[1], p[2]>> /\ p[1] \in 1..i + 1 /\ p[2] \in 1..j + 1
        BY <1>1
  <1>3. ASSUME \A p \in a : p[1] # i + 1 PROVE a \in Aligned(i, j + 1)
    <2>1. \A p \in a : p \in (1..i) \X (1..j + 1)
      <3> TAKE p \in a
      <3>1. p = <<p[1], p[2]>> /\ p[1] \in 1..i /\ p[2] \in 1..j + 1
            BY <1>2, <1>3
      <3> QED BY <3>1
    <2> QED BY <1>1, <2>1 DEF Aligned
  <1>4. ASSUME \A p \in a : p[2] # j + 1 PROVE a \in Aligned(i + 1, j)
    <2>1. \A p \in a : p \in (1..i + 1) \X (1..j)
      <3> TAKE p \in a
      <3>1. p = <<p[1], p[2]>> /\ p[1] \in 1..i + 1 /\ p[2] \in 1..j
            BY <1>2, <1>4
      <3> QED BY <3>1
    <2> QED BY <1>1, <2>1 DEF Aligned
  <1>5. ASSUME NEW p \in a, NEW q \in a, p[1] = i + 1, q[2] = j + 1 PROVE EndsPaired(i, j, a)
    <2>1. p = q
      <3>1. p[2] \in 1..j + 1 /\ q[1] \in 1..i + 1
            BY <1>2
      <3>2. ~(p[1] < q[1]) /\ ~(q[2] < p[2])
            BY <1>5, <3>1
      <3> QED BY <1>1, <3>2 DEF Ordered
    <2>2. p = <<i + 1, j + 1>>
          BY <1>2, <1>5, <2>1
    <2> DEFINE b == a \ {p}
    <2>3. \A r \in b : r \in (1..i) \X (1..j)
      <3> TAKE r \in b
      <3>1. r \in a /\ r # p
            OBVIOUS
      <3>2. r = <<r[1], r[2]>> /\ r[1] \in 1..i + 1 /\ r[2] \in 1..j + 1
            BY <1>2, <3>1
      <3>3. (r[1] < p[1] /\ r[2] < p[2]) \/ (p[1] < r[1] /\ p[2] < r[2])
            BY <1>1, <3>1 DEF Ordered
      <3>4. p[1] = i + 1 /\ p[2] = j + 1
            BY <1>5, <2>1
      <3>5. r[1] \in 1..i /\ r[2] \in 1..j
            BY <3>2, <3>3, <3>4
      <3> QED BY <3>2, <3>5
    <2>4. b \in Aligned(i, j)
      <3>1. Ordered(b)
            BY <1>1 DEF Ordered
      <3> QED BY <2>3, <3>1 DEF Aligned
    <2>5. a = b \cup {<<i + 1, j + 1>>}
          BY <2>2
    <2> HIDE DEF b
    <2> QED BY <2>4, <2>5 DEF EndsPaired
  <1> QED BY <1>3, <1>4, <1>5

LEMMA NoneAligned ==
    ASSUME NEW i \in Nat, NEW j \in Nat, i = 0 \/ j = 0, NEW s, NEW t
    PROVE  Aligned(i, j) = {{}} /\ Price(s, t, i, j, {}) = i + j
  <1>1. (1..i) \X (1..j) = {}
        OBVIOUS
  <1>2. Ordered({})
        BY DEF Ordered
  <1>3. Aligned(i, j) = {{}}
        BY <1>1, <1>2 DEF Aligned
  <1>4. Deleted(i, {}) = 1..i /\ Inserted(j, {}) = 1..j /\ Replaced(s, t, {}) = {}
        BY DEF Deleted, Inserted, Replaced
  <1>5. Cardinality(1..i) = i /\ Cardinality(1..j) = j
        BY FS_Interval
  <1>6. Cardinality({}) = 0
        BY FS_EmptySet
  <1>7. Price(s, t, i, j, {}) = (i + j) + 0
        BY <1>4, <1>5, <1>6 DEF Price
  <1> QED BY <1>3, <1>7

Smallest(d, a, b, c) == d \in {a, b, c} /\ d <= a /\ d <= b /\ d <= c

LEMMA MinimumIs ==
    ASSUME NEW a \in Nat, NEW b \in Nat, NEW c \in Nat
    PROVE  Smallest(minimum(a, b, c), a, b, c)
  <1> DEFINE S == {a, b, c}
             m == CHOOSE x \in S : \A y \in S : x <= y
  <1>1. \E x \in S : \A y \in S : x <= y
        OBVIOUS
  <1>2. m \in S /\ \A y \in S : m <= y
        BY <1>1
  <1>3. minimum(a, b, c) = m
        BY DEF minimum, Minima!Min
  <1> HIDE DEF m
  <1> QED BY <1>2, <1>3 DEF Smallest

(***************************************************************************)
(* d is the price of the cheapest alignment of the first characters.       *)
(***************************************************************************)
Reached(s, t, i, j, d)  == \E a \in Aligned(i, j) : Price(s, t, i, j, a) = d
Cheapest(s, t, i, j, d) == \A a \in Aligned(i, j) : d <= Price(s, t, i, j, a)
LeastPrice(s, t, i, j, d) == d \in Nat /\ Reached(s, t, i, j, d) /\ Cheapest(s, t, i, j, d)

LEMMA LeastStep ==
    ASSUME NEW s, NEW t, NEW i \in Nat, NEW j \in Nat, NEW x, NEW y, NEW z,
           LeastPrice(s, t, i, j, x), LeastPrice(s, t, i + 1, j, y), LeastPrice(s, t, i, j + 1, z)
    PROVE  LeastPrice(s, t, i + 1, j + 1, minimum(y + 1, z + 1, x + Unlike(s, t, i + 1, j + 1)))
  <1> DEFINE u == Unlike(s, t, i + 1, j + 1)
             d == minimum(y + 1, z + 1, x + u)
             P(a) == Price(s, t, i + 1, j + 1, a)
  <1>1. u \in Nat /\ x \in Nat /\ y \in Nat /\ z \in Nat
        BY DEF Unlike, LeastPrice
  <1>2. i + 1 \in Nat /\ j + 1 \in Nat
        OBVIOUS
  <1> HIDE DEF u
  <1>3. y + 1 \in Nat /\ z + 1 \in Nat /\ x + u \in Nat
        BY <1>1
  <1>4. Smallest(d, y + 1, z + 1, x + u)
        BY <1>3, MinimumIs
  <1> HIDE DEF d
  <1>5. d \in {y + 1, z + 1, x + u} /\ d <= y + 1 /\ d <= z + 1 /\ d <= x + u
        BY <1>4 DEF Smallest
  <1>6. ASSUME NEW a \in Aligned(i, j + 1)
        PROVE  a \in Aligned(i + 1, j + 1) /\ P(a) = Price(s, t, i, j + 1, a) + 1
               /\ Price(s, t, i, j + 1, a) \in Nat
        BY <1>2, DeleteOne
  <1>7. ASSUME NEW a \in Aligned(i + 1, j)
        PROVE  a \in Aligned(i + 1, j + 1) /\ P(a) = Price(s, t, i + 1, j, a) + 1
               /\ Price(s, t, i + 1, j, a) \in Nat
        BY <1>2, InsertOne
  <1>8. ASSUME NEW a \in Aligned(i, j), NEW b, b = a \cup {<<i + 1, j + 1>>}
        PROVE  b \in Aligned(i + 1, j + 1) /\ P(b) = Price(s, t, i, j, a) + u
               /\ Price(s, t, i, j, a) \in Nat
    <2>1. PairOne(i, j, a, s, t, b)
          BY <1>8, Paired
    <2> QED BY <2>1 DEF PairOne, u
  <1> HIDE DEF P
  <1>9. ASSUME NEW a \in Aligned(i + 1, j + 1) PROVE d <= P(a)
    <2>1. CASE a \in Aligned(i, j + 1)
      <3> DEFINE v == Price(s, t, i, j + 1, a)
      <3>1. P(a) = v + 1 /\ v \in Nat
            BY <1>6, <2>1
      <3>2. z <= v
            BY <2>1 DEF LeastPrice, Cheapest
      <3> HIDE DEF v
      <3> QED BY <1>1, <1>3, <1>5, <3>1, <3>2
    <2>2. CASE a \in Aligned(i + 1, j)
      <3> DEFINE v == Price(s, t, i + 1, j, a)
      <3>1. P(a) = v + 1 /\ v \in Nat
            BY <1>7, <2>2
      <3>2. y <= v
            BY <2>2 DEF LeastPrice, Cheapest
      <3> HIDE DEF v
      <3> QED BY <1>1, <1>3, <1>5, <3>1, <3>2
    <2>3. CASE EndsPaired(i, j, a)
      <3>1. PICK b \in Aligned(i, j) : a = b \cup {<<i + 1, j + 1>>}
            BY <2>3 DEF EndsPaired
      <3> DEFINE v == Price(s, t, i, j, b)
      <3>2. P(a) = v + u /\ v \in Nat
            BY <1>8, <3>1
      <3>3. x <= v
            BY DEF LeastPrice, Cheapest
      <3> HIDE DEF v
      <3> QED BY <1>1, <1>3, <1>5, <3>2, <3>3
    <2> QED BY <2>1, <2>2, <2>3, Ends
  <1>10. \E a \in Aligned(i + 1, j + 1) : P(a) = d
    <2>1. CASE d = y + 1
      <3>1. PICK a \in Aligned(i + 1, j) : Price(s, t, i + 1, j, a) = y
            BY DEF LeastPrice, Reached
      <3> QED BY <1>7, <2>1, <3>1
    <2>2. CASE d = z + 1
      <3>1. PICK a \in Aligned(i, j + 1) : Price(s, t, i, j + 1, a) = z
            BY DEF LeastPrice, Reached
      <3> QED BY <1>6, <2>2, <3>1
    <2>3. CASE d = x + u
      <3>1. PICK a \in Aligned(i, j) : Price(s, t, i, j, a) = x
            BY DEF LeastPrice, Reached
      <3> DEFINE b == a \cup {<<i + 1, j + 1>>}
      <3>2. b \in Aligned(i + 1, j + 1) /\ P(b) = x + u
            BY <1>8, <3>1
      <3> HIDE DEF b
      <3> QED BY <2>3, <3>2
    <2> QED BY <1>5, <2>1, <2>2, <2>3
  <1>11. d \in Nat
        BY <1>3, <1>5
  <1> QED BY <1>9, <1>10, <1>11 DEF LeastPrice, Reached, Cheapest, P, d, u

LEMMA LeastStart ==
    ASSUME NEW i \in Nat, NEW j \in Nat, i = 0 \/ j = 0, NEW s, NEW t
    PROVE  LeastPrice(s, t, i, j, i + j)
  <1>1. Aligned(i, j) = {{}} /\ Price(s, t, i, j, {}) = i + j
        BY NoneAligned
  <1> QED BY <1>1 DEF LeastPrice, Reached, Cheapest

(***************************************************************************)
(* One row from the one before.                                            *)
(***************************************************************************)
CellE(v0, i, s, t, f, j) ==
    IF j = 0 THEN i + 1
    ELSE minimum(f[j - 1] + 1, v0[j] + 1, v0[j - 1] + (IF s[i + 1] = t[j] THEN 0 ELSE 1))
IsRow(f, v0, i, s, t) == f = [j \in 0..Len(t) |-> CellE(v0, i, s, t, f, j)]

RowOf(f, v0, i, s, t, m) ==
    /\ f \in [0..m -> Nat] /\ f[0] = i + 1
    /\ \A j \in 1..m : f[j] = minimum(f[j - 1] + 1, v0[j] + 1, v0[j - 1] + Unlike(s, t, i + 1, j))

LEMMA NextRowIs ==
    ASSUME NEW t, NEW m \in Nat, m = Len(t), NEW v0 \in [0..m -> Nat], NEW i \in Nat, NEW s
    PROVE  RowOf(NextRow(v0, i, s, t), v0, i, s, t, m)
  <1> DEFINE f == NextRow(v0, i, s, t)
             u(j) == Unlike(s, t, i + 1, j)
             M(x, j) == minimum(x + 1, v0[j] + 1, v0[j - 1] + u(j))
             G == [j \in 1..m |-> [x \in Nat |-> M(x, j)]]
  <1>1. f = CHOOSE g : IsRow(g, v0, i, s, t)
        BY DEF NextRow, IsRow, CellE
  <1>2. \A j \in Nat : u(j) \in Nat
        BY DEF Unlike
  <1> HIDE DEF f
  <1>3. ASSUME NEW x \in Nat, NEW j \in 1..m PROVE M(x, j) \in Nat
    <2> DEFINE a == x + 1   b == v0[j] + 1   c == v0[j - 1] + u(j)
    <2>1. a \in Nat /\ b \in Nat
          OBVIOUS
    <2>2. c \in Nat
      <3>1. u(j) \in Nat
            BY <1>2
      <3>2. v0[j - 1] \in Nat
            OBVIOUS
      <3> HIDE DEF u
      <3> QED BY <3>1, <3>2
    <2> HIDE DEF a, b, c
    <2>3. Smallest(minimum(a, b, c), a, b, c)
          BY <2>1, <2>2, MinimumIs
    <2>4. minimum(a, b, c) \in Nat
          BY <2>1, <2>2, <2>3 DEF Smallest
    <2> QED BY <2>4 DEF a, b, c
  <1> HIDE DEF M
  <1>4. G \in Steps(Nat, m)
        BY <1>3 DEF Steps
  <1>5. \A j \in 1..m, x \in Nat : G[j][x] = M(x, j)
        OBVIOUS
  <1> HIDE DEF G
  <1>6. i + 1 \in Nat
        OBVIOUS
  <1>7. PICK g : Follows(g, Nat, m, i + 1, G)
        BY <1>4, <1>6, Recursion
  <1>8. /\ g \in [0..m -> Nat] /\ g[0] = i + 1
        /\ \A j \in 1..m : g[j] = G[j][g[j - 1]]
        BY <1>7 DEF Follows
  <1>9. ASSUME NEW j \in 0..m PROVE g[j] = CellE(v0, i, s, t, g, j)
    <2>1. CASE j = 0
          BY <1>8, <2>1 DEF CellE
    <2>2. CASE j # 0
      <3>1. j \in 1..m /\ j - 1 \in 0..m
            BY <2>2
      <3>2. g[j] = G[j][g[j - 1]] /\ g[j - 1] \in Nat
            BY <1>8, <3>1
      <3>3. g[j] = M(g[j - 1], j)
            BY <1>5, <3>1, <3>2
      <3> QED BY <2>2, <3>3 DEF CellE, M, u, Unlike
    <2> QED BY <2>1, <2>2
  <1>10. IsRow(g, v0, i, s, t)
        BY <1>8, <1>9 DEF IsRow
  <1>11. IsRow(f, v0, i, s, t)
        BY <1>1, <1>10
  <1>12. f = [j \in 0..m |-> CellE(v0, i, s, t, f, j)]
        BY <1>11 DEF IsRow
  <1>13. f[0] = i + 1
        BY <1>12 DEF CellE
  <1>14. \A j \in 1..m : f[j] = M(f[j - 1], j)
    <2> TAKE j \in 1..m
    <2>1. j \in 0..m /\ j # 0
          OBVIOUS
    <2>2. f[j] = CellE(v0, i, s, t, f, j)
          BY <1>12, <2>1
    <2> QED BY <2>1, <2>2 DEF CellE, M, u, Unlike
  <1> DEFINE S == {j \in Nat : j <= m => f[j] \in Nat}
  <1>15. 0 \in S
        BY <1>6, <1>13
  <1>16. ASSUME NEW j \in Nat, j \in S PROVE j + 1 \in S
    <2> SUFFICES ASSUME j + 1 <= m PROVE f[j + 1] \in Nat
        OBVIOUS
    <2>1. j + 1 \in 1..m /\ (j + 1) - 1 = j /\ f[j] \in Nat
          BY <1>16
    <2>2. f[j + 1] = M(f[j], j + 1)
          BY <1>14, <2>1
    <2> QED BY <1>3, <2>1, <2>2
  <1> HIDE DEF S
  <1>17. ASSUME NEW j \in 0..m PROVE f[j] \in Nat
    <2>1. j \in Nat /\ j <= m
          OBVIOUS
    <2>2. j \in S
          BY <1>15, <1>16, <2>1, Induct
    <2> QED BY <2>1, <2>2 DEF S
  <1>18. f \in [0..m -> Nat]
        BY <1>12, <1>17
  <1> QED BY <1>13, <1>14, <1>18 DEF RowOf, M, u, f

RowLeast(s, t, i, m, f) == \A j \in 0..m : LeastPrice(s, t, i, j, f[j])

LEMMA RowsKeep ==
    ASSUME NEW t, NEW m \in Nat, m = Len(t), NEW v0 \in [0..m -> Nat], NEW i \in Nat, NEW s,
           RowLeast(s, t, i, m, v0)
    PROVE  RowLeast(s, t, i + 1, m, NextRow(v0, i, s, t))
  <1> DEFINE f == NextRow(v0, i, s, t)
  <1>1. RowOf(f, v0, i, s, t, m)
        BY NextRowIs
  <1> HIDE DEF f
  <1>2. /\ f[0] = i + 1
        /\ \A j \in 1..m :
              f[j] = minimum(f[j - 1] + 1, v0[j] + 1, v0[j - 1] + Unlike(s, t, i + 1, j))
        BY <1>1 DEF RowOf
  <1> DEFINE S == {j \in Nat : j <= m => LeastPrice(s, t, i + 1, j, f[j])}
  <1>3. 0 \in S
    <2>1. i + 1 \in Nat /\ (i + 1) + 0 = i + 1
          OBVIOUS
    <2>2. LeastPrice(s, t, i + 1, 0, (i + 1) + 0)
          BY <2>1, LeastStart
    <2> QED BY <1>2, <2>1, <2>2
  <1>4. ASSUME NEW j \in Nat, j \in S PROVE j + 1 \in S
    <2> SUFFICES ASSUME j + 1 <= m PROVE LeastPrice(s, t, i + 1, j + 1, f[j + 1])
        OBVIOUS
    <2>1. j + 1 \in 1..m /\ (j + 1) - 1 = j /\ j \in 0..m /\ j + 1 \in 0..m
          OBVIOUS
    <2>2. f[j + 1] = minimum(f[j] + 1, v0[j + 1] + 1, v0[j] + Unlike(s, t, i + 1, j + 1))
          BY <1>2, <2>1
    <2>3. LeastPrice(s, t, i + 1, j, f[j])
          BY <1>4, <2>1
    <2>4. LeastPrice(s, t, i, j, v0[j]) /\ LeastPrice(s, t, i, j + 1, v0[j + 1])
          BY <2>1 DEF RowLeast
    <2> QED BY <2>2, <2>3, <2>4, LeastStep
  <1> HIDE DEF S
  <1>5. ASSUME NEW j \in 0..m PROVE LeastPrice(s, t, i + 1, j, f[j])
    <2>1. j \in Nat /\ j <= m
          OBVIOUS
    <2>2. j \in S
          BY <1>3, <1>4, <2>1, Induct
    <2> QED BY <2>1, <2>2 DEF S
  <1> QED BY <1>5 DEF RowLeast, f

(***************************************************************************)
(* All rows.                                                               *)
(***************************************************************************)
RowsE(s, t, f, n) == IF n = 0 THEN [j \in 0..Len(t) |-> j] ELSE NextRow(f[n - 1], n - 1, s, t)
IsRows(f, s, t) == f = [n \in 0..Len(s) |-> RowsE(s, t, f, n)]

LEMMA RowsLeast ==
    ASSUME NEW s, NEW n \in Nat, n = Len(s), NEW t, NEW m \in Nat, m = Len(t),
           NEW f, f = CHOOSE g : IsRows(g, s, t)
    PROVE  LeastPrice(s, t, n, m, f[n][m])
  <1> DEFINE A == [0..m -> Nat]
             G == [k \in 1..n |-> [v \in A |-> NextRow(v, k - 1, s, t)]]
             first == [j \in 0..m |-> j]
  <1>1. first \in A
        OBVIOUS
  <1> HIDE DEF first
  <1>2. ASSUME NEW k \in 1..n, NEW v \in A PROVE NextRow(v, k - 1, s, t) \in A
    <2>1. k - 1 \in Nat
          OBVIOUS
    <2>2. RowOf(NextRow(v, k - 1, s, t), v, k - 1, s, t, m)
          BY <2>1, NextRowIs
    <2> QED BY <2>2 DEF RowOf
  <1> HIDE DEF A
  <1>3. G \in Steps(A, n)
        BY <1>2 DEF Steps
  <1>4. \A k \in 1..n, v \in A : G[k][v] = NextRow(v, k - 1, s, t)
        OBVIOUS
  <1> HIDE DEF G
  <1>5. PICK g : Follows(g, A, n, first, G)
        BY <1>1, <1>3, Recursion
  <1>6. /\ g \in [0..n -> A] /\ g[0] = first
        /\ \A k \in 1..n : g[k] = G[k][g[k - 1]]
        BY <1>5 DEF Follows
  <1>7. ASSUME NEW k \in 0..n PROVE g[k] = RowsE(s, t, g, k)
    <2>1. CASE k = 0
          BY <1>6, <2>1 DEF RowsE, first
    <2>2. CASE k # 0
      <3>1. k \in 1..n /\ k - 1 \in 0..n
            BY <2>2
      <3>2. g[k] = G[k][g[k - 1]] /\ g[k - 1] \in A
            BY <1>6, <3>1
      <3>3. g[k] = NextRow(g[k - 1], k - 1, s, t)
            BY <1>4, <3>1, <3>2
      <3> QED BY <2>2, <3>3 DEF RowsE
    <2> QED BY <2>1, <2>2
  <1>8. IsRows(g, s, t)
        BY <1>6, <1>7 DEF IsRows
  <1>9. IsRows(f, s, t)
        BY <1>8
  <1>10. f = [k \in 0..n |-> RowsE(s, t, f, k)]
        BY <1>9 DEF IsRows
  <1>11. f[0] = first
    <2>1. f[0] = RowsE(s, t, f, 0)
          BY <1>10
    <2> QED BY <2>1 DEF RowsE, first
  <1>12. \A k \in 1..n : f[k] = NextRow(f[k - 1], k - 1, s, t)
    <2> TAKE k \in 1..n
    <2>1. k \in 0..n /\ k # 0
          OBVIOUS
    <2>2. f[k] = RowsE(s, t, f, k)
          BY <1>10, <2>1
    <2> QED BY <2>1, <2>2 DEF RowsE
  <1> DEFINE S == {k \in Nat : k <= n => f[k] \in A /\ RowLeast(s, t, k, m, f[k])}
  <1>13. 0 \in S
    <2>1. ASSUME NEW j \in 0..m PROVE LeastPrice(s, t, 0, j, first[j])
      <3>1. first[j] = j /\ 0 + j = j /\ j \in Nat /\ 0 \in Nat
            BY DEF first
      <3>2. LeastPrice(s, t, 0, j, 0 + j)
            BY <3>1, LeastStart
      <3> QED BY <3>1, <3>2
    <2>2. RowLeast(s, t, 0, m, first)
          BY <2>1 DEF RowLeast
    <2> QED BY <1>1, <1>11, <2>2
  <1>14. ASSUME NEW k \in Nat, k \in S PROVE k + 1 \in S
    <2> SUFFICES ASSUME k + 1 <= n
                 PROVE  f[k + 1] \in A /\ RowLeast(s, t, k + 1, m, f[k + 1])
        OBVIOUS
    <2> DEFINE v == f[k]
    <2>1. k + 1 \in 1..n /\ (k + 1) - 1 = k /\ v \in A /\ RowLeast(s, t, k, m, v)
          BY <1>14
    <2>2. f[k + 1] = NextRow(v, k, s, t)
          BY <1>12, <2>1
    <2> HIDE DEF v
    <2>3. f[k + 1] \in A
          BY <1>2, <2>1, <2>2
    <2>4. RowLeast(s, t, k + 1, m, NextRow(v, k, s, t))
          BY <2>1, RowsKeep DEF A
    <2> QED BY <2>2, <2>3, <2>4
  <1> HIDE DEF S
  <1>15. n \in S
        BY <1>13, <1>14, Induct
  <1>16. RowLeast(s, t, n, m, f[n]) /\ m \in 0..m
        BY <1>15 DEF S
  <1> QED BY <1>16 DEF RowLeast

(***************************************************************************)
(* A string is aligned with itself for nothing.                            *)
(***************************************************************************)
LEMMA SameLeast ==
    ASSUME NEW s, NEW n \in Nat
    PROVE  LeastPrice(s, s, n, n, 0)
  <1> DEFINE S == {k \in Nat : \E a \in Aligned(k, k) : Price(s, s, k, k, a) = 0}
  <1>1. 0 \in S
    <2>1. Aligned(0, 0) = {{}} /\ Price(s, s, 0, 0, {}) = 0 + 0
          BY NoneAligned
    <2> QED BY <2>1
  <1>2. ASSUME NEW k \in Nat, k \in S PROVE k + 1 \in S
    <2>1. PICK a \in Aligned(k, k) : Price(s, s, k, k, a) = 0
          BY <1>2
    <2> DEFINE b == a \cup {<<k + 1, k + 1>>}
    <2>2. PairOne(k, k, a, s, s, b)
          BY Paired
    <2> HIDE DEF b
    <2>3. b \in Aligned(k + 1, k + 1) /\ Price(s, s, k + 1, k + 1, b) = 0
          BY <2>1, <2>2 DEF PairOne, Unlike
    <2> QED BY <2>3
  <1> HIDE DEF S
  <1>3. n \in S
        BY <1>1, <1>2, Induct
  <1>4. \E a \in Aligned(n, n) : Price(s, s, n, n, a) = 0
        BY <1>3 DEF S
  <1>5. ASSUME NEW a \in Aligned(n, n) PROVE 0 <= Price(s, s, n, n, a)
        BY DeleteOne
  <1> QED BY <1>4, <1>5 DEF LeastPrice, Reached, Cheapest

LEMMA LeastIsDistance ==
    ASSUME NEW s, NEW n \in Nat, n = Len(s), NEW t, NEW m \in Nat, m = Len(t),
           NEW d, LeastPrice(s, t, n, m, d)
    PROVE  d = EditDistance(s, t)
  <1> DEFINE S == {Cost(s, t, a) : a \in Alignments(s, t)}
             e == CHOOSE x \in S : \A y \in S : x <= y
  <1>1. Alignments(s, t) = Aligned(n, m)
        BY DEF Alignments, Aligned, Ordered
  <1>2. ASSUME NEW a PROVE Cost(s, t, a) = Price(s, t, n, m, a)
        BY DEF Cost, Price, Deleted, Inserted, Replaced
  <1>3. S = {Price(s, t, n, m, a) : a \in Aligned(n, m)}
        BY <1>1, <1>2
  <1> HIDE DEF S
  <1>4. \A x \in S : x \in Nat
    <2>1. ASSUME NEW a \in Aligned(n, m) PROVE Price(s, t, n, m, a) \in Nat
          BY DeleteOne
    <2> QED BY <1>3, <2>1
  <1>5. d \in S /\ \A y \in S : d <= y
        BY <1>3 DEF LeastPrice, Reached, Cheapest
  <1>6. e \in S /\ \A y \in S : e <= y
        BY <1>5
  <1>7. EditDistance(s, t) = e
        BY DEF EditDistance, Minima!Min, S
  <1> HIDE DEF e
  <1>8. d \in Nat /\ e \in Nat /\ d <= e /\ e <= d
        BY <1>4, <1>5, <1>6
  <1> QED BY <1>7, <1>8

LEMMA DistanceRight ==
    ASSUME NEW s \in Seq(Chars), NEW t \in Seq(Chars), NEW cell
    PROVE  DistanceIsLeast(s, t, ac_str_levenshtein(s, t, cell))
  <1> DEFINE n == Len(s)
             m == Len(t)
             f == CHOOSE g : IsRows(g, s, t)
             d == ac_str_levenshtein(s, t, cell)
  <1>1. n \in Nat /\ m \in Nat
        OBVIOUS
  <1> SUFFICES ASSUME s # << >> PROVE d = EditDistance(s, t)
      BY DEF DistanceIsLeast
  <1>2. d = IF s = t THEN 0 ELSE f[n][m]
        BY DEF ac_str_levenshtein, IsRows, RowsE
  <1> HIDE DEF f, d, n, m
  <1>3. LeastPrice(s, t, n, m, f[n][m])
        BY <1>1, RowsLeast DEF f, n, m
  <1>4. s = t => LeastPrice(s, t, n, m, 0)
        BY <1>1, SameLeast DEF n, m
  <1>5. LeastPrice(s, t, n, m, d)
        BY <1>2, <1>3, <1>4
  <1> QED BY <1>1, <1>5, LeastIsDistance DEF n, m

LEMMA DistancesNow == ASSUME AskInv PROVE DistancesRight
  <1>1. ASSUME Answered("levenshtein") PROVE DistanceIsLeast(asked.s, asked.t, reply)
    <2>1. PICK s \in Spellings, t \in Spellings : asked = [fn |-> "levenshtein", s |-> s, t |-> t]
          BY <1>1, AsksOne DEF AsksLevenshtein, Answered
    <2>2. PICK cell \in Cells : reply = ac_str_levenshtein(s, t, cell)
          BY <1>1, <2>1 DEF AskInv, Answered, Replied, Is
    <2>3. s \in Seq(Chars) /\ t \in Seq(Chars)
          BY CallsAssumption DEF CharsAssumption
    <2> QED BY <2>1, <2>2, <2>3, DistanceRight
  <1> QED BY <1>1 DEF DistancesRight

(***************************************************************************)
(* The two rows of ac_str_levenshtein end with the price of the cheapest   *)
(* alignment of two strings of any lengths, the second of which may be     *)
(* empty.                                                                  *)
(***************************************************************************)
THEOREM DistancesAreLeast == AskSpec => []DistancesRight
  BY AskAlways, DistancesNow, PTL

(***************************************************************************)
(* Strings of any length are split, trimmed, cut and given back as said,   *)
(* names are passed or not as they may be put together, and the edit       *)
(* distance is the least.                                                  *)
(***************************************************************************)
THEOREM StringsAreKept == AskSpec => []StringsRight
  BY AskAlways, StringsNow, DistancesNow, PTL
----------------------------------------------------------------------------
(***************************************************************************)
(* Trees: recursion on them, which the height of a tree bounds, and        *)
(* induction by it.                                                        *)
(***************************************************************************)
Below(side) == [t \in Trees |-> IF t = << >> THEN t ELSE t[side]]

LEMMA TreeParts ==
    /\ << >> \in Trees
    /\ \A t \in Nodes :
          /\ t \in Trees /\ t # << >> /\ t[1] \in Trees /\ t[2] \in Int /\ t[3] \in Trees
          /\ Height[t] \in Nat /\ Height[t[1]] < Height[t] /\ Height[t[3]] < Height[t]
          /\ \A key \in KeysOf[t[1]] : key < t[2]
          /\ \A key \in KeysOf[t[3]] : t[2] < key
  <1>1. TreesAssumption
        BY CallsAssumption
  <1> QED BY <1>1 DEF TreesAssumption, Nodes

LEMMA TreeInduct ==
    ASSUME NEW P, << >> \in P,
           \A t \in Nodes : t[1] \in P /\ t[3] \in P => t \in P
    PROVE  Trees \subseteq P
  <1> DEFINE Low == {n \in Nat : \A t \in Trees : Height[t] < n => t \in P}
  <1>0. \A t \in Trees : Height[t] \in Nat
        BY CallsAssumption DEF TreesAssumption
  <1>1. 0 \in Low
        BY <1>0
  <1>2. ASSUME NEW n \in Nat, n \in Low PROVE n + 1 \in Low
    <2> SUFFICES ASSUME NEW t \in Trees, Height[t] < n + 1 PROVE t \in P
        OBVIOUS
    <2>1. CASE t = << >>
          BY <2>1
    <2>2. CASE t # << >>
      <3>1. t \in Nodes /\ t[1] \in Trees /\ t[3] \in Trees
            BY <2>2, TreeParts DEF Nodes
      <3>2. Height[t] \in Nat /\ Height[t[1]] \in Nat /\ Height[t[3]] \in Nat
            /\ Height[t[1]] < Height[t] /\ Height[t[3]] < Height[t]
            BY <1>0, <3>1, TreeParts
      <3>3. Height[t[1]] < n /\ Height[t[3]] < n
            BY <3>2
      <3>4. t[1] \in P /\ t[3] \in P
            BY <1>2, <3>1, <3>3
      <3> QED BY <3>1, <3>4
    <2> QED BY <2>1, <2>2
  <1> HIDE DEF Low
  <1>3. Nat \subseteq Low
        BY <1>1, <1>2, Induct
  <1>4. ASSUME NEW t \in Trees PROVE t \in P
    <2>1. Height[t] \in Nat /\ Height[t] + 1 \in Nat /\ Height[t] < Height[t] + 1
          BY <1>0
    <2> QED BY <1>3, <2>1 DEF Low
  <1> QED BY <1>4

(***************************************************************************)
(* A function on trees that is given by its value x for the empty tree and *)
(* by G from its values for both trees of a node.                          *)
(***************************************************************************)
OnTrees(f, S, x, G) ==
    /\ f \in [Trees -> S]
    /\ f[<< >>] = x
    /\ \A t \in Nodes : f[t] = G[t][f[t[1]]][f[t[3]]]

LEMMA TreeRecursion ==
    ASSUME NEW S, NEW x \in S, NEW G \in [Nodes -> [S -> [S -> S]]]
    PROVE  \E f : OnTrees(f, S, x, G)
  <1> DEFINE L == Below(1)
             R == Below(3)
             B == [t \in Trees |-> x]
             A == [t \in Trees |-> IF t = << >> THEN [u \in S |-> [v \in S |-> x]] ELSE G[t]]
  <1>1. Descends(Trees, Height, {<< >>}, L, R)
    <2>1. Height \in [Trees -> Nat]
          BY CallsAssumption DEF TreesAssumption
    <2>2. \A t \in Trees : t # << >> => t \in Nodes
          BY DEF Nodes
    <2>3. L \in [Trees -> Trees] /\ R \in [Trees -> Trees]
          BY <2>2, TreeParts DEF Below
    <2>4. ASSUME NEW t \in Trees, t \notin {<< >>}
          PROVE  Height[L[t]] < Height[t] /\ Height[R[t]] < Height[t]
      <3>1. t \in Nodes /\ L[t] = t[1] /\ R[t] = t[3]
            BY <2>2, <2>4 DEF Below
      <3> QED BY <3>1, TreeParts
    <2> HIDE DEF L, R
    <2> QED BY <2>1, <2>3, <2>4 DEF Descends
  <1>2. B \in [Trees -> S]
        OBVIOUS
  <1>3. A \in Combines(Trees, S)
    <2>1. ASSUME NEW t \in Trees, t # << >> PROVE A[t] \in [S -> [S -> S]]
          BY <2>1 DEF Nodes
    <2>2. [u \in S |-> [v \in S |-> x]] \in [S -> [S -> S]]
          OBVIOUS
    <2>3. \A t \in Trees : A[t] \in [S -> [S -> S]]
          BY <2>1, <2>2
    <2> QED BY <2>3 DEF Combines
  <1>4. \A t \in Nodes : L[t] = t[1] /\ R[t] = t[3] /\ A[t] = G[t] /\ t \in Trees /\ t # << >>
        BY TreeParts DEF Below
  <1>5. B[<< >>] = x /\ << >> \in Trees
        BY TreeParts
  <1> HIDE DEF L, R, A, B
  <1>6. PICK f : Recurs(f, Trees, S, {<< >>}, B, L, R, A)
        BY <1>1, <1>2, <1>3, Measured
  <1>7. f \in [Trees -> S] /\ f[<< >>] = x
        BY <1>5, <1>6 DEF Recurs
  <1>8. ASSUME NEW t \in Nodes PROVE f[t] = G[t][f[t[1]]][f[t[3]]]
    <2>1. f[t] = A[t][f[L[t]]][f[R[t]]]
          BY <1>4, <1>6 DEF Recurs
    <2> QED BY <1>4, <2>1
  <1> QED BY <1>7, <1>8 DEF OnTrees

LEMMA KeysAre ==
    /\ KeysOf \in [Trees -> (SUBSET Int)]
    /\ KeysOf[<< >>] = {}
    /\ \A t \in Nodes : KeysOf[t] = (KeysOf[t[1]] \cup {t[2]}) \cup KeysOf[t[3]]
  <1> DEFINE E(f, root) == IF root = << >> THEN {} ELSE (f[root[1]] \cup {root[2]}) \cup f[root[3]]
             Goes(f) == f = [root \in Trees |-> E(f, root)]
             k == CHOOSE f : Goes(f)
             One(t, u, v) == (u \cup {t[2]}) \cup v
             G == [t \in Nodes |-> [u \in (SUBSET Int) |-> [v \in (SUBSET Int) |-> One(t, u, v)]]]
  <1>1. KeysOf = k
        BY DEF KeysOf
  <1>2. G \in [Nodes -> [(SUBSET Int) -> [(SUBSET Int) -> (SUBSET Int)]]] /\ {} \in (SUBSET Int)
    <2>1. ASSUME NEW t \in Nodes, NEW u \in (SUBSET Int), NEW v \in (SUBSET Int) PROVE One(t, u, v) \in (SUBSET Int)
          BY TreeParts
    <2> HIDE DEF One
    <2>2. {} \in (SUBSET Int)
          OBVIOUS
    <2> QED BY <2>1, <2>2
  <1>3. PICK f : OnTrees(f, (SUBSET Int), {}, G)
    <2> HIDE DEF G
    <2> QED BY <1>2, TreeRecursion
  <1>4. \A t \in Nodes : f[t] = (f[t[1]] \cup {t[2]}) \cup f[t[3]]
    <2>1. \A t \in Nodes : f[t[1]] \in (SUBSET Int) /\ f[t[3]] \in (SUBSET Int)
          BY <1>3, TreeParts DEF OnTrees
    <2> QED BY <1>3, <2>1 DEF OnTrees
  <1>5. f \in [Trees -> (SUBSET Int)] /\ f[<< >>] = {}
        BY <1>3 DEF OnTrees
  <1>6. Goes(f)
    <2>1. \A root \in Trees : f[root] = E(f, root)
          BY <1>4, <1>5 DEF Nodes
    <2> QED BY <1>5, <2>1
  <1>7. Goes(k)
        BY <1>6
  <1> HIDE DEF k
  <1>8. \A t \in Trees : k[t] = E(k, t)
        BY <1>7
  <1> DEFINE P == {t \in Trees : k[t] = f[t]}
  <1>9. << >> \in P
        BY <1>5, <1>8, TreeParts
  <1>10. ASSUME NEW t \in Nodes, t[1] \in P, t[3] \in P PROVE t \in P
    <2>1. t \in Trees /\ t # << >>
          BY TreeParts
    <2>2. k[t[1]] = f[t[1]] /\ k[t[3]] = f[t[3]]
          BY <1>10
    <2>3. k[t] = E(k, t)
          BY <1>8, <2>1
    <2>4. k[t] = f[t]
          BY <1>4, <2>1, <2>2, <2>3
    <2> QED BY <2>1, <2>4
  <1> HIDE DEF P
  <1>12. Trees \subseteq P
        BY <1>9, <1>10, TreeInduct
  <1>11. k = f
        BY <1>5, <1>7, <1>12 DEF P
  <1> QED BY <1>1, <1>4, <1>5, <1>11

LEMMA ParentsAre ==
    /\ Parents \in [Trees -> (SUBSET (Int \X Int))]
    /\ Parents[<< >>] = {}
    /\ \A t \in Nodes : Parents[t] = (({t[2]} \X (KeysOf[t[1]] \cup KeysOf[t[3]])) \cup Parents[t[1]]) \cup Parents[t[3]]
  <1> DEFINE E(f, root) == IF root = << >> THEN {} ELSE (({root[2]} \X (KeysOf[root[1]] \cup KeysOf[root[3]])) \cup f[root[1]]) \cup f[root[3]]
             Goes(f) == f = [root \in Trees |-> E(f, root)]
             k == CHOOSE f : Goes(f)
             One(t, u, v) == (({t[2]} \X (KeysOf[t[1]] \cup KeysOf[t[3]])) \cup u) \cup v
             G == [t \in Nodes |-> [u \in (SUBSET (Int \X Int)) |-> [v \in (SUBSET (Int \X Int)) |-> One(t, u, v)]]]
  <1>1. Parents = k
        BY DEF Parents
  <1>2. G \in [Nodes -> [(SUBSET (Int \X Int)) -> [(SUBSET (Int \X Int)) -> (SUBSET (Int \X Int))]]] /\ {} \in (SUBSET (Int \X Int))
    <2>1. ASSUME NEW t \in Nodes, NEW u \in (SUBSET (Int \X Int)), NEW v \in (SUBSET (Int \X Int)) PROVE One(t, u, v) \in (SUBSET (Int \X Int))
          BY TreeParts, KeysAre
    <2> HIDE DEF One
    <2>2. {} \in (SUBSET (Int \X Int))
          OBVIOUS
    <2> QED BY <2>1, <2>2
  <1>3. PICK f : OnTrees(f, (SUBSET (Int \X Int)), {}, G)
    <2> HIDE DEF G
    <2> QED BY <1>2, TreeRecursion
  <1>4. \A t \in Nodes : f[t] = (({t[2]} \X (KeysOf[t[1]] \cup KeysOf[t[3]])) \cup f[t[1]]) \cup f[t[3]]
    <2>1. \A t \in Nodes : f[t[1]] \in (SUBSET (Int \X Int)) /\ f[t[3]] \in (SUBSET (Int \X Int))
          BY <1>3, TreeParts DEF OnTrees
    <2> QED BY <1>3, <2>1 DEF OnTrees
  <1>5. f \in [Trees -> (SUBSET (Int \X Int))] /\ f[<< >>] = {}
        BY <1>3 DEF OnTrees
  <1>6. Goes(f)
    <2>1. \A root \in Trees : f[root] = E(f, root)
          BY <1>4, <1>5 DEF Nodes
    <2> QED BY <1>5, <2>1
  <1>7. Goes(k)
        BY <1>6
  <1> HIDE DEF k
  <1>8. \A t \in Trees : k[t] = E(k, t)
        BY <1>7
  <1> DEFINE P == {t \in Trees : k[t] = f[t]}
  <1>9. << >> \in P
        BY <1>5, <1>8, TreeParts
  <1>10. ASSUME NEW t \in Nodes, t[1] \in P, t[3] \in P PROVE t \in P
    <2>1. t \in Trees /\ t # << >>
          BY TreeParts
    <2>2. k[t[1]] = f[t[1]] /\ k[t[3]] = f[t[3]]
          BY <1>10
    <2>3. k[t] = E(k, t)
          BY <1>8, <2>1
    <2>4. k[t] = f[t]
          BY <1>4, <2>1, <2>2, <2>3
    <2> QED BY <2>1, <2>4
  <1> HIDE DEF P
  <1>12. Trees \subseteq P
        BY <1>9, <1>10, TreeInduct
  <1>11. k = f
        BY <1>5, <1>7, <1>12 DEF P
  <1> QED BY <1>1, <1>4, <1>5, <1>11

LEMMA FreedAre ==
    /\ tdestroy \in [Trees -> Seq(Int)]
    /\ tdestroy[<< >>] = << >>
    /\ \A t \in Nodes : tdestroy[t] = Freed(tdestroy[t[1]], t[2], tdestroy[t[3]])
  <1> DEFINE E(f, root) == IF root = << >> THEN << >> ELSE Freed(f[root[1]], root[2], f[root[3]])
             Goes(f) == f = [root \in Trees |-> E(f, root)]
             k == CHOOSE f : Goes(f)
             One(t, u, v) == Freed(u, t[2], v)
             G == [t \in Nodes |-> [u \in Seq(Int) |-> [v \in Seq(Int) |-> One(t, u, v)]]]
  <1>1. tdestroy = k
        BY DEF tdestroy
  <1>2. G \in [Nodes -> [Seq(Int) -> [Seq(Int) -> Seq(Int)]]] /\ << >> \in Seq(Int)
    <2>1. ASSUME NEW t \in Nodes, NEW u \in Seq(Int), NEW v \in Seq(Int) PROVE One(t, u, v) \in Seq(Int)
          BY TreeParts DEF Freed
    <2> HIDE DEF One
    <2>2. << >> \in Seq(Int)
          OBVIOUS
    <2> QED BY <2>1, <2>2
  <1>3. PICK f : OnTrees(f, Seq(Int), << >>, G)
    <2> HIDE DEF G
    <2> QED BY <1>2, TreeRecursion
  <1>4. \A t \in Nodes : f[t] = Freed(f[t[1]], t[2], f[t[3]])
    <2>1. \A t \in Nodes : f[t[1]] \in Seq(Int) /\ f[t[3]] \in Seq(Int)
          BY <1>3, TreeParts DEF OnTrees
    <2> QED BY <1>3, <2>1 DEF OnTrees
  <1>5. f \in [Trees -> Seq(Int)] /\ f[<< >>] = << >>
        BY <1>3 DEF OnTrees
  <1>6. Goes(f)
    <2>1. \A root \in Trees : f[root] = E(f, root)
          BY <1>4, <1>5 DEF Nodes
    <2> QED BY <1>5, <2>1
  <1>7. Goes(k)
        BY <1>6
  <1> HIDE DEF k
  <1>8. \A t \in Trees : k[t] = E(k, t)
        BY <1>7
  <1> DEFINE P == {t \in Trees : k[t] = f[t]}
  <1>9. << >> \in P
        BY <1>5, <1>8, TreeParts
  <1>10. ASSUME NEW t \in Nodes, t[1] \in P, t[3] \in P PROVE t \in P
    <2>1. t \in Trees /\ t # << >>
          BY TreeParts
    <2>2. k[t[1]] = f[t[1]] /\ k[t[3]] = f[t[3]]
          BY <1>10
    <2>3. k[t] = E(k, t)
          BY <1>8, <2>1
    <2>4. k[t] = f[t]
          BY <1>4, <2>1, <2>2, <2>3
    <2> QED BY <2>1, <2>4
  <1> HIDE DEF P
  <1>12. Trees \subseteq P
        BY <1>9, <1>10, TreeInduct
  <1>11. k = f
        BY <1>5, <1>7, <1>12 DEF P
  <1> QED BY <1>1, <1>4, <1>5, <1>11

Visits == [key : Int, when : {"leaf", "preorder", "postorder", "endorder"}]

Around(u, key, v) ==
    VisitOf(key, "preorder") \o u \o VisitOf(key, "postorder") \o v \o VisitOf(key, "endorder")

LEMMA VisitsAre ==
    /\ trecurse_r \in [Trees -> Seq(Visits)]
    /\ trecurse_r[<< >>] = << >>
    /\ \A t \in Nodes : trecurse_r[t] = IF t[1] = << >> /\ t[3] = << >> THEN VisitOf(t[2], "leaf") ELSE Around(trecurse_r[t[1]], t[2], trecurse_r[t[3]])
  <1> DEFINE E(f, root) == IF root = << >> THEN << >> ELSE IF root[1] = << >> /\ root[3] = << >> THEN VisitOf(root[2], "leaf") ELSE Around(f[root[1]], root[2], f[root[3]])
             Goes(f) == f = [root \in Trees |-> E(f, root)]
             k == CHOOSE f : Goes(f)
             One(t, u, v) == IF t[1] = << >> /\ t[3] = << >> THEN VisitOf(t[2], "leaf") ELSE Around(u, t[2], v)
             G == [t \in Nodes |-> [u \in Seq(Visits) |-> [v \in Seq(Visits) |-> One(t, u, v)]]]
  <1>1. trecurse_r = k
        BY DEF trecurse_r, Around
  <1>2. G \in [Nodes -> [Seq(Visits) -> [Seq(Visits) -> Seq(Visits)]]] /\ << >> \in Seq(Visits)
    <2>1. ASSUME NEW t \in Nodes, NEW u \in Seq(Visits), NEW v \in Seq(Visits) PROVE One(t, u, v) \in Seq(Visits)
          <3>1. t[2] \in Int
            BY TreeParts
      <3>2. \A when \in {"leaf", "preorder", "postorder", "endorder"} : VisitOf(t[2], when) \in Seq(Visits)
            BY <3>1 DEF VisitOf, Visits
      <3>3. Around(u, t[2], v) \in Seq(Visits)
        <4> DEFINE p == VisitOf(t[2], "preorder")
                   q == VisitOf(t[2], "postorder")
                   e == VisitOf(t[2], "endorder")
        <4>1. p \in Seq(Visits) /\ q \in Seq(Visits) /\ e \in Seq(Visits)
              BY <3>2
        <4> HIDE DEF p, q, e
        <4>2. p \o u \o q \o v \o e \in Seq(Visits)
              BY <4>1
        <4> QED BY <4>2 DEF Around, p, q, e
      <3> QED BY <3>2, <3>3
    <2> HIDE DEF One
    <2>2. << >> \in Seq(Visits)
          OBVIOUS
    <2> QED BY <2>1, <2>2
  <1>3. PICK f : OnTrees(f, Seq(Visits), << >>, G)
    <2> HIDE DEF G
    <2> QED BY <1>2, TreeRecursion
  <1>4. \A t \in Nodes : f[t] = IF t[1] = << >> /\ t[3] = << >> THEN VisitOf(t[2], "leaf") ELSE Around(f[t[1]], t[2], f[t[3]])
    <2>1. \A t \in Nodes : f[t[1]] \in Seq(Visits) /\ f[t[3]] \in Seq(Visits)
          BY <1>3, TreeParts DEF OnTrees
    <2> QED BY <1>3, <2>1 DEF OnTrees
  <1>5. f \in [Trees -> Seq(Visits)] /\ f[<< >>] = << >>
        BY <1>3 DEF OnTrees
  <1>6. Goes(f)
    <2>1. \A root \in Trees : f[root] = E(f, root)
          BY <1>4, <1>5 DEF Nodes
    <2> QED BY <1>5, <2>1
  <1>7. Goes(k)
        BY <1>6
  <1> HIDE DEF k
  <1>8. \A t \in Trees : k[t] = E(k, t)
        BY <1>7
  <1> DEFINE P == {t \in Trees : k[t] = f[t]}
  <1>9. << >> \in P
        BY <1>5, <1>8, TreeParts
  <1>10. ASSUME NEW t \in Nodes, t[1] \in P, t[3] \in P PROVE t \in P
    <2>1. t \in Trees /\ t # << >>
          BY TreeParts
    <2>2. k[t[1]] = f[t[1]] /\ k[t[3]] = f[t[3]]
          BY <1>10
    <2>3. k[t] = E(k, t)
          BY <1>8, <2>1
    <2>4. k[t] = f[t]
          BY <1>4, <2>1, <2>2, <2>3
    <2> QED BY <2>1, <2>4
  <1> HIDE DEF P
  <1>12. Trees \subseteq P
        BY <1>9, <1>10, TreeInduct
  <1>11. k = f
        BY <1>5, <1>7, <1>12 DEF P
  <1> QED BY <1>1, <1>4, <1>5, <1>11

(***************************************************************************)
(* Destroying a tree.                                                      *)
(***************************************************************************)
LEMMA ParentsIn == \A t \in Trees : Parents[t] \subseteq KeysOf[t] \X KeysOf[t]
  <1> DEFINE P == {t \in Trees : Parents[t] \subseteq KeysOf[t] \X KeysOf[t]}
  <1>1. << >> \in P
        BY TreeParts, ParentsAre
  <1>2. ASSUME NEW t \in Nodes, t[1] \in P, t[3] \in P PROVE t \in P
    <2>1. t \in Trees
          BY TreeParts
    <2>2. KeysOf[t] = (KeysOf[t[1]] \cup {t[2]}) \cup KeysOf[t[3]]
          BY KeysAre
    <2>3. Parents[t] = (({t[2]} \X (KeysOf[t[1]] \cup KeysOf[t[3]])) \cup Parents[t[1]])
                       \cup Parents[t[3]]
          BY ParentsAre
    <2>4. Parents[t] \subseteq KeysOf[t] \X KeysOf[t]
          BY <1>2, <2>2, <2>3
    <2> QED BY <2>1, <2>4
  <1> HIDE DEF P
  <1>3. Trees \subseteq P
        BY <1>1, <1>2, TreeInduct
  <1> QED BY <1>3 DEF P

FreedLike(f, a, k, b) ==
    /\ f \in Seq(Int) /\ Len(f) = Len(a) + Len(b) + 1
    /\ \A i \in 1..Len(a) : f[i] = a[i]
    /\ \A i \in 1..Len(b) : f[Len(a) + i] = b[i]
    /\ f[Len(a) + Len(b) + 1] = k

LEMMA FreedIs ==
    ASSUME NEW a \in Seq(Int), NEW b \in Seq(Int), NEW k \in Int
    PROVE  FreedLike(Freed(a, k, b), a, k, b)
  <1> DEFINE c == a \o b
             f == c \o <<k>>
  <1>1. /\ c \in Seq(Int) /\ Len(c) = Len(a) + Len(b)
        /\ \A i \in 1..Len(a) : c[i] = a[i]
        /\ \A i \in 1..Len(b) : c[Len(a) + i] = b[i]
        OBVIOUS
  <1>2. Freed(a, k, b) = f
        BY DEF Freed
  <1> HIDE DEF c
  <1>3. /\ f \in Seq(Int) /\ Len(f) = Len(c) + 1 /\ f[Len(c) + 1] = k
        /\ \A i \in 1..Len(c) : f[i] = c[i]
    <2> DEFINE e == <<k>>
    <2>1. e \in Seq(Int) /\ Len(e) = 1 /\ e[1] = k
          OBVIOUS
    <2>2. c \in Seq(Int)
          BY <1>1
    <2> HIDE DEF e
    <2>3. /\ c \o e \in Seq(Int) /\ Len(c \o e) = Len(c) + Len(e)
          /\ \A i \in 1..Len(c) + Len(e) : (c \o e)[i] = IF i <= Len(c) THEN c[i] ELSE e[i - Len(c)]
          BY <2>1, <2>2, ConcatProperties
    <2> DEFINE z == Len(c)
    <2>4. z \in Nat
          BY <2>2
    <2>5. z + 1 \in 1..z + 1 /\ ~(z + 1 <= z) /\ (z + 1) - z = 1
          /\ \A i \in 1..z : i \in 1..z + 1 /\ i <= z
          BY <2>4
    <2> HIDE DEF z
    <2>6. f \in Seq(Int) /\ Len(f) = z + 1 /\ f[z + 1] = k /\ \A i \in 1..z : f[i] = c[i]
          BY <2>1, <2>3, <2>5 DEF e, z
    <2> QED BY <2>6 DEF z
  <1> HIDE DEF f
  <1>4. Len(a) \in Nat /\ Len(b) \in Nat
        OBVIOUS
  <1>5. \A i \in 1..Len(a) : i \in 1..Len(c)
        BY <1>1, <1>4
  <1>6. \A i \in 1..Len(b) : Len(a) + i \in 1..Len(c)
        BY <1>1, <1>4
  <1> QED BY <1>1, <1>2, <1>3, <1>5, <1>6 DEF FreedLike

LEMMA DestroyStep ==
    ASSUME NEW t \in Nodes, NEW a \in Seq(Int), NEW b \in Seq(Int), NEW f,
           FreedLike(f, a, t[2], b), DestroysAll(t[1], a), DestroysAll(t[3], b)
    PROVE  DestroysAll(t, f)
  <1> DEFINE n == Len(a)
             m == Len(b)
             k == t[2]
             A == KeysOf[t[1]]
             B == KeysOf[t[3]]
  <1>1. n \in Nat /\ m \in Nat /\ f \in Seq(Int) /\ Len(f) = n + m + 1
        /\ (\A i \in 1..n : f[i] = a[i]) /\ (\A i \in 1..m : f[n + i] = b[i])
        /\ f[n + m + 1] = k
        BY DEF FreedLike
  <1>2. /\ A = {a[i] : i \in 1..n} /\ \A i, j \in 1..n : a[i] = a[j] => i = j
        /\ \A pair \in Parents[t[1]], i, j \in 1..n : a[i] = pair[1] /\ a[j] = pair[2] => j < i
        BY DEF DestroysAll
  <1>3. /\ B = {b[i] : i \in 1..m} /\ \A i, j \in 1..m : b[i] = b[j] => i = j
        /\ \A pair \in Parents[t[3]], i, j \in 1..m : b[i] = pair[1] /\ b[j] = pair[2] => j < i
        BY DEF DestroysAll
  <1>4. k \in Int /\ t[1] \in Trees /\ t[3] \in Trees
        /\ A \subseteq Int /\ B \subseteq Int
        /\ (\A x \in A : x < k) /\ \A x \in B : k < x
        BY TreeParts, KeysAre
  <1>5. KeysOf[t] = (A \cup {k}) \cup B
        /\ Parents[t] = (({k} \X (A \cup B)) \cup Parents[t[1]]) \cup Parents[t[3]]
        BY KeysAre, ParentsAre
  <1>6. Parents[t[1]] \subseteq A \X A /\ Parents[t[3]] \subseteq B \X B
        BY <1>4, ParentsIn
  <1> HIDE DEF n, m, k, A, B
  <1>7. ASSUME NEW i \in 1..Len(f)
        PROVE  \/ i \in 1..n /\ f[i] = a[i] /\ f[i] \in A
               \/ i - n \in 1..m /\ f[i] = b[i - n] /\ f[i] \in B
               \/ i = n + m + 1 /\ f[i] = k
    <2>1. CASE i \in 1..n
          BY <1>1, <1>2, <2>1
    <2>2. CASE i - n \in 1..m
      <3>1. n + (i - n) = i
            BY <1>1
      <3>2. f[n + (i - n)] = b[i - n]
            BY <1>1, <2>2
      <3> QED BY <1>3, <2>2, <3>1, <3>2
    <2>3. CASE i = n + m + 1
          BY <1>1, <2>3
    <2>4. i \in 1..n \/ i - n \in 1..m \/ i = n + m + 1
          BY <1>1
    <2> QED BY <2>1, <2>2, <2>3, <2>4
  <1>8. KeysOf[t] = {f[i] : i \in 1..Len(f)}
    <2>1. \A i \in 1..Len(f) : f[i] \in KeysOf[t]
          BY <1>5, <1>7
    <2>2. ASSUME NEW x \in A PROVE \E i \in 1..Len(f) : f[i] = x
      <3>1. PICK i \in 1..n : a[i] = x
            BY <1>2
      <3>2. i \in 1..Len(f)
            BY <1>1
      <3> QED BY <1>1, <3>1, <3>2
    <2>3. ASSUME NEW x \in B PROVE \E i \in 1..Len(f) : f[i] = x
      <3>1. PICK i \in 1..m : b[i] = x
            BY <1>3
      <3>2. n + i \in 1..Len(f)
        <4>1. n \in Nat /\ m \in Nat /\ Len(f) = n + m + 1 /\ i \in Nat /\ 1 <= i /\ i <= m
              BY <1>1
        <4> QED BY <4>1
      <3> QED BY <1>1, <3>1, <3>2
    <2>4. n + m + 1 \in 1..Len(f)
          BY <1>1
    <2> QED BY <1>1, <1>5, <2>1, <2>2, <2>3, <2>4
  <1>9. ASSUME NEW i \in 1..Len(f)
        PROVE  /\ f[i] \in A => i \in 1..n /\ f[i] = a[i]
               /\ f[i] \in B => i - n \in 1..m /\ f[i] = b[i - n]
               /\ f[i] = k => i = n + m + 1
    <2>1. \A x \in A : x \in Int /\ x < k /\ x # k
          BY <1>4
    <2>2. \A x \in B : x \in Int /\ k < x /\ x # k
          BY <1>4
    <2>3. \A x \in A : x \notin B
          BY <1>4
    <2> QED BY <1>7, <2>1, <2>2, <2>3
  <1>10. ASSUME NEW i \in 1..Len(f), NEW j \in 1..Len(f), f[i] = f[j] PROVE i = j
    <2>1. CASE f[i] \in A
      <3>1. i \in 1..n /\ j \in 1..n /\ a[i] = a[j]
            BY <1>9, <1>10, <2>1
      <3> QED BY <1>2, <3>1
    <2>2. CASE f[i] \in B
      <3>0. i - n \in 1..m /\ j - n \in 1..m /\ b[i - n] = b[j - n]
            BY <1>9, <1>10, <2>2
      <3>1. i - n = j - n
            BY <1>3, <3>0
      <3>2. n \in Nat /\ i \in Int /\ j \in Int
            BY <1>1
      <3> QED BY <3>1, <3>2
    <2>3. CASE f[i] = k
          BY <1>9, <1>10, <2>3
    <2> QED BY <1>7, <2>1, <2>2, <2>3
  <1>11. ASSUME NEW pair \in Parents[t], NEW i \in 1..Len(f), NEW j \in 1..Len(f),
                f[i] = pair[1], f[j] = pair[2]
         PROVE  j < i
    <2>1. CASE pair \in {k} \X (A \cup B)
      <3>1. f[i] = k /\ f[j] \in A \cup B
            BY <1>11, <2>1
      <3>2. i = n + m + 1
            BY <1>9, <3>1
      <3>3. j \in 1..n \/ j - n \in 1..m
            BY <1>9, <3>1
      <3> QED BY <1>1, <3>2, <3>3
    <2>2. CASE pair \in Parents[t[1]]
      <3>1. f[i] \in A /\ f[j] \in A
            BY <1>6, <1>11, <2>2
      <3>2. i \in 1..n /\ j \in 1..n /\ a[i] = pair[1] /\ a[j] = pair[2]
            BY <1>9, <1>11, <3>1
      <3> QED BY <1>2, <2>2, <3>2
    <2>3. CASE pair \in Parents[t[3]]
      <3>1. f[i] \in B /\ f[j] \in B
            BY <1>6, <1>11, <2>3
      <3>2. i - n \in 1..m /\ j - n \in 1..m /\ b[i - n] = pair[1] /\ b[j - n] = pair[2]
            BY <1>9, <1>11, <3>1
      <3>3. j - n < i - n
            BY <1>3, <2>3, <3>2
      <3> QED BY <1>1, <3>3
    <2> QED BY <1>5, <1>11, <2>1, <2>2, <2>3
  <1> QED BY <1>8, <1>10, <1>11 DEF DestroysAll

LEMMA DestroyRight == \A t \in Trees : DestroysAll(t, tdestroy[t])
  <1> DEFINE P == {t \in Trees : DestroysAll(t, tdestroy[t])}
  <1>1. << >> \in P
    <2>1. KeysOf[<< >>] = {} /\ Parents[<< >>] = {} /\ tdestroy[<< >>] = << >> /\ << >> \in Trees
          BY TreeParts, KeysAre, ParentsAre, FreedAre
    <2> QED BY <2>1 DEF DestroysAll
  <1>2. ASSUME NEW t \in Nodes, t[1] \in P, t[3] \in P PROVE t \in P
    <2> DEFINE a == tdestroy[t[1]]
               b == tdestroy[t[3]]
    <2>1. t \in Trees /\ t[2] \in Int /\ a \in Seq(Int) /\ b \in Seq(Int)
          BY TreeParts, FreedAre
    <2>2. tdestroy[t] = Freed(a, t[2], b)
          BY FreedAre
    <2>3. DestroysAll(t[1], a) /\ DestroysAll(t[3], b)
          BY <1>2
    <2> HIDE DEF a, b
    <2>4. FreedLike(tdestroy[t], a, t[2], b)
          BY <2>1, <2>2, FreedIs
    <2>5. DestroysAll(t, tdestroy[t])
          BY <2>1, <2>3, <2>4, DestroyStep
    <2> QED BY <2>1, <2>5
  <1> HIDE DEF P
  <1>3. Trees \subseteq P
        BY <1>1, <1>2, TreeInduct
  <1> QED BY <1>3 DEF P

(***************************************************************************)
(* Walking a tree.                                                         *)
(***************************************************************************)
Concats(c, a, b, S) ==
    /\ c \in Seq(S) /\ Len(c) = Len(a) + Len(b)
    /\ \A i \in 1..Len(a) : c[i] = a[i]
    /\ \A i \in 1..Len(b) : c[Len(a) + i] = b[i]

LEMMA Concatenation ==
    ASSUME NEW S, NEW a \in Seq(S), NEW b \in Seq(S) PROVE Concats(a \o b, a, b, S)
  <1> DEFINE n == Len(a)
             m == Len(b)
             c == a \o b
  <1>1. /\ c \in Seq(S) /\ Len(c) = n + m
        /\ \A i \in 1..n + m : c[i] = IF i <= n THEN a[i] ELSE b[i - n]
        BY ConcatProperties
  <1>2. n \in Nat /\ m \in Nat
        OBVIOUS
  <1> HIDE DEF n, m, c
  <1>3. ASSUME NEW i \in 1..n PROVE c[i] = a[i]
    <2>1. i \in 1..n + m /\ i <= n
          BY <1>2
    <2> QED BY <1>1, <2>1
  <1>4. ASSUME NEW i \in 1..m PROVE c[n + i] = b[i]
    <2>1. n + i \in 1..n + m /\ ~(n + i <= n) /\ (n + i) - n = i
          BY <1>2
    <2> QED BY <1>1, <2>1
  <1> QED BY <1>1, <1>3, <1>4 DEF Concats, n, m, c

WalkLike(w, u, key, v) ==
    /\ w \in Seq(Visits) /\ Len(w) = Len(u) + Len(v) + 3
    /\ w[1] = [key |-> key, when |-> "preorder"]
    /\ \A i \in 1..Len(u) : w[1 + i] = u[i]
    /\ w[Len(u) + 2] = [key |-> key, when |-> "postorder"]
    /\ \A i \in 1..Len(v) : w[Len(u) + 2 + i] = v[i]
    /\ w[Len(u) + Len(v) + 3] = [key |-> key, when |-> "endorder"]

LEMMA VisitIs ==
    ASSUME NEW key \in Int, NEW when \in {"leaf", "preorder", "postorder", "endorder"}
    PROVE  /\ VisitOf(key, when) \in Seq(Visits)
           /\ Len(VisitOf(key, when)) = 1
           /\ VisitOf(key, when)[1] = [key |-> key, when |-> when]
  BY DEF VisitOf, Visits

LEMMA AroundIs ==
    ASSUME NEW u \in Seq(Visits), NEW v \in Seq(Visits), NEW key \in Int
    PROVE  WalkLike(Around(u, key, v), u, key, v)
  <1> DEFINE p == VisitOf(key, "preorder")
             q == VisitOf(key, "postorder")
             e == VisitOf(key, "endorder")
             c == p \o u
             d == c \o q
             f == d \o v
             w == f \o e
             n == Len(u)
             m == Len(v)
  <1>1. p \in Seq(Visits) /\ Len(p) = 1 /\ p[1] = [key |-> key, when |-> "preorder"]
        BY VisitIs
  <1>2. q \in Seq(Visits) /\ Len(q) = 1 /\ q[1] = [key |-> key, when |-> "postorder"]
        BY VisitIs
  <1>3. e \in Seq(Visits) /\ Len(e) = 1 /\ e[1] = [key |-> key, when |-> "endorder"]
        BY VisitIs
  <1>4. Around(u, key, v) = w
        BY DEF Around
  <1> HIDE DEF p, q, e
  <1>5. Concats(c, p, u, Visits)
        BY <1>1, Concatenation
  <1>6. c \in Seq(Visits)
        BY <1>5 DEF Concats
  <1> HIDE DEF c
  <1>7. Concats(d, c, q, Visits)
        BY <1>2, <1>6, Concatenation
  <1>8. d \in Seq(Visits)
        BY <1>7 DEF Concats
  <1> HIDE DEF d
  <1>9. Concats(f, d, v, Visits)
        BY <1>8, Concatenation
  <1>10. f \in Seq(Visits)
        BY <1>9 DEF Concats
  <1> HIDE DEF f
  <1>11. Concats(w, f, e, Visits)
        BY <1>3, <1>10, Concatenation
  <1>0. n \in Nat /\ m \in Nat
        OBVIOUS
  <1>12. /\ Len(c) = 1 + n /\ c[1] = p[1] /\ \A i \in 1..n : c[1 + i] = u[i]
        BY <1>1, <1>5 DEF Concats
  <1>13. /\ Len(d) = n + 2 /\ (\A i \in 1..1 + n : d[i] = c[i]) /\ d[n + 2] = q[1]
    <2>1. Len(d) = Len(c) + Len(q) /\ (\A i \in 1..Len(c) : d[i] = c[i]) /\ d[Len(c) + 1] = q[1]
          BY <1>2, <1>7 DEF Concats
    <2>2. (1 + n) + 1 = n + 2
          BY <1>0
    <2> HIDE DEF n
    <2> QED BY <1>2, <1>12, <2>1, <2>2
  <1>14. /\ Len(f) = n + m + 2 /\ (\A i \in 1..n + 2 : f[i] = d[i])
         /\ \A i \in 1..m : f[n + 2 + i] = v[i]
    <2>1. Len(f) = Len(d) + m /\ (\A i \in 1..Len(d) : f[i] = d[i])
          /\ \A i \in 1..m : f[Len(d) + i] = v[i]
          BY <1>9 DEF Concats
    <2> HIDE DEF n, m
    <2>2. (n + 2) + m = n + m + 2
          BY <1>0
    <2> QED BY <1>13, <2>1, <2>2
  <1>15. /\ Len(w) = n + m + 3 /\ (\A i \in 1..n + m + 2 : w[i] = f[i]) /\ w[n + m + 3] = e[1]
         /\ w \in Seq(Visits)
    <2>1. Len(w) = Len(f) + 1 /\ (\A i \in 1..Len(f) : w[i] = f[i])
          /\ w[Len(f) + 1] = e[1] /\ w \in Seq(Visits)
          BY <1>3, <1>11 DEF Concats
    <2> HIDE DEF n, m
    <2>2. (n + m + 2) + 1 = n + m + 3
          BY <1>0
    <2> QED BY <1>14, <2>1, <2>2
  <1> HIDE DEF n, m, w
  <1>16. w[1] = p[1]
    <2>1. 1 \in 1..n + m + 2 /\ 1 \in 1..n + 2 /\ 1 \in 1..1 + n
          BY <1>0
    <2> QED BY <1>12, <1>13, <1>14, <1>15, <2>1
  <1>17. ASSUME NEW i \in 1..n PROVE w[1 + i] = u[i]
    <2>1. 1 + i \in 1..n + m + 2 /\ 1 + i \in 1..n + 2 /\ 1 + i \in 1..1 + n
          BY <1>0
    <2> QED BY <1>12, <1>13, <1>14, <1>15, <2>1
  <1>18. w[n + 2] = q[1]
    <2>1. n + 2 \in 1..n + m + 2 /\ n + 2 \in 1..n + 2
          BY <1>0
    <2> QED BY <1>13, <1>14, <1>15, <2>1
  <1>19. ASSUME NEW i \in 1..m PROVE w[n + 2 + i] = v[i]
    <2>1. n + 2 + i \in 1..n + m + 2
          BY <1>0
    <2> QED BY <1>14, <1>15, <2>1
  <1>20. WalkLike(w, u, key, v)
        BY <1>1, <1>2, <1>3, <1>15, <1>16, <1>17, <1>18, <1>19 DEF WalkLike, n, m
  <1> QED BY <1>4, <1>20

LEMMA WalkStep ==
    ASSUME NEW t \in Nodes, NEW u \in Seq(Visits), NEW v \in Seq(Visits), NEW w,
           WalkLike(w, u, t[2], v), WalkIsInOrder(t[1], u), WalkIsInOrder(t[3], v)
    PROVE  WalkIsInOrder(t, w)
  <1> DEFINE n == Len(u)
             m == Len(v)
             k == t[2]
             A == KeysOf[t[1]]
             B == KeysOf[t[3]]
             z == n + m + 3
  <1>1. n \in Nat /\ m \in Nat /\ w \in Seq(Visits) /\ Len(w) = z
        /\ (\A i \in 1..n : w[1 + i] = u[i]) /\ (\A i \in 1..m : w[n + 2 + i] = v[i])
        BY DEF WalkLike
  <1>2. /\ w[1] = [key |-> k, when |-> "preorder"]
        /\ w[n + 2] = [key |-> k, when |-> "postorder"]
        /\ w[z] = [key |-> k, when |-> "endorder"]
        BY DEF WalkLike
  <1>3. /\ \A i \in 1..n : u[i].key \in A
        /\ \A x \in A : \E i \in 1..n : u[i].key = x /\ Inner(u[i])
        /\ \A i, j \in 1..n : i < j /\ Inner(u[i]) /\ Inner(u[j]) => u[i].key < u[j].key
        BY DEF WalkIsInOrder
  <1>4. /\ \A i \in 1..m : v[i].key \in B
        /\ \A x \in B : \E i \in 1..m : v[i].key = x /\ Inner(v[i])
        /\ \A i, j \in 1..m : i < j /\ Inner(v[i]) /\ Inner(v[j]) => v[i].key < v[j].key
        BY DEF WalkIsInOrder
  <1>5. \A pair \in Parents[t[1]] : \E i, j \in 1..n :
          /\ u[i] = [key |-> pair[1], when |-> "preorder"]
          /\ u[j] = [key |-> pair[1], when |-> "endorder"]
          /\ \A h \in 1..n : u[h].key = pair[2] => i < h /\ h < j
        BY DEF WalkIsInOrder
  <1>6. \A pair \in Parents[t[3]] : \E i, j \in 1..m :
          /\ v[i] = [key |-> pair[1], when |-> "preorder"]
          /\ v[j] = [key |-> pair[1], when |-> "endorder"]
          /\ \A h \in 1..m : v[h].key = pair[2] => i < h /\ h < j
        BY DEF WalkIsInOrder
  <1>7. k \in Int /\ t[1] \in Trees /\ t[3] \in Trees
        /\ A \subseteq Int /\ B \subseteq Int
        /\ (\A x \in A : x < k) /\ \A x \in B : k < x
        BY TreeParts, KeysAre
  <1>8. KeysOf[t] = (A \cup {k}) \cup B
        /\ Parents[t] = (({k} \X (A \cup B)) \cup Parents[t[1]]) \cup Parents[t[3]]
        BY KeysAre, ParentsAre
  <1>9. Parents[t[1]] \subseteq A \X A /\ Parents[t[3]] \subseteq B \X B
        BY <1>7, ParentsIn
  <1> HIDE DEF n, m, k, A, B
  <1>10. z \in Nat /\ z = n + m + 3
        BY <1>1
  <1> HIDE DEF z
  <1>11. ASSUME NEW i \in 1..Len(w)
         PROVE  \/ i - 1 \in 1..n /\ w[i] = u[i - 1] /\ w[i].key \in A
                \/ i - (n + 2) \in 1..m /\ w[i] = v[i - (n + 2)] /\ w[i].key \in B
                \/ i \in {1, n + 2, z} /\ w[i].key = k /\ (Inner(w[i]) => i = n + 2)
    <2>1. CASE i - 1 \in 1..n
      <3>1. 1 + (i - 1) = i
            OBVIOUS
      <3>2. w[1 + (i - 1)] = u[i - 1]
            BY <1>1, <2>1
      <3> QED BY <1>3, <2>1, <3>1, <3>2
    <2>2. CASE i - (n + 2) \in 1..m
      <3>1. n + 2 + (i - (n + 2)) = i
            BY <1>1
      <3>2. w[n + 2 + (i - (n + 2))] = v[i - (n + 2)]
            BY <1>1, <2>2
      <3> QED BY <1>4, <2>2, <3>1, <3>2
    <2>3. CASE i \in {1, n + 2, z}
          BY <1>2, <2>3 DEF Inner
    <2>4. i - 1 \in 1..n \/ i - (n + 2) \in 1..m \/ i \in {1, n + 2, z}
      <3>1. n \in Nat /\ m \in Nat /\ z = n + m + 3 /\ i \in Nat /\ 1 <= i /\ i <= z
            BY <1>1, <1>10
      <3> QED BY <3>1
    <2> QED BY <2>1, <2>2, <2>3, <2>4
  <1>12. (\A x \in A : x \in Int /\ x < k /\ x # k /\ x \notin B)
         /\ (\A x \in B : x \in Int /\ k < x /\ x # k /\ x \notin A)
         /\ k \notin A /\ k \notin B
        BY <1>7
  <1>13. ASSUME NEW i \in 1..Len(w)
         PROVE  /\ w[i].key \in A => i - 1 \in 1..n /\ w[i] = u[i - 1]
                /\ w[i].key \in B => i - (n + 2) \in 1..m /\ w[i] = v[i - (n + 2)]
                /\ w[i].key = k => i \in {1, n + 2, z} /\ (Inner(w[i]) => i = n + 2)
        BY <1>11, <1>12
  <1>14. \A i \in 1..n : 1 + i \in 1..Len(w) /\ w[1 + i] = u[i]
        BY <1>1, <1>10
  <1>15. \A i \in 1..m : n + 2 + i \in 1..Len(w) /\ w[n + 2 + i] = v[i]
        BY <1>1, <1>10
  <1>16. 1 \in 1..Len(w) /\ n + 2 \in 1..Len(w) /\ z \in 1..Len(w)
        BY <1>1, <1>10
  <1>17. \A i \in 1..Len(w) : w[i].key \in KeysOf[t]
        BY <1>8, <1>11
  <1>18. ASSUME NEW x \in KeysOf[t] PROVE \E i \in 1..Len(w) : w[i].key = x /\ Inner(w[i])
    <2>1. CASE x \in A
          BY <1>3, <1>14, <2>1
    <2>2. CASE x \in B
          BY <1>4, <1>15, <2>2
    <2>3. CASE x = k
          BY <1>2, <1>16, <2>3 DEF Inner
    <2> QED BY <1>8, <2>1, <2>2, <2>3
  <1>19. ASSUME NEW i \in 1..Len(w), NEW j \in 1..Len(w), i < j, Inner(w[i]), Inner(w[j])
         PROVE  w[i].key < w[j].key
    <2> DEFINE a == w[i].key
               b == w[j].key
    <2>0. i \in Int /\ j \in Int
          OBVIOUS
    <2>1. CASE a \in A /\ b \in A
      <3>1. i - 1 \in 1..n /\ j - 1 \in 1..n /\ w[i] = u[i - 1] /\ w[j] = u[j - 1]
            BY <1>13, <2>1
      <3>2. i - 1 < j - 1
            BY <1>19, <2>0
      <3> QED BY <1>3, <1>19, <3>1, <3>2
    <2>2. CASE a \in B /\ b \in B
      <3>1. i - (n + 2) \in 1..m /\ j - (n + 2) \in 1..m
            /\ w[i] = v[i - (n + 2)] /\ w[j] = v[j - (n + 2)]
            BY <1>13, <2>2
      <3>2. i - (n + 2) < j - (n + 2)
            BY <1>1, <1>19, <2>0
      <3> QED BY <1>4, <1>19, <3>1, <3>2
    <2>3. CASE a = k /\ b = k
      <3>1. i = n + 2 /\ j = n + 2
            BY <1>13, <1>19, <2>3
      <3> QED BY <1>19, <2>0, <3>1
    <2>4. CASE a \in A /\ b \in {k} \cup B
      <3>1. a \in Int /\ b \in Int /\ k \in Int /\ a < k /\ (b = k \/ k < b)
            BY <1>7, <1>12, <2>4
      <3> HIDE DEF a, b
      <3>2. a < b
            BY <3>1
      <3> QED BY <3>2 DEF a, b
    <2>5. CASE a = k /\ b \in B
          BY <1>12, <2>5
    <2>6. CASE a = k /\ b \in A
      <3>1. i = n + 2 /\ j - 1 \in 1..n
            BY <1>13, <1>19, <2>6
      <3> QED BY <1>1, <1>19, <2>0, <3>1
    <2>7. CASE a \in B /\ b \in A
      <3>1. i - (n + 2) \in 1..m /\ j - 1 \in 1..n
            BY <1>13, <2>7
      <3> QED BY <1>1, <1>19, <2>0, <3>1
    <2>8. CASE a \in B /\ b = k
      <3>1. i - (n + 2) \in 1..m /\ j = n + 2
            BY <1>13, <1>19, <2>8
      <3> QED BY <1>1, <1>19, <2>0, <3>1
    <2>9. a \in A \cup {k} \cup B /\ b \in A \cup {k} \cup B
          BY <1>8, <1>17
    <2> QED BY <2>1, <2>2, <2>3, <2>4, <2>5, <2>6, <2>7, <2>8, <2>9
  <1> DEFINE Brackets(pair) == \E i, j \in 1..Len(w) :
                /\ w[i] = [key |-> pair[1], when |-> "preorder"]
                /\ w[j] = [key |-> pair[1], when |-> "endorder"]
                /\ \A h \in 1..Len(w) : w[h].key = pair[2] => i < h /\ h < j
  <1>20. ASSUME NEW pair \in Parents[t] PROVE Brackets(pair)
    <2>1. CASE pair \in {k} \X (A \cup B)
      <3>1. pair[1] = k /\ pair[2] \in A \cup B
            BY <2>1
      <3>2. ASSUME NEW h \in 1..Len(w), w[h].key = pair[2] PROVE 1 < h /\ h < z
        <4>1. h - 1 \in 1..n \/ h - (n + 2) \in 1..m
              BY <1>13, <3>1, <3>2
        <4> QED BY <1>1, <1>10, <4>1
      <3> QED BY <1>2, <1>16, <3>1, <3>2
    <2>2. CASE pair \in Parents[t[1]]
      <3>1. PICK i \in 1..n, j \in 1..n :
              /\ u[i] = [key |-> pair[1], when |-> "preorder"]
              /\ u[j] = [key |-> pair[1], when |-> "endorder"]
              /\ \A h \in 1..n : u[h].key = pair[2] => i < h /\ h < j
            BY <1>5, <2>2
      <3>2. pair[2] \in A
            BY <1>9, <2>2
      <3>3. ASSUME NEW h \in 1..Len(w), w[h].key = pair[2] PROVE 1 + i < h /\ h < 1 + j
        <4>1. h - 1 \in 1..n /\ w[h] = u[h - 1]
              BY <1>13, <3>2, <3>3
        <4>2. i < h - 1 /\ h - 1 < j
              BY <3>1, <3>3, <4>1
        <4> QED BY <4>2
      <3>4. 1 + i \in 1..Len(w) /\ 1 + j \in 1..Len(w) /\ w[1 + i] = u[i] /\ w[1 + j] = u[j]
            BY <1>14
      <3> QED BY <3>1, <3>3, <3>4
    <2>3. CASE pair \in Parents[t[3]]
      <3>1. PICK i \in 1..m, j \in 1..m :
              /\ v[i] = [key |-> pair[1], when |-> "preorder"]
              /\ v[j] = [key |-> pair[1], when |-> "endorder"]
              /\ \A h \in 1..m : v[h].key = pair[2] => i < h /\ h < j
            BY <1>6, <2>3
      <3>2. pair[2] \in B
            BY <1>9, <2>3
      <3>3. ASSUME NEW h \in 1..Len(w), w[h].key = pair[2]
            PROVE  n + 2 + i < h /\ h < n + 2 + j
        <4>1. h - (n + 2) \in 1..m /\ w[h] = v[h - (n + 2)]
              BY <1>13, <3>2, <3>3
        <4>2. i < h - (n + 2) /\ h - (n + 2) < j
              BY <3>1, <3>3, <4>1
        <4> QED BY <1>1, <4>2
      <3>4. /\ n + 2 + i \in 1..Len(w) /\ n + 2 + j \in 1..Len(w)
            /\ w[n + 2 + i] = v[i] /\ w[n + 2 + j] = v[j]
            BY <1>15
      <3> QED BY <3>1, <3>3, <3>4
    <2> QED BY <1>8, <1>20, <2>1, <2>2, <2>3
  <1> QED BY <1>17, <1>18, <1>19, <1>20 DEF WalkIsInOrder

LEMMA WalkRight == \A t \in Trees : WalkIsInOrder(t, trecurse_r[t])
  <1> DEFINE P == {t \in Trees : WalkIsInOrder(t, trecurse_r[t])}
  <1>0. /\ << >> \in Trees /\ KeysOf[<< >>] = {} /\ Parents[<< >>] = {}
        /\ trecurse_r[<< >>] = << >>
        BY TreeParts, KeysAre, ParentsAre, VisitsAre
  <1>1. << >> \in P
        BY <1>0 DEF WalkIsInOrder
  <1>2. ASSUME NEW t \in Nodes, t[1] \in P, t[3] \in P PROVE t \in P
    <2> DEFINE u == trecurse_r[t[1]]
               v == trecurse_r[t[3]]
    <2>1. t \in Trees /\ t[2] \in Int /\ u \in Seq(Visits) /\ v \in Seq(Visits)
          BY TreeParts, VisitsAre
    <2>2. CASE t[1] = << >> /\ t[3] = << >>
      <3> DEFINE k == t[2]
                 w == trecurse_r[t]
      <3>1. w = VisitOf(k, "leaf")
            BY <2>2, VisitsAre
      <3>2. Len(w) = 1 /\ w[1] = [key |-> k, when |-> "leaf"]
            BY <2>1, <3>1, VisitIs
      <3>3. KeysOf[t] = {k} /\ Parents[t] = {}
            BY <1>0, <2>2, KeysAre, ParentsAre
      <3> HIDE DEF k, w
      <3>4. \A i \in 1..Len(w) : i = 1
            BY <3>2
      <3>5. WalkIsInOrder(t, w)
            BY <3>2, <3>3, <3>4 DEF WalkIsInOrder, Inner
      <3> QED BY <2>1, <3>5 DEF w
    <2>3. CASE ~(t[1] = << >> /\ t[3] = << >>)
      <3>1. trecurse_r[t] = Around(u, t[2], v)
            BY <2>3, VisitsAre
      <3>2. WalkIsInOrder(t[1], u) /\ WalkIsInOrder(t[3], v)
            BY <1>2
      <3> HIDE DEF u, v
      <3>3. WalkLike(trecurse_r[t], u, t[2], v)
            BY <2>1, <3>1, AroundIs
      <3>4. WalkIsInOrder(t, trecurse_r[t])
            BY <2>1, <3>2, <3>3, WalkStep
      <3> QED BY <2>1, <3>4
    <2> QED BY <2>2, <2>3
  <1> HIDE DEF P
  <1>3. Trees \subseteq P
        BY <1>1, <1>2, TreeInduct
  <1> QED BY <1>3 DEF P

LEMMA WalksNow == ASSUME AskInv PROVE WalksRight
  <1>1. ASSUME Answered("twalk_r") PROVE WalkIsInOrder(asked.tree, reply)
    <2>1. PICK tree \in Trees, fn \in {"twalk_r", "tdestroy"} : asked = [fn |-> fn, tree |-> tree]
          BY <1>1, AsksOne DEF AsksWalk, Answered
    <2>2. reply = trecurse_r[tree] /\ asked.tree = tree
          BY <1>1, <2>1 DEF AskInv, Answered, Replied, Is, twalk_r
    <2> QED BY <2>2, WalkRight
  <1>2. ASSUME Answered("tdestroy") PROVE DestroysAll(asked.tree, reply)
    <2>1. PICK tree \in Trees, fn \in {"twalk_r", "tdestroy"} : asked = [fn |-> fn, tree |-> tree]
          BY <1>2, AsksOne DEF AsksWalk, Answered
    <2>2. reply = tdestroy[tree] /\ asked.tree = tree
          BY <1>2, <2>1 DEF AskInv, Answered, Replied, Is
    <2> QED BY <2>2, DestroyRight
  <1> QED BY <1>1, <1>2 DEF WalksRight

(***************************************************************************)
(* Whatever the tree, of any height, a walk shows its keys in order and    *)
(* every node around what is below it, and destroying it frees each of its *)
(* nodes once and after all below it.                                      *)
(***************************************************************************)
THEOREM WalksAreInOrder == AskSpec => []WalksRight
  BY AskAlways, WalksNow, PTL
----------------------------------------------------------------------------
(***************************************************************************)
(* The Luhn check.                                                         *)
(***************************************************************************)
LEMMA WorthIs ==
    \A x \in 0..9 :
       /\ Worth(x, FALSE) = x
       /\ Worth(x, TRUE) = IF x <= 4 THEN 2 * x ELSE 2 * x - 9
       /\ \A b \in BOOLEAN : Worth(x, b) \in 0..9
  <1> SUFFICES ASSUME NEW x \in 0..9
               PROVE  /\ Worth(x, FALSE) = x
                      /\ Worth(x, TRUE) = IF x <= 4 THEN 2 * x ELSE 2 * x - 9
                      /\ \A b \in BOOLEAN : Worth(x, b) \in 0..9
      OBVIOUS
  <1>1. Worth(x, FALSE) = x
        BY DEF Worth
  <1>2. Worth(x, TRUE) = IF x <= 4 THEN 2 * x ELSE 2 * x - 9
        BY DEF Worth
  <1>3. Worth(x, TRUE) \in 0..9
    <2>1. (IF x <= 4 THEN 2 * x ELSE 2 * x - 9) \in 0..9
          OBVIOUS
    <2> QED BY <1>2, <2>1
  <1>4. \A b \in BOOLEAN : b = TRUE \/ b = FALSE
        OBVIOUS
  <1>5. \A b \in BOOLEAN : Worth(x, b) \in 0..9
        BY <1>1, <1>3, <1>4
  <1> QED BY <1>1, <1>2, <1>5

LEMMA SumIs ==
    /\ Sum \in [Nat -> [BOOLEAN -> Nat]]
    /\ Sum[0] = [alt \in BOOLEAN |-> 0]
    /\ \A n \in Nat \ {0} : Sum[n] = [alt \in BOOLEAN |-> Worth(n % 10, alt) + Sum[n \div 10][~alt]]
  <1> DEFINE E(f, num) == [alt \in BOOLEAN |-> IF num = 0 THEN 0 ELSE Worth(num % 10, alt) + f[num \div 10][~alt]]
             Goes(f) == f = [num \in Nat |-> E(f, num)]
             k == CHOOSE f : Goes(f)
             One(n, u) == [alt \in BOOLEAN |-> Worth(n % 10, alt) + u[~alt]]
             G == [n \in Nat |-> [u \in [BOOLEAN -> Nat] |-> One(n, u)]]
  <1>1. Sum = k
        BY DEF Sum
  <1>2. G \in [Nat -> [[BOOLEAN -> Nat] -> [BOOLEAN -> Nat]]] /\ [alt \in BOOLEAN |-> 0] \in [BOOLEAN -> Nat]
    <2>1. ASSUME NEW n \in Nat, NEW u \in [BOOLEAN -> Nat] PROVE One(n, u) \in [BOOLEAN -> Nat]
          <3>1. n % 10 \in 0..9
            OBVIOUS
      <3> DEFINE z == n % 10
      <3> HIDE DEF z
      <3>4. Worth(z, TRUE) \in Nat /\ Worth(z, FALSE) \in Nat
        <4>1. z \in 0..9
              BY <3>1 DEF z
        <4>2. \A b \in BOOLEAN : Worth(z, b) \in 0..9
              BY <4>1, WorthIs
        <4>3. Worth(z, TRUE) \in 0..9 /\ Worth(z, FALSE) \in 0..9
              BY <4>2
        <4> DEFINE v == Worth(z, TRUE)
                   w == Worth(z, FALSE)
        <4>4. v \in 0..9 /\ w \in 0..9
              BY <4>3
        <4> HIDE DEF v, w
        <4>5. v \in Nat /\ w \in Nat
              BY <4>4
        <4> QED BY <4>5 DEF v, w
      <3>5. u[TRUE] \in Nat /\ u[FALSE] \in Nat
            OBVIOUS
      <3>2. \A alt \in BOOLEAN : Worth(z, alt) \in Nat /\ u[~alt] \in Nat
            BY <3>4, <3>5
      <3>3. \A alt \in BOOLEAN : Worth(z, alt) + u[~alt] \in Nat
            BY <3>2
      <3> QED BY <3>3 DEF z
    <2> HIDE DEF One
    <2>2. [alt \in BOOLEAN |-> 0] \in [BOOLEAN -> Nat]
          OBVIOUS
    <2> QED BY <2>1, <2>2
  <1>0. 10 \in Nat /\ 10 >= 2
        OBVIOUS
  <1>3. PICK f : Divides(f, [BOOLEAN -> Nat], 10, [alt \in BOOLEAN |-> 0], G)
    <2> DEFINE T == [BOOLEAN -> Nat]
               x == [alt \in BOOLEAN |-> 0]
               d == 10
    <2>1. G \in [Nat -> [T -> T]] /\ x \in T /\ d \in Nat /\ d >= 2
          BY <1>0, <1>2
    <2> HIDE DEF G, T, x, d
    <2>2. \E f : Divides(f, T, d, x, G)
          BY <2>1, DivRecursion
    <2> QED BY <2>2 DEF T, x, d
  <1>4. \A n \in Nat \ {0} : f[n] = [alt \in BOOLEAN |-> Worth(n % 10, alt) + f[n \div 10][~alt]]
    <2>1. \A n \in Nat : n \div 10 \in Nat
          OBVIOUS
    <2>2. \A n \in Nat : f[n \div 10] \in [BOOLEAN -> Nat]
          BY <1>3, <2>1 DEF Divides
    <2> QED BY <1>3, <2>2 DEF Divides
  <1>5. f \in [Nat -> [BOOLEAN -> Nat]] /\ f[0] = [alt \in BOOLEAN |-> 0]
        BY <1>3 DEF Divides
  <1>6. Goes(f)
    <2>1. ASSUME NEW num \in Nat PROVE f[num] = E(f, num)
      <3>1. CASE num = 0
            BY <1>5, <3>1
      <3>2. CASE num # 0
            BY <1>4, <3>2
      <3> QED BY <3>1, <3>2
    <2> HIDE DEF E
    <2> QED BY <1>5, <2>1
  <1>7. Goes(k)
        BY <1>6
  <1> HIDE DEF k
  <1>8. \A num \in Nat : k[num] = E(k, num)
        BY <1>7
  <1> DEFINE P == {n \in Nat : k[n] = f[n]}
  <1>9. 0 \in P
        BY <1>5, <1>8
  <1>10. ASSUME NEW n \in Nat \ {0}, n \div 10 \in P PROVE n \in P
    <2>1. k[n \div 10] = f[n \div 10]
          BY <1>10
    <2>2. k[n] = E(k, n)
          BY <1>8
    <2>3. k[n] = f[n]
          BY <1>4, <2>1, <2>2
    <2> QED BY <2>3
  <1> HIDE DEF P
  <1>12. Nat \subseteq P
    <2> DEFINE d == 10
    <2>1. d \in Nat /\ d >= 2 /\ \A n \in Nat \ {0} : n \div d \in P => n \in P
          BY <1>0, <1>10
    <2> HIDE DEF d
    <2> QED BY <1>9, <2>1, DivInduct
  <1>11. k = f
    <2> HIDE DEF E
    <2> QED BY <1>5, <1>7, <1>12 DEF P
  <1> QED BY <1>1, <1>4, <1>5, <1>11

LEMMA DigitsAre ==
    /\ Digits \in [Nat -> Seq(0..9)]
    /\ Digits[0] = << >>
    /\ \A n \in Nat \ {0} : Digits[n] = <<n % 10>> \o Digits[n \div 10]
  <1> DEFINE E(f, num) == IF num = 0 THEN << >> ELSE <<num % 10>> \o f[num \div 10]
             Goes(f) == f = [num \in Nat |-> E(f, num)]
             k == CHOOSE f : Goes(f)
             One(n, u) == <<n % 10>> \o u
             G == [n \in Nat |-> [u \in Seq(0..9) |-> One(n, u)]]
  <1>1. Digits = k
        BY DEF Digits
  <1>2. G \in [Nat -> [Seq(0..9) -> Seq(0..9)]] /\ << >> \in Seq(0..9)
    <2>1. ASSUME NEW n \in Nat, NEW u \in Seq(0..9) PROVE One(n, u) \in Seq(0..9)
          <3>1. n % 10 \in 0..9
            OBVIOUS
      <3> QED BY <3>1
    <2> HIDE DEF One
    <2>2. << >> \in Seq(0..9)
          OBVIOUS
    <2> QED BY <2>1, <2>2
  <1>0. 10 \in Nat /\ 10 >= 2
        OBVIOUS
  <1>3. PICK f : Divides(f, Seq(0..9), 10, << >>, G)
    <2> DEFINE T == Seq(0..9)
               x == << >>
               d == 10
    <2>1. G \in [Nat -> [T -> T]] /\ x \in T /\ d \in Nat /\ d >= 2
          BY <1>0, <1>2
    <2> HIDE DEF G, T, x, d
    <2>2. \E f : Divides(f, T, d, x, G)
          BY <2>1, DivRecursion
    <2> QED BY <2>2 DEF T, x, d
  <1>4. \A n \in Nat \ {0} : f[n] = <<n % 10>> \o f[n \div 10]
    <2>1. \A n \in Nat : n \div 10 \in Nat
          OBVIOUS
    <2>2. \A n \in Nat : f[n \div 10] \in Seq(0..9)
          BY <1>3, <2>1 DEF Divides
    <2> QED BY <1>3, <2>2 DEF Divides
  <1>5. f \in [Nat -> Seq(0..9)] /\ f[0] = << >>
        BY <1>3 DEF Divides
  <1>6. Goes(f)
    <2>1. ASSUME NEW num \in Nat PROVE f[num] = E(f, num)
      <3>1. CASE num = 0
            BY <1>5, <3>1
      <3>2. CASE num # 0
            BY <1>4, <3>2
      <3> QED BY <3>1, <3>2
    <2> HIDE DEF E
    <2> QED BY <1>5, <2>1
  <1>7. Goes(k)
        BY <1>6
  <1> HIDE DEF k
  <1>8. \A num \in Nat : k[num] = E(k, num)
        BY <1>7
  <1> DEFINE P == {n \in Nat : k[n] = f[n]}
  <1>9. 0 \in P
        BY <1>5, <1>8
  <1>10. ASSUME NEW n \in Nat \ {0}, n \div 10 \in P PROVE n \in P
    <2>1. k[n \div 10] = f[n \div 10]
          BY <1>10
    <2>2. k[n] = E(k, n)
          BY <1>8
    <2>3. k[n] = f[n]
          BY <1>4, <2>1, <2>2
    <2> QED BY <2>3
  <1> HIDE DEF P
  <1>12. Nat \subseteq P
    <2> DEFINE d == 10
    <2>1. d \in Nat /\ d >= 2 /\ \A n \in Nat \ {0} : n \div d \in P => n \in P
          BY <1>0, <1>10
    <2> HIDE DEF d
    <2> QED BY <1>9, <2>1, DivInduct
  <1>11. k = f
    <2> HIDE DEF E
    <2> QED BY <1>5, <1>7, <1>12 DEF P
  <1> QED BY <1>1, <1>4, <1>5, <1>11

LEMMA SumMore ==
    ASSUME NEW q \in Nat, NEW d \in 0..9, NEW alt \in BOOLEAN
    PROVE  Sum[10 * q + d][alt] = Worth(d, alt) + Sum[q][~alt]
  <1> DEFINE n == 10 * q + d
  <1>1. n \in Nat /\ n % 10 = d /\ n \div 10 = q
        OBVIOUS
  <1>2. CASE n = 0
    <2>1. q = 0 /\ d = 0
          BY <1>2
    <2>2. Sum[n][alt] = 0 /\ Sum[q][~alt] = 0
          BY <1>2, <2>1, SumIs
    <2>3. Worth(d, alt) = 0
      <3>1. Worth(0, TRUE) = 0 /\ Worth(0, FALSE) = 0
            BY DEF Worth
      <3> QED BY <2>1, <3>1
    <2> HIDE DEF n
    <2> QED BY <2>2, <2>3 DEF n
  <1>3. CASE n # 0
    <2> HIDE DEF n
    <2>1. Sum[n] = [a \in BOOLEAN |-> Worth(n % 10, a) + Sum[n \div 10][~a]]
          BY <1>1, <1>3, SumIs
    <2>2. Sum[n][alt] = Worth(n % 10, alt) + Sum[n \div 10][~alt]
          BY <2>1
    <2> QED BY <1>1, <2>2 DEF n
  <1> QED BY <1>2, <1>3

LEMMA TenToIs ==
    /\ TenTo \in [Nat -> Nat \ {0}] /\ TenTo[0] = 1
    /\ \A n \in Nat : TenTo[n + 1] = 10 * TenTo[n]
  <1> DEFINE E(f, n) == IF n = 0 THEN 1 ELSE 10 * f[n - 1]
             Goes(f) == f = [n \in Nat |-> E(f, n)]
             k == CHOOSE f : Goes(f)
             S == Nat \ {0}
             F == [x \in S |-> 10 * x]
  <1>1. TenTo = k
        BY DEF TenTo
  <1>2. PICK f : Iterates(f, S, 1, F)
    <2>1. 1 \in S /\ F \in [S -> S]
          OBVIOUS
    <2> HIDE DEF S, F
    <2> QED BY <2>1, Iterated
  <1>3. f \in [Nat -> S] /\ f[0] = 1 /\ \A n \in Nat : f[n + 1] = 10 * f[n]
        BY <1>2 DEF Iterates
  <1>4. Goes(f)
    <2>1. ASSUME NEW n \in Nat PROVE f[n] = E(f, n)
      <3>1. CASE n = 0
            BY <1>3, <3>1
      <3>2. CASE n # 0
        <4>1. n - 1 \in Nat /\ (n - 1) + 1 = n
              BY <3>2
        <4>2. f[n] = 10 * f[n - 1]
              BY <1>3, <4>1
        <4> QED BY <3>2, <4>2
      <3> QED BY <3>1, <3>2
    <2> HIDE DEF E
    <2> QED BY <1>3, <2>1
  <1>5. Goes(k)
        BY <1>4
  <1> HIDE DEF k
  <1>6. \A n \in Nat : k[n] = E(k, n)
        BY <1>5
  <1> DEFINE P == {n \in Nat : k[n] = f[n]}
  <1>7. 0 \in P
        BY <1>3, <1>6
  <1>8. ASSUME NEW n \in Nat, n \in P PROVE n + 1 \in P
    <2>1. n + 1 \in Nat /\ n + 1 # 0 /\ (n + 1) - 1 = n
          OBVIOUS
    <2>2. k[n + 1] = 10 * k[n]
          BY <1>6, <2>1
    <2> QED BY <1>3, <1>8, <2>1, <2>2
  <1> HIDE DEF P
  <1>9. Nat \subseteq P
        BY <1>7, <1>8, Induct
  <1>10. k = f
        BY <1>3, <1>5, <1>9 DEF P
  <1> QED BY <1>1, <1>3, <1>10

(***************************************************************************)
(* What the digits below a place, lo, add does not depend on those from    *)
(* the place on, q.                                                        *)
(***************************************************************************)
TailAdds(k, lo, alt) == \E c \in Nat, b \in BOOLEAN :
    \A q \in Nat : Sum[q * TenTo[k] + lo][alt] = c + Sum[q][b]

LEMMA TailsAdd ==
    \A k \in Nat : \A lo \in 0..TenTo[k] - 1, alt \in BOOLEAN : TailAdds(k, lo, alt)
  <1> DEFINE P == {k \in Nat : \A lo \in 0..TenTo[k] - 1, alt \in BOOLEAN : TailAdds(k, lo, alt)}
  <1>1. 0 \in P
    <2> SUFFICES ASSUME NEW alt \in BOOLEAN PROVE TailAdds(0, 0, alt)
        BY TenToIs
    <2>1. \A q \in Nat : q * TenTo[0] + 0 = q /\ Sum[q][alt] \in Nat
          BY TenToIs, SumIs
    <2>2. \A q \in Nat : Sum[q * TenTo[0] + 0][alt] = 0 + Sum[q][alt]
          BY <2>1
    <2> QED BY <2>2 DEF TailAdds
  <1>2. ASSUME NEW k \in Nat, k \in P PROVE k + 1 \in P
    <2> SUFFICES ASSUME NEW lo \in 0..TenTo[k + 1] - 1, NEW alt \in BOOLEAN
                 PROVE  TailAdds(k + 1, lo, alt)
        OBVIOUS
    <2> DEFINE t == TenTo[k]
               h == lo \div 10
               d == lo % 10
    <2>1. t \in Nat /\ t # 0 /\ TenTo[k + 1] = 10 * t
          BY TenToIs
    <2>2. lo \in Nat /\ lo < 10 * t
          BY <2>1
    <2>3. h \in Nat /\ d \in 0..9 /\ lo = 10 * h + d
          BY <2>2
    <2> HIDE DEF h, d
    <2>4. h \in 0..t - 1
          BY <2>1, <2>2, <2>3
    <2>5. PICK c \in Nat, b \in BOOLEAN : \A q \in Nat : Sum[q * t + h][~alt] = c + Sum[q][b]
      <3>1. TailAdds(k, h, ~alt)
        <4>1. TailAdds(k, h, TRUE) /\ TailAdds(k, h, FALSE)
              BY <1>2, <2>4 DEF t
        <4>2. CASE alt = TRUE
          <5>1. ~alt = FALSE
                BY <4>2
          <5> QED BY <4>1, <5>1
        <4>3. CASE alt = FALSE
          <5>1. ~alt = TRUE
                BY <4>3
          <5> QED BY <4>1, <5>1
        <4> QED BY <4>2, <4>3
      <3> QED BY <3>1 DEF TailAdds
    <2> HIDE DEF t
    <2>6. Worth(d, alt) \in Nat
      <3>1. Worth(d, alt) \in 0..9
            BY <2>3, WorthIs
      <3> QED BY <3>1
    <2>7. ASSUME NEW q \in Nat PROVE Sum[q * (10 * t) + lo][alt] = (Worth(d, alt) + c) + Sum[q][b]
      <3>1. q * t + h \in Nat /\ q * (10 * t) + lo = 10 * (q * t + h) + d
            BY <2>1, <2>3
      <3>2. Sum[10 * (q * t + h) + d][alt] = Worth(d, alt) + Sum[q * t + h][~alt]
            BY <2>3, <3>1, SumMore
      <3>3. Sum[q * t + h][~alt] = c + Sum[q][b] /\ Sum[q][b] \in Nat
            BY <2>5, SumIs
      <3> QED BY <2>6, <3>1, <3>2, <3>3
    <2>8. Worth(d, alt) + c \in Nat
          BY <2>6
    <2> QED BY <2>1, <2>7, <2>8 DEF TailAdds
  <1> HIDE DEF P
  <1>3. Nat \subseteq P
        BY <1>1, <1>2, Induct
  <1> QED BY <1>3 DEF P

(***************************************************************************)
(* A digit is the last one of the number from its place on.                *)
(***************************************************************************)
Placed(n, i, q, lo) ==
    /\ lo \in 0..TenTo[i - 1] - 1 /\ n = q * TenTo[i - 1] + lo
    /\ Digits[n][i] = q % 10
    /\ i < Len(Digits[n]) => Digits[n][i + 1] = (q \div 10) % 10

LEMMA DigitsPlaced ==
    \A n \in Nat : \A i \in 1..Len(Digits[n]) : \E q \in Nat, lo \in Nat : Placed(n, i, q, lo)
  <1> DEFINE P == {n \in Nat : \A i \in 1..Len(Digits[n]) :
                                  \E q \in Nat, lo \in Nat : Placed(n, i, q, lo)}
  <1>1. 0 \in P
        BY DigitsAre
  <1>2. ASSUME NEW n \in Nat \ {0}, n \div 10 \in P PROVE n \in P
    <2> DEFINE h == n \div 10
               d == n % 10
               r == Digits[h]
    <2>1. h \in Nat /\ d \in 0..9 /\ n = 10 * h + d
          OBVIOUS
    <2>2. r \in Seq(0..9) /\ Digits[n] = <<d>> \o r
          BY <2>1, DigitsAre
    <2>3. h \in P
          BY <1>2
    <2>4. Len(r) > 0 => r[1] = h % 10
      <3>1. CASE h = 0
            BY <3>1, DigitsAre
      <3>2. CASE h # 0
        <4>1. r = <<h % 10>> \o Digits[h \div 10] /\ h \div 10 \in Nat
          <5> HIDE DEF h
          <5>1. h \div 10 \in Nat
                BY <2>1
          <5> QED BY <2>1, <3>2, <5>1, DigitsAre
        <4>2. Digits[h \div 10] \in Seq(0..9)
              BY <4>1, DigitsAre
        <4> QED BY <4>1, <4>2
      <3> QED BY <3>1, <3>2
    <2>5. /\ Len(Digits[n]) = Len(r) + 1 /\ Digits[n][1] = d
          /\ \A j \in 1..Len(r) : Digits[n][j + 1] = r[j]
          BY <2>2
    <2>6. Len(r) \in Nat
          BY <2>2
    <2> HIDE DEF r
    <2>7. Placed(n, 1, n, 0)
      <3>1. TenTo[1 - 1] = 1
            BY TenToIs
      <3>2. 1 < Len(Digits[n]) => Digits[n][1 + 1] = h % 10
            BY <2>4, <2>5, <2>6
      <3> QED BY <2>5, <3>1, <3>2 DEF Placed
    <2> HIDE DEF h, d
    <2>8. ASSUME NEW j \in 1..Len(r)
          PROVE  \E q \in Nat, lo \in Nat : Placed(n, j + 1, q, lo)
      <3>1. PICK q \in Nat, lo \in Nat : Placed(h, j, q, lo)
            BY <2>3, <2>6 DEF r
      <3> DEFINE t == TenTo[j - 1]
      <3>2. j - 1 \in Nat /\ (j - 1) + 1 = j /\ (j + 1) - 1 = j
            BY <2>6
      <3>3. t \in Nat /\ TenTo[j] = 10 * t
            BY <3>2, TenToIs
      <3>4. lo < t /\ h = q * t + lo
            BY <3>1, <3>3 DEF Placed
      <3>5. r[j] = q % 10 /\ (j < Len(r) => r[j + 1] = (q \div 10) % 10)
            BY <3>1 DEF Placed, r
      <3> HIDE DEF t
      <3>6. 10 * lo + d \in 0..10 * t - 1 /\ n = q * (10 * t) + (10 * lo + d)
            BY <2>1, <3>3, <3>4
      <3>7. Digits[n][j + 1] = q % 10
            BY <2>5, <3>5
      <3>8. j + 1 < Len(Digits[n]) => Digits[n][(j + 1) + 1] = (q \div 10) % 10
        <4> SUFFICES ASSUME j + 1 < Len(Digits[n])
                     PROVE  Digits[n][(j + 1) + 1] = (q \div 10) % 10
            OBVIOUS
        <4>1. j < Len(r) /\ j + 1 \in 1..Len(r)
              BY <2>5, <2>6
        <4> QED BY <2>5, <3>5, <4>1
      <3>9. Placed(n, j + 1, q, 10 * lo + d)
            BY <3>2, <3>3, <3>6, <3>7, <3>8 DEF Placed
      <3>10. 10 * lo + d \in Nat
            BY <2>1
      <3> QED BY <3>9, <3>10
    <2>9. ASSUME NEW i \in 1..Len(Digits[n])
          PROVE  \E q \in Nat, lo \in Nat : Placed(n, i, q, lo)
      <3>1. CASE i = 1
            BY <2>7, <3>1
      <3>2. CASE i # 1
        <4>1. i - 1 \in 1..Len(r) /\ (i - 1) + 1 = i
              BY <2>5, <2>6, <3>2
        <4> QED BY <2>8, <4>1
      <3> QED BY <3>1, <3>2
    <2> QED BY <2>9
  <1> HIDE DEF P
  <1>3. Nat \subseteq P
    <2> DEFINE d == 10
    <2>1. d \in Nat /\ d >= 2 /\ \A n \in Nat \ {0} : n \div d \in P => n \in P
          BY <1>2
    <2> HIDE DEF d
    <2> QED BY <1>1, <2>1, DivInduct
  <1> QED BY <1>3 DEF P

LEMMA WorthsDiffer ==
    /\ \A x, y \in 0..9, b \in BOOLEAN :
          Worth(x, b) \in 0..9 /\ (Worth(x, b) = Worth(y, b) => x = y)
    /\ \A x, y \in 0..9, b \in BOOLEAN :
          x # y /\ {x, y} # {0, 9} =>
             ((Worth(x, b) + Worth(y, ~b)) - (Worth(y, b) + Worth(x, ~b))) % 10 # 0
  <1> SUFFICES ASSUME NEW x \in 0..9, NEW y \in 0..9, NEW b \in BOOLEAN
               PROVE  /\ Worth(x, b) \in 0..9 /\ (Worth(x, b) = Worth(y, b) => x = y)
                      /\ x # y /\ {x, y} # {0, 9} =>
                            ((Worth(x, b) + Worth(y, ~b)) - (Worth(y, b) + Worth(x, ~b))) % 10 # 0
      OBVIOUS
  <1> DEFINE p == Worth(x, TRUE)
             q == Worth(y, TRUE)
  <1>1. /\ Worth(x, FALSE) = x /\ p = IF x <= 4 THEN 2 * x ELSE 2 * x - 9
        /\ Worth(y, FALSE) = y /\ q = IF y <= 4 THEN 2 * y ELSE 2 * y - 9
        BY WorthIs
  <1> HIDE DEF p, q
  <1>2. p \in 0..9 /\ q \in 0..9 /\ (p = q => x = y)
        BY <1>1
  <1>3. (p - x) % 10 = (q - y) % 10 => x = y \/ (x = 0 /\ y = 9) \/ (x = 9 /\ y = 0)
        BY <1>1
  <1>4. CASE b = TRUE
    <2>1. ((p + y) - (q + x)) % 10 = 0 => (p - x) % 10 = (q - y) % 10
          BY <1>2
    <2>2. {x, y} # {0, 9} => ~((x = 0 /\ y = 9) \/ (x = 9 /\ y = 0))
          OBVIOUS
    <2>3. /\ Worth(x, b) = p /\ Worth(y, b) = q /\ Worth(x, ~b) = x /\ Worth(y, ~b) = y
          BY <1>1, <1>4 DEF p, q
    <2> QED BY <1>2, <1>3, <2>1, <2>2, <2>3
  <1>5. CASE b = FALSE
    <2>1. ((x + q) - (y + p)) % 10 = 0 => (p - x) % 10 = (q - y) % 10
          BY <1>2
    <2>2. {x, y} # {0, 9} => ~((x = 0 /\ y = 9) \/ (x = 9 /\ y = 0))
          OBVIOUS
    <2>3. /\ Worth(x, b) = x /\ Worth(y, b) = y /\ Worth(x, ~b) = p /\ Worth(y, ~b) = q
          BY <1>1, <1>5 DEF p, q
    <2> QED BY <1>2, <1>3, <2>1, <2>2, <2>3
  <1> QED BY <1>4, <1>5

Parted(n, q, lo, k) == lo \in 0..TenTo[k] - 1 /\ n = q * TenTo[k] + lo

Share(n, q, m, z) == \E c \in Nat, b \in BOOLEAN :
    Sum[n][FALSE] = c + Sum[q][b] /\ Sum[m][FALSE] = c + Sum[z][b]

LEMMA SumsShare ==
    ASSUME NEW n, NEW q \in Nat, NEW m, NEW z \in Nat, NEW k \in Nat, NEW lo,
           Parted(n, q, lo, k), Parted(m, z, lo, k)
    PROVE  Share(n, q, m, z)
  <1>1. lo \in 0..TenTo[k] - 1 /\ n = q * TenTo[k] + lo /\ m = z * TenTo[k] + lo
        BY DEF Parted
  <1>2. TailAdds(k, lo, FALSE)
        BY <1>1, TailsAdd
  <1>3. PICK c \in Nat, b \in BOOLEAN :
          \A u \in Nat : Sum[u * TenTo[k] + lo][FALSE] = c + Sum[u][b]
        BY <1>2 DEF TailAdds
  <1> QED BY <1>1, <1>3 DEF Share

LEMMA LuhnRight == \A num \in Nat : LuhnDetects(num, luhn_check(num))
  <1> SUFFICES ASSUME NEW n \in Nat PROVE LuhnDetects(n, luhn_check(n))
      OBVIOUS
  <1>0. Digits[n] \in Seq(0..9)
        BY DigitsAre
  <1>2. ASSUME luhn_check(n), NEW i \in 1..Len(Digits[n]), NEW d \in 0..9, d # Digits[n][i],
               luhn_check(Mistaken(n, i, d))
        PROVE  FALSE
    <2> DEFINE x == Digits[n][i]
               t == TenTo[i - 1]
               m == Mistaken(n, i, d)
    <2>1. PICK q \in Nat, lo \in Nat : Placed(n, i, q, lo)
          BY DigitsPlaced
    <2> DEFINE r == q \div 10
    <2>2. x = q % 10 /\ n = q * t + lo
          BY <2>1 DEF Placed
    <2>3. x \in 0..9 /\ r \in Nat /\ q = 10 * r + x
      <3> HIDE DEF x
      <3> QED BY <2>2
    <2>4. t \in Nat
      <3>1. i - 1 \in Nat
            BY <1>0
      <3> QED BY <3>1, TenToIs
    <2>5. m = (n - x * t) + d * t
          BY DEF Mistaken
    <2> HIDE DEF x, t, m, r
    <2>6. m = (10 * r + d) * t + lo /\ m \in Nat /\ 10 * r + d \in Nat
      <3> DEFINE e == r * t
                 g == x * t
                 h == d * t
      <3>1. q * t = 10 * e + g /\ (10 * r + d) * t = 10 * e + h
            BY <2>3, <2>4
      <3>2. e \in Nat /\ g \in Nat /\ h \in Nat
            BY <2>3, <2>4
      <3> HIDE DEF e, g, h
      <3>3. n = (10 * e + g) + lo
            BY <2>2, <3>1
      <3>4. m = (n - g) + h
            BY <2>5 DEF g, h
      <3>5. m = (10 * e + h) + lo /\ m \in Nat
            BY <3>2, <3>3, <3>4
      <3> QED BY <2>3, <3>1, <3>5
    <2>7. PICK c \in Nat, b \in BOOLEAN :
            Sum[n][FALSE] = c + Sum[q][b] /\ Sum[m][FALSE] = c + Sum[10 * r + d][b]
      <3> DEFINE z == 10 * r + d
      <3>1. Parted(n, q, lo, i - 1)
            BY <2>1 DEF Placed, Parted
      <3>2. Parted(m, z, lo, i - 1)
            BY <2>1, <2>6 DEF Placed, Parted, t
      <3>3. z \in Nat /\ i - 1 \in Nat
            BY <1>0, <2>6
      <3> HIDE DEF z
      <3>4. Share(n, q, m, z)
            BY <3>1, <3>2, <3>3, SumsShare
      <3> QED BY <3>4 DEF Share, z
    <2>8. Sum[q][b] = Worth(x, b) + Sum[r][~b] /\ Sum[10 * r + d][b] = Worth(d, b) + Sum[r][~b]
          BY <2>3, SumMore
    <2>9. Worth(x, b) \in 0..9 /\ Worth(d, b) \in 0..9 /\ Worth(x, b) # Worth(d, b)
          BY <1>2, <2>3, WorthsDiffer DEF x
    <2>10. Sum[r][~b] \in Nat
      <3>1. Sum[r] \in [BOOLEAN -> Nat]
            BY <2>3, SumIs
      <3> QED BY <3>1
    <2>11. Sum[n][FALSE] % 10 = 0 /\ Sum[m][FALSE] % 10 = 0
          BY <1>2 DEF luhn_check, m
    <2> DEFINE w == Worth(x, b)
               v == Worth(d, b)
               s == Sum[r][~b]
    <2>12. (c + (w + s)) % 10 = 0 /\ (c + (v + s)) % 10 = 0 /\ s \in Nat
          BY <2>7, <2>8, <2>10, <2>11
    <2>13. w \in 0..9 /\ v \in 0..9 /\ w # v
          BY <2>9
    <2> HIDE DEF w, v, s
    <2> QED BY <2>12, <2>13
  <1>3. ASSUME luhn_check(n), NEW i \in 1..Len(Digits[n]) - 1, Digits[n][i] # Digits[n][i + 1],
               {Digits[n][i], Digits[n][i + 1]} # {0, 9}, luhn_check(Exchanged(n, i))
        PROVE  FALSE
    <2> DEFINE x == Digits[n][i]
               y == Digits[n][i + 1]
               t == TenTo[i - 1]
               m == Exchanged(n, i)
    <2>0. i \in 1..Len(Digits[n]) /\ i < Len(Digits[n]) /\ i - 1 \in Nat
          BY <1>0
    <2>1. PICK q \in Nat, lo \in Nat : Placed(n, i, q, lo)
          BY <2>0, DigitsPlaced
    <2> DEFINE p == q \div 10
               r == p \div 10
    <2>2. x = q % 10 /\ y = p % 10 /\ n = q * t + lo
          BY <2>0, <2>1 DEF Placed
    <2>3. /\ x \in 0..9 /\ y \in 0..9 /\ p \in Nat /\ r \in Nat
          /\ q = 10 * p + x /\ p = 10 * r + y
          BY <2>2
    <2>4. t \in Nat
          BY <2>0, TenToIs
    <2>5. m = (n - (x + 10 * y) * t) + (y + 10 * x) * t
          BY DEF Exchanged
    <2> HIDE DEF x, y, t, m, p, r
    <2>6. m = (10 * (10 * r + x) + y) * t + lo /\ m \in Nat
      <3> DEFINE e == r * t
                 g == x * t
                 h == y * t
      <3>1. /\ q * t = (100 * e + 10 * h) + g /\ (10 * (10 * r + x) + y) * t = (100 * e + 10 * g) + h
            /\ (x + 10 * y) * t = g + 10 * h /\ (y + 10 * x) * t = h + 10 * g
            BY <2>3, <2>4
      <3>2. e \in Nat /\ g \in Nat /\ h \in Nat
            BY <2>3, <2>4
      <3> HIDE DEF e, g, h
      <3>3. n = ((100 * e + 10 * h) + g) + lo
            BY <2>2, <3>1
      <3>4. m = (n - (g + 10 * h)) + (h + 10 * g)
            BY <2>5, <3>1
      <3>5. m = ((100 * e + 10 * g) + h) + lo /\ m \in Nat
            BY <3>2, <3>3, <3>4
      <3> QED BY <3>1, <3>5
    <2> DEFINE z == 10 * (10 * r + x) + y
    <2>7. z \in Nat /\ 10 * r + x \in Nat /\ 10 * r + y \in Nat
          BY <2>3
    <2>8. PICK c \in Nat, b \in BOOLEAN :
            Sum[n][FALSE] = c + Sum[q][b] /\ Sum[m][FALSE] = c + Sum[z][b]
      <3>1. Parted(n, q, lo, i - 1)
            BY <2>1 DEF Placed, Parted
      <3>2. Parted(m, z, lo, i - 1)
            BY <2>1, <2>6 DEF Placed, Parted, t
      <3>3. z \in Nat /\ i - 1 \in Nat
            BY <2>0, <2>7
      <3> HIDE DEF z
      <3>4. Share(n, q, m, z)
            BY <3>1, <3>2, <3>3, SumsShare
      <3> QED BY <3>4 DEF Share
    <2>9. /\ Sum[q][b] = Worth(x, b) + Sum[p][~b] /\ Sum[p][~b] = Worth(y, ~b) + Sum[r][~~b]
          BY <2>3, SumMore
    <2>10. Sum[z][b] = Worth(y, b) + Sum[10 * r + x][~b]
          BY <2>3, <2>7, SumMore
    <2>11. Sum[10 * r + x][~b] = Worth(x, ~b) + Sum[r][~~b]
          BY <2>3, SumMore
    <2>12. Sum[r][~~b] \in Nat
      <3>1. Sum[r] \in [BOOLEAN -> Nat]
            BY <2>3, SumIs
      <3> QED BY <3>1
    <2>13. /\ Worth(x, b) \in Nat /\ Worth(y, ~b) \in Nat /\ Worth(y, b) \in Nat
           /\ Worth(x, ~b) \in Nat
           /\ ((Worth(x, b) + Worth(y, ~b)) - (Worth(y, b) + Worth(x, ~b))) % 10 # 0
      <3>1. x # y /\ {x, y} # {0, 9}
            BY <1>3 DEF x, y
      <3>2. ((Worth(x, b) + Worth(y, ~b)) - (Worth(y, b) + Worth(x, ~b))) % 10 # 0
            BY <2>3, <3>1, WorthsDiffer
      <3>3. /\ Worth(x, b) \in 0..9 /\ Worth(y, ~b) \in 0..9 /\ Worth(y, b) \in 0..9
            /\ Worth(x, ~b) \in 0..9
            BY <2>3, WorthIs
      <3> QED BY <3>2, <3>3
    <2>14. Sum[n][FALSE] % 10 = 0 /\ Sum[m][FALSE] % 10 = 0
          BY <1>3 DEF luhn_check, m
    <2> DEFINE a1 == Worth(x, b)
               a2 == Worth(y, ~b)
               b1 == Worth(y, b)
               b2 == Worth(x, ~b)
               s == Sum[r][~~b]
    <2> HIDE DEF z
    <2>15. (c + (a1 + (a2 + s))) % 10 = 0 /\ (c + (b1 + (b2 + s))) % 10 = 0 /\ s \in Nat
          BY <2>8, <2>9, <2>10, <2>11, <2>12, <2>14
    <2>16. /\ a1 \in Nat /\ a2 \in Nat /\ b1 \in Nat /\ b2 \in Nat
           /\ ((a1 + a2) - (b1 + b2)) % 10 # 0
          BY <2>13
    <2> HIDE DEF a1, a2, b1, b2, s
    <2> QED BY <2>15, <2>16
  <1>4. ASSUME n >= 10 PROVE \E d \in 0..9 : luhn_check(Mistaken(n, 1, d))
    <2> DEFINE r == n \div 10
               x == n % 10
               s == Sum[r][TRUE]
               d == (0 - s) % 10
    <2>1. r \in Nat /\ r >= 1 /\ x \in 0..9 /\ n = 10 * r + x
          BY <1>4
    <2>2. s \in Nat
          BY <2>1, SumIs
    <2>3. d \in 0..9 /\ (d + s) % 10 = 0
      <3> HIDE DEF s
      <3> QED BY <2>2
    <2>4. Digits[n][1] = x
      <3>1. Digits[n] = <<n % 10>> \o Digits[r]
        <4>1. n # 0
              BY <1>4
        <4> QED BY <4>1, DigitsAre
      <3>2. Digits[r] \in Seq(0..9)
        <4> HIDE DEF r
        <4> QED BY <2>1, DigitsAre
      <3> QED BY <3>1, <3>2
    <2>5. TenTo[1 - 1] = 1
          BY TenToIs
    <2>6. Mistaken(n, 1, d) = (n - x * 1) + d * 1
          BY <2>4, <2>5 DEF Mistaken
    <2> HIDE DEF r, x, d
    <2>7. Mistaken(n, 1, d) = 10 * r + d /\ 10 * r + d >= 10
          BY <2>1, <2>3, <2>6
    <2>8. Sum[10 * r + d][FALSE] = Worth(d, FALSE) + Sum[r][TRUE]
          BY <2>1, <2>3, SumMore
    <2>9. Sum[10 * r + d][FALSE] = d + s
          BY <2>3, <2>8, WorthIs
    <2>10. luhn_check(Mistaken(n, 1, d))
          BY <2>3, <2>7, <2>9 DEF luhn_check
    <2> QED BY <2>3, <2>10
  <1>5. \A i \in 1..Len(Digits[n]), d \in 0..9 : d # Digits[n][i] /\ luhn_check(n) => ~luhn_check(Mistaken(n, i, d))
        BY <1>2
  <1>6. \A i \in 1..Len(Digits[n]) - 1 :
           Digits[n][i] # Digits[n][i + 1] /\ {Digits[n][i], Digits[n][i + 1]} # {0, 9} /\ luhn_check(n) =>
              ~luhn_check(Exchanged(n, i))
        BY <1>3
  <1> QED BY <1>4, <1>5, <1>6 DEF LuhnDetects

(***************************************************************************)
(* Words, and what can be undone on them.                                  *)
(***************************************************************************)
LEMMA TwoToIs ==
    /\ TwoTo \in [Nat -> Nat \ {0}] /\ TwoTo[0] = 1
    /\ \A n \in Nat : TwoTo[n + 1] = 2 * TwoTo[n]
  <1> DEFINE E(f, n) == IF n = 0 THEN 1 ELSE 2 * f[n - 1]
             Goes(f) == f = [n \in Nat |-> E(f, n)]
             k == CHOOSE f : Goes(f)
             S == Nat \ {0}
             F == [x \in S |-> 2 * x]
  <1>1. TwoTo = k
        BY DEF TwoTo
  <1>2. PICK f : Iterates(f, S, 1, F)
    <2>1. 1 \in S /\ F \in [S -> S]
          OBVIOUS
    <2> HIDE DEF S, F
    <2> QED BY <2>1, Iterated
  <1>3. f \in [Nat -> S] /\ f[0] = 1 /\ \A n \in Nat : f[n + 1] = 2 * f[n]
        BY <1>2 DEF Iterates
  <1>4. Goes(f)
    <2>1. ASSUME NEW n \in Nat PROVE f[n] = E(f, n)
      <3>1. CASE n = 0
            BY <1>3, <3>1
      <3>2. CASE n # 0
        <4>1. n - 1 \in Nat /\ (n - 1) + 1 = n
              BY <3>2
        <4>2. f[n] = 2 * f[n - 1]
              BY <1>3, <4>1
        <4> QED BY <3>2, <4>2
      <3> QED BY <3>1, <3>2
    <2> HIDE DEF E
    <2> QED BY <1>3, <2>1
  <1>5. Goes(k)
        BY <1>4
  <1> HIDE DEF k
  <1>6. \A n \in Nat : k[n] = E(k, n)
        BY <1>5
  <1> DEFINE P == {n \in Nat : k[n] = f[n]}
  <1>7. 0 \in P
        BY <1>3, <1>6
  <1>8. ASSUME NEW n \in Nat, n \in P PROVE n + 1 \in P
    <2>1. n + 1 \in Nat /\ n + 1 # 0 /\ (n + 1) - 1 = n
          OBVIOUS
    <2>2. k[n + 1] = 2 * k[n]
          BY <1>6, <2>1
    <2> QED BY <1>3, <1>8, <2>1, <2>2
  <1> HIDE DEF P
  <1>9. Nat \subseteq P
        BY <1>7, <1>8, Induct
  <1>10. k = f
        BY <1>3, <1>5, <1>9 DEF P
  <1> QED BY <1>1, <1>3, <1>10

LEMMA TwoToSum == \A k \in Nat, l \in Nat : TwoTo[k + l] = TwoTo[k] * TwoTo[l]
  <1> SUFFICES ASSUME NEW l \in Nat PROVE \A k \in Nat : TwoTo[k + l] = TwoTo[k] * TwoTo[l]
      OBVIOUS
  <1> DEFINE P == {k \in Nat : TwoTo[k + l] = TwoTo[k] * TwoTo[l]}
  <1>1. 0 \in P
    <2>1. 0 + l = l /\ TwoTo[l] \in Nat
          BY TwoToIs
    <2> QED BY <2>1, TwoToIs
  <1>2. ASSUME NEW k \in Nat, k \in P PROVE k + 1 \in P
    <2>1. (k + 1) + l = (k + l) + 1 /\ k + l \in Nat
          OBVIOUS
    <2> DEFINE a == TwoTo[k]
               b == TwoTo[l]
    <2>2. a \in Nat /\ b \in Nat /\ TwoTo[k + l] = a * b
          BY <1>2, TwoToIs
    <2>3. TwoTo[(k + 1) + l] = 2 * TwoTo[k + l] /\ TwoTo[k + 1] = 2 * a
          BY <2>1, TwoToIs
    <2> HIDE DEF a
    <2>4. 2 * (a * b) = (2 * a) * b
          BY <2>2
    <2> QED BY <2>2, <2>3, <2>4
  <1> HIDE DEF P
  <1>3. Nat \subseteq P
        BY <1>1, <1>2, Induct
  <1> QED BY <1>3 DEF P

LEMMA OddFactor ==
    ASSUME NEW m \in Nat, m % 2 = 1
    PROVE  \A k \in Nat : \A x \in Int : Multiple(x * m, TwoTo[k]) => Multiple(x, TwoTo[k])
  <1> DEFINE P == {k \in Nat : \A x \in Int : Multiple(x * m, TwoTo[k]) => Multiple(x, TwoTo[k])}
             g == m \div 2
  <1>0. g \in Nat /\ m = 2 * g + 1
        OBVIOUS
  <1> HIDE DEF g
  <1>1. 0 \in P
    <2>1. TwoTo[0] = 1
          BY TwoToIs
    <2>2. \A x \in Int : x = x * 1
          OBVIOUS
    <2> QED BY <2>1, <2>2 DEF Multiple
  <1>2. ASSUME NEW k \in Nat, k \in P PROVE k + 1 \in P
    <2> SUFFICES ASSUME NEW x \in Int, Multiple(x * m, TwoTo[k + 1])
                 PROVE  Multiple(x, TwoTo[k + 1])
        OBVIOUS
    <2> DEFINE t == TwoTo[k]
    <2>1. t \in Nat /\ TwoTo[k + 1] = 2 * t
          BY TwoToIs
    <2> HIDE DEF t
    <2>2. PICK z \in Int : x * m = z * (2 * t)
          BY <2>1 DEF Multiple
    <2> DEFINE y == z * t - x * g
    <2>3. y \in Int /\ x = 2 * y
      <3>1. x * m = 2 * (x * g) + x /\ z * (2 * t) = 2 * (z * t) /\ x * g \in Int /\ z * t \in Int
            BY <1>0, <2>1
      <3> DEFINE a == x * g
                 b == z * t
      <3>2. a \in Int /\ b \in Int /\ 2 * a + x = 2 * b
            BY <2>2, <3>1
      <3> HIDE DEF a, b
      <3>3. b - a \in Int /\ x = 2 * (b - a)
            BY <3>2
      <3> QED BY <3>3 DEF a, b
    <2> HIDE DEF y
    <2>4. y * m = z * t
      <3>1. x * m = 2 * (y * m) /\ z * (2 * t) = 2 * (z * t) /\ y * m \in Int /\ z * t \in Int
            BY <2>1, <2>3
      <3> DEFINE a == y * m
                 b == z * t
      <3>2. a \in Int /\ b \in Int /\ 2 * a = 2 * b
            BY <2>2, <3>1
      <3> HIDE DEF a, b
      <3>3. a = b
            BY <3>2
      <3> QED BY <3>3 DEF a, b
    <2>5. Multiple(y, t)
      <3>1. Multiple(y * m, t)
            BY <2>4 DEF Multiple
      <3> QED BY <1>2, <2>3, <3>1 DEF t
    <2>6. PICK w \in Int : y = w * t
          BY <2>5 DEF Multiple
    <2>7. x = w * (2 * t)
          BY <2>1, <2>3, <2>6
    <2> QED BY <2>1, <2>7 DEF Multiple
  <1> HIDE DEF P
  <1>3. Nat \subseteq P
        BY <1>1, <1>2, Induct
  <1> QED BY <1>3 DEF P

(***************************************************************************)
(* A product with an odd number is another for each word.                  *)
(***************************************************************************)
LEMMA OddProduct ==
    ASSUME NEW k \in Nat, NEW m \in Nat, m % 2 = 1
    PROVE  \A a, b \in Int :
              (a * m) % TwoTo[k] = (b * m) % TwoTo[k] => a % TwoTo[k] = b % TwoTo[k]
  <1> SUFFICES ASSUME NEW a \in Int, NEW b \in Int, (a * m) % TwoTo[k] = (b * m) % TwoTo[k]
               PROVE  a % TwoTo[k] = b % TwoTo[k]
      OBVIOUS
  <1>1. TwoTo[k] \in Nat \ {0} /\ a * m \in Int /\ b * m \in Int
        BY TwoToIs
  <1>2. Multiple(a * m - b * m, TwoTo[k])
        BY <1>1, SameRest
  <1>3. a * m - b * m = (a - b) * m /\ a - b \in Int
        OBVIOUS
  <1>4. Multiple(a - b, TwoTo[k])
        BY <1>2, <1>3, OddFactor
  <1> QED BY <1>1, <1>4, SameRest

HashWords == 0..TwoTo[HashBits] - 1

LEMMA HashGiven ==
    /\ HashBits \in Nat /\ TwoTo[HashBits] \in Nat \ {0} /\ TwoTo[HashBits] >= 256
    /\ Golden \in Nat /\ Golden % 2 = 1
    /\ \A i \in 1..5 : Shifts[i] \in Nat \ {0}
    /\ Keys \subseteq ({"str"} \X Seq(-128..127)) \cup ({"u32"} \X HashWords) \cup ({"ptr"} \X Nat)
  <1>1. HashAssumption
        BY CallsAssumption
  <1>2. HashBits \in Nat
        BY <1>1 DEF HashAssumption
  <1>3. TwoTo[HashBits] \in Nat \ {0}
        BY <1>2, TwoToIs
  <1> QED BY <1>1, <1>2, <1>3 DEF HashAssumption, HashWords

LEMMA NumbersApart ==
    \A a, b \in HashWords : a # b => hash_func_u32(a) # hash_func_u32(b)
  <1> SUFFICES ASSUME NEW a \in HashWords, NEW b \in HashWords,
                      hash_func_u32(a) = hash_func_u32(b)
               PROVE  a = b
      OBVIOUS
  <1> DEFINE w == TwoTo[HashBits]
  <1>1. w \in Nat \ {0} /\ a \in 0..w - 1 /\ b \in 0..w - 1
        BY HashGiven DEF HashWords
  <1>2. (a * Golden) % w = (b * Golden) % w
        BY DEF hash_func_u32, u32
  <1>3. a \in Int /\ b \in Int
        BY <1>1
  <1> HIDE DEF w
  <1>4. a % w = b % w
    <2>1. \A x, y \in Int : (x * Golden) % w = (y * Golden) % w => x % w = y % w
          BY HashGiven, OddProduct DEF w
    <2> QED BY <1>2, <1>3, <2>1
  <1> QED BY <1>1, <1>4, SmallRest

LEMMA PointersApart ==
    \A a, b \in Nat : u32(a) # u32(b) => hash_func_ptr(a) # hash_func_ptr(b)
  <1> SUFFICES ASSUME NEW a \in Nat, NEW b \in Nat, hash_func_ptr(a) = hash_func_ptr(b)
               PROVE  u32(a) = u32(b)
      OBVIOUS
  <1> DEFINE w == TwoTo[HashBits]
  <1>1. w \in Nat \ {0}
        BY HashGiven
  <1>2. TwoTo[2 * HashBits] = w * w
    <2>1. 2 * HashBits = HashBits + HashBits
          BY HashGiven
    <2> QED BY <2>1, HashGiven, TwoToSum
  <1>3. a * Golden \in Int /\ b * Golden \in Int
        BY HashGiven
  <1>4. ((a * Golden) % (w * w)) % w = ((b * Golden) % (w * w)) % w
        BY <1>2 DEF hash_func_ptr, u32
  <1> HIDE DEF w
  <1>5. (a * Golden) % w = (b * Golden) % w
        BY <1>1, <1>3, <1>4, ModTwice
  <1>6. a % w = b % w
    <2>1. \A x, y \in Int : (x * Golden) % w = (y * Golden) % w => x % w = y % w
          BY HashGiven, OddProduct DEF w
    <2> QED BY <1>5, <2>1
  <1> QED BY <1>6 DEF u32, w

LEMMA PlusUndone ==
    ASSUME NEW s \in Nat \ {0}
    PROVE  /\ \A a \in HashWords : Plus(a, s) \in HashWords
           /\ \A a, b \in HashWords : Plus(a, s) = Plus(b, s) => a = b
  <1> DEFINE w == TwoTo[HashBits]
             t == TwoTo[s]
             m == 1 + t
  <1>1. w \in Nat \ {0}
        BY HashGiven
  <1>2. t \in Nat /\ m \in Nat /\ m % 2 = 1
    <2>1. s - 1 \in Nat /\ (s - 1) + 1 = s
          OBVIOUS
    <2>2. t = 2 * TwoTo[s - 1] /\ TwoTo[s - 1] \in Nat
          BY <2>1, TwoToIs
    <2> DEFINE h == TwoTo[s - 1]
    <2>3. t = 2 * h /\ h \in Nat
          BY <2>2
    <2> HIDE DEF t, h
    <2> QED BY <2>3
  <1> HIDE DEF w, t
  <1>3. ASSUME NEW a \in HashWords PROVE Plus(a, s) = (a * m) % w /\ Plus(a, s) \in HashWords
    <2>1. a \in Int /\ a * t \in Int /\ a * m = a + a * t /\ a * m \in Int
          BY <1>1, <1>2 DEF HashWords, w
    <2>2. Plus(a, s) = (a + ((a * t) % w)) % w
          BY DEF Plus, ShiftLeft, u32, w, t
    <2>3. (a + ((a * t) % w)) % w = (a + a * t) % w
          BY <1>1, <2>1, ModSum
    <2> HIDE DEF m
    <2>4. (a * m) % w \in 0..w - 1
          BY <1>1, <2>1, ModBounds
    <2> QED BY <2>1, <2>2, <2>3, <2>4 DEF HashWords, w
  <1>4. ASSUME NEW a \in HashWords, NEW b \in HashWords, Plus(a, s) = Plus(b, s) PROVE a = b
    <2>1. (a * m) % w = (b * m) % w
          BY <1>3, <1>4
    <2>2. a \in Int /\ b \in Int /\ a \in 0..w - 1 /\ b \in 0..w - 1
          BY <1>1 DEF HashWords, w
    <2> HIDE DEF m
    <2>3. a % w = b % w
      <3>1. \A x, y \in Int : (x * m) % w = (y * m) % w => x % w = y % w
            BY <1>2, HashGiven, OddProduct DEF w
      <3> QED BY <2>1, <2>2, <3>1
    <2> QED BY <1>1, <2>2, <2>3, SmallRest
  <1> QED BY <1>3, <1>4

LEMMA XorIs ==
    /\ Xor \in [Nat -> [Nat -> Nat]]
    /\ Xor[0] = [y \in Nat |-> y]
    /\ \A n \in Nat \ {0} : Xor[n] = [y \in Nat |-> ((n + y) % 2) + 2 * Xor[n \div 2][y \div 2]]
  <1> DEFINE E(f, num) == [y \in Nat |-> IF num = 0 THEN y ELSE ((num + y) % 2) + 2 * f[num \div 2][y \div 2]]
             Goes(f) == f = [num \in Nat |-> E(f, num)]
             k == CHOOSE f : Goes(f)
             One(n, u) == [y \in Nat |-> ((n + y) % 2) + 2 * u[y \div 2]]
             G == [n \in Nat |-> [u \in [Nat -> Nat] |-> One(n, u)]]
  <1>1. Xor = k
        BY DEF Xor
  <1>2. G \in [Nat -> [[Nat -> Nat] -> [Nat -> Nat]]] /\ [y \in Nat |-> y] \in [Nat -> Nat]
    <2>1. ASSUME NEW n \in Nat, NEW u \in [Nat -> Nat] PROVE One(n, u) \in [Nat -> Nat]
          <3>1. ASSUME NEW y \in Nat PROVE ((n + y) % 2) + 2 * u[y \div 2] \in Nat
        <4>1. y \div 2 \in Nat /\ (n + y) % 2 \in Nat
              OBVIOUS
        <4>2. u[y \div 2] \in Nat
              BY <4>1
        <4> DEFINE a == (n + y) % 2
                   b == u[y \div 2]
        <4>3. a \in Nat /\ b \in Nat
              BY <4>1, <4>2
        <4> HIDE DEF a, b
        <4>4. a + 2 * b \in Nat
              BY <4>3
        <4> QED BY <4>4 DEF a, b
      <3> QED BY <3>1
    <2> HIDE DEF One
    <2>2. [y \in Nat |-> y] \in [Nat -> Nat]
          OBVIOUS
    <2> QED BY <2>1, <2>2
  <1>0. 2 \in Nat /\ 2 >= 2
        OBVIOUS
  <1>3. PICK f : Divides(f, [Nat -> Nat], 2, [y \in Nat |-> y], G)
    <2> DEFINE T == [Nat -> Nat]
               x == [y \in Nat |-> y]
               d == 2
    <2>1. G \in [Nat -> [T -> T]] /\ x \in T /\ d \in Nat /\ d >= 2
          BY <1>0, <1>2
    <2> HIDE DEF G, T, x, d
    <2>2. \E f : Divides(f, T, d, x, G)
          BY <2>1, DivRecursion
    <2> QED BY <2>2 DEF T, x, d
  <1>4. \A n \in Nat \ {0} : f[n] = [y \in Nat |-> ((n + y) % 2) + 2 * f[n \div 2][y \div 2]]
    <2>1. \A n \in Nat : n \div 2 \in Nat
          OBVIOUS
    <2>2. \A n \in Nat : f[n \div 2] \in [Nat -> Nat]
          BY <1>3, <2>1 DEF Divides
    <2> QED BY <1>3, <2>2 DEF Divides
  <1>5. f \in [Nat -> [Nat -> Nat]] /\ f[0] = [y \in Nat |-> y]
        BY <1>3 DEF Divides
  <1>6. Goes(f)
    <2>1. ASSUME NEW num \in Nat PROVE f[num] = E(f, num)
      <3>1. CASE num = 0
            BY <1>5, <3>1
      <3>2. CASE num # 0
            BY <1>4, <3>2
      <3> QED BY <3>1, <3>2
    <2> HIDE DEF E
    <2> QED BY <1>5, <2>1
  <1>7. Goes(k)
        BY <1>6
  <1> HIDE DEF k
  <1>8. \A num \in Nat : k[num] = E(k, num)
        BY <1>7
  <1> DEFINE P == {n \in Nat : k[n] = f[n]}
  <1>9. 0 \in P
        BY <1>5, <1>8
  <1>10. ASSUME NEW n \in Nat \ {0}, n \div 2 \in P PROVE n \in P
    <2>1. k[n \div 2] = f[n \div 2]
          BY <1>10
    <2>2. k[n] = E(k, n)
          BY <1>8
    <2>3. k[n] = f[n]
          BY <1>4, <2>1, <2>2
    <2> QED BY <2>3
  <1> HIDE DEF P
  <1>12. Nat \subseteq P
    <2> DEFINE d == 2
    <2>1. d \in Nat /\ d >= 2 /\ \A n \in Nat \ {0} : n \div d \in P => n \in P
          BY <1>0, <1>10
    <2> HIDE DEF d
    <2> QED BY <1>9, <2>1, DivInduct
  <1>11. k = f
    <2> HIDE DEF E
    <2> QED BY <1>5, <1>7, <1>12 DEF P
  <1> QED BY <1>1, <1>4, <1>5, <1>11

LEMMA XorMore ==
    \A x, y \in Nat : Xor[x][y] \in Nat /\ Xor[x][y] = ((x + y) % 2) + 2 * Xor[x \div 2][y \div 2]
  <1> SUFFICES ASSUME NEW x \in Nat, NEW y \in Nat
               PROVE  /\ Xor[x][y] \in Nat
                      /\ Xor[x][y] = ((x + y) % 2) + 2 * Xor[x \div 2][y \div 2]
      OBVIOUS
  <1>1. Xor[x] \in [Nat -> Nat]
        BY XorIs
  <1>2. Xor[x][y] \in Nat
        BY <1>1
  <1>3. CASE x = 0
    <2>1. x \div 2 = 0 /\ y \div 2 \in Nat /\ y = ((0 + y) % 2) + 2 * (y \div 2)
          BY <1>3
    <2>2. Xor[0] = [u \in Nat |-> u]
          BY XorIs
    <2>3. Xor[0][y] = y /\ Xor[0][y \div 2] = y \div 2
          BY <2>1, <2>2
    <2> QED BY <1>2, <1>3, <2>1, <2>3
  <1>4. CASE x # 0
    <2>1. Xor[x] = [u \in Nat |-> ((x + u) % 2) + 2 * Xor[x \div 2][u \div 2]]
          BY <1>4, XorIs
    <2> QED BY <1>2, <2>1
  <1> QED BY <1>3, <1>4

LEMMA XorFits ==
    \A k \in Nat : \A x, y \in 0..TwoTo[k] - 1 : Xor[x][y] \in 0..TwoTo[k] - 1
  <1> DEFINE P == {k \in Nat : \A x, y \in 0..TwoTo[k] - 1 : Xor[x][y] \in 0..TwoTo[k] - 1}
  <1>1. 0 \in P
    <2>1. TwoTo[0] = 1 /\ Xor[0] = [u \in Nat |-> u]
          BY TwoToIs, XorIs
    <2>2. Xor[0][0] = 0
          BY <2>1
    <2>3. 0..TwoTo[0] - 1 = {0}
          BY <2>1
    <2> QED BY <2>2, <2>3
  <1>2. ASSUME NEW k \in Nat, k \in P PROVE k + 1 \in P
    <2> SUFFICES ASSUME NEW x \in 0..TwoTo[k + 1] - 1, NEW y \in 0..TwoTo[k + 1] - 1
                 PROVE  Xor[x][y] \in 0..TwoTo[k + 1] - 1
        OBVIOUS
    <2> DEFINE t == TwoTo[k]
               p == x \div 2
               q == y \div 2
               r == (x + y) % 2
               v == Xor[p][q]
    <2>1. t \in Nat /\ TwoTo[k + 1] = 2 * t
          BY TwoToIs
    <2>2. x \in Nat /\ y \in Nat /\ x < 2 * t /\ y < 2 * t
          BY <2>1
    <2>3. Xor[x][y] = r + 2 * v
          BY <2>2, XorMore
    <2>4. p \in 0..t - 1 /\ q \in 0..t - 1 /\ r \in 0..1
      <3> HIDE DEF t
      <3> QED BY <2>1, <2>2
    <2> HIDE DEF p, q, r
    <2>5. v \in 0..t - 1
          BY <1>2, <2>4
    <2> HIDE DEF v, t
    <2>6. r + 2 * v \in 0..2 * t - 1
          BY <2>1, <2>4, <2>5
    <2> QED BY <2>1, <2>3, <2>6
  <1> HIDE DEF P
  <1>3. Nat \subseteq P
        BY <1>1, <1>2, Induct
  <1> QED BY <1>3 DEF P

LEMMA HalfShifted ==
    ASSUME NEW x \in Nat, NEW t \in Nat \ {0}
    PROVE  /\ x \div (2 * t) = (x \div 2) \div t
           /\ (x \div 2) \div t = (x \div t) \div 2
           /\ x \div t \in Nat
  <1> DEFINE w == 2 * t
             q == x \div w
             r == x % w
  <1>1. w \in Nat \ {0} /\ x = q * w + r /\ r \in 0..w - 1 /\ q \in Int
    <2>1. w \in Nat \ {0}
          OBVIOUS
    <2> HIDE DEF w
    <2> QED BY <2>1, ModBounds
  <1> HIDE DEF q, r
  <1> DEFINE h == r \div 2
             p == r % 2
             e == IF r < t THEN 0 ELSE 1
             f == r - e * t
             y == q * t
  <1>2. h \in 0..t - 1 /\ p \in 0..1 /\ r = 2 * h + p
        BY <1>1
  <1>3. y \in Int /\ q * w = 2 * y /\ (2 * q + e) * t = 2 * y + e * t
        BY <1>1
  <1>4. e \in 0..1 /\ f \in 0..t - 1 /\ r = e * t + f
        BY <1>1
  <1>5. x \div 2 = y + h
    <2> HIDE DEF y, h, p, w
    <2>1. x = (y + h) * 2 + p
          BY <1>1, <1>2, <1>3
    <2> QED BY <1>2, <1>3, <2>1
  <1>6. (y + h) \div t = q
    <2> HIDE DEF h
    <2> QED BY <1>1, <1>2, DivMod
  <1>7. x \div t = 2 * q + e
    <2> HIDE DEF e, f
    <2>1. x = (2 * q + e) * t + f
      <3> DEFINE g == e * t
      <3>1. g \in Int /\ r = g + f /\ (2 * q + e) * t = 2 * y + g
            BY <1>3, <1>4
      <3> HIDE DEF y, g, w
      <3> QED BY <1>1, <1>3, <1>4, <3>1
    <2>2. 2 * q + e \in Int
          BY <1>1, <1>4
    <2> QED BY <1>4, <2>1, <2>2, DivMod
  <1>8. (2 * q + e) \div 2 = q
    <2> HIDE DEF e
    <2> QED BY <1>1, <1>4
  <1>9. x \div t \in Nat
        BY Quotient
  <1> QED BY <1>5, <1>6, <1>7, <1>8, <1>9 DEF q

LEMMA MixHalved ==
    ASSUME NEW s \in Nat \ {0}, NEW x \in Nat
    PROVE  /\ Mix(x, s) \in Nat
           /\ Mix(x, s) % 2 = (x + (x \div 2) \div TwoTo[s - 1]) % 2
           /\ Mix(x, s) \div 2 = Mix(x \div 2, s)
  <1> DEFINE t == TwoTo[s]
             u == TwoTo[s - 1]
             h == x \div 2
             v == x \div t
  <1>1. s - 1 \in Nat /\ (s - 1) + 1 = s
        OBVIOUS
  <1>2. t \in Nat \ {0} /\ u \in Nat \ {0} /\ t = 2 * u
        BY <1>1, TwoToIs
  <1>3. h \in Nat
        OBVIOUS
  <1> HIDE DEF t, u
  <1>4. v \in Nat /\ v = h \div u /\ v \div 2 = h \div t
        BY <1>2, HalfShifted
  <1> HIDE DEF v, h
  <1>5. Xor[x][v] \in Nat /\ Xor[x][v] = ((x + v) % 2) + 2 * Xor[h][v \div 2]
        BY <1>4, XorMore DEF h
  <1>6. v \div 2 \in Nat
        BY <1>4
  <1>7. Xor[h][v \div 2] \in Nat
        BY <1>3, <1>6, XorMore
  <1>8. Mix(x, s) = Xor[x][v] /\ Mix(h, s) = Xor[h][v \div 2]
        BY <1>4 DEF Mix, ShiftRight, v, t
  <1> DEFINE a == Mix(x, s)
             b == Mix(h, s)
             r == (x + v) % 2
  <1>9. a \in Nat /\ b \in Nat /\ a = r + 2 * b
        BY <1>5, <1>7, <1>8
  <1>10. r \in 0..1
        BY <1>4
  <1> HIDE DEF a, b, r
  <1>11. a % 2 = r /\ a \div 2 = b
        BY <1>9, <1>10
  <1> QED BY <1>4, <1>9, <1>11 DEF a, b, r, h, u

LEMMA MixUndone ==
    ASSUME NEW s \in Nat \ {0}
    PROVE  /\ \A a \in HashWords : Mix(a, s) \in HashWords
           /\ \A a, b \in Nat : Mix(a, s) = Mix(b, s) => a = b
  <1>1. ASSUME NEW a \in Nat, NEW b \in Nat, Mix(a, s) = Mix(b, s)
        PROVE  /\ Mix(a \div 2, s) = Mix(b \div 2, s)
               /\ a \div 2 = b \div 2 => a = b
    <2>1. Mix(a \div 2, s) = Mix(b \div 2, s)
          BY <1>1, MixHalved
    <2>2. ASSUME a \div 2 = b \div 2 PROVE a = b
      <3> DEFINE v == (a \div 2) \div TwoTo[s - 1]
      <3>1. (a + v) % 2 = (b + v) % 2
        <4>1. Mix(a, s) % 2 = (a + (a \div 2) \div TwoTo[s - 1]) % 2
              BY MixHalved
        <4>2. Mix(b, s) % 2 = (b + (b \div 2) \div TwoTo[s - 1]) % 2
              BY MixHalved
        <4> QED BY <1>1, <2>2, <4>1, <4>2
      <3>2. v \in Nat
        <4>1. s - 1 \in Nat /\ a \div 2 \in Nat
              OBVIOUS
        <4>2. TwoTo[s - 1] \in Nat \ {0}
              BY <4>1, TwoToIs
        <4> QED BY <4>1, <4>2, HalfShifted
      <3> HIDE DEF v
      <3> QED BY <2>2, <3>1, <3>2
    <2> QED BY <2>1, <2>2
  <1> DEFINE Q == {b \in Nat : Mix(0, s) = Mix(b, s) => 0 = b}
             P == {a \in Nat : \A b \in Nat : Mix(a, s) = Mix(b, s) => a = b}
  <1>2. 0 \in Q
        OBVIOUS
  <1>3. ASSUME NEW b \in Nat \ {0}, b \div 2 \in Q PROVE b \in Q
    <2>1. 0 \div 2 = 0
          OBVIOUS
    <2> QED BY <1>1, <1>3, <2>1
  <1> HIDE DEF Q
  <1>4. Nat \subseteq Q
        BY <1>2, <1>3, HalfInduct
  <1>5. 0 \in P
        BY <1>4 DEF Q
  <1>6. ASSUME NEW a \in Nat \ {0}, a \div 2 \in P PROVE a \in P
    <2> SUFFICES ASSUME NEW b \in Nat, Mix(a, s) = Mix(b, s) PROVE a = b
        OBVIOUS
    <2>1. b \div 2 \in Nat
          OBVIOUS
    <2> QED BY <1>1, <1>6, <2>1
  <1> HIDE DEF P
  <1>7. Nat \subseteq P
        BY <1>5, <1>6, HalfInduct
  <1>8. ASSUME NEW a \in HashWords PROVE Mix(a, s) \in HashWords
    <2> DEFINE w == TwoTo[HashBits]
               t == TwoTo[s]
               v == a \div t
    <2>1. w \in Nat \ {0} /\ t \in Nat \ {0} /\ a \in 0..w - 1
          BY HashGiven, TwoToIs DEF HashWords
    <2> HIDE DEF w, t
    <2>2. v \in Nat /\ v <= a
          BY <2>1, Quotient
    <2> HIDE DEF v
    <2>3. v \in 0..w - 1
          BY <2>1, <2>2
    <2>4. Xor[a][v] \in 0..w - 1
          BY <2>1, <2>3, HashGiven, XorFits DEF w
    <2> QED BY <2>4 DEF Mix, ShiftRight, HashWords, v, w, t
  <1> QED BY <1>7, <1>8 DEF P

(***************************************************************************)
(* The hash of a string: each step of it can be undone, from the value     *)
(* before and from the character.                                          *)
(***************************************************************************)
SignedChars == -128..127

HashStep(h, c) == Mix(Plus(u32(h + c), Shifts[1]), Shifts[2])
HashEnd(h)     == Plus(Mix(Plus(h, Shifts[3]), Shifts[4]), Shifts[5])

LEMMA MixedUndone ==
    ASSUME NEW s \in Nat \ {0}, NEW t \in Nat \ {0}
    PROVE  /\ \A a \in HashWords : Mix(Plus(a, s), t) \in HashWords
           /\ \A a, b \in HashWords : Mix(Plus(a, s), t) = Mix(Plus(b, s), t) => a = b
  <1>1. \A a \in HashWords : Plus(a, s) \in HashWords
        BY PlusUndone
  <1>2. \A a \in HashWords : a \in Nat
        BY DEF HashWords
  <1>3. \A a, b \in Nat : Mix(a, t) = Mix(b, t) => a = b
        BY MixUndone
  <1>4. \A a \in HashWords : Mix(Plus(a, s), t) \in HashWords
        BY <1>1, MixUndone
  <1>5. \A a, b \in HashWords : Mix(Plus(a, s), t) = Mix(Plus(b, s), t) => a = b
    <2> TAKE a, b \in HashWords
    <2> HAVE Mix(Plus(a, s), t) = Mix(Plus(b, s), t)
    <2>1. Plus(a, s) \in Nat /\ Plus(b, s) \in Nat
          BY <1>1, <1>2
    <2>2. Plus(a, s) = Plus(b, s)
          BY <1>3, <2>1
    <2> QED BY <2>2, PlusUndone
  <1> QED BY <1>4, <1>5

LEMMA HashStepUndone ==
    /\ \A h \in HashWords, c \in SignedChars : HashStep(h, c) \in HashWords
    /\ \A h, l \in HashWords, c \in SignedChars : HashStep(h, c) = HashStep(l, c) => h = l
    /\ \A h \in HashWords, c, d \in SignedChars : HashStep(h, c) = HashStep(h, d) => c = d
  <1> DEFINE w == TwoTo[HashBits]
  <1>1. w \in Nat \ {0} /\ w >= 256 /\ HashWords = 0..w - 1
        BY HashGiven DEF HashWords
  <1> HIDE DEF w
  <1>2. Shifts[1] \in Nat \ {0} /\ Shifts[2] \in Nat \ {0}
        BY HashGiven
  <1>3. ASSUME NEW h \in HashWords, NEW c \in SignedChars PROVE u32(h + c) \in HashWords
    <2>1. h + c \in Int
          BY <1>1 DEF SignedChars
    <2>2. (h + c) % w \in 0..w - 1
          BY <1>1, <2>1, ModBounds
    <2> QED BY <1>1, <2>2 DEF u32, w
  <1>4. ASSUME NEW h \in HashWords, NEW l \in HashWords, NEW c \in SignedChars, NEW d \in SignedChars,
               HashStep(h, c) = HashStep(l, d)
        PROVE  (h + c) % w = (l + d) % w
    <2>1. u32(h + c) \in HashWords /\ u32(l + d) \in HashWords
          BY <1>3
    <2>2. u32(h + c) = u32(l + d)
          BY <1>2, <1>4, <2>1, MixedUndone DEF HashStep
    <2> QED BY <2>2 DEF u32, w
  <1>5. ASSUME NEW x \in Int, NEW y \in Int, x % w = y % w, -w < x - y, x - y < w PROVE x = y
    <2>1. PICK z \in Int : x - y = z * w
          BY <1>1, <1>5, SameRest DEF Multiple
    <2>2. z = 0
      <3>1. CASE z >= 1
        <4>1. w * 1 <= w * z /\ w * z = z * w
              BY <1>1, <3>1, LargerProduct
        <4> DEFINE p == z * w
        <4>2. p \in Int /\ w <= p /\ x - y = p
              BY <1>1, <2>1, <4>1
        <4> HIDE DEF p
        <4> QED BY <1>1, <1>5, <4>2
      <3>2. CASE z <= -1
        <4>1. w * z <= w * (-1) /\ w * z = z * w /\ w * (-1) = -w
              BY <1>1, <3>2, LargerProduct
        <4> DEFINE p == z * w
        <4>2. p \in Int /\ p <= -w /\ x - y = p
              BY <1>1, <2>1, <4>1
        <4> HIDE DEF p
        <4> QED BY <1>1, <1>5, <4>2
      <3> QED BY <3>1, <3>2
    <2>3. 0 * w = 0
          BY <1>1
    <2> QED BY <2>1, <2>2, <2>3
  <1>6. ASSUME NEW h \in HashWords, NEW c \in SignedChars PROVE HashStep(h, c) \in HashWords
        BY <1>2, <1>3, MixedUndone DEF HashStep
  <1>7. ASSUME NEW h \in HashWords, NEW l \in HashWords, NEW c \in SignedChars,
               HashStep(h, c) = HashStep(l, c)
        PROVE  h = l
    <2>1. /\ h \in Int /\ l \in Int /\ c \in Int
          /\ h + c \in Int /\ l + c \in Int /\ -w < (h + c) - (l + c) /\ (h + c) - (l + c) < w
          BY <1>1 DEF SignedChars
    <2>2. (h + c) % w = (l + c) % w
          BY <1>4, <1>7
    <2>3. h + c = l + c
          BY <1>5, <2>1, <2>2
    <2> QED BY <2>1, <2>3
  <1>8. ASSUME NEW h \in HashWords, NEW c \in SignedChars, NEW d \in SignedChars,
               HashStep(h, c) = HashStep(h, d)
        PROVE  c = d
    <2>1. /\ h \in Int /\ c \in Int /\ d \in Int
          /\ h + c \in Int /\ h + d \in Int /\ -w < (h + c) - (h + d) /\ (h + c) - (h + d) < w
          BY <1>1 DEF SignedChars
    <2>2. (h + c) % w = (h + d) % w
          BY <1>4, <1>8
    <2>3. h + c = h + d
          BY <1>5, <2>1, <2>2
    <2> QED BY <2>1, <2>3
  <1> QED BY <1>6, <1>7, <1>8

HashE(key, f, i) == IF i = 0 THEN 0 ELSE HashStep(f[i - 1], key[i])
IsHash(f, key)   == f = [i \in 0..Len(key) |-> HashE(key, f, i)]
HashesOf(key)    == CHOOSE f : IsHash(f, key)

LEMMA HashesAre ==
    ASSUME NEW key \in Seq(SignedChars), NEW n \in Nat, n = Len(key)
    PROVE  LET f == HashesOf(key)
           IN  /\ hash_func_str(key) = HashEnd(f[n])
               /\ f \in [0..n -> HashWords]
               /\ f[0] = 0
               /\ \A i \in 1..n : f[i] = HashStep(f[i - 1], key[i])
  <1> DEFINE f == HashesOf(key)
             G == [i \in 1..n |-> [h \in HashWords |-> HashStep(h, key[i])]]
  <1>1. hash_func_str(key) = HashEnd(f[n])
        BY DEF hash_func_str, HashesOf, IsHash, HashE, HashStep, HashEnd
  <1>2. 0 \in HashWords
        BY HashGiven DEF HashWords
  <1>3. \A i \in 1..n : key[i] \in SignedChars
        OBVIOUS
  <1>4. \A i \in 1..n, h \in HashWords : HashStep(h, key[i]) \in HashWords
        BY <1>3, HashStepUndone
  <1>5. G \in Steps(HashWords, n)
        BY <1>4 DEF Steps
  <1>6. \A i \in 1..n, h \in HashWords : G[i][h] = HashStep(h, key[i])
        OBVIOUS
  <1> HIDE DEF G
  <1>7. PICK g : Follows(g, HashWords, n, 0, G)
        BY <1>2, <1>5, Recursion
  <1>8. g \in [0..n -> HashWords] /\ g[0] = 0 /\ \A i \in 1..n : g[i] = G[i][g[i - 1]]
        BY <1>7 DEF Follows
  <1>9. ASSUME NEW i \in 0..n PROVE g[i] = HashE(key, g, i)
    <2>1. CASE i = 0
          BY <1>8, <2>1 DEF HashE
    <2>2. CASE i # 0
      <3>1. i \in 1..n /\ i - 1 \in 0..n
            BY <2>2
      <3>2. g[i] = G[i][g[i - 1]] /\ g[i - 1] \in HashWords
            BY <1>8, <3>1
      <3> QED BY <1>6, <2>2, <3>1, <3>2 DEF HashE
    <2> QED BY <2>1, <2>2
  <1>10. IsHash(g, key)
        BY <1>8, <1>9 DEF IsHash
  <1>11. IsHash(f, key)
        BY <1>10 DEF HashesOf
  <1> HIDE DEF f
  <1>12. f = [i \in 0..n |-> HashE(key, f, i)]
        BY <1>11 DEF IsHash
  <1>13. f[0] = 0
        BY <1>12 DEF HashE
  <1>14. ASSUME NEW i \in 1..n PROVE f[i] = HashStep(f[i - 1], key[i])
    <2>1. i \in 0..n /\ i # 0
          OBVIOUS
    <2> QED BY <1>12, <2>1 DEF HashE
  <1> DEFINE P == {i \in Nat : i <= n => f[i] \in HashWords}
  <1>15. 0 \in P
        BY <1>2, <1>13
  <1>16. ASSUME NEW i \in Nat, i \in P PROVE i + 1 \in P
    <2> SUFFICES ASSUME i + 1 <= n PROVE f[i + 1] \in HashWords
        OBVIOUS
    <2>1. i + 1 \in 1..n /\ (i + 1) - 1 = i /\ f[i] \in HashWords
          BY <1>16
    <2> QED BY <1>4, <1>14, <2>1
  <1> HIDE DEF P
  <1>17. Nat \subseteq P
        BY <1>15, <1>16, Induct
  <1>18. \A i \in 0..n : f[i] \in HashWords
    <2>1. \A i \in 0..n : i \in Nat /\ i <= n
          OBVIOUS
    <2> QED BY <1>17, <2>1 DEF P
  <1>19. f \in [0..n -> HashWords]
        BY <1>12, <1>18
  <1> QED BY <1>1, <1>13, <1>14, <1>19 DEF f

LEMMA StringsApart ==
    ASSUME NEW a \in Seq(SignedChars), NEW b \in Seq(SignedChars), OneApart("str", a, b)
    PROVE  hash_func_str(a) # hash_func_str(b)
  <1> DEFINE n == Len(a)
             f == HashesOf(a)
             g == HashesOf(b)
  <1>1. n \in Nat /\ n = Len(a) /\ n = Len(b)
        BY DEF OneApart
  <1>2. PICK p \in 1..n : \A j \in 1..n : a[j] # b[j] <=> j = p
        BY DEF OneApart
  <1> HIDE DEF n
  <1>3. /\ hash_func_str(a) = HashEnd(f[n]) /\ f \in [0..n -> HashWords] /\ f[0] = 0
        /\ \A i \in 1..n : f[i] = HashStep(f[i - 1], a[i])
        BY <1>1, HashesAre
  <1>4. /\ hash_func_str(b) = HashEnd(g[n]) /\ g \in [0..n -> HashWords] /\ g[0] = 0
        /\ \A i \in 1..n : g[i] = HashStep(g[i - 1], b[i])
        BY <1>1, HashesAre
  <1> HIDE DEF f, g
  <1> DEFINE P == {i \in Nat : i <= n => (f[i] = g[i] <=> i < p)}
  <1>5. 0 \in P
        BY <1>3, <1>4
  <1>6. ASSUME NEW i \in Nat, i \in P PROVE i + 1 \in P
    <2> SUFFICES ASSUME i + 1 <= n PROVE f[i + 1] = g[i + 1] <=> i + 1 < p
        OBVIOUS
    <2>1. i + 1 \in 1..n /\ (i + 1) - 1 = i /\ i \in 0..n /\ (f[i] = g[i] <=> i < p)
          BY <1>1, <1>6
    <2> DEFINE h == f[i]
               l == g[i]
               c == a[i + 1]
               d == b[i + 1]
    <2>2. h \in HashWords /\ l \in HashWords /\ c \in SignedChars /\ d \in SignedChars
      <3>1. f[i] \in HashWords /\ g[i] \in HashWords
            BY <1>3, <1>4, <2>1
      <3>2. a[i + 1] \in SignedChars /\ b[i + 1] \in SignedChars
        <4>1. i + 1 \in 1..Len(a) /\ i + 1 \in 1..Len(b)
              BY <1>1, <2>1
        <4> DEFINE j == i + 1
        <4> HIDE DEF j
        <4>2. a[j] \in SignedChars /\ b[j] \in SignedChars
              BY <4>1 DEF j
        <4> QED BY <4>2 DEF j
      <3> QED BY <3>1, <3>2
    <2>3. f[i + 1] = HashStep(h, c) /\ g[i + 1] = HashStep(l, d)
          BY <1>3, <1>4, <2>1
    <2>4. c # d <=> i + 1 = p
          BY <1>2, <2>1
    <2>5. h = l <=> i < p
          BY <2>1
    <2> HIDE DEF h, l, c, d
    <2>6. CASE i + 1 < p
      <3>1. h = l /\ c = d
            BY <1>2, <2>4, <2>5, <2>6
      <3> QED BY <2>3, <2>6, <3>1
    <2>7. CASE i + 1 = p
      <3>1. h = l /\ c # d
            BY <1>2, <2>4, <2>5, <2>7
      <3>2. HashStep(h, c) # HashStep(h, d)
            BY <2>2, <3>1, HashStepUndone
      <3>3. ~(i + 1 < p)
            BY <2>7
      <3> QED BY <2>3, <3>1, <3>2, <3>3
    <2>8. CASE p < i + 1
      <3>1. h # l /\ c = d /\ ~(i + 1 < p)
            BY <1>2, <2>4, <2>5, <2>8
      <3>2. HashStep(h, c) # HashStep(l, c)
            BY <2>2, <3>1, HashStepUndone
      <3> QED BY <2>3, <3>1, <3>2
    <2> QED BY <1>2, <2>6, <2>7, <2>8
  <1> HIDE DEF P
  <1>7. n \in P
        BY <1>1, <1>5, <1>6, Induct
  <1>8. f[n] # g[n]
    <2>1. f[n] = g[n] <=> n < p
          BY <1>1, <1>7 DEF P
    <2>2. ~(n < p)
          BY <1>1, <1>2
    <2> QED BY <2>1, <2>2
  <1> DEFINE h == f[n]
             l == g[n]
             x == Mix(Plus(h, Shifts[3]), Shifts[4])
             y == Mix(Plus(l, Shifts[3]), Shifts[4])
  <1>9. h \in HashWords /\ l \in HashWords /\ h # l
    <2>1. n \in 0..n
          BY <1>1
    <2> QED BY <1>3, <1>4, <1>8, <2>1
  <1>10. Shifts[3] \in Nat \ {0} /\ Shifts[4] \in Nat \ {0} /\ Shifts[5] \in Nat \ {0}
        BY HashGiven
  <1> HIDE DEF h, l
  <1>11. x \in HashWords /\ y \in HashWords /\ x # y
        BY <1>9, <1>10, MixedUndone
  <1> HIDE DEF x, y
  <1>12. Plus(x, Shifts[5]) # Plus(y, Shifts[5])
        BY <1>10, <1>11, PlusUndone
  <1> QED BY <1>3, <1>4, <1>12 DEF HashEnd, x, y, h, l

LEMMA HashRight ==
    ASSUME NEW a \in Keys, NEW b \in Keys, a[1] = b[1]
    PROVE  HashesAgree(a[1], a[2], b[2], table_uses(a[1], a[2], b[2]))
  <1> DEFINE type == a[1]
             x == a[2]
             y == b[2]
             answer == table_uses(type, x, y)
  <1>1. \/ type = "str" /\ x \in Seq(SignedChars) /\ y \in Seq(SignedChars)
        \/ type = "u32" /\ x \in HashWords /\ y \in HashWords
        \/ type = "ptr" /\ x \in Nat /\ y \in Nat
        BY HashGiven DEF SignedChars
  <1> HIDE DEF type, x, y
  <1>2. /\ answer.cmp = cmp(x, y)
        /\ answer.hashes[1] = hash_func(type, x) /\ answer.hashes[2] = hash_func(type, y)
        BY DEF table_uses
  <1> HIDE DEF answer
  <1>3. cmp(x, y) = 0 <=> x = y
        BY DEF cmp
  <1>4. ASSUME OneApart(type, x, y) PROVE hash_func(type, x) # hash_func(type, y)
    <2>1. CASE type = "str" /\ x \in Seq(SignedChars) /\ y \in Seq(SignedChars)
      <3>1. hash_func_str(x) # hash_func_str(y)
            BY <1>4, <2>1, StringsApart
      <3> QED BY <2>1, <3>1 DEF hash_func
    <2>2. CASE type = "u32" /\ x \in HashWords /\ y \in HashWords
      <3>1. x # y
            BY <1>4, <2>2 DEF OneApart
      <3>2. hash_func_u32(x) # hash_func_u32(y)
            BY <2>2, <3>1, NumbersApart
      <3> QED BY <2>2, <3>2 DEF hash_func
    <2>3. CASE type = "ptr" /\ x \in Nat /\ y \in Nat
      <3>1. u32(x) # u32(y)
            BY <1>4, <2>3 DEF OneApart
      <3>2. hash_func_ptr(x) # hash_func_ptr(y)
            BY <2>3, <3>1, PointersApart
      <3> QED BY <2>3, <3>2 DEF hash_func
    <2> QED BY <1>1, <2>1, <2>2, <2>3
  <1>5. HashesAgree(type, x, y, answer)
        BY <1>2, <1>3, <1>4 DEF HashesAgree
  <1> QED BY <1>5 DEF answer, type, x, y

(***************************************************************************)
(* Salts and UUIDs.                                                        *)
(***************************************************************************)
LEMMA SaltRight ==
    ASSUME NEW hash_type, NEW draws \in [1..SaltLen -> Nat]
    PROVE  SaltIsWhole(hash_type, draws, passcrypt(hash_type, draws))
  <1>1. CASE hash_type \notin DOMAIN MarkOf
        BY <1>1 DEF SaltIsWhole, passcrypt
  <1>2. CASE hash_type \in DOMAIN MarkOf
    <2> DEFINE mark == MarkOf[hash_type]
               salt == passcrypt(hash_type, draws)
               d(i) == draws[i - 2] % 64
    <2>1. mark \in {3, 7, 8}
          BY <1>2 DEF MarkOf
    <2> HIDE DEF mark
    <2>2. Len(draws) = 16
      <3>1. draws \in [1..16 -> Nat] /\ 16 \in Nat
            BY DEF SaltLen
      <3> QED BY <3>1, AsSeq
    <2>3. \A i \in 3..18 : d(i) \in 0..63
      <3> TAKE i \in 3..18
      <3>1. i - 2 \in 1..16
            OBVIOUS
      <3>2. draws[i - 2] \in Nat
            BY <3>1 DEF SaltLen
      <3> DEFINE r == draws[i - 2]
      <3>3. r \in Nat
            BY <3>2
      <3> HIDE DEF r
      <3>4. r % 64 \in 0..63
            BY <3>3
      <3> QED BY <3>4 DEF r
    <2> HIDE DEF d
    <2>4. salt = [i \in 0..20 |->
                     CASE i \in {0, 2, 19} -> 64 [] i = 1 -> mark [] i \in 3..18 -> d(i) [] OTHER -> 65]
          BY <1>2 DEF passcrypt, SaltLen, SaltSize, Dollar, Nul, mark, d
    <2> HIDE DEF salt
    <2>5. salt[0] = 64 /\ salt[2] = 64 /\ salt[19] = 64 /\ salt[1] = mark /\ salt[20] = 65
          BY <2>4
    <2>6. \A i \in 3..18 : salt[i] \in 0..63
      <3> TAKE i \in 3..18
      <3>1. i \in 0..20 /\ i \notin {0, 2, 19} /\ i # 1
            OBVIOUS
      <3>2. salt[i] = d(i)
            BY <2>4, <3>1
      <3> QED BY <2>3, <3>2
    <2>7. DOMAIN salt = 0..20
          BY <2>4
    <2>8. \A i \in 0..20 : i = 0 \/ i = 1 \/ i = 2 \/ i = 19 \/ i = 20 \/ i \in 3..18
          OBVIOUS
    <2>15. ASSUME NEW i \in 0..20
           PROVE  (salt[i] = 64 <=> i \in {0, 2, 19}) /\ (salt[i] = 65 <=> i > 19)
      <3>1. CASE i \in 3..18
        <4> DEFINE z == salt[i]
        <4>1. z \in 0..63
              BY <2>6, <3>1
        <4> HIDE DEF z
        <4>2. z # 64 /\ z # 65
              BY <4>1
        <4>3. i \notin {0, 2, 19} /\ ~(i > 19)
              BY <3>1
        <4> QED BY <4>2, <4>3 DEF z
      <3>2. CASE i = 0
            BY <2>5, <3>2
      <3>3. CASE i = 1
            BY <2>1, <2>5, <3>3
      <3>4. CASE i = 2
            BY <2>5, <3>4
      <3>5. CASE i = 19
            BY <2>5, <3>5
      <3>6. CASE i = 20
            BY <2>5, <3>6
      <3> QED BY <2>8, <3>1, <3>2, <3>3, <3>4, <3>5, <3>6
    <2>9. \A i \in 0..20 : salt[i] = 64 <=> i \in {0, 2, 19}
          BY <2>15
    <2>10. \A i \in 0..20 : salt[i] = 65 <=> i > 19
          BY <2>15
    <2>11. {i \in DOMAIN salt : salt[i] = Dollar} = {0, 2, Len(draws) + 3}
          BY <2>2, <2>7, <2>9 DEF Dollar
    <2>12. \A i \in DOMAIN salt : salt[i] = Nul <=> i > Len(draws) + 3
          BY <2>2, <2>7, <2>10 DEF Nul
    <2>13. salt[1] = MarkOf[hash_type] /\ salt[Len(draws) + 4] = Nul
          BY <2>2, <2>5 DEF Nul, mark
    <2>14. SaltIsWhole(hash_type, draws, salt)
          BY <1>2, <2>11, <2>12, <2>13 DEF SaltIsWhole
    <2> QED BY <2>14 DEF salt
  <1> QED BY <1>1, <1>2

LEMMA UuidRight ==
    ASSUME NEW opened \in BOOLEAN, NEW count \in Nat
    PROVE  UuidIsWhole(gen_uuid(opened, count))
  <1>1. UuidLen \in Nat
        BY CallsAssumption DEF MiscAssumption
  <1> DEFINE n == IF ~opened THEN 0 ELSE IF count > UuidLen THEN UuidLen ELSE count
             ok == opened /\ n >= UuidLen
             answer == gen_uuid(opened, count)
  <1>2. answer.ok = ok /\ answer.text = n /\ answer.nul = ok
        BY DEF gen_uuid
  <1>3. ok => n = UuidLen
        BY <1>1
  <1> HIDE DEF answer, ok, n
  <1>4. UuidIsWhole(answer)
        BY <1>2, <1>3 DEF UuidIsWhole
  <1> QED BY <1>4 DEF answer

LEMMA MiscNow == ASSUME AskInv PROVE MiscRight
  <1>1. ASSUME Answered("luhn") PROVE LuhnDetects(asked.num, reply)
    <2>1. PICK num \in Numbers : asked = [fn |-> "luhn", num |-> num]
          BY <1>1, AsksOne DEF AsksLuhn, Answered
    <2>2. reply = luhn_check(num) /\ asked.num = num
          BY <1>1, <2>1 DEF AskInv, Answered, Replied, Is
    <2>3. num \in Nat
          BY CallsAssumption DEF MiscAssumption
    <2> QED BY <2>2, <2>3, LuhnRight
  <1>2. ASSUME Answered("hash") PROVE HashesAgree(asked.type, asked.a, asked.b, reply)
    <2>1. PICK a \in Keys, b \in Keys :
            a[1] = b[1] /\ asked = [fn |-> "hash", type |-> a[1], a |-> a[2], b |-> b[2]]
          BY <1>2, AsksOne DEF AsksHash, Answered
    <2>2. reply = table_uses(a[1], a[2], b[2])
          BY <1>2, <2>1 DEF AskInv, Answered, Replied, Is
    <2>3. asked.type = a[1] /\ asked.a = a[2] /\ asked.b = b[2]
          BY <2>1
    <2>4. HashesAgree(a[1], a[2], b[2], table_uses(a[1], a[2], b[2]))
          BY <2>1, HashRight
    <2> QED BY <2>2, <2>3, <2>4
  <1>3. ASSUME Answered("passcrypt") PROVE SaltIsWhole(asked.hash_type, asked.draws, reply)
    <2>1. PICK hash_type \in DOMAIN MarkOf \cup {"sha1"}, draws \in Salts :
            asked = [fn |-> "passcrypt", hash_type |-> hash_type, draws |-> draws]
          BY <1>3, AsksOne DEF AsksPasscrypt, Answered
    <2>2. reply = passcrypt(hash_type, draws) /\ asked.hash_type = hash_type /\ asked.draws = draws
          BY <1>3, <2>1 DEF AskInv, Answered, Replied, Is
    <2>3. draws \in [1..SaltLen -> Nat]
          BY CallsAssumption DEF MiscAssumption
    <2> QED BY <2>2, <2>3, SaltRight
  <1>4. ASSUME Answered("uuid") PROVE UuidIsWhole(reply)
    <2>1. PICK opened \in BOOLEAN, count \in 0..UuidLen + 1 :
            asked = [fn |-> "uuid", opened |-> opened, count |-> count]
          BY <1>4, AsksOne DEF AsksUuid, Answered
    <2>2. reply = gen_uuid(opened, count)
          BY <1>4, <2>1 DEF AskInv, Answered, Replied, Is
    <2>3. count \in Nat
          BY CallsAssumption DEF MiscAssumption
    <2> QED BY <2>2, <2>3, UuidRight
  <1> QED BY <1>1, <1>2, <1>3, <1>4, ShufflesNow DEF MiscRight

(***************************************************************************)
(* Arrays of any length are shuffled fairly; the Luhn check finds a digit  *)
(* mistaken and neighbours exchanged in numbers of any length; keys that   *)
(* differ in one place never hash alike, whatever the width of a word, the *)
(* odd multiplier and the shifts; salts and UUIDs are whole.               *)
(***************************************************************************)
THEOREM MiscIsRight == AskSpec => []MiscRight
  BY AskAlways, MiscNow, PTL
----------------------------------------------------------------------------

Words == 0..Word - 1

(***************************************************************************)
(* Schrage's multiplication: the two terms are below the modulus, and      *)
(* their difference is the product modulo it.                              *)
(***************************************************************************)
LEMMA Schrage ==
    ASSUME NEW A \in Nat, NEW M \in Nat, NEW q \in Nat, NEW r \in Nat, M = q * A + r,
           NEW h \in Int, NEW l \in Int
    PROVE  A * (q * h + l) = h * M + (A * l - r * h)
  <1>1. A * (q * h + l) = A * (q * h) + A * l
    <2>1. q * h \in Int
          OBVIOUS
    <2> QED BY <2>1, Products
  <1>2. A * (q * h) = (A * q) * h /\ A * q = q * A /\ A * q \in Int
        BY Products
  <1>3. A * q = M - r
        BY <1>2
  <1>4. (M - r) * h = h * (M - r) /\ h * (M - r) = h * M - h * r /\ h * r = r * h
        BY Products
  <1>5. h * M \in Int /\ r * h \in Int /\ A * l \in Int
        OBVIOUS
  <1> QED BY <1>1, <1>2, <1>3, <1>4, <1>5

LEMMA TermsFit ==
    ASSUME NEW A \in Nat \ {0}, NEW M \in Nat, NEW q \in Nat, NEW r \in Nat,
           M = q * A + r, r < q, q <= M,
           NEW h \in Nat, NEW l \in 0..q - 1, q * h + l <= M + 1
    PROVE  A * l \in 0..M - 1 /\ r * h \in 0..M - 1
  <1>1. A * l <= A * (q - 1) /\ A * 0 <= A * l
        BY LargerProduct
  <1>2. A * (q - 1) = A * q - A /\ A * q = q * A /\ A * 0 = 0 /\ A * q \in Int /\ A * l \in Int
    <2>1. A * (q - 1) = A * q - A * 1 /\ A * 1 = A
          BY Products
    <2> QED BY <2>1
  <1>3. A * l \in 0..M - 1
        BY <1>1, <1>2
  <1>4. h * r <= h * (q - 1) /\ h * 0 <= h * r
        BY LargerProduct
  <1>5. /\ h * r = r * h /\ h * (q - 1) = h * q - h /\ h * q = q * h /\ h * 0 = 0
        /\ r * h \in Int /\ q * h \in Int
    <2>1. h * (q - 1) = h * q - h * 1 /\ h * 1 = h
          BY Products
    <2> QED BY <2>1
  <1>6. /\ h = 0 => r * h = 0
        /\ h = 1 => r * h = r
        OBVIOUS
  <1>7. r * h <= M + 1 - l - h
        BY <1>4, <1>5
  <1> QED BY <1>3, <1>4, <1>5, <1>6, <1>7

LEMMA ModulusIs ==
    ASSUME GoodTables
    PROVE  /\ Word \in Nat /\ Modulus \in Nat \ {0} /\ Word = 2 * (Modulus + 1)
           /\ Multiplier \in Nat \ {0}
           /\ Word \div 2 = Modulus + 1
           /\ \E q, r \in Nat : /\ q = Modulus \div Multiplier /\ r = Modulus % Multiplier
                                /\ r < q /\ Modulus = q * Multiplier + r /\ r < Multiplier
                                /\ q <= Modulus
  <1>1. Word \in Nat /\ Word % 2 = 0 /\ Multiplier \in Nat \ {0}
        /\ Modulus % Multiplier < Modulus \div Multiplier
        BY DEF GoodTables
  <1> DEFINE h == Word \div 2
  <1>2. Word = 2 * h /\ h \in Nat /\ Modulus = h - 1
        BY <1>1 DEF Modulus
  <1> DEFINE q == Modulus \div Multiplier
             r == Modulus % Multiplier
  <1>3. Modulus = q * Multiplier + r /\ r \in 0..Multiplier - 1 /\ q \in Int
        BY <1>1, <1>2, ModBounds
  <1>4. r < q /\ q \in Nat
        BY <1>1, <1>3
  <1> HIDE DEF q, r
  <1>5. q <= Modulus /\ Modulus > 0
    <2>1. q * 1 <= q * Multiplier /\ q * 1 = q /\ q * Multiplier \in Int
          BY <1>1, <1>4, LargerProduct
    <2> QED BY <1>1, <1>2, <1>3, <1>4, <2>1
  <1>6. Modulus \in Nat \ {0} /\ Word = 2 * (Modulus + 1) /\ Word \div 2 = Modulus + 1
        BY <1>2, <1>5
  <1>7. r \in Nat /\ r < Multiplier
        BY <1>1, <1>3
  <1> QED BY <1>1, <1>3, <1>4, <1>5, <1>6, <1>7 DEF q, r

LEMMA LehmerIs ==
    ASSUME GoodTables, NEW w \in Words
    PROVE  Lehmer(w) = (Multiplier * Signed(w)) % Modulus /\ Lehmer(w) \in Words
  <1> DEFINE A == Multiplier
             M == Modulus
             v == Signed(w)
  <1>1. PICK q, r \in Nat : /\ q = M \div A /\ r = M % A /\ r < q /\ M = q * A + r /\ r < A /\ q <= M
        BY ModulusIs
  <1>2. M \in Nat \ {0} /\ A \in Nat \ {0} /\ Word = 2 * (M + 1) /\ Word \div 2 = M + 1
        BY ModulusIs
  <1>3. v \in Int /\ -(M + 1) <= v /\ v <= M
        BY <1>2 DEF Signed, Words
  <1> DEFINE hi == IF v < 0 THEN -((-v) \div q) ELSE v \div q
             lo == v - q * hi
             next == A * lo - r * hi
  <1>4. Lehmer(w) = IF next < 0 THEN next + M ELSE next
        BY <1>1 DEF Lehmer
  <1> HIDE DEF A, M, v
  <1> DEFINE u == IF v < 0 THEN -v ELSE v
             h == u \div q
             l == u - q * h
  <1>5. u \in Nat /\ u <= M + 1
        BY <1>2, <1>3
  <1>6. h \in Nat /\ l \in 0..q - 1 /\ u = q * h + l
    <2>1. q \in Nat \ {0} /\ u \in Int
          BY <1>1, <1>5
    <2> HIDE DEF u
    <2>2. u = (u \div q) * q + (u % q) /\ u % q \in 0..q - 1 /\ u \div q \in Int
          BY <2>1, ModBounds
    <2>3. u \div q >= 0
          BY <1>5, <2>1
    <2>4. q * (u \div q) = (u \div q) * q /\ (u \div q) * q \in Int
          BY <2>1, <2>2, Products
    <2> QED BY <2>2, <2>3, <2>4
  <1>7. A * l \in 0..M - 1 /\ r * h \in 0..M - 1
    <2> HIDE DEF h, l, u
    <2> QED BY <1>1, <1>2, <1>5, <1>6, TermsFit
  <1>8. /\ hi \in Int /\ lo \in Int /\ v = q * hi + lo
        /\ next = A * l - r * h \/ next = -(A * l - r * h)
    <2>1. CASE v < 0
      <3>1. u = -v /\ hi = -h
            BY <1>3, <2>1
      <3> HIDE DEF u, h, hi
      <3>2. q * (-h) = -(q * h) /\ q * h \in Int
            BY <1>1, <1>6, Products
      <3>3. lo = -l
            BY <1>3, <1>6, <3>1, <3>2
      <3> HIDE DEF l, lo
      <3>4. A * (-l) = -(A * l) /\ r * (-h) = -(r * h) /\ A * l \in Int /\ r * h \in Int
        <4>1. l \in Int /\ h \in Int /\ A \in Int /\ r \in Int
              BY <1>1, <1>2, <1>6
        <4> QED BY <4>1, Products
      <3>5. next = -(A * l - r * h)
            BY <3>1, <3>3, <3>4
      <3>6. q * hi + lo = v
            BY <1>3, <1>6, <3>1, <3>2, <3>3
      <3> QED BY <1>6, <3>1, <3>3, <3>5, <3>6
    <2>2. CASE ~(v < 0)
      <3>1. u = v /\ hi = h /\ lo = l
            BY <2>2
      <3> HIDE DEF u, h, hi, lo, l
      <3> QED BY <1>6, <3>1
    <2> QED BY <2>1, <2>2
  <1> HIDE DEF h, l, u, hi, lo
  <1>9. next \in Int /\ -M < next /\ next < M
    <2> HIDE DEF next
    <2> DEFINE x == A * l
               y == r * h
    <2>1. x \in 0..M - 1 /\ y \in 0..M - 1 /\ (next = x - y \/ next = -(x - y))
          BY <1>7, <1>8
    <2> HIDE DEF x, y
    <2> QED BY <1>2, <2>1
  <1>10. A * v = hi * M + next
    <2>1. A \in Nat /\ M \in Nat /\ M = q * A + r /\ hi \in Int /\ lo \in Int
          BY <1>1, <1>2, <1>8
    <2>2. A * (q * hi + lo) = hi * M + (A * lo - r * hi)
          BY <2>1, Schrage
    <2> QED BY <1>8, <2>2
  <1> HIDE DEF next
  <1> DEFINE res == IF next < 0 THEN next + M ELSE next
  <1>11. res \in 0..M - 1
         BY <1>2, <1>9
  <1>12. (A * v) % M = res
    <2>1. CASE next < 0
      <3>1. M * (hi - 1) = M * hi - M * 1 /\ M * 1 = M /\ M * hi = hi * M
            /\ M * (hi - 1) = (hi - 1) * M /\ hi * M \in Int /\ hi - 1 \in Int
            BY <1>2, <1>8, Products
      <3>2. A * v = (hi - 1) * M + res
            BY <1>2, <1>9, <1>10, <2>1, <3>1
      <3>3. M \in Nat \ {0} /\ hi - 1 \in Int /\ res \in 0..M - 1
            BY <1>2, <1>8, <1>11
      <3> HIDE DEF res
      <3> DEFINE g == hi - 1
      <3> HIDE DEF g
      <3>4. (g * M + res) % M = res
            BY <3>3, DivMod DEF g
      <3> QED BY <3>2, <3>4 DEF g
    <2>2. CASE ~(next < 0)
      <3>1. A * v = hi * M + res
            BY <1>10, <2>2
      <3>2. M \in Nat \ {0} /\ hi \in Int /\ res \in 0..M - 1
            BY <1>2, <1>8, <1>11
      <3> HIDE DEF res
      <3>3. (hi * M + res) % M = res
            BY <3>2, DivMod
      <3> QED BY <3>1, <3>3
    <2> QED BY <2>1, <2>2
  <1>13. res \in Words
         BY <1>2, <1>11 DEF Words
  <1> QED BY <1>4, <1>12, <1>13 DEF A, M, v
----------------------------------------------------------------------------
(***************************************************************************)
(* What the recursive definitions of Random compute.                       *)
(***************************************************************************)
LEMMA FirstIsWord ==
    ASSUME GoodTables, NEW seed \in Words
    PROVE  First(seed) \in Words
  <1>1. Word \in Nat /\ Word >= 2
        BY ModulusIs
  <1> QED BY <1>1 DEF First, Words

LEMMA SimplesAre ==
    ASSUME GoodTables, NEW seed \in Words
    PROVE  /\ Simples(seed) \in [Nat -> Nat]
           /\ Simples(seed)[0] = First(seed)
           /\ \A n \in Nat : Simples(seed)[n + 1] = (Simples(seed)[n] * Scale + Increment) % (Word \div 2)
  <1> DEFINE half    == Word \div 2
             advance(n) == (n * Scale + Increment) % half
             E(f, i) == IF i = 0 THEN First(seed) ELSE advance(f[i - 1])
             Goes(f)   == f = [i \in Nat |-> E(f, i)]
             s       == CHOOSE f : Goes(f)
             F       == [n \in Nat |-> advance(n)]
  <1>1. Simples(seed) = s
        BY DEF Simples
  <1>2. half \in Nat \ {0} /\ Scale \in Nat /\ Increment \in Nat /\ First(seed) \in Nat
    <2>1. half = Modulus + 1 /\ Modulus \in Nat \ {0} /\ Word \in Nat
          BY ModulusIs
    <2>2. Scale \in Nat /\ Increment \in Nat
          BY DEF GoodTables
    <2>3. First(seed) \in 0..Word - 1
          BY FirstIsWord DEF Words
    <2> HIDE DEF half
    <2> QED BY <2>1, <2>2, <2>3
  <1> HIDE DEF half
  <1>3. \A n \in Nat : advance(n) \in Nat
    <2> SUFFICES ASSUME NEW n \in Nat PROVE advance(n) \in Nat
        OBVIOUS
    <2>1. n * Scale + Increment \in Int
          BY <1>2
    <2> QED BY <1>2, <2>1, ModBounds
  <1> HIDE DEF advance
  <1>4. F \in [Nat -> Nat]
        BY <1>3
  <1>5. PICK f \in [Nat -> Nat] : f[0] = First(seed) /\ \A n \in Nat : f[n + 1] = F[f[n]]
    <2> DEFINE S == Nat
               x == First(seed)
    <2>1. x \in S /\ F \in [S -> S]
          BY <1>2, <1>4
    <2> HIDE DEF F, S, x
    <2>2. \E f : Iterates(f, S, x, F)
          BY <2>1, Iterated
    <2> QED BY <2>2 DEF S, x, Iterates
  <1>6. \A n \in Nat : f[n + 1] = advance(f[n])
        BY <1>5
  <1>7. Goes(f)
    <2>1. ASSUME NEW i \in Nat PROVE f[i] = E(f, i)
      <3>1. CASE i = 0
            BY <1>5, <3>1
      <3>2. CASE i # 0
        <4>1. i - 1 \in Nat /\ (i - 1) + 1 = i
              BY <3>2
        <4> QED BY <1>6, <3>2, <4>1
      <3> QED BY <3>1, <3>2
    <2>2. f = [i \in Nat |-> f[i]]
          BY <1>5
    <2> HIDE DEF E
    <2> QED BY <2>1, <2>2
  <1> HIDE DEF Goes
  <1>8. Goes(s)
        BY <1>7
  <1> HIDE DEF s
  <1>9. DOMAIN s = Nat /\ \A i \in Nat : s[i] = E(s, i)
    <2> HIDE DEF E
    <2> QED BY <1>8 DEF Goes
  <1>10. s[0] = First(seed) /\ \A n \in Nat : s[n + 1] = advance(s[n])
    <2>1. \A n \in Nat : n + 1 \in Nat /\ n + 1 # 0 /\ (n + 1) - 1 = n
          OBVIOUS
    <2> QED BY <1>9, <2>1
  <1>11. s \in [Nat -> Nat]
    <2> DEFINE Good == {n \in Nat : s[n] \in Nat}
    <2>1. 0 \in Good
          BY <1>2, <1>10
    <2>2. ASSUME NEW n \in Nat, n \in Good PROVE n + 1 \in Good
          BY <1>3, <1>10, <2>2
    <2> HIDE DEF Good
    <2>3. Nat \subseteq Good
          BY <2>1, <2>2, Induct
    <2>4. s = [i \in Nat |-> s[i]]
          BY <1>8 DEF Goes
    <2> QED BY <2>3, <2>4 DEF Good
  <1> QED BY <1>1, <1>10, <1>11 DEF advance, half

LEMMA LehmersAre ==
    ASSUME GoodTables, NEW seed \in Words
    PROVE  /\ Lehmers(seed) \in [Nat -> Words]
           /\ Lehmers(seed)[0] = First(seed)
           /\ \A n \in Nat : Lehmers(seed)[n + 1] = Lehmer(Lehmers(seed)[n])
  <1> DEFINE advance(w) == (Multiplier * Signed(w)) % Modulus
             E(f, i) == IF i = 0 THEN First(seed) ELSE advance(f[i - 1])
             Goes(f)   == f = [i \in Nat |-> E(f, i)]
             s       == CHOOSE f : Goes(f)
             F       == [w \in Words |-> advance(w)]
  <1>1. Lehmers(seed) = s
        BY DEF Lehmers
  <1>2. \A w \in Words : advance(w) = Lehmer(w) /\ advance(w) \in Words
        BY LehmerIs
  <1> HIDE DEF advance
  <1>3. F \in [Words -> Words] /\ First(seed) \in Words
        BY <1>2, FirstIsWord
  <1>4. PICK f \in [Nat -> Words] : f[0] = First(seed) /\ \A n \in Nat : f[n + 1] = F[f[n]]
    <2> HIDE DEF F
    <2>1. \E f : Iterates(f, Words, First(seed), F)
          BY <1>3, Iterated
    <2> QED BY <2>1 DEF Iterates
  <1>5. \A n \in Nat : f[n + 1] = advance(f[n])
        BY <1>4
  <1>6. Goes(f)
    <2>1. ASSUME NEW i \in Nat PROVE f[i] = E(f, i)
      <3>1. CASE i = 0
            BY <1>4, <3>1
      <3>2. CASE i # 0
        <4>1. i - 1 \in Nat /\ (i - 1) + 1 = i
              BY <3>2
        <4> QED BY <1>5, <3>2, <4>1
      <3> QED BY <3>1, <3>2
    <2>2. f = [i \in Nat |-> f[i]]
          BY <1>4
    <2> HIDE DEF E
    <2> QED BY <2>1, <2>2
  <1> HIDE DEF Goes
  <1>7. Goes(s)
        BY <1>6
  <1> HIDE DEF s
  <1>8. \A i \in Nat : s[i] = E(s, i)
    <2> HIDE DEF E
    <2> QED BY <1>7 DEF Goes
  <1>9. s[0] = First(seed) /\ \A n \in Nat : s[n + 1] = advance(s[n])
    <2>1. \A n \in Nat : n + 1 \in Nat /\ n + 1 # 0 /\ (n + 1) - 1 = n
          OBVIOUS
    <2> QED BY <1>8, <2>1
  <1>10. s \in [Nat -> Words]
    <2> DEFINE Good == {n \in Nat : s[n] \in Words}
    <2>1. 0 \in Good
          BY <1>3, <1>9
    <2>2. ASSUME NEW n \in Nat, n \in Good PROVE n + 1 \in Good
          BY <1>2, <1>9, <2>2
    <2> HIDE DEF Good
    <2>3. Nat \subseteq Good
          BY <2>1, <2>2, Induct
    <2>4. s = [i \in Nat |-> s[i]]
          BY <1>7 DEF Goes
    <2> QED BY <2>3, <2>4 DEF Good
  <1>11. \A n \in Nat : s[n + 1] = Lehmer(s[n])
         BY <1>2, <1>9, <1>10
  <1> QED BY <1>1, <1>9, <1>10, <1>11
----------------------------------------------------------------------------
(***************************************************************************)
(* The sequence that a trinomial generator is to give, from the first      *)
(* number of its first round on.                                           *)
(***************************************************************************)
IsStream(x, seed, t) ==
    /\ x \in [Nat -> Words]
    /\ \A j \in 0..Degree(t) - 1 : x[j] = FirstRound(seed, t)[j + 1]
    /\ \A n \in Nat : x[n + Degree(t)] = (x[n] + x[n + Degree(t) - Sep(t)]) % Word

Types == 1..MAX_TYPES - 1

LEMMA DegreeIs ==
    ASSUME GoodTables, NEW t \in Types
    PROVE  /\ Degree(t) \in Nat \ {0} /\ Sep(t) \in 1..Degree(t) - 1
           /\ Word \in Nat \ {0} /\ \A a, b \in Nat : (a + b) % Word \in Words
  <1>1. t \in Nat /\ t + 1 \in 1..MAX_TYPES /\ Degrees \in Seq(Nat) /\ Len(Degrees) = MAX_TYPES
        /\ Sep(t) \in 1..Degree(t) - 1
        BY DEF GoodTables, Types, MAX_TYPES
  <1>2. Degree(t) \in Nat
        BY <1>1 DEF Degree
  <1>3. Word \in Nat \ {0}
        BY ModulusIs
  <1>4. ASSUME NEW a \in Nat, NEW b \in Nat PROVE (a + b) % Word \in Words
    <2>1. a + b \in Int
          OBVIOUS
    <2> QED BY <1>3, <2>1, ModBounds DEF Words
  <1> QED BY <1>1, <1>2, <1>3, <1>4

LEMMA FirstRoundIs ==
    ASSUME GoodTables, NEW seed \in Words, NEW t \in Types
    PROVE  /\ FirstRound(seed, t) \in [1..Degree(t) -> Words]
           /\ \A j \in 0..Degree(t) - 1 :
                 FirstRound(seed, t)[j + 1] = Lehmers(seed)[(j + Sep(t)) % Degree(t)]
  <1> DEFINE d == Degree(t)
             s == Sep(t)
  <1>1. d \in Nat \ {0} /\ s \in Nat /\ Lehmers(seed) \in [Nat -> Words]
    <2>1. Lehmers(seed) \in [Nat -> Words]
          BY LehmersAre
    <2>2. Degree(t) \in Nat \ {0} /\ Sep(t) \in 1..Degree(t) - 1
          BY DegreeIs
    <2> QED BY <2>1, <2>2
  <1>2. FirstRound(seed, t) = [i \in 1..d |-> Lehmers(seed)[(i - 1 + s) % d]]
        BY DEF FirstRound
  <1> HIDE DEF d, s
  <1>3. \A i \in 1..d : (i - 1 + s) % d \in Nat
    <2> SUFFICES ASSUME NEW i \in 1..d PROVE (i - 1 + s) % d \in Nat
        OBVIOUS
    <2>1. i - 1 + s \in Int
          BY <1>1
    <2> QED BY <1>1, <2>1, ModBounds
  <1>4. \A j \in 0..d - 1 : j + 1 \in 1..d /\ (j + 1) - 1 = j
        BY <1>1
  <1> QED BY <1>1, <1>2, <1>3, <1>4 DEF d, s

LEMMA StreamExists ==
    ASSUME GoodTables, NEW seed \in Words, NEW t \in Types
    PROVE  \E x : IsStream(x, seed, t)
  <1> DEFINE d == Degree(t)
             s == Sep(t)
             first == FirstRound(seed, t)
             S == [1..d -> Words]
             moved(w) == [i \in 1..d |-> IF i < d THEN w[i + 1] ELSE (w[1] + w[d - s + 1]) % Word]
             F == [w \in S |-> moved(w)]
  <1>1. /\ d \in Nat \ {0} /\ s \in 1..d - 1 /\ first \in S
        /\ \A a, b \in Nat : (a + b) % Word \in Words
        BY DegreeIs, FirstRoundIs
  <1>2. Words \subseteq Nat
        BY ModulusIs DEF Words
  <1> HIDE DEF d, s, first
  <1>3. \A w \in S : moved(w) \in S
    <2> SUFFICES ASSUME NEW w \in S PROVE moved(w) \in S
        OBVIOUS
    <2>1. 1 \in 1..d /\ d - s + 1 \in 1..d /\ \A i \in 1..d : i < d => i + 1 \in 1..d
          BY <1>1
    <2>2. (w[1] + w[d - s + 1]) % Word \in Words
          BY <1>1, <1>2, <2>1
    <2> QED BY <2>1, <2>2
  <1>4. PICK W \in [Nat -> S] : W[0] = first /\ \A n \in Nat : W[n + 1] = F[W[n]]
    <2>1. F \in [S -> S]
          BY <1>3
    <2> HIDE DEF F, S
    <2>2. \E W : Iterates(W, S, first, F)
          BY <1>1, <2>1, Iterated
    <2> QED BY <2>2 DEF Iterates
  <1>5. \A n \in Nat : W[n + 1] = moved(W[n])
        BY <1>4
  <1>6. \A n \in Nat : \A i \in 1..d :
           W[n + 1][i] = IF i < d THEN W[n][i + 1] ELSE (W[n][1] + W[n][d - s + 1]) % Word
        BY <1>5
  <1> DEFINE Same == {i \in Nat : i < d => \A n \in Nat : W[n][i + 1] = W[n + i][1]}
  <1>7. 0 \in Same
        OBVIOUS
  <1>8. ASSUME NEW i \in Nat, i \in Same PROVE i + 1 \in Same
    <2> SUFFICES ASSUME i + 1 < d, NEW n \in Nat PROVE W[n][i + 2] = W[n + (i + 1)][1]
        OBVIOUS
    <2>1. i + 1 \in 1..d /\ i + 1 < d /\ i < d /\ n + 1 \in Nat /\ (i + 1) + 1 = i + 2
          BY <1>1
    <2>2. W[n][i + 2] = W[n + 1][i + 1]
      <3> HIDE DEF S, Same
      <3> QED BY <1>6, <2>1
    <2>3. W[n + 1][i + 1] = W[(n + 1) + i][1]
          BY <1>8, <2>1
    <2>4. (n + 1) + i = n + (i + 1)
          OBVIOUS
    <2> QED BY <2>2, <2>3, <2>4
  <1>9. \A i \in 0..d - 1 : \A n \in Nat : W[n][i + 1] = W[n + i][1]
    <2> HIDE DEF Same
    <2>1. Nat \subseteq Same
          BY <1>7, <1>8, Induct
    <2>2. \A i \in 0..d - 1 : i \in Nat /\ i < d
          BY <1>1
    <2> QED BY <2>1, <2>2 DEF Same
  <1> DEFINE x == [n \in Nat |-> W[n][1]]
  <1>10. x \in [Nat -> Words]
         BY <1>1, <1>4
  <1>11. ASSUME NEW j \in 0..d - 1 PROVE x[j] = first[j + 1]
    <2>1. j \in Nat /\ 0 + j = j
          BY <1>1
    <2>2. W[0][j + 1] = W[0 + j][1]
          BY <1>9
    <2> QED BY <1>4, <2>1, <2>2
  <1>12. ASSUME NEW n \in Nat PROVE x[n + d] = (x[n] + x[n + d - s]) % Word
    <2>1. /\ d - 1 \in 0..d - 1 /\ d - s \in 0..d - 1 /\ d \in 1..d /\ (d - 1) + 1 = d
          /\ n + 1 \in Nat /\ (n + 1) + (d - 1) = n + d /\ n + (d - s) = n + d - s
          /\ n + d \in Nat /\ n + d - s \in Nat /\ ~(d < d)
          BY <1>1
    <2>2. W[n + d][1] = W[n + 1][d]
          BY <1>9, <2>1
    <2>3. W[n + 1][d] = (W[n][1] + W[n][d - s + 1]) % Word
      <3> HIDE DEF S
      <3> QED BY <1>6, <2>1
    <2>4. W[n][d - s + 1] = W[n + d - s][1]
          BY <1>9, <2>1
    <2> QED BY <2>1, <2>2, <2>3, <2>4
  <1> HIDE DEF x
  <1> QED BY <1>10, <1>11, <1>12 DEF IsStream, d, s, first

(***************************************************************************)
(* The rounds of the definition are stretches of that sequence.            *)
(***************************************************************************)
Stretch(x, k, d) == [i \in 1..d |-> x[k + i - 1]]

LEMMA NextRoundIs ==
    ASSUME GoodTables, NEW seed, NEW t \in Types, NEW x, IsStream(x, seed, t), NEW k \in Nat
    PROVE  NextRound(Stretch(x, k, Degree(t)), t) = Stretch(x, k + Degree(t), Degree(t))
  <1> DEFINE d == Degree(t)
             s == Sep(t)
             b == Stretch(x, k, d)
             h == Stretch(x, k + d, d)
             E(f, i) == (b[i] + (IF i > s THEN f[i - s] ELSE b[d + i - s])) % Word
             Goes(f) == f = [i \in 1..d |-> E(f, i)]
             g == CHOOSE f : Goes(f)
  <1>1. NextRound(b, t) = g
        BY DEF NextRound
  <1>2. d \in Nat \ {0} /\ s \in 1..d - 1 /\ \A n \in Nat : x[n + d] = (x[n] + x[n + d - s]) % Word
        BY DegreeIs DEF IsStream
  <1> HIDE DEF d, s
  <1>3. \A i \in 1..d : b[i] = x[k + i - 1] /\ h[i] = x[k + d + i - 1]
        BY DEF Stretch
  <1>4. h = [i \in 1..d |-> h[i]]
        BY DEF Stretch
  <1> HIDE DEF b, h
  <1>5. ASSUME NEW i \in 1..d PROVE h[i] = E(h, i)
    <2> DEFINE n == k + i - 1
    <2>1. n \in Nat /\ k + d + i - 1 = n + d
          BY <1>2
    <2>2. h[i] = (x[n] + x[n + d - s]) % Word /\ b[i] = x[n]
      <3>1. h[i] = x[n + d] /\ b[i] = x[n]
            BY <1>3, <2>1
      <3> HIDE DEF n
      <3> QED BY <1>2, <2>1, <3>1
    <2>3. CASE i > s
      <3>1. i - s \in 1..d /\ k + d + (i - s) - 1 = n + d - s
            BY <1>2, <2>3
      <3>2. h[i - s] = x[n + d - s]
            BY <1>3, <3>1
      <3> HIDE DEF n
      <3> QED BY <2>2, <2>3, <3>2
    <2>4. CASE ~(i > s)
      <3>1. d + i - s \in 1..d /\ k + (d + i - s) - 1 = n + d - s
            BY <1>2, <2>4
      <3>2. b[d + i - s] = x[n + d - s]
            BY <1>3, <3>1
      <3> HIDE DEF n
      <3> QED BY <2>2, <2>4, <3>2
    <2> QED BY <2>3, <2>4
  <1>6. Goes(g)
    <2>1. Goes(h)
      <3> HIDE DEF E
      <3> QED BY <1>4, <1>5
    <2> HIDE DEF Goes
    <2> QED BY <2>1
  <1> HIDE DEF g
  <1>7. \A i \in 1..d : g[i] = E(g, i)
    <2> HIDE DEF E
    <2> QED BY <1>6
  <1> DEFINE Bad == {i \in 1..d : g[i] # h[i]}
  <1>8. Bad = {}
    <2> SUFFICES ASSUME Bad # {} PROVE FALSE
        OBVIOUS
    <2>1. Bad \in SUBSET Nat
          BY <1>2
    <2>2. PICK n \in Bad : \A m \in Bad : n <= m
      <3> HIDE DEF Bad
      <3> QED BY <2>1, Least
    <2>3. n \in 1..d /\ g[n] # h[n]
          BY <2>2
    <2>4. n > s => n - s \in 1..d /\ n - s < n
          BY <1>2, <2>3
    <2>5. n > s => g[n - s] = h[n - s]
          BY <2>2, <2>4
    <2>6. E(g, n) = E(h, n)
          BY <2>5
    <2> HIDE DEF E
    <2> QED BY <1>5, <1>7, <2>3, <2>6
  <1>9. g = h
    <2>1. \A i \in 1..d : g[i] = h[i]
          BY <1>8
    <2>2. g = [i \in 1..d |-> g[i]]
      <3> HIDE DEF E
      <3> QED BY <1>6
    <2> HIDE DEF Goes, Bad
    <2> QED BY <1>4, <2>1, <2>2
  <1> QED BY <1>1, <1>9 DEF b, h, d

LEMMA AllRoundsAre ==
    ASSUME GoodTables, NEW seed \in Words, NEW t \in Types, NEW x, IsStream(x, seed, t), NEW m \in Nat
    PROVE  AllRounds(seed, t)[m] = Stretch(x, m * Degree(t), Degree(t))
  <1> DEFINE d == Degree(t)
             R == [n \in Nat |-> Stretch(x, n * d, d)]
             first == FirstRound(seed, t)
             E(f, n) == IF n = 0 THEN first ELSE NextRound(f[n - 1], t)
             Goes(f) == f = [n \in Nat |-> E(f, n)]
             g == CHOOSE f : Goes(f)
  <1>1. AllRounds(seed, t) = g
        BY DEF AllRounds
  <1>2. d \in Nat \ {0} /\ first \in [1..d -> Words] /\ \A j \in 0..d - 1 : x[j] = first[j + 1]
        BY DegreeIs, FirstRoundIs DEF IsStream
  <1>3. R[0] = first
    <2>1. 0 * d = 0 /\ \A i \in 1..d : i - 1 \in 0..d - 1 /\ (i - 1) + 1 = i /\ 0 + i - 1 = i - 1
          BY <1>2
    <2>2. R[0] = Stretch(x, 0, d)
          BY <2>1
    <2> HIDE DEF d, first
    <2>3. \A i \in 1..d : Stretch(x, 0, d)[i] = first[i]
          BY <1>2, <2>1 DEF Stretch
    <2>4. Stretch(x, 0, d) \in [1..d -> {x[i - 1] : i \in 1..d}]
          BY <2>1 DEF Stretch
    <2> QED BY <1>2, <2>2, <2>3, <2>4
  <1>4. ASSUME NEW n \in Nat PROVE R[n + 1] = NextRound(R[n], t)
    <2>1. n * d \in Nat /\ (n + 1) * d = n * d + d
      <3>1. d * (n + 1) = d * n + d * 1 /\ d * 1 = d /\ d * n = n * d /\ d * (n + 1) = (n + 1) * d
            BY <1>2, Products
      <3>2. d * 0 <= d * n /\ d * 0 = 0 /\ n * d \in Int
            BY <1>2, LargerProduct
      <3> QED BY <3>1, <3>2
    <2>2. NextRound(Stretch(x, n * d, d), t) = Stretch(x, n * d + d, d)
          BY <2>1, NextRoundIs
    <2> QED BY <2>1, <2>2
  <1> HIDE DEF R, first, d
  <1>5. Goes(g)
    <2>1. ASSUME NEW n \in Nat PROVE R[n] = E(R, n)
      <3>1. CASE n = 0
            BY <1>3, <3>1
      <3>2. CASE n # 0
        <4>1. n - 1 \in Nat /\ (n - 1) + 1 = n
              BY <3>2
        <4> QED BY <1>4, <3>2, <4>1
      <3> QED BY <3>1, <3>2
    <2>2. R = [n \in Nat |-> R[n]]
          BY DEF R
    <2>3. Goes(R)
      <3> HIDE DEF E
      <3> QED BY <2>1, <2>2
    <2> HIDE DEF Goes
    <2> QED BY <2>3
  <1> HIDE DEF g
  <1>6. \A n \in Nat : g[n] = E(g, n)
    <2> HIDE DEF E
    <2> QED BY <1>5
  <1>7. g[0] = first /\ \A n \in Nat : g[n + 1] = NextRound(g[n], t)
    <2>1. \A n \in Nat : n + 1 \in Nat /\ n + 1 # 0 /\ (n + 1) - 1 = n
          OBVIOUS
    <2> QED BY <1>6, <2>1
  <1> DEFINE Same == {n \in Nat : g[n] = R[n]}
  <1>8. 0 \in Same
        BY <1>3, <1>7
  <1>9. ASSUME NEW n \in Nat, n \in Same PROVE n + 1 \in Same
        BY <1>4, <1>7, <1>9
  <1> HIDE DEF Same
  <1>10. m \in Same
         BY <1>8, <1>9, Induct
  <1> QED BY <1>1, <1>10 DEF Same, R, d

LEMMA NumberIs ==
    ASSUME GoodTables, NEW seed \in Words, NEW t \in Types, NEW x, IsStream(x, seed, t), NEW c \in Nat
    PROVE  Number(seed, t, c + 1) = x[Rounds * Degree(t) + c + Degree(t)] \div 2
  <1> DEFINE d == Degree(t)
             q == c \div d
             r == c % d
             m == Rounds + 1 + q
  <1>1. d \in Nat \ {0} /\ Rounds \in Nat
        BY DegreeIs DEF GoodTables
  <1>2. c = q * d + r /\ r \in 0..d - 1 /\ q \in Nat
    <2>1. c = q * d + r /\ r \in 0..d - 1 /\ q \in Int
      <3>1. c \in Int
            OBVIOUS
      <3> HIDE DEF d
      <3> QED BY <1>1, <3>1, ModBounds
    <2>2. q >= 0
          BY <1>1
    <2> QED BY <2>1, <2>2
  <1>3. Number(seed, t, c + 1) = AllRounds(seed, t)[m][r + 1] \div 2
    <2>1. t # 0 /\ (c + 1) - 1 = c
          BY DEF Types
    <2> QED BY <2>1 DEF Number
  <1> HIDE DEF q, r
  <1>4. m \in Nat
        BY <1>1, <1>2
  <1>5. m * d + r = Rounds * d + c + d
    <2>1. d * (Rounds + 1 + q) = d * (Rounds + 1) + d * q /\ d * (Rounds + 1) = d * Rounds + d * 1
          BY <1>1, <1>2, Products
    <2>2. d * 1 = d /\ d * Rounds = Rounds * d /\ d * q = q * d /\ d * m = m * d
          /\ Rounds * d \in Int /\ q * d \in Int
          BY <1>1, <1>2, <1>4, Products
    <2> QED BY <1>1, <1>2, <2>1, <2>2
  <1>6. AllRounds(seed, t)[m] = Stretch(x, m * d, d)
        BY <1>4, AllRoundsAre
  <1> HIDE DEF m
  <1>7. Stretch(x, m * d, d)[r + 1] = x[m * d + r]
    <2>1. r + 1 \in 1..d /\ m * d \in Int /\ r \in Int
          BY <1>1, <1>2, <1>4, Products
    <2> DEFINE k == m * d
    <2>2. k + (r + 1) - 1 = k + r
          BY <2>1
    <2> HIDE DEF k
    <2> QED BY <2>1, <2>2 DEF Stretch, k
  <1> QED BY <1>3, <1>5, <1>6, <1>7
----------------------------------------------------------------------------
(***************************************************************************)
(* Places that go round.                                                   *)
(***************************************************************************)
LEMMA GoingRound ==
    ASSUME NEW d \in Nat \ {0}, NEW a \in Nat, NEW e \in 0..d
    PROVE  (a + e) % d = IF (a % d) + e >= d THEN (a % d) + e - d ELSE (a % d) + e
  <1> DEFINE r == a % d
  <1>1. r \in 0..d - 1 /\ (e + r) % d = (e + a) % d
    <2>1. a \in Int /\ e \in Int
          OBVIOUS
    <2> QED BY <2>1, ModBounds, ModSum
  <1> HIDE DEF r
  <1>2. CASE r + e >= d
    <2>1. r + e - d \in 0..d - 1 /\ e + r = 1 * d + (r + e - d) /\ 1 \in Int
          BY <1>1, <1>2
    <2> DEFINE p == r + e - d
    <2>2. p \in 0..d - 1 /\ e + r = 1 * d + p
          BY <2>1
    <2> HIDE DEF p
    <2>3. (1 * d + p) % d = p
          BY <2>1, <2>2, DivMod
    <2> QED BY <1>1, <1>2, <2>2, <2>3 DEF p, r
  <1>3. CASE ~(r + e >= d)
    <2>1. r + e \in 0..d - 1
          BY <1>1, <1>3
    <2> DEFINE p == r + e
    <2>2. p \in 0..d - 1 /\ e + r = p
          BY <1>1, <2>1
    <2> HIDE DEF p
    <2>3. p % d = p
          BY <2>2
    <2> QED BY <1>1, <1>3, <2>2, <2>3 DEF p, r
  <1> QED BY <1>2, <1>3 DEF r

(***************************************************************************)
(* A generator that has been turned k times: the next numbers of its       *)
(* sequence are in its words, the oldest one at fptr.                      *)
(***************************************************************************)
Holds(words, x, k, t) ==
    \A j \in 0..Degree(t) - 1 : words[(k + j + Sep(t)) % Degree(t)] = x[k + j]

PlaceOf(gen, x, k, t) ==
    /\ gen.fptr = (k + Sep(t)) % Degree(t)
    /\ gen.rptr = k % Degree(t)
    /\ Holds(gen.words, x, k, t)

LEMMA TurnedAt ==
    ASSUME GoodTables, NEW seed, NEW t \in Types, NEW x, IsStream(x, seed, t), NEW k \in Nat,
           NEW D, 0..Degree(t) - 1 \subseteq D,
           NEW gen, gen.words \in [D -> Int], PlaceOf(gen, x, k, t)
    PROVE  LET next == Turned(gen, Degree(t))
           IN  /\ next.words \in [D -> Int]
               /\ next.last = x[k + Degree(t)]
               /\ PlaceOf(next, x, k + 1, t)
  <1> DEFINE d == Degree(t)
             s == Sep(t)
             f == (k + s) % d
             r == k % d
             next == Turned(gen, d)
             new == x[k + d]
  <1>1. d \in Nat \ {0} /\ s \in 1..d - 1
        BY DegreeIs
  <1>2. x \in [Nat -> Words] /\ Words \subseteq Int
        /\ \A n \in Nat : x[n + d] = (x[n] + x[n + d - s]) % Word
    <2>1. Words \subseteq Int
          BY ModulusIs DEF Words
    <2> QED BY <2>1 DEF IsStream
  <1>3. gen.fptr = f /\ gen.rptr = r /\ \A j \in 0..d - 1 : gen.words[(k + j + s) % d] = x[k + j]
        BY DEF PlaceOf, Holds
  <1>4. 0..d - 1 \subseteq D
        OBVIOUS
  <1> HIDE DEF d, s
  <1>5. r \in 0..d - 1 /\ f \in 0..d - 1 /\ f = (IF r + s >= d THEN r + s - d ELSE r + s)
    <2>1. k \in Int /\ k + s \in Int /\ s \in 0..d
          BY <1>1
    <2> QED BY <1>1, <2>1, ModBounds, GoingRound
  <1>6. gen.words[f] = x[k] /\ gen.words[r] = x[k + d - s]
    <2>1. 0 \in 0..d - 1 /\ d - s \in 0..d - 1 /\ k + 0 + s = k + s /\ k + 0 = k
          /\ k + (d - s) + s = k + d /\ k + (d - s) = k + d - s /\ d \in 0..d
          BY <1>1
    <2>2. (k + d) % d = r
      <3>1. (k + d) % d = IF r + d >= d THEN r + d - d ELSE r + d
            BY <1>1, <2>1, GoingRound
      <3> HIDE DEF r
      <3> QED BY <1>1, <1>5, <3>1
    <2> HIDE DEF r, f
    <2>3. gen.words[(k + 0 + s) % d] = x[k + 0] /\ gen.words[(k + (d - s) + s) % d] = x[k + (d - s)]
          BY <1>3, <2>1
    <2> QED BY <2>1, <2>2, <2>3 DEF f
  <1>7. new = (gen.words[f] + gen.words[r]) % Word /\ new \in Int
    <2> HIDE DEF f, r
    <2>1. k + d \in Nat
          BY <1>1
    <2> QED BY <1>2, <1>6, <2>1
  <1> HIDE DEF new
  <1>8. /\ next.words = [gen.words EXCEPT ![f] = new]
        /\ next.last = new
        /\ next.fptr = (IF f + 1 >= d THEN 0 ELSE f + 1)
        /\ next.rptr = (IF ~(f + 1 >= d) /\ r + 1 >= d THEN 0 ELSE r + 1)
    <2> HIDE DEF f, r
    <2> QED BY <1>3, <1>7 DEF Turned
  <1>9. /\ (k + 1) % d = next.rptr
        /\ (k + 1 + s) % d = next.fptr
    <2>1. 1 \in 0..d /\ k + s \in Nat /\ k + 1 + s = (k + s) + 1
          BY <1>1
    <2>2. (k + 1) % d = (IF r + 1 >= d THEN r + 1 - d ELSE r + 1)
          BY <1>1, <2>1, GoingRound
    <2>3. (k + s + 1) % d = (IF f + 1 >= d THEN f + 1 - d ELSE f + 1)
          BY <1>1, <2>1, GoingRound
    <2> HIDE DEF f, r, next
    <2> QED BY <1>1, <1>5, <1>8, <2>1, <2>2, <2>3
  <1>10. next.words \in [D -> Int]
    <2> HIDE DEF f, r, next
    <2> QED BY <1>7, <1>8
  <1>11. ASSUME NEW j \in 0..d - 1
         PROVE  next.words[(k + 1 + j + s) % d] = x[k + 1 + j]
    <2> DEFINE p == (k + 1 + j + s) % d
    <2>1. j + 1 \in 0..d /\ k + s \in Nat /\ (k + s) + (j + 1) = k + 1 + j + s
          BY <1>1
    <2>2. p = IF f + (j + 1) >= d THEN f + (j + 1) - d ELSE f + (j + 1)
          BY <1>1, <2>1, GoingRound
    <2>3. p \in 0..d - 1 /\ (p = f <=> j = d - 1)
      <3> HIDE DEF f, p
      <3> QED BY <1>1, <1>5, <2>2
    <2>4. CASE j = d - 1
      <3>1. k + 1 + j = k + d
            BY <1>1, <2>4
      <3> HIDE DEF f, r, next, p
      <3> QED BY <1>4, <1>5, <1>8, <2>3, <2>4, <3>1 DEF new, p
    <2>5. CASE j # d - 1
      <3>1. j + 1 \in 0..d - 1 /\ k + (j + 1) + s = k + 1 + j + s /\ k + (j + 1) = k + 1 + j
            BY <1>1, <2>5
      <3>2. gen.words[(k + (j + 1) + s) % d] = x[k + (j + 1)]
        <4> HIDE DEF f, r, next, p
        <4> QED BY <1>3, <3>1
      <3>3. gen.words[p] = x[k + 1 + j]
            BY <3>1, <3>2
      <3> HIDE DEF f, r, next, p
      <3>4. next.words[p] = gen.words[p]
            BY <1>8, <1>4, <2>3, <2>5
      <3> QED BY <3>3, <3>4 DEF p
    <2> QED BY <2>4, <2>5
  <1> HIDE DEF next
  <1>12. PlaceOf(next, x, k + 1, t)
         BY <1>9, <1>11 DEF PlaceOf, Holds, d, s
  <1> QED BY <1>8, <1>10, <1>12 DEF next, new, d

(***************************************************************************)
(* What srandom_r leaves: the sequence of the seed, Rounds rounds on.      *)
(***************************************************************************)
LEMMA FilledIs ==
    ASSUME GoodTables, NEW seed \in Words, NEW t \in Types, NEW x, IsStream(x, seed, t)
    PROVE  /\ Filled(seed, t).words \in [0..Degree(t) - 1 -> Words]
           /\ PlaceOf(Filled(seed, t), x, 0, t)
           /\ Filled(seed, t).last = 0
  <1> DEFINE d == Degree(t)
             s == Sep(t)
             l == Lehmers(seed)
             E(f, i) == IF i = 0 THEN First(seed) ELSE Lehmer(f[i - 1])
             Goes(f) == f = [i \in 0..d - 1 |-> E(f, i)]
             g == CHOOSE f : Goes(f)
             h == [i \in 0..d - 1 |-> l[i]]
  <1>1. Filled(seed, t) = [words |-> g, fptr |-> s, rptr |-> 0, last |-> 0]
        BY DEF Filled
  <1>2. l \in [Nat -> Words] /\ l[0] = First(seed) /\ \A n \in Nat : l[n + 1] = Lehmer(l[n])
        BY LehmersAre
  <1>3. d \in Nat \ {0} /\ s \in 1..d - 1
        BY DegreeIs
  <1>4. \A j \in 0..d - 1 : x[j] = l[(j + s) % d]
        BY FirstRoundIs DEF IsStream
  <1> HIDE DEF d, s, l
  <1>5. Goes(h)
    <2>1. ASSUME NEW i \in 0..d - 1 PROVE h[i] = E(h, i)
      <3>1. CASE i = 0
            BY <1>2, <1>3, <3>1
      <3>2. CASE i # 0
        <4>1. i - 1 \in Nat /\ (i - 1) + 1 = i /\ i - 1 \in 0..d - 1
              BY <1>3, <3>2
        <4>2. h[i - 1] = l[i - 1] /\ h[i] = l[i]
              BY <4>1
        <4>3. l[i] = Lehmer(l[i - 1])
              BY <1>2, <4>1
        <4> HIDE DEF h
        <4> QED BY <3>2, <4>2, <4>3
      <3> QED BY <3>1, <3>2
    <2>2. h = [i \in 0..d - 1 |-> h[i]]
          OBVIOUS
    <2> HIDE DEF h, E
    <2> QED BY <2>1, <2>2
  <1>6. Goes(g)
    <2> HIDE DEF Goes, h
    <2> QED BY <1>5
  <1> HIDE DEF g
  <1>7. \A i \in 0..d - 1 : g[i] = E(g, i)
    <2> HIDE DEF E
    <2> QED BY <1>6
  <1> DEFINE Same == {i \in Nat : i < d => g[i] = l[i]}
  <1>8. 0 \in Same
    <2>1. 0 \in 0..d - 1
          BY <1>3
    <2> QED BY <1>2, <1>7, <2>1
  <1>9. ASSUME NEW i \in Nat, i \in Same PROVE i + 1 \in Same
    <2> SUFFICES ASSUME i + 1 < d PROVE g[i + 1] = l[i + 1]
        OBVIOUS
    <2>1. i + 1 \in 0..d - 1 /\ i + 1 # 0 /\ (i + 1) - 1 = i /\ i < d
          BY <1>3
    <2>2. g[i] = l[i]
          BY <1>9, <2>1
    <2>3. g[i + 1] = E(g, i + 1)
      <3> HIDE DEF E
      <3> QED BY <1>7, <2>1
    <2> QED BY <1>2, <2>1, <2>2, <2>3
  <1>10. \A i \in 0..d - 1 : g[i] = l[i]
    <2> HIDE DEF Same
    <2>1. Nat \subseteq Same
          BY <1>8, <1>9, Induct
    <2>2. \A i \in 0..d - 1 : i \in Nat /\ i < d
          BY <1>3
    <2> QED BY <2>1, <2>2 DEF Same
  <1>11. g \in [0..d - 1 -> Words]
    <2>1. g = [i \in 0..d - 1 |-> g[i]]
      <3> HIDE DEF E
      <3> QED BY <1>6
    <2>2. \A i \in 0..d - 1 : g[i] \in Words
      <3>1. 0..d - 1 \subseteq Nat
            BY <1>3
      <3> QED BY <1>2, <1>10, <3>1
    <2> QED BY <2>1, <2>2
  <1> HIDE DEF Goes, E, Same
  <1>12. PlaceOf([words |-> g, fptr |-> s, rptr |-> 0, last |-> 0], x, 0, t)
    <2>1. (0 + s) % d = s /\ 0 % d = 0
      <3>1. s \in Nat /\ s < d
            BY <1>3
      <3> QED BY <1>3, <3>1
    <2>2. ASSUME NEW j \in 0..d - 1 PROVE g[(0 + j + s) % d] = x[0 + j]
      <3>1. j + s \in Int /\ 0 + j + s = j + s /\ 0 + j = j
            BY <1>3
      <3>2. (j + s) % d \in 0..d - 1
            BY <1>3, <3>1, ModBounds
      <3> QED BY <1>4, <1>10, <3>1, <3>2
    <2> QED BY <2>1, <2>2 DEF PlaceOf, Holds, d, s
  <1> QED BY <1>1, <1>11, <1>12 DEF d

(***************************************************************************)
(* Generators whose pointers are apart, which turning keeps.               *)
(***************************************************************************)
Gens(d) == {g \in [words : [0..d - 1 -> Int], fptr : 0..d - 1, rptr : 0..d - 1, last : Int] :
               g.fptr # g.rptr}

LEMMA TurnedIsGen ==
    ASSUME GoodTables, NEW d \in Nat \ {0}, NEW gen \in Gens(d)
    PROVE  Turned(gen, d) \in Gens(d)
  <1> DEFINE f == gen.fptr
             r == gen.rptr
             sum == (gen.words[f] + gen.words[r]) % Word
             ff == IF f + 1 >= d THEN 0 ELSE f + 1
             rr == IF ~(f + 1 >= d) /\ r + 1 >= d THEN 0 ELSE r + 1
  <1>1. f \in 0..d - 1 /\ r \in 0..d - 1 /\ f # r /\ gen.words \in [0..d - 1 -> Int]
        BY DEF Gens
  <1>2. Turned(gen, d) = [words |-> [gen.words EXCEPT ![f] = sum], fptr |-> ff, rptr |-> rr, last |-> sum]
        BY DEF Turned
  <1> HIDE DEF f, r
  <1>3. sum \in Int
    <2>1. gen.words[f] + gen.words[r] \in Int
          BY <1>1
    <2>2. Word \in Nat \ {0}
          BY ModulusIs
    <2>3. sum \in 0..Word - 1
          BY <2>1, <2>2, ModBounds
    <2> QED BY <2>2, <2>3
  <1>4. ff \in 0..d - 1 /\ rr \in 0..d - 1 /\ ff # rr
        BY <1>1
  <1> HIDE DEF sum, ff, rr
  <1>5. [gen.words EXCEPT ![f] = sum] \in [0..d - 1 -> Int]
        BY <1>1, <1>3
  <1> DEFINE w == [gen.words EXCEPT ![f] = sum]
  <1> HIDE DEF w
  <1>6. [words |-> w, fptr |-> ff, rptr |-> rr, last |-> sum] \in Gens(d)
        BY <1>3, <1>4, <1>5 DEF Gens, w
  <1> QED BY <1>2, <1>6 DEF w

LEMMA SeededAt ==
    ASSUME GoodTables, NEW seed \in Words, NEW t \in Types, NEW x, IsStream(x, seed, t)
    PROVE  /\ srandom_r(seed, t).words \in [0..Degree(t) - 1 -> Int]
           /\ PlaceOf(srandom_r(seed, t), x, Rounds * Degree(t), t)
  <1> DEFINE d == Degree(t)
             N == Rounds * d
             first == Filled(seed, t)
             E(f, k) == IF k = 0 THEN first ELSE Turned(f[k - 1], d)
             Goes(f) == f = [k \in 0..N |-> E(f, k)]
             g == CHOOSE f : Goes(f)
             F == [gen \in Gens(d) |-> Turned(gen, d)]
  <1>1. srandom_r(seed, t) = g[N]
    <2>1. t # 0
          BY DEF Types
    <2> QED BY <2>1 DEF srandom_r
  <1>2. d \in Nat \ {0} /\ Sep(t) \in 1..d - 1
        BY DegreeIs
  <1>3. first.words \in [0..d - 1 -> Int] /\ PlaceOf(first, x, 0, t)
    <2>1. first.words \in [0..d - 1 -> Words] /\ PlaceOf(first, x, 0, t)
          BY FilledIs
    <2>2. Words \subseteq Int
          BY ModulusIs DEF Words
    <2> HIDE DEF first, d
    <2> QED BY <2>1, <2>2
  <1>4. first \in Gens(d)
    <2>1. first = [words |-> first.words, fptr |-> Sep(t), rptr |-> 0, last |-> 0]
          BY DEF Filled
    <2> DEFINE w == first.words
    <2>2. w \in [0..d - 1 -> Int] /\ Sep(t) \in 0..d - 1 /\ 0 \in 0..d - 1 /\ Sep(t) # 0 /\ 0 \in Int
          BY <1>2, <1>3
    <2> HIDE DEF d, w
    <2>3. [words |-> w, fptr |-> Sep(t), rptr |-> 0, last |-> 0] \in Gens(d)
          BY <2>2 DEF Gens
    <2> HIDE DEF first
    <2> QED BY <2>1, <2>3 DEF w
  <1>5. N \in Nat
    <2>1. Rounds \in Nat
          BY DEF GoodTables
    <2>2. d * 0 <= d * Rounds /\ d * 0 = 0 /\ d * Rounds = Rounds * d /\ d * Rounds \in Int
          BY <1>2, <2>1, LargerProduct, Products
    <2> QED BY <2>2
  <1> HIDE DEF N, d, first
  <1>6. PICK f \in [Nat -> Gens(d)] : f[0] = first /\ \A n \in Nat : f[n + 1] = F[f[n]]
    <2> DEFINE S == Gens(d)
    <2>1. F \in [S -> S] /\ first \in S
          BY <1>2, <1>4, TurnedIsGen
    <2> HIDE DEF F, S
    <2>2. \E f : Iterates(f, S, first, F)
          BY <2>1, Iterated
    <2> QED BY <2>2 DEF S, Iterates
  <1>7. \A n \in Nat : f[n + 1] = Turned(f[n], d)
        BY <1>6
  <1> DEFINE h == [k \in 0..N |-> f[k]]
  <1>8. Goes(h)
    <2>1. ASSUME NEW k \in 0..N PROVE h[k] = E(h, k)
      <3>1. CASE k = 0
            BY <1>5, <1>6, <3>1
      <3>2. CASE k # 0
        <4>1. k - 1 \in Nat /\ (k - 1) + 1 = k /\ k - 1 \in 0..N
              BY <1>5, <3>2
        <4>2. h[k - 1] = f[k - 1] /\ h[k] = f[k]
              BY <4>1
        <4>3. f[k] = Turned(f[k - 1], d)
              BY <1>7, <4>1
        <4> HIDE DEF h
        <4> QED BY <3>2, <4>2, <4>3
      <3> QED BY <3>1, <3>2
    <2>2. h = [k \in 0..N |-> h[k]]
          OBVIOUS
    <2> HIDE DEF h, E
    <2> QED BY <2>1, <2>2
  <1>9. Goes(g)
    <2> HIDE DEF Goes, h
    <2> QED BY <1>8
  <1> HIDE DEF g, h, F
  <1>10. \A k \in 0..N : g[k] = E(g, k)
    <2> HIDE DEF E
    <2> QED BY <1>9
  <1> DEFINE Right == {k \in Nat : k <= N => g[k].words \in [0..d - 1 -> Int] /\ PlaceOf(g[k], x, k, t)}
  <1>11. 0 \in Right
    <2>1. 0 \in 0..N
          BY <1>5
    <2>2. g[0] = first
          BY <1>10, <2>1
    <2> HIDE DEF E, Goes
    <2> QED BY <1>3, <2>2
  <1>12. ASSUME NEW k \in Nat, k \in Right PROVE k + 1 \in Right
    <2> SUFFICES ASSUME k + 1 <= N
                 PROVE  g[k + 1].words \in [0..d - 1 -> Int] /\ PlaceOf(g[k + 1], x, k + 1, t)
        OBVIOUS
    <2>1. k + 1 \in 0..N /\ k + 1 # 0 /\ (k + 1) - 1 = k /\ k <= N
          BY <1>5
    <2>2. g[k].words \in [0..d - 1 -> Int] /\ PlaceOf(g[k], x, k, t)
          BY <1>12, <2>1
    <2>3. g[k + 1] = Turned(g[k], d)
      <3>1. g[k + 1] = E(g, k + 1)
        <4> HIDE DEF E
        <4> QED BY <1>10, <2>1
      <3> QED BY <2>1, <3>1
    <2> HIDE DEF E, Goes, Right
    <2> DEFINE gen == g[k]
    <2> HIDE DEF gen
    <2>4. gen.words \in [0..d - 1 -> Int] /\ PlaceOf(gen, x, k, t) /\ 0..Degree(t) - 1 \subseteq 0..d - 1
          BY <2>2 DEF gen, d
    <2>5. Turned(gen, d).words \in [0..d - 1 -> Int] /\ PlaceOf(Turned(gen, d), x, k + 1, t)
          BY <2>4, TurnedAt DEF d
    <2> QED BY <2>3, <2>5 DEF gen
  <1>13. N \in Right
    <2> HIDE DEF Right
    <2> QED BY <1>5, <1>11, <1>12, Induct
  <1>14. g[N].words \in [0..d - 1 -> Int] /\ PlaceOf(g[N], x, N, t)
        BY <1>5, <1>13
  <1> QED BY <1>1, <1>14 DEF N, d
----------------------------------------------------------------------------
(***************************************************************************)
(* The arrays.  HeldBy says that an array's words w are what the numbers   *)
(* drawn from it so far (d) leave in them; InBuf that the pointers are     *)
(* where they belong, and Info what the word at -1 must tell otherwise.    *)
(***************************************************************************)
Turns(d) == Rounds * Degree(d.type) + d.count

HeldBy(d, w) ==
    /\ d \in [seed : Words, type : 0..MAX_TYPES - 1, count : Nat]
    /\ \E s \in Nat : w \in [-1..s -> Int] /\ (d.type # 0 => Degree(d.type) <= s + 1)
    /\ d.type = 0 => w[0] = Simples(d.seed)[d.count]
    /\ d.type # 0 => \E x : IsStream(x, d.seed, d.type) /\ Holds(w, x, Turns(d), d.type)

InBuf(d, b) ==
    /\ b.type = d.type
    /\ d.type # 0 => /\ b.fptr = (Turns(d) + Sep(d.type)) % Degree(d.type)
                     /\ b.rptr = Turns(d) % Degree(d.type)

Info(d) ==
    IF d.type = 0 THEN 0 ELSE Saved(Turns(d) % Degree(d.type), d.type)

InUse(a) == mem[a] # NULL \/ a = buf.state

Shapes ==
    /\ buf \in [state : Arrays \cup {NULL}, type : Nat, fptr : Nat, rptr : Nat]
    /\ mem = [a \in Arrays |-> mem[a]]
    /\ drawn = [a \in Arrays |-> drawn[a]]

StreamInv ==
    /\ Shapes
    /\ \A a \in Arrays : InUse(a) =>
          /\ HeldBy(drawn[a], mem[a])
          /\ IF a = buf.state THEN InBuf(drawn[a], buf) ELSE mem[a][-1] = Info(drawn[a])
    /\ StreamsResume

LEMMA TurnsAre ==
    ASSUME GoodTables, NEW d, d \in [seed : Words, type : 0..MAX_TYPES - 1, count : Nat], d.type # 0
    PROVE  /\ d.type \in Types /\ Turns(d) \in Nat
           /\ Turns(d) % Degree(d.type) \in 0..Degree(d.type) - 1
           /\ (Turns(d) + Sep(d.type)) % Degree(d.type) \in 0..Degree(d.type) - 1
  <1> DEFINE t == d.type
             c == d.count
             e == Degree(t)
  <1>1. t \in Types /\ c \in Nat
        BY DEF Types, GoodTables, MAX_TYPES
  <1> HIDE DEF t
  <1>2. e \in Nat \ {0} /\ Sep(t) \in 1..e - 1
        BY <1>1, DegreeIs
  <1>3. Rounds \in Nat
        BY DEF GoodTables
  <1>4. Rounds * e \in Nat
    <2>1. e * 0 <= e * Rounds /\ e * 0 = 0 /\ e * Rounds = Rounds * e /\ e * Rounds \in Int
          BY <1>2, <1>3, LargerProduct, Products
    <2> QED BY <2>1
  <1>5. Turns(d) = Rounds * e + c
        BY DEF Turns, t
  <1> HIDE DEF c, e
  <1>6. Turns(d) \in Nat /\ Turns(d) \in Int /\ Turns(d) + Sep(t) \in Int
        BY <1>1, <1>2, <1>4, <1>5
  <1> DEFINE n == Turns(d)
  <1> HIDE DEF n
  <1>7. n % e \in 0..e - 1 /\ (n + Sep(t)) % e \in 0..e - 1
    <2>1. n \in Int /\ n + Sep(t) \in Int
          BY <1>6 DEF n
    <2> QED BY <1>2, <2>1, ModBounds
  <1> QED BY <1>1, <1>6, <1>7 DEF n, e, t

(***************************************************************************)
(* What is put into the word at -1 can be taken out.                       *)
(***************************************************************************)
LEMMA InfoIs ==
    ASSUME GoodTables, NEW d, d \in [seed : Words, type : 0..MAX_TYPES - 1, count : Nat]
    PROVE  /\ Info(d) \in Int
           /\ Info(d) % MAX_TYPES = d.type
           /\ d.type # 0 => Info(d) \div MAX_TYPES = Turns(d) % Degree(d.type)
  <1>1. MAX_TYPES \in Nat \ {0}
        BY DEF GoodTables, MAX_TYPES
  <1>2. CASE d.type = 0
    <2>1. 0 = 0 * MAX_TYPES + 0 /\ 0 \in 0..MAX_TYPES - 1
          BY <1>1
    <2>2. 0 % MAX_TYPES = 0
          BY <1>1
    <2> QED BY <1>2, <2>2 DEF Info
  <1>3. CASE d.type # 0
    <2> DEFINE r == Turns(d) % Degree(d.type)
               t == d.type
    <2>1. r \in Nat /\ t \in 0..MAX_TYPES - 1
      <3>1. Turns(d) % Degree(d.type) \in 0..Degree(d.type) - 1 /\ d.type \in Types
            BY <1>3, TurnsAre
      <3>2. Degree(d.type) \in Nat
            BY <3>1, DegreeIs
      <3>3. d.type \in 0..MAX_TYPES - 1
            OBVIOUS
      <3> HIDE DEF r, t
      <3> QED BY <3>1, <3>2, <3>3 DEF r, t
    <2>2. Info(d) = MAX_TYPES * r + t
          BY <1>3 DEF Info, Saved
    <2> HIDE DEF r, t
    <2>3. MAX_TYPES * r = r * MAX_TYPES /\ r * MAX_TYPES \in Int /\ r \in Int /\ t \in Int
          BY <1>1, <2>1, Products
    <2>4. (r * MAX_TYPES + t) % MAX_TYPES = t /\ (r * MAX_TYPES + t) \div MAX_TYPES = r
          BY <1>1, <2>1, <2>3, DivMod
    <2> QED BY <2>2, <2>3, <2>4 DEF r, t
  <1> QED BY <1>2, <1>3

LEMMA HeldStill ==
    ASSUME GoodTables, NEW d, NEW w, HeldBy(d, w), NEW v \in Int
    PROVE  HeldBy(d, [w EXCEPT ![-1] = v]) /\ [w EXCEPT ![-1] = v][-1] = v
  <1> DEFINE u == [w EXCEPT ![-1] = v]
  <1>1. PICK s \in Nat : w \in [-1..s -> Int] /\ (d.type # 0 => Degree(d.type) <= s + 1)
        BY DEF HeldBy
  <1>2. u \in [-1..s -> Int] /\ u[-1] = v /\ \A i \in 0..s : u[i] = w[i]
    <2>1. -1 \in -1..s /\ \A i \in 0..s : i \in -1..s /\ i # -1
          BY <1>1
    <2> QED BY <1>1, <2>1
  <1> HIDE DEF u
  <1>3. u[0] = w[0]
        BY <1>2
  <1>4. d \in [seed : Words, type : 0..MAX_TYPES - 1, count : Nat]
        BY DEF HeldBy
  <1>5. d.type # 0 => \E x : IsStream(x, d.seed, d.type) /\ Holds(u, x, Turns(d), d.type)
    <2> SUFFICES ASSUME d.type # 0
                 PROVE  \E x : IsStream(x, d.seed, d.type) /\ Holds(u, x, Turns(d), d.type)
        OBVIOUS
    <2>1. PICK x : IsStream(x, d.seed, d.type) /\ Holds(w, x, Turns(d), d.type)
          BY DEF HeldBy
    <2> DEFINE t == d.type
               e == Degree(t)
               k == Turns(d)
    <2>2. t \in Types /\ k \in Nat
          BY <1>4, TurnsAre
    <2>3. e \in Nat \ {0} /\ Sep(t) \in 1..e - 1 /\ e <= s + 1
      <3>1. Degree(t) \in Nat \ {0} /\ Sep(t) \in 1..Degree(t) - 1
            BY <2>2, DegreeIs
      <3> QED BY <1>1, <3>1
    <2>4. \A j \in 0..e - 1 : w[(k + j + Sep(t)) % e] = x[k + j]
          BY <2>1 DEF Holds
    <2> HIDE DEF t, e, k
    <2>5. ASSUME NEW j \in 0..e - 1 PROVE u[(k + j + Sep(t)) % e] = x[k + j]
      <3>1. k + j + Sep(t) \in Int
            BY <2>2, <2>3
      <3>2. (k + j + Sep(t)) % e \in 0..e - 1
            BY <2>3, <3>1, ModBounds
      <3>3. (k + j + Sep(t)) % e \in 0..s
            BY <1>1, <2>3, <3>2
      <3> QED BY <1>2, <2>4, <3>3
    <2> QED BY <2>1, <2>5 DEF Holds, t, e, k
  <1>6. HeldBy(d, u)
        BY <1>1, <1>2, <1>3, <1>4, <1>5 DEF HeldBy
  <1> QED BY <1>2, <1>6 DEF u

(***************************************************************************)
(* Before a switch the place in the current array is put away, so that     *)
(* every array in use tells its own.                                       *)
(***************************************************************************)
LEMMA PlacesKept ==
    ASSUME GoodTables, StreamInv
    PROVE  /\ KeepPlace = [a \in Arrays |-> KeepPlace[a]]
           /\ \A a \in Arrays : ~InUse(a) => KeepPlace[a] = NULL
           /\ \A a \in Arrays : InUse(a) =>
                 HeldBy(drawn[a], KeepPlace[a]) /\ KeepPlace[a][-1] = Info(drawn[a])
  <1>1. CASE buf.state = NULL
    <2>1. KeepPlace = mem /\ \A a \in Arrays : a # buf.state
          BY <1>1 DEF KeepPlace, GoodTables
    <2> QED BY <2>1 DEF StreamInv, Shapes, InUse
  <1>2. CASE buf.state # NULL
    <2> DEFINE b == buf.state
               v == IF buf.type = 0 THEN 0 ELSE Saved(buf.rptr, buf.type)
    <2>1. b \in Arrays /\ InUse(b)
          BY <1>2 DEF StreamInv, Shapes, InUse
    <2>2. HeldBy(drawn[b], mem[b]) /\ InBuf(drawn[b], buf)
          BY <2>1 DEF StreamInv
    <2>3. v = Info(drawn[b]) /\ v \in Int
      <3>1. v = Info(drawn[b])
            BY <2>2 DEF InBuf, Info
      <3>2. Info(drawn[b]) \in Int
            BY <2>2, InfoIs DEF HeldBy
      <3> QED BY <3>1, <3>2
    <2>4. KeepPlace = [mem EXCEPT ![b] = [mem[b] EXCEPT ![-1] = v]]
          BY <1>2 DEF KeepPlace
    <2>5. mem = [a \in Arrays |-> mem[a]]
          BY DEF StreamInv, Shapes
    <2> HIDE DEF v
    <2>6. HeldBy(drawn[b], [mem[b] EXCEPT ![-1] = v]) /\ [mem[b] EXCEPT ![-1] = v][-1] = v
          BY <2>2, <2>3, HeldStill
    <2> DEFINE u == [mem[b] EXCEPT ![-1] = v]
    <2> HIDE DEF u
    <2>7. KeepPlace = [a \in Arrays |-> IF a = b THEN u ELSE mem[a]]
          BY <2>1, <2>4, <2>5 DEF u
    <2>8. HeldBy(drawn[b], u) /\ u[-1] = Info(drawn[b])
          BY <2>3, <2>6 DEF u
    <2>9. \A a \in Arrays : KeepPlace[a] = IF a = b THEN u ELSE mem[a]
          BY <2>7
    <2>10. \A a \in Arrays : a # b /\ InUse(a) => HeldBy(drawn[a], mem[a]) /\ mem[a][-1] = Info(drawn[a])
           BY DEF StreamInv
    <2>11. \A a \in Arrays : ~InUse(a) => a # b /\ mem[a] = NULL
           BY DEF InUse
    <2>12. KeepPlace = [a \in Arrays |-> KeepPlace[a]]
           BY <2>7, <2>9
    <2> QED BY <2>8, <2>9, <2>10, <2>11, <2>12
  <1> QED BY <1>1, <1>2

(***************************************************************************)
(* After a switch to array b: it is held by its words, and all others tell *)
(* their places.                                                           *)
(***************************************************************************)
LEMMA Switched ==
    ASSUME GoodTables, StreamInv, NEW b \in Arrays,
           Shapes', buf'.state = b, result'.fn # "random_r",
           HeldBy(drawn'[b], mem'[b]), InBuf(drawn'[b], buf'),
           \A a \in Arrays \ {b} : mem'[a] = KeepPlace[a] /\ drawn'[a] = drawn[a]
    PROVE  StreamInv'
  <1>1. ASSUME NEW a \in Arrays, InUse(a)', a # b
        PROVE  HeldBy(drawn'[a], mem'[a]) /\ mem'[a][-1] = Info(drawn'[a])
    <2>1. KeepPlace[a] # NULL
          BY <1>1 DEF InUse
    <2> QED BY <1>1, <2>1, PlacesKept
  <1>2. ASSUME NEW a \in Arrays, InUse(a)'
        PROVE  /\ HeldBy(drawn'[a], mem'[a])
               /\ IF a = buf'.state THEN InBuf(drawn'[a], buf') ELSE mem'[a][-1] = Info(drawn'[a])
    <2>1. CASE a = b
          BY <2>1
    <2>2. CASE a # b
          BY <1>1, <1>2, <2>2
    <2> QED BY <2>1, <2>2
  <1>3. StreamsResume'
        BY DEF StreamsResume
  <1>4. \A a \in Arrays : InUse(a)' =>
           /\ HeldBy(drawn[a], mem[a])'
           /\ IF a = buf'.state THEN InBuf(drawn[a], buf)' ELSE (mem[a][-1] = Info(drawn[a]))'
    <2> SUFFICES ASSUME NEW a \in Arrays, InUse(a)'
                 PROVE  /\ HeldBy(drawn[a], mem[a])'
                        /\ IF a = buf'.state THEN InBuf(drawn[a], buf)' ELSE (mem[a][-1] = Info(drawn[a]))'
        OBVIOUS
    <2>1. /\ HeldBy(drawn[a], mem[a])' <=> HeldBy(drawn'[a], mem'[a])
          BY DEF HeldBy, Turns
    <2>2. InBuf(drawn[a], buf)' <=> InBuf(drawn'[a], buf')
          BY DEF InBuf, Turns
    <2>3. (mem[a][-1] = Info(drawn[a]))' <=> mem'[a][-1] = Info(drawn'[a])
          BY DEF Info, Turns
    <2> QED BY <1>2, <2>1, <2>2, <2>3
  <1> QED BY <1>3, <1>4 DEF StreamInv

LEMMA BreakIs ==
    ASSUME GoodTables
    PROVE  /\ MAX_TYPES \in Nat \ {0} /\ Break[1] >= 8
           /\ \A t \in 1..MAX_TYPES : Break[t] \in Nat
           /\ \A t \in 0..MAX_TYPES - 1 : Break[t + 1] \in Nat
           /\ \A t \in Types : Break[t + 1] >= 4 * (Degree(t) + 1)
           /\ Break[1] \in Nat
  <1>1. MAX_TYPES \in Nat \ {0} /\ Break \in Seq(Nat) /\ Len(Break) = MAX_TYPES
        BY DEF GoodTables, MAX_TYPES
  <1>2. \A t \in 1..MAX_TYPES : Break[t] \in Nat
        BY <1>1
  <1>3. \A t \in 0..MAX_TYPES - 1 : t + 1 \in 1..MAX_TYPES
        BY <1>1
  <1>4. 1 \in 1..MAX_TYPES
        BY <1>1
  <1>5. Break[1] >= 8 /\ \A t \in Types : Break[t + 1] >= 4 * (Degree(t) + 1)
        BY DEF GoodTables, Types
  <1> QED BY <1>1, <1>2, <1>3, <1>4, <1>5

LEMMA TypeForIs ==
    ASSUME GoodTables, NEW n \in Nat, n >= Break[1]
    PROVE  TypeFor(n) \in 0..MAX_TYPES - 1 /\ n >= Break[TypeFor(n) + 1]
  <1> DEFINE Fits(t) == n >= Break[t + 1] /\ (t + 1 < MAX_TYPES => n < Break[t + 2])
             Last == {t \in 0..MAX_TYPES - 1 : t + 1 < MAX_TYPES => n < Break[t + 2]}
  <1>1. MAX_TYPES \in Nat \ {0} /\ \A t \in 1..MAX_TYPES : Break[t] \in Nat
        BY BreakIs
  <1>2. MAX_TYPES - 1 \in Last /\ Last \in SUBSET Nat
        BY <1>1
  <1>3. PICK t \in Last : \A m \in Last : t <= m
    <2> HIDE DEF Last
    <2> QED BY <1>2, Least
  <1>4. t \in 0..MAX_TYPES - 1 /\ (t + 1 < MAX_TYPES => n < Break[t + 2])
        BY <1>3
  <1>5. n >= Break[t + 1]
    <2>1. CASE t = 0
          BY <2>1
    <2>2. CASE t # 0
      <3>1. t - 1 \in 0..MAX_TYPES - 1 /\ ~(t <= t - 1) /\ (t - 1) + 2 = t + 1 /\ t + 1 \in 1..MAX_TYPES
            BY <1>1, <1>4, <2>2
      <3>2. t - 1 \notin Last
        <4> HIDE DEF Last
        <4> QED BY <1>3, <3>1
      <3>3. ~(n < Break[t + 1])
            BY <3>1, <3>2
      <3> QED BY <1>1, <3>1, <3>3
    <2> QED BY <2>1, <2>2
  <1>6. \E u \in 0..MAX_TYPES - 1 : Fits(u)
        BY <1>4, <1>5
  <1> DEFINE u == CHOOSE v \in 0..MAX_TYPES - 1 : Fits(v)
  <1>7. u \in 0..MAX_TYPES - 1 /\ Fits(u)
    <2> HIDE DEF Fits
    <2> QED BY <1>6
  <1>8. TypeFor(n) = u
        BY DEF TypeFor
  <1> HIDE DEF u
  <1> QED BY <1>7, <1>8

(***************************************************************************)
(* A new array's words: those of the generator, and nothing behind them.   *)
(***************************************************************************)
NewWords(n, t, gen) ==
    [i \in -1..(n \div 4) - 2 |->
        IF i = -1 THEN (IF t = 0 THEN 0 ELSE Saved(gen.rptr, t))
        ELSE IF i \in DOMAIN gen.words THEN gen.words[i] ELSE 0]

LEMMA NewHeld ==
    ASSUME GoodTables, NEW seed \in Words, NEW n \in Nat, n >= Break[1],
           NEW t, t = TypeFor(n), NEW gen, gen = srandom_r(seed, t),
           NEW w, w = NewWords(n, t, gen)
    PROVE  LET d == [seed |-> seed, type |-> t, count |-> 0]
           IN  /\ HeldBy(d, w)
               /\ \A b : b.type = t /\ (t # 0 => b.fptr = gen.fptr /\ b.rptr = gen.rptr) => InBuf(d, b)
               /\ t \in Nat
               /\ t # 0 => gen.fptr \in Nat /\ gen.rptr \in Nat
  <1> DEFINE d == [seed |-> seed, type |-> t, count |-> 0]
             s == (n \div 4) - 2
             info == IF t = 0 THEN 0 ELSE Saved(gen.rptr, t)
  <1>1. /\ t \in 0..MAX_TYPES - 1 /\ n >= Break[t + 1] /\ Break[1] >= 8 /\ t \in Nat
        /\ t # 0 => t \in Types /\ Break[t + 1] >= 4 * (Degree(t) + 1)
    <2>1. t \in 0..MAX_TYPES - 1 /\ n >= Break[t + 1]
          BY TypeForIs
    <2>2. MAX_TYPES \in Nat
          BY BreakIs
    <2>3. t # 0 => t \in Types
          BY <2>1, <2>2 DEF Types
    <2> QED BY <2>1, <2>2, <2>3, BreakIs
  <1>2. d \in [seed : Words, type : 0..MAX_TYPES - 1, count : Nat]
        BY <1>1
  <1>3. d.seed = seed /\ d.type = t /\ d.count = 0
        OBVIOUS
  <1> HIDE DEF d
  <1>4. CASE t = 0
    <2>1. Break[1] \in Nat
          BY BreakIs
    <2>2. s \in Nat
          BY <1>1, <2>1
    <2>3. gen.words = [i \in {0} |-> First(seed)]
          BY <1>4 DEF srandom_r
    <2> HIDE DEF s
    <2>4. w = [i \in -1..s |-> IF i = -1 THEN 0 ELSE IF i = 0 THEN First(seed) ELSE 0]
          BY <1>4, <2>3 DEF s, NewWords
    <2>5. First(seed) \in Int /\ Simples(seed)[0] = First(seed)
      <3>1. First(seed) \in Words /\ Word \in Nat
            BY FirstIsWord, ModulusIs
      <3> QED BY <3>1, SimplesAre DEF Words
    <2>6. w \in [-1..s -> Int] /\ w[0] = First(seed)
          BY <2>2, <2>4, <2>5
    <2>7. HeldBy(d, w)
          BY <1>2, <1>3, <1>4, <2>2, <2>5, <2>6 DEF HeldBy
    <2> QED BY <1>1, <1>3, <1>4, <2>7 DEF InBuf, d
  <1>5. CASE t # 0
    <2> DEFINE e == Degree(t)
               k == Rounds * e
    <2>1. PICK x : IsStream(x, seed, t)
          BY <1>1, <1>5, StreamExists
    <2>2. gen.words \in [0..e - 1 -> Int] /\ PlaceOf(gen, x, k, t)
          BY <1>1, <1>5, <2>1, SeededAt
    <2>3. e \in Nat \ {0} /\ Sep(t) \in 1..e - 1
          BY <1>1, <1>5, DegreeIs
    <2>4. Turns(d) = k + 0
          BY <1>3 DEF Turns
    <2>5. d.type # 0
          BY <1>3, <1>5
    <2>6. Turns(d) \in Nat /\ Turns(d) % e \in 0..e - 1 /\ (Turns(d) + Sep(t)) % e \in 0..e - 1
      <3>1. /\ Turns(d) \in Nat /\ Turns(d) % Degree(d.type) \in 0..Degree(d.type) - 1
            /\ (Turns(d) + Sep(d.type)) % Degree(d.type) \in 0..Degree(d.type) - 1
            BY <1>2, <2>5, TurnsAre
      <3> QED BY <1>3, <3>1
    <2>7. k \in Int /\ Turns(d) = k
      <3>1. Rounds \in Nat
            BY DEF GoodTables
      <3>2. k \in Int
            BY <2>3, <3>1, Products
      <3> QED BY <2>4, <3>2
    <2>8. Break[t + 1] \in Nat /\ 4 * (e + 1) <= n
      <3>1. Break[t + 1] \in Nat
            BY <1>1, BreakIs
      <3>2. Break[t + 1] >= 4 * (e + 1) /\ n >= Break[t + 1]
            BY <1>1, <1>5
      <3> HIDE DEF e
      <3> QED BY <2>3, <3>1, <3>2
    <2> HIDE DEF k, e
    <2>9. s \in Nat /\ e <= s + 1
          BY <2>3, <2>8
    <2>10. gen.fptr = (k + Sep(t)) % e /\ gen.rptr = k % e
           /\ \A j \in 0..e - 1 : gen.words[(k + j + Sep(t)) % e] = x[k + j]
           BY <2>2 DEF PlaceOf, Holds, e
    <2>11. gen.fptr \in Nat /\ gen.rptr \in Nat
           BY <2>3, <2>6, <2>7, <2>10
    <2> HIDE DEF s
    <2>12. info \in Int
      <3>1. MAX_TYPES \in Nat
            BY DEF GoodTables, MAX_TYPES
      <3>2. MAX_TYPES * gen.rptr \in Int
            BY <2>11, <3>1, Products
      <3> QED BY <1>1, <3>2 DEF Saved
    <2> HIDE DEF info
    <2> DEFINE g == gen.words
    <2>13. w = [i \in -1..s |-> IF i = -1 THEN info ELSE IF i \in DOMAIN g THEN g[i] ELSE 0]
           BY DEF info, s, NewWords
    <2>14. g \in [0..e - 1 -> Int]
           BY <2>2
    <2> HIDE DEF g
    <2>15. w \in [-1..s -> Int] /\ \A i \in 0..e - 1 : w[i] = g[i]
           BY <2>3, <2>9, <2>12, <2>13, <2>14
    <2>16. ASSUME NEW j \in 0..e - 1 PROVE w[(k + j + Sep(t)) % e] = x[k + j]
      <3>1. k + j + Sep(t) \in Int
            BY <2>3, <2>7
      <3>2. (k + j + Sep(t)) % e \in 0..e - 1
            BY <2>3, <3>1, ModBounds
      <3> QED BY <2>10, <2>15, <3>2 DEF g
    <2>17. Holds(w, x, Turns(d), d.type)
           BY <1>3, <2>7, <2>16 DEF Holds, e
    <2>18. HeldBy(d, w)
      <3>1. IsStream(x, d.seed, d.type)
            BY <1>3, <2>1
      <3>2. Degree(d.type) <= s + 1
            BY <1>3, <2>9 DEF e
      <3> QED BY <1>2, <2>5, <2>9, <2>15, <2>17, <3>1, <3>2 DEF HeldBy
    <2>19. ASSUME NEW b, b.type = t, b.fptr = gen.fptr, b.rptr = gen.rptr PROVE InBuf(d, b)
           BY <1>3, <2>7, <2>10, <2>19 DEF InBuf, e
    <2> QED BY <1>1, <1>5, <2>11, <2>18, <2>19 DEF d
  <1> QED BY <1>4, <1>5

LEMMA InitKeeps ==
    ASSUME GoodTables, StreamInv, NEW seed \in Seeds, NEW a \in Arrays, NEW n \in SizesOf[a],
           initstate_r(seed, a, n)
    PROVE  StreamInv'
  <1>1. seed \in Words /\ n \in Nat
        BY DEF GoodTables, Words
  <1>2. Break[1] \in Nat
    <2>1. 0 \in 0..MAX_TYPES - 1 /\ 0 + 1 = 1
          BY BreakIs
    <2> QED BY <2>1, BreakIs
  <1>3. CASE n < Break[1]
    <2>1. /\ mem' = KeepPlace /\ buf' = buf /\ drawn' = drawn /\ result'.fn # "random_r"
          BY <1>3 DEF initstate_r, Return
    <2>2. CASE buf.state = NULL
      <3>1. KeepPlace = mem
            BY <2>2 DEF KeepPlace
      <3> QED BY <2>1, <3>1
              DEF StreamInv, Shapes, InUse, HeldBy, InBuf, Info, Turns, StreamsResume
    <2>3. CASE buf.state # NULL
      <3> DEFINE b == buf.state
      <3>1. b \in Arrays /\ InUse(b)
            BY <2>3 DEF StreamInv, Shapes, InUse
      <3>2. HeldBy(drawn[b], KeepPlace[b]) /\ KeepPlace = [c \in Arrays |-> KeepPlace[c]]
            BY <3>1, PlacesKept
      <3>3. InBuf(drawn[b], buf)
            BY <3>1 DEF StreamInv
      <3>4. Shapes'
            BY <2>1, <3>2 DEF StreamInv, Shapes
      <3>5. /\ HeldBy(drawn'[b], mem'[b]) /\ InBuf(drawn'[b], buf') /\ buf'.state = b
            /\ \A c \in Arrays \ {b} : mem'[c] = KeepPlace[c] /\ drawn'[c] = drawn[c]
            BY <2>1, <3>2, <3>3
      <3> HIDE DEF b
      <3> QED BY <2>1, <3>1, <3>4, <3>5, Switched
    <2> QED BY <2>2, <2>3
  <1>4. CASE ~(n < Break[1])
    <2> DEFINE t == TypeFor(n)
               gen == srandom_r(seed, t)
               w == NewWords(n, t, gen)
               d == [seed |-> seed, type |-> t, count |-> 0]
    <2>1. /\ mem' = [KeepPlace EXCEPT ![a] = w]
          /\ buf' = [state |-> a, type |-> t,
                     fptr |-> IF t = 0 THEN buf.fptr ELSE gen.fptr,
                     rptr |-> IF t = 0 THEN buf.rptr ELSE gen.rptr]
          /\ drawn' = [drawn EXCEPT ![a] = d]
          /\ result'.fn # "random_r"
          BY <1>4 DEF initstate_r, Return, NewWords
    <2>2. n >= Break[1]
          BY <1>1, <1>2, <1>4
    <2>3. /\ HeldBy(d, w) /\ t \in Nat
          /\ \A b : b.type = t /\ (t # 0 => b.fptr = gen.fptr /\ b.rptr = gen.rptr) => InBuf(d, b)
          /\ t # 0 => gen.fptr \in Nat /\ gen.rptr \in Nat
      <3> HIDE DEF t
      <3>1. t = TypeFor(n)
            BY DEF t
      <3> HIDE DEF gen
      <3>2. gen = srandom_r(seed, t)
            BY DEF gen
      <3> HIDE DEF w
      <3>3. w = NewWords(n, t, gen)
            BY DEF w
      <3> QED BY <1>1, <2>2, <3>1, <3>2, <3>3, NewHeld
    <2> HIDE DEF t, gen, w, d
    <2>4. /\ KeepPlace = [c \in Arrays |-> KeepPlace[c]]
          /\ Shapes
          BY PlacesKept DEF StreamInv
    <2>5. /\ mem'[a] = w /\ drawn'[a] = d
          /\ \A c \in Arrays \ {a} : mem'[c] = KeepPlace[c] /\ drawn'[c] = drawn[c]
          /\ mem' = [c \in Arrays |-> mem'[c]] /\ drawn' = [c \in Arrays |-> drawn'[c]]
      <3>1. mem' = [c \in Arrays |-> IF c = a THEN w ELSE KeepPlace[c]]
            BY <2>1, <2>4
      <3>2. drawn' = [c \in Arrays |-> IF c = a THEN d ELSE drawn[c]]
            BY <2>1, <2>4 DEF Shapes
      <3> QED BY <3>1, <3>2
    <2>6. buf' \in [state : Arrays \cup {NULL}, type : Nat, fptr : Nat, rptr : Nat]
          BY <2>1, <2>3, <2>4 DEF Shapes
    <2>7. /\ buf'.state = a /\ buf'.type = t
          /\ t # 0 => buf'.fptr = gen.fptr /\ buf'.rptr = gen.rptr
          BY <2>1
    <2>8. InBuf(d, buf')
          BY <2>3, <2>7
    <2>9. Shapes'
          BY <2>5, <2>6 DEF Shapes
    <2> QED BY <2>1, <2>3, <2>5, <2>7, <2>8, <2>9, Switched
  <1> QED BY <1>3, <1>4

LEMMA SetKeeps ==
    ASSUME GoodTables, StreamInv, NEW a \in Arrays, setstate_r(a)
    PROVE  StreamInv'
  <1> DEFINE d == drawn[a]
             info == KeepPlace[a][-1]
             t == info % MAX_TYPES
             rear == info \div MAX_TYPES
  <1>1. /\ mem' = KeepPlace /\ drawn' = drawn /\ result'.fn # "random_r"
        /\ buf' = [state |-> a, type |-> t,
                   fptr |-> IF t = 0 THEN buf.fptr ELSE (rear + Sep(t)) % Degree(t),
                   rptr |-> IF t = 0 THEN buf.rptr ELSE rear]
        BY DEF setstate_r, Return
  <1>2. InUse(a)
        BY DEF setstate_r, InUse
  <1>3. HeldBy(d, KeepPlace[a]) /\ info = Info(d) /\ KeepPlace = [c \in Arrays |-> KeepPlace[c]]
        BY <1>2, PlacesKept
  <1>4. d \in [seed : Words, type : 0..MAX_TYPES - 1, count : Nat] /\ d.type \in Nat
    <2>1. d \in [seed : Words, type : 0..MAX_TYPES - 1, count : Nat]
          BY <1>3 DEF HeldBy
    <2>2. MAX_TYPES \in Nat
          BY BreakIs
    <2> HIDE DEF d
    <2> QED BY <2>1, <2>2
  <1> HIDE DEF d
  <1>5. t = d.type /\ (t # 0 => rear = Turns(d) % Degree(d.type))
        BY <1>3, <1>4, InfoIs
  <1> HIDE DEF t, rear, info
  <1>6. t # 0 => /\ rear \in Nat /\ (rear + Sep(t)) % Degree(t) \in Nat
                 /\ (rear + Sep(t)) % Degree(t) = (Turns(d) + Sep(t)) % Degree(t)
    <2> SUFFICES ASSUME t # 0
                 PROVE  /\ rear \in Nat /\ (rear + Sep(t)) % Degree(t) \in Nat
                        /\ (rear + Sep(t)) % Degree(t) = (Turns(d) + Sep(t)) % Degree(t)
        OBVIOUS
    <2> DEFINE e == Degree(t)
               s == Sep(t)
               k == Turns(d)
    <2>1. /\ t \in Types /\ k \in Nat /\ k % e \in 0..e - 1 /\ (k + s) % e \in 0..e - 1
      <3>1. /\ d.type \in Types /\ Turns(d) \in Nat
            /\ Turns(d) % Degree(d.type) \in 0..Degree(d.type) - 1
            /\ (Turns(d) + Sep(d.type)) % Degree(d.type) \in 0..Degree(d.type) - 1
            BY <1>4, <1>5, TurnsAre
      <3> QED BY <1>5, <3>1
    <2>2. e \in Nat \ {0} /\ s \in 1..e - 1
          BY <2>1, DegreeIs
    <2>3. rear = k % e
          BY <1>5
    <2> HIDE DEF e, s, k
    <2>4. (s + (k % e)) % e = (s + k) % e
      <3>1. s \in Int /\ k \in Int
            BY <2>1, <2>2
      <3> QED BY <2>2, <3>1, ModSum
    <2>5. s + (k % e) = (k % e) + s /\ s + k = k + s
          BY <2>1, <2>2
    <2>6. (rear + s) % e = (k + s) % e
          BY <2>3, <2>4, <2>5
    <2>7. rear \in Nat /\ (rear + s) % e \in Nat
          BY <2>1, <2>2, <2>3, <2>6
    <2> QED BY <2>6, <2>7 DEF e, s, k
  <1>7. buf' \in [state : Arrays \cup {NULL}, type : Nat, fptr : Nat, rptr : Nat]
        BY <1>1, <1>4, <1>5, <1>6 DEF StreamInv, Shapes
  <1>8. InBuf(d, buf')
        BY <1>1, <1>5, <1>6 DEF InBuf
  <1>9. Shapes'
        BY <1>1, <1>3, <1>7 DEF Shapes, StreamInv
  <1>10. /\ HeldBy(drawn'[a], mem'[a]) /\ InBuf(drawn'[a], buf') /\ buf'.state = a
         /\ \A c \in Arrays \ {a} : mem'[c] = KeepPlace[c] /\ drawn'[c] = drawn[c]
         BY <1>1, <1>3, <1>8 DEF d
  <1> QED BY <1>1, <1>9, <1>10, Switched

(***************************************************************************)
(* One number more from an array.                                          *)
(***************************************************************************)
DrawnOn(e, w, b) ==
    LET val == (w[0] * Scale + Increment) % (Word \div 2)
        gen == Turned([words |-> w, fptr |-> b.fptr, rptr |-> b.rptr], Degree(b.type))
    IN  /\ b.type = 0 => /\ HeldBy(e, [w EXCEPT ![0] = val]) /\ InBuf(e, b)
                         /\ val = Number(e.seed, e.type, e.count)
        /\ b.type # 0 => /\ HeldBy(e, gen.words) /\ gen.fptr \in Nat /\ gen.rptr \in Nat
                         /\ \A c : c.type = b.type /\ c.fptr = gen.fptr /\ c.rptr = gen.rptr
                                      => InBuf(e, c)
                         /\ gen.last \div 2 = Number(e.seed, e.type, e.count)

LEMMA DrawnOnce ==
    ASSUME GoodTables, NEW d, NEW w, HeldBy(d, w), NEW b, InBuf(d, b),
           NEW e, e = [d EXCEPT !.count = @ + 1]
    PROVE  DrawnOn(e, w, b)
  <1> DEFINE val == (w[0] * Scale + Increment) % (Word \div 2)
             was == [words |-> w, fptr |-> b.fptr, rptr |-> b.rptr]
             gen == Turned(was, Degree(b.type))
  <1>1. d \in [seed : Words, type : 0..MAX_TYPES - 1, count : Nat]
        BY DEF HeldBy
  <1>2. PICK s \in Nat : w \in [-1..s -> Int] /\ (d.type # 0 => Degree(d.type) <= s + 1)
        BY DEF HeldBy
  <1>3. /\ e \in [seed : Words, type : 0..MAX_TYPES - 1, count : Nat]
        /\ e.seed = d.seed /\ e.type = d.type /\ e.count = d.count + 1
        BY <1>1
  <1>4. b.type = d.type
        BY DEF InBuf
  <1>5. ASSUME b.type = 0
        PROVE  HeldBy(e, [w EXCEPT ![0] = val]) /\ InBuf(e, b) /\ val = Number(e.seed, e.type, e.count)
    <2>1. w[0] = Simples(d.seed)[d.count]
          BY <1>4, <1>5 DEF HeldBy
    <2>2. d.seed \in Words /\ d.count \in Nat
          BY <1>1
    <2>3. val = Simples(d.seed)[d.count + 1] /\ val \in Nat
      <3>1. Simples(d.seed) \in [Nat -> Nat] /\ \A n \in Nat :
               Simples(d.seed)[n + 1] = (Simples(d.seed)[n] * Scale + Increment) % (Word \div 2)
            BY <2>2, SimplesAre
      <3>2. val = Simples(d.seed)[d.count + 1]
            BY <2>1, <2>2, <3>1
      <3> HIDE DEF val
      <3>3. d.count + 1 \in Nat
            BY <2>2
      <3> QED BY <3>1, <3>2, <3>3
    <2> HIDE DEF val
    <2>4. /\ [w EXCEPT ![0] = val] \in [-1..s -> Int] /\ [w EXCEPT ![0] = val][0] = val
      <3>1. 0 \in -1..s /\ val \in Int
            BY <2>3
      <3> QED BY <1>2, <3>1
    <2>5. val = Simples(e.seed)[e.count] /\ e.type = 0
          BY <1>3, <1>4, <1>5, <2>3
    <2>6. HeldBy(e, [w EXCEPT ![0] = val])
          BY <1>2, <1>3, <2>4, <2>5 DEF HeldBy
    <2>7. InBuf(e, b)
          BY <1>5, <1>4, <2>5 DEF InBuf
    <2> QED BY <2>5, <2>6, <2>7 DEF Number
  <1>6. ASSUME b.type # 0
        PROVE  /\ HeldBy(e, gen.words) /\ gen.fptr \in Nat /\ gen.rptr \in Nat
               /\ \A c : c.type = b.type /\ c.fptr = gen.fptr /\ c.rptr = gen.rptr => InBuf(e, c)
               /\ gen.last \div 2 = Number(e.seed, e.type, e.count)
    <2> DEFINE t == d.type
               g == Degree(t)
               k == Turns(d)
    <2>1. PICK x : IsStream(x, d.seed, t) /\ Holds(w, x, k, t)
          BY <1>4, <1>6 DEF HeldBy
    <2>2. t \in Types /\ k \in Nat /\ e.type # 0
          BY <1>1, <1>3, <1>4, <1>6, TurnsAre
    <2>3. g \in Nat \ {0} /\ Sep(t) \in 1..g - 1 /\ g <= s + 1
      <3>1. Degree(t) \in Nat \ {0} /\ Sep(t) \in 1..Degree(t) - 1
            BY <2>2, DegreeIs
      <3> QED BY <1>2, <1>4, <1>6, <3>1
    <2>4. b.fptr = (k + Sep(t)) % g /\ b.rptr = k % g
          BY <1>4, <1>6 DEF InBuf
    <2>5. Turns(e) = k + 1
      <3>1. Rounds * Degree(t) \in Int /\ d.count \in Nat
        <4>1. Rounds \in Int /\ Degree(t) \in Int
              BY <2>3 DEF GoodTables
        <4> QED BY <1>1, <4>1, Products
      <3> DEFINE m == Rounds * Degree(t)
      <3>2. Turns(e) = m + e.count /\ k = m + d.count
            BY <1>3 DEF Turns
      <3> HIDE DEF m, k, t
      <3>3. m \in Int
            BY <3>1 DEF m
      <3> QED BY <1>3, <3>1, <3>2, <3>3
    <2>6. /\ Turns(e) % Degree(e.type) \in 0..Degree(e.type) - 1
          /\ (Turns(e) + Sep(e.type)) % Degree(e.type) \in 0..Degree(e.type) - 1
          BY <1>3, <2>2, TurnsAre
    <2>7. PlaceOf(was, x, k, t)
          BY <2>1, <2>4 DEF PlaceOf
    <2>8. k = Rounds * Degree(t) + d.count
          BY DEF Turns
    <2> HIDE DEF k, was
    <2> DEFINE D == -1..s
    <2>9. 0..Degree(t) - 1 \subseteq D
          BY <2>3
    <2>10. was.words \in [D -> Int]
           BY <1>2 DEF was
    <2> HIDE DEF D
    <2>11. /\ Turned(was, Degree(t)).words \in [D -> Int]
           /\ Turned(was, Degree(t)).last = x[k + Degree(t)]
           /\ PlaceOf(Turned(was, Degree(t)), x, k + 1, t)
           BY <2>1, <2>2, <2>7, <2>9, <2>10, TurnedAt
    <2>12. gen.words \in [D -> Int] /\ gen.last = x[k + g] /\ PlaceOf(gen, x, k + 1, t)
           BY <1>4, <2>11
    <2> HIDE DEF gen
    <2>13. /\ gen.fptr = (Turns(e) + Sep(e.type)) % Degree(e.type)
           /\ gen.rptr = Turns(e) % Degree(e.type)
           /\ Holds(gen.words, x, Turns(e), e.type)
      <3>1. /\ gen.fptr = (k + 1 + Sep(t)) % Degree(t) /\ gen.rptr = (k + 1) % Degree(t)
            /\ Holds(gen.words, x, k + 1, t)
            BY <2>12 DEF PlaceOf
      <3> HIDE DEF t
      <3>2. e.type = t
            BY <1>3 DEF t
      <3> QED BY <2>5, <3>1, <3>2
    <2>14. HeldBy(e, gen.words)
      <3>1. IsStream(x, e.seed, e.type) /\ Degree(e.type) <= s + 1
            BY <1>3, <2>1, <2>3
      <3>2. gen.words \in [-1..s -> Int]
            BY <2>12 DEF D
      <3> QED BY <1>3, <2>2, <2>13, <3>1, <3>2 DEF HeldBy
    <2>15. gen.fptr \in Nat /\ gen.rptr \in Nat
      <3>1. Degree(e.type) \in Nat
            BY <1>3, <2>3
      <3> QED BY <2>6, <2>13, <3>1
    <2>16. \A c : c.type = b.type /\ c.fptr = gen.fptr /\ c.rptr = gen.rptr => InBuf(e, c)
           BY <1>3, <1>4, <2>13 DEF InBuf
    <2>17. gen.last \div 2 = Number(e.seed, e.type, e.count)
      <3>1. d.seed \in Words /\ d.count \in Nat
            BY <1>1
      <3>2. Number(d.seed, t, d.count + 1) = x[Rounds * Degree(t) + d.count + Degree(t)] \div 2
            BY <2>1, <2>2, <3>1, NumberIs
      <3>3. Number(d.seed, t, d.count + 1) = x[k + g] \div 2
            BY <2>8, <3>2
      <3> QED BY <1>3, <2>12, <3>3
    <2> QED BY <2>14, <2>15, <2>16, <2>17
  <1> QED BY <1>5, <1>6 DEF DrawnOn

LEMMA DrawKeeps ==
    ASSUME GoodTables, StreamInv, random_r
    PROVE  StreamInv'
  <1> DEFINE a == buf.state
             w == mem[a]
             d == drawn[a]
             e == [d EXCEPT !.count = @ + 1]
             val == (w[0] * Scale + Increment) % (Word \div 2)
             gen == Turned([words |-> w, fptr |-> buf.fptr, rptr |-> buf.rptr], Degree(buf.type))
  <1>1. a \in Arrays /\ InUse(a) /\ Shapes /\ HeldBy(d, w) /\ InBuf(d, buf)
    <2>1. a \in Arrays /\ InUse(a) /\ Shapes
          BY DEF random_r, StreamInv, Shapes, InUse
    <2> QED BY <2>1 DEF StreamInv
  <1>2. /\ buf.type = 0 => /\ HeldBy(e, [w EXCEPT ![0] = val]) /\ InBuf(e, buf)
                           /\ val = Number(e.seed, e.type, e.count)
        /\ buf.type # 0 => /\ HeldBy(e, gen.words) /\ gen.fptr \in Nat /\ gen.rptr \in Nat
                           /\ \A c : c.type = buf.type /\ c.fptr = gen.fptr /\ c.rptr = gen.rptr
                                        => InBuf(e, c)
                           /\ gen.last \div 2 = Number(e.seed, e.type, e.count)
    <2> DEFINE b == buf
    <2>1. e = [d EXCEPT !.count = @ + 1] /\ HeldBy(d, w) /\ InBuf(d, b)
          BY <1>1
    <2> HIDE DEF d, w, e, b
    <2>2. DrawnOn(e, w, b)
          BY <2>1, DrawnOnce
    <2> QED BY <2>2 DEF DrawnOn, b
  <1> DEFINE u == IF buf.type = 0 THEN [w EXCEPT ![0] = val] ELSE gen.words
             answer == IF buf.type = 0 THEN val ELSE gen.last \div 2
  <1>3. /\ mem' = [mem EXCEPT ![a] = u] /\ drawn' = [drawn EXCEPT ![a] = e]
        /\ result' = [fn |-> "random_r", answer |-> answer]
        /\ buf' = IF buf.type = 0 THEN buf
                  ELSE [buf EXCEPT !.fptr = gen.fptr, !.rptr = gen.rptr]
    <2>1. CASE buf.type = 0
          BY <2>1 DEF random_r, Return
    <2>2. CASE buf.type # 0
          BY <2>2 DEF random_r, Return
    <2> QED BY <2>1, <2>2
  <1> HIDE DEF val, gen
  <1>4. HeldBy(e, u) /\ InBuf(e, buf') /\ answer = Number(e.seed, e.type, e.count)
        /\ buf'.state = a /\ buf' \in [state : Arrays \cup {NULL}, type : Nat, fptr : Nat, rptr : Nat]
    <2>1. buf \in [state : Arrays \cup {NULL}, type : Nat, fptr : Nat, rptr : Nat]
          BY <1>1 DEF Shapes
    <2>2. CASE buf.type = 0
      <3>1. buf' = buf
            BY <1>3, <2>2
      <3> HIDE DEF e
      <3> QED BY <1>2, <2>1, <2>2, <3>1
    <2>3. CASE buf.type # 0
      <3>1. buf' = [buf EXCEPT !.fptr = gen.fptr, !.rptr = gen.rptr]
            BY <1>3, <2>3
      <3> HIDE DEF e
      <3>2. buf'.type = buf.type /\ buf'.fptr = gen.fptr /\ buf'.rptr = gen.rptr
            BY <2>1, <3>1
      <3>3. InBuf(e, buf')
            BY <1>2, <2>3, <3>2
      <3>4. buf'.state = a /\ buf' \in [state : Arrays \cup {NULL}, type : Nat, fptr : Nat, rptr : Nat]
            BY <1>2, <2>1, <2>3, <3>1
      <3> QED BY <1>2, <2>3, <3>3, <3>4
    <2> QED BY <2>2, <2>3
  <1> HIDE DEF e, u, answer
  <1>5. /\ mem' = [c \in Arrays |-> IF c = a THEN u ELSE mem[c]]
        /\ drawn' = [c \in Arrays |-> IF c = a THEN e ELSE drawn[c]]
        BY <1>1, <1>3 DEF Shapes
  <1>6. Shapes'
    <2>1. mem' = [c \in Arrays |-> mem'[c]] /\ drawn' = [c \in Arrays |-> drawn'[c]]
          BY <1>5
    <2> QED BY <1>4, <2>1 DEF Shapes
  <1>7. StreamsResume'
    <2>1. drawn'[buf'.state] = e /\ result'.answer = answer
          BY <1>1, <1>3, <1>4, <1>5
    <2>2. result'.answer = Number(drawn'[buf'.state].seed, drawn'[buf'.state].type, drawn'[buf'.state].count)
          BY <1>4, <2>1
    <2> QED BY <2>2 DEF StreamsResume
  <1>8. ASSUME NEW c \in Arrays, InUse(c)'
        PROVE  /\ HeldBy(drawn'[c], mem'[c])
               /\ IF c = buf'.state THEN InBuf(drawn'[c], buf') ELSE mem'[c][-1] = Info(drawn'[c])
    <2>1. CASE c = a
          BY <1>4, <1>5, <2>1
    <2>2. CASE c # a
      <3>1. mem'[c] = mem[c] /\ drawn'[c] = drawn[c]
            BY <1>5, <2>2
      <3>2. InUse(c)
            BY <1>4, <1>8, <2>2, <3>1 DEF InUse
      <3> QED BY <1>4, <2>2, <3>1, <3>2 DEF StreamInv
    <2> QED BY <2>1, <2>2
  <1>9. \A c \in Arrays : InUse(c)' =>
           /\ HeldBy(drawn[c], mem[c])'
           /\ IF c = buf'.state THEN InBuf(drawn[c], buf)' ELSE (mem[c][-1] = Info(drawn[c]))'
    <2> SUFFICES ASSUME NEW c \in Arrays, InUse(c)'
                 PROVE  /\ HeldBy(drawn[c], mem[c])'
                        /\ IF c = buf'.state THEN InBuf(drawn[c], buf)' ELSE (mem[c][-1] = Info(drawn[c]))'
        OBVIOUS
    <2>1. HeldBy(drawn[c], mem[c])' <=> HeldBy(drawn'[c], mem'[c])
          BY DEF HeldBy, Turns
    <2>2. InBuf(drawn[c], buf)' <=> InBuf(drawn'[c], buf')
          BY DEF InBuf, Turns
    <2>3. (mem[c][-1] = Info(drawn[c]))' <=> mem'[c][-1] = Info(drawn'[c])
          BY DEF Info, Turns
    <2> QED BY <1>8, <2>1, <2>2, <2>3
  <1> QED BY <1>6, <1>7, <1>9 DEF StreamInv
----------------------------------------------------------------------------
LEMMA StreamInit ==
    ASSUME GoodTables, DrawInit
    PROVE  StreamInv
  <1>1. buf.state = NULL /\ NULL \notin Arrays /\ result.fn # "random_r"
        BY DEF DrawInit, GoodTables
  <1>2. \A a \in Arrays : mem[a] = NULL
        BY DEF DrawInit
  <1>3. Shapes
        BY DEF DrawInit, Shapes
  <1>4. \A a \in Arrays : ~InUse(a)
        BY <1>1, <1>2 DEF InUse
  <1> QED BY <1>1, <1>3, <1>4 DEF StreamInv, StreamsResume

LEMMA StreamInductive ==
    ASSUME GoodTables, StreamInv, [DrawNext]_drawVars
    PROVE  StreamInv'
  <1>1. CASE UNCHANGED drawVars
        BY <1>1 DEF drawVars, StreamInv, Shapes, InUse, HeldBy, InBuf, Info, Turns, StreamsResume
  <1>2. ASSUME NEW seed \in Seeds, NEW a \in Arrays, NEW n \in SizesOf[a], initstate_r(seed, a, n)
        PROVE  StreamInv'
        BY <1>2, InitKeeps
  <1>3. ASSUME NEW a \in Arrays, setstate_r(a)
        PROVE  StreamInv'
        BY <1>3, SetKeeps
  <1>4. CASE random_r
        BY <1>4, DrawKeeps
  <1> QED BY <1>1, <1>2, <1>3, <1>4 DEF DrawNext

(***************************************************************************)
(* Each number drawn from an array is the next one of its seed's sequence, *)
(* in whatever order the program initialises arrays, switches between them *)
(* and draws from them (random_r.c:165-218, :231-283, :293-335, :348-393).  *)
(***************************************************************************)
THEOREM StreamsGoOn == DrawSpec => []StreamsResume
  <1>1. DrawInit => StreamInv
        BY TablesAssumption, StreamInit
  <1>2. StreamInv /\ [DrawNext]_drawVars => StreamInv'
        BY TablesAssumption, StreamInductive
  <1>3. StreamInv => StreamsResume
        BY DEF StreamInv
  <1> QED BY <1>1, <1>2, <1>3, PTL DEF DrawSpec
=============================================================================
