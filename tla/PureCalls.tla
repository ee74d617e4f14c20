------------------------------ MODULE PureCalls ------------------------------
(***************************************************************************)
(* A program that calls one of the library's functions that keep no state  *)
(* - on strings and names, for escaping, shuffling, checking, hashing,     *)
(* converting, testing addresses and walking trees -: what it asks for,    *)
(* and what it is answered.                                                *)
(***************************************************************************)
EXTENDS Strings, Escape, Shuffle, Convert, Prefix, Misc, TreeWalk

CONSTANTS Chars,       \* the characters of strings
          Splits,      \* calls of split: a string, a delimiter and flags
          Befores,     \* what is in memory in front of a string to chomp
          Lines,       \* strings to chomp
          Spellings,   \* strings to compare
          Cells,       \* what memory holds that malloc gives
          FileNames,   \* names of files, by the kinds of their characters
          Substrings,  \* calls of substr: memory to copy from and to, start and length
          Bytestrings, \* strings to write as JSON
          Elements,    \* of arrays
          Bases,       \* arrays to shuffle
          RandMax,     \* the largest number that random_r draws
          Timespecs,   \* points in time
          Totals,      \* seconds to split, amounts of bytes
          Angles,      \* to split into degrees, minutes and seconds, in grains
          Sockaddrs,   \* socket addresses
          Numbers,     \* numbers to check
          Keys,        \* of hash tables: the kind of a key, and a key
          Salts,       \* sequences of numbers that random_r draws
          Rooms        \* sizes of buffers for the text of an address

VARIABLES asked, step, reply

askVars == <<asked, step, reply>>

Flags    == {"none", "strict", "unknown"}
Kinds    == Portable \cup {"/", "other"}
Families == {"AF_INET", "AF_INET6", "AF_UNIX"}

(***************************************************************************)
(* What callers may hand over: strings with a NUL at their end and none    *)
(* before it; a part of a source that begins in its string and whose copy  *)
(* leaves room for a NUL; nanoseconds below a second; of the angles that   *)
(* are a whole number of seconds those that a double can be, which are     *)
(* multiples of a sixteenth of a degree.                                   *)
(***************************************************************************)
HasString(memory) == \E i \in 1..Len(memory) : memory[i] = NUL

CharsAssumption ==
    /\ NUL \notin Chars /\ NoAnswer \notin Seq(Seq(Chars))
    /\ Splits \subseteq [string : Seq(Chars), delim : Chars, flags : Flags]
    /\ Befores \subseteq Seq(Chars \cup {NUL})
    /\ Lines \subseteq Seq(Chars) /\ Spellings \subseteq Seq(Chars)
    /\ FileNames \subseteq Seq(Kinds) /\ Bytestrings \subseteq Seq(1..255)
    /\ Substrings \subseteq [src : Seq(Chars \cup {NUL}), dest : Seq(Chars \cup {NUL}),
                              start : Nat, len : Nat]
    /\ \A part \in Substrings :
          /\ HasString(part.src) /\ part.start <= Len(StringAt(part.src))
          /\ part.start + part.len <= Len(part.src) /\ part.len < Len(part.dest)

ArraysAssumption == RandMax \in Nat /\ Bases \subseteq Seq(Elements)

UnitsAssumption ==
    /\ NsPerSec \in Nat \ {0} /\ KiloSi \in Nat /\ Kilo \in Nat
    /\ Timespecs \subseteq [sec : Int, nsec : 0..NsPerSec - 1]
    /\ IntHalf \in Nat \ {0} /\ Grains \in Nat \ {0}
    /\ Totals \subseteq Int /\ Angles \subseteq Int
    /\ \A angle \in Angles : angle % Grains = 0 => angle % (225 * Grains) = 0

AddressAssumption ==
    /\ AddressBits \in Nat \ {0} /\ ByteBits \in Nat \ {0} /\ Bytes \in Nat \ {0}
    /\ Sockaddrs \subseteq [family : Families, port : (0..255) \X (0..255)]
    /\ Rooms \subseteq Nat

(***************************************************************************)
(* GOLDEN_MUL is odd, no shift is by 0, and a word is at least a char.     *)
(***************************************************************************)
HashAssumption ==
    /\ HashBits \in Nat /\ TwoTo[HashBits] >= 256
    /\ Golden \in Nat /\ Golden % 2 = 1 /\ Shifts \in [1..5 -> Nat \ {0}]
    /\ Keys \subseteq ({"str"} \X Seq(-128..127)) \cup ({"u32"} \X (0..TwoTo[HashBits] - 1))
                       \cup ({"ptr"} \X Nat)

MiscAssumption ==
    /\ Numbers \subseteq Nat /\ UuidLen \in Nat /\ Salts \subseteq [1..SaltLen -> Nat]

ASSUME CallsAssumption ==
    /\ CharsAssumption /\ ArraysAssumption /\ UnitsAssumption /\ AddressAssumption
    /\ HashAssumption /\ MiscAssumption /\ TreesAssumption
----------------------------------------------------------------------------
Addrs4 == BitStrings(AddressBits)
Addrs6 == [1..Bytes -> BitStrings(ByteBits)]
Located == [family : Families, addr : {"shortest", "longest"}]

Is(fn) == asked.fn = fn

AsksSplit == \E split \in Splits :
    asked = [fn |-> "split", string |-> split.string, delim |-> split.delim, flags |-> split.flags]
AsksChomp == \E before \in Befores, line \in Lines :
    asked = [fn |-> "chomp", before |-> Len(before), memory |-> (before \o line) \o <<NUL>>]
AsksLevenshtein == \E s, t \in Spellings : asked = [fn |-> "levenshtein", s |-> s, t |-> t]
AsksName == \E name \in FileNames : asked = [fn |-> "name", name |-> name]
AsksSubstr == \E part \in Substrings :
    asked = [fn |-> "substr", src |-> part.src, dest |-> part.dest,
             start |-> part.start, len |-> part.len]
AsksEscape == \E str \in Bytestrings, signed \in BOOLEAN :
    asked = [fn |-> "escape", str |-> str, signed |-> signed]
AsksShuffle == \E base \in Bases, algo \in {"fisher_yates", "unknown"} :
    \E draws \in [1..Len(base) -> 0..RandMax] :
       asked = [fn |-> "shuffle", base |-> base, draws |-> draws, algo |-> algo]
AsksDiff == \E end, start \in Timespecs : asked = [fn |-> "diff", end |-> end, start |-> start]
AsksHms == \E total \in Totals : asked = [fn |-> "hms", total |-> total]
AsksDms == \E angle \in Angles : asked = [fn |-> "dms", angle |-> angle]
AsksAmount == \E total \in Totals \cap Nat, si \in BOOLEAN :
    asked = [fn |-> "ppb", total |-> total, si |-> si]
AsksPort == \E sa, other \in Sockaddrs : asked = [fn |-> "port", sa |-> sa, other |-> other]
AsksNtop == \E sa \in Located, size \in Rooms : asked = [fn |-> "ntop", sa |-> sa, size |-> size]
AsksPton == \E colon \in BOOLEAN :
    asked = [fn |-> "pton", text |-> [NoText EXCEPT !.colon = colon]]
AsksIpv4 == \E network, addr \in Addrs4, cidr \in 0..AddressBits :
    asked = [fn |-> "ipv4", network |-> network, len |-> cidr, addr |-> addr]
AsksIpv6 == \E network, addr \in Addrs6, prefixlen \in 0..Bytes * ByteBits :
    asked = [fn |-> "ipv6", network |-> network, len |-> prefixlen, addr |-> addr]
AsksLuhn == \E num \in Numbers : asked = [fn |-> "luhn", num |-> num]
AsksHash == \E a, b \in Keys :
    a[1] = b[1] /\ asked = [fn |-> "hash", type |-> a[1], a |-> a[2], b |-> b[2]]
AsksPasscrypt == \E hash_type \in DOMAIN MarkOf \cup {"sha1"}, draws \in Salts :
    asked = [fn |-> "passcrypt", hash_type |-> hash_type, draws |-> draws]
AsksUuid == \E opened \in BOOLEAN, count \in 0..UuidLen + 1 :
    asked = [fn |-> "uuid", opened |-> opened, count |-> count]
AsksWalk == \E tree \in Trees, fn \in {"twalk_r", "tdestroy"} :
    asked = [fn |-> fn, tree |-> tree]

Asks ==
    \/ AsksSplit \/ AsksChomp \/ AsksLevenshtein \/ AsksName \/ AsksSubstr \/ AsksEscape
    \/ AsksShuffle \/ AsksDiff \/ AsksHms \/ AsksDms \/ AsksAmount
    \/ AsksPort \/ AsksNtop \/ AsksPton \/ AsksIpv4 \/ AsksIpv6
    \/ AsksLuhn \/ AsksHash \/ AsksPasscrypt \/ AsksUuid \/ AsksWalk

AskInit == Asks /\ step = "idle" /\ reply = NoAnswer

Answers(value) == step = "idle" /\ step' = "done" /\ reply' = value /\ UNCHANGED asked

Split       == Is("split") /\ Answers(ac_str_split(asked.string, asked.delim, asked.flags))
Chomp       == Is("chomp") /\ Answers(ac_str_chomp(asked.memory))
Levenshtein == Is("levenshtein") /\ \E cell \in Cells :
                  Answers(ac_str_levenshtein(asked.s, asked.t, cell))
Name        == Is("name") /\ Answers(ac_fs_is_posix_name(asked.name))
Substr      == Is("substr") /\ Answers(ac_str_substr(asked.src, asked.dest, asked.start, asked.len))
Escaping    == Is("escape") /\ Answers(make_escaped_string(asked.str, asked.signed))
Shuffling   == Is("shuffle") /\ Answers(ac_misc_shuffle(asked.base, asked.draws, asked.algo))
Diff        == Is("diff") /\ Answers(tspec_diff(asked.end, asked.start))
Hms         == Is("hms") /\ Answers(secs_to_hms(asked.total))
Dms         == Is("dms") /\ \E by60, by3600 \in Nearby(asked.angle) :
                  Answers(dd_to_dms(asked.angle, by60, by3600))
Amount      == Is("ppb") /\ Answers(ppb(asked.total, asked.si))
Port        == Is("port") /\ Answers(ac_net_port_from_sa(asked.sa))
Ntop        == Is("ntop") /\ Answers(ac_net_inet_ntop(asked.sa, asked.size))
Pton        == Is("pton") /\ Answers(ac_net_inet_pton(asked.text))
Ipv4        == Is("ipv4") /\ Answers(ipv4_isin(asked.network, asked.len, asked.addr))
Ipv6        == Is("ipv6") /\ Answers(ipv6_isin(asked.network, asked.len, asked.addr))
Luhn        == Is("luhn") /\ Answers(luhn_check(asked.num))
Hashing     == Is("hash") /\ Answers(table_uses(asked.type, asked.a, asked.b))
Passcrypt   == Is("passcrypt") /\ Answers(passcrypt(asked.hash_type, asked.draws))
Uuid        == Is("uuid") /\ Answers(gen_uuid(asked.opened, asked.count))
Walking     == Is("twalk_r") /\ Answers(twalk_r(asked.tree))
Destroying  == Is("tdestroy") /\ Answers(tdestroy[asked.tree])

Freev ==
    /\ Is("split") /\ step = "done"
    /\ step' = "freed" /\ reply' = ac_str_freev(reply) /\ UNCHANGED asked

Reparse ==
    /\ Is("ntop") /\ step = "done" /\ reply # NoText
    /\ step' = "parsed" /\ reply' = ac_net_inet_pton(reply) /\ UNCHANGED asked

AllAnswers == step \in {"done", "freed", "parsed"} /\ UNCHANGED askVars

AskNext ==
    \/ Split \/ Chomp \/ Levenshtein \/ Name \/ Substr \/ Freev \/ Escaping \/ Shuffling
    \/ Diff \/ Hms \/ Dms \/ Amount \/ Port \/ Ntop \/ Pton \/ Reparse \/ Ipv4 \/ Ipv6
    \/ Luhn \/ Hashing \/ Passcrypt \/ Uuid \/ Walking \/ Destroying
    \/ AllAnswers

AskSpec == AskInit /\ [][AskNext]_askVars
----------------------------------------------------------------------------
Answered(fn) == step = "done" /\ Is(fn)

(***************************************************************************)
(* Strings are split, trimmed, cut and given back as the callers of        *)
(* ac_str.c are told, the names that pass can be put together, and the     *)
(* edit distance is that of the cheapest alignment (ac_str.c:24-206,       *)
(* ac_fs.c:34-60).                                                         *)
(***************************************************************************)
DistancesRight == Answered("levenshtein") => DistanceIsLeast(asked.s, asked.t, reply)

StringsRight ==
    /\ Answered("split") => SplitJoins(asked.string, asked.delim, asked.flags, reply)
    /\ step = "freed" => FreevReleasesAll(asked.string, asked.delim, asked.flags, reply)
    /\ Answered("chomp") => ChompTrims(asked.before, asked.memory, reply)
    /\ Answered("name") => NameIsOrdinary(asked.name, reply)
    /\ Answered("substr") =>
          SubstrIsPart(asked.src, asked.dest, asked.start, asked.len, reply)
    /\ DistancesRight

(***************************************************************************)
(* make_escaped_string: what it writes is read as what it was given        *)
(* (ac_jsonw.c:122-160).                                                   *)
(***************************************************************************)
EscapesDecode == Answered("escape") => EscapeDecodes(asked.str, asked.signed, reply)
AnyBytes      == Answered("escape") => EscapeKeepsAll(asked.str, reply)

(***************************************************************************)
(* The parts of times, angles, amounts and addresses are parts of what was *)
(* given, as far as the numbers that they are kept in allow                *)
(* (ac_time.c:27-56, ac_geo.c:47-69, ac_misc.c:37-105, ac_net.c:38-96).    *)
(***************************************************************************)
ConversionsRight ==
    /\ Answered("diff") => DiffAdds(asked.end, asked.start, reply)
    /\ Answered("hms") => HmsAddsUp(asked.total, reply)
    /\ Answered("dms") => AngleReturns(asked.angle, reply)
    /\ Answered("port") => PortsDiffer(asked.sa, asked.other, reply)
    /\ Answered("ntop") => AddressIsWritten(asked.sa, asked.size, reply)
    /\ Answered("pton") => reply.ret = 0
    /\ step = "parsed" => AddressReturns(asked.sa, reply)
    /\ Answered("ppb") => AmountFits(asked.total, asked.si, reply)

(***************************************************************************)
(* An address is in a network if it has the network's prefix, whatever the *)
(* length of the prefix (ac_net.c:170-292).                                *)
(***************************************************************************)
PrefixIsNetwork ==
    /\ Answered("ipv4") => Isin4IsPrefix(asked.network, asked.len, asked.addr, reply)
    /\ Answered("ipv6") => Isin6IsPrefix(asked.network, asked.len, asked.addr, reply)

(***************************************************************************)
(* The shuffle gives every order for one choice of residues of draws, the  *)
(* Luhn check finds what it is for, keys that compare equal hash alike and *)
(* those that differ in one place do not, a salt is whole, and so is a     *)
(* UUID (ac_misc.c:115-389, gen_uuid.c:14-32).                             *)
(***************************************************************************)
ShufflesFairly == Answered("shuffle") => ShuffleIsFair(asked.base, asked.draws, reply)

MiscRight ==
    /\ ShufflesFairly
    /\ Answered("luhn") => LuhnDetects(asked.num, reply)
    /\ Answered("hash") => HashesAgree(asked.type, asked.a, asked.b, reply)
    /\ Answered("passcrypt") => SaltIsWhole(asked.hash_type, asked.draws, reply)
    /\ Answered("uuid") => UuidIsWhole(reply)

(***************************************************************************)
(* A walk shows every node in order, and destroying a tree frees each node *)
(* after all below it (twalk_r.c:203-232, tdestroy.c:30-47).               *)
(***************************************************************************)
WalksRight ==
    /\ Answered("twalk_r") => WalkIsInOrder(asked.tree, reply)
    /\ Answered("tdestroy") => DestroysAll(asked.tree, reply)
=============================================================================
