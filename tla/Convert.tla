------------------------------- MODULE Convert -------------------------------
(***************************************************************************)
(* The library's conversions: of times (src/ac_time.c), of amounts of      *)
(* bytes (src/ac_misc.c), of angles (src/ac_geo.c), of ports and addresses *)
(* (src/ac_net.c).                                                         *)
(***************************************************************************)
EXTENDS Integers

CONSTANTS NsPerSec,     \* AC_TIME_NS_SEC
          KiloSi, Kilo, \* 1000 and 1024
          IntHalf,      \* 2^31: an int is from -IntHalf to IntHalf - 1
          Grains        \* in how many steps of a double a second of arc comes

(***************************************************************************)
(* C's / and % round towards zero.                                         *)
(***************************************************************************)
Abs(a)     == IF a < 0 THEN -a ELSE a
Quot(a, b) == IF a < 0 THEN -(Abs(a) \div b) ELSE a \div b
Rem(a, b)  == a - b * Quot(a, b)
----------------------------------------------------------------------------
tspec_diff(end, start) ==
    IF end.nsec < start.nsec
    THEN [sec |-> end.sec - start.sec - 1, nsec |-> NsPerSec - (start.nsec - end.nsec)]
    ELSE [sec |-> end.sec - start.sec, nsec |-> end.nsec - start.nsec]

(***************************************************************************)
(* Added to the start, the difference is the end, and it is a timespec,    *)
(* also if the end is before the start (ac_time.c:27-41).                  *)
(***************************************************************************)
DiffAdds(end, start, delta) ==
    LET total(t) == t.sec * NsPerSec + t.nsec
    IN  total(start) + total(delta) = total(end) /\ delta.nsec \in 0..NsPerSec - 1
----------------------------------------------------------------------------
(***************************************************************************)
(* A long that is assigned to an int: gcc and clang drop its upper bits.   *)
(***************************************************************************)
Narrow(long) == ((long + IntHalf) % (2 * IntHalf)) - IntHalf

HoursUndivided(total) == Narrow(Quot(total, 60))     \* faulty: divided by 60 once

Hours(total) == Narrow(Quot(Quot(total, 60), 60))

secs_to_hms(total) ==
    [h |-> Hours(total), m |-> Rem(Quot(total, 60), 60), s |-> Rem(total, 60)]

(***************************************************************************)
(* The smaller two parts are below 60 and have the sign of the total, or   *)
(* are 0.  So has the third, and the three add up to the total, as long as *)
(* its hours fit into an int (ac_time.c:50-56).                            *)
(***************************************************************************)
HmsAddsUp(total, t) ==
    /\ \A part \in {t.m, t.s} : part * total >= 0 /\ Abs(part) < 60
    /\ Abs(total) < 3600 * IntHalf =>
          t.h * total >= 0 /\ t.h * 3600 + t.m * 60 + t.s = total
----------------------------------------------------------------------------
Unit(si, factor) ==
    LET unit[f \in 0..7] == IF f = 0 THEN 1 ELSE (IF si THEN KiloSi ELSE Kilo) * unit[f - 1]
    IN  unit[factor]

Prefixes(si) == IF si THEN <<"bytes", "KB", "MB", "GB", "TB", "PB", "EB">>
                ELSE <<"bytes", "KiB", "MiB", "GiB", "TiB", "PiB", "EiB">>

(***************************************************************************)
(* The value, a quotient, is kept as its two parts.                        *)
(***************************************************************************)
ppb(bytes, si) ==
    LET factor == CHOOSE f \in 0..6 : /\ f < 6 => bytes < Unit(si, f + 1)
                                      /\ \A g \in 1..f : bytes >= Unit(si, g)
    IN  [factor |-> factor, value |-> <<bytes, Unit(si, factor)>>,
         prefix |-> Prefixes(si)[factor + 1]]

(***************************************************************************)
(* The value is at least 1, and less than one of the next unit, except at  *)
(* either end of the table; the prefix tells the two kinds of units apart  *)
(* (ac_misc.c:76-105, :37-68).                                             *)
(***************************************************************************)
AmountFits(bytes, si, answer) ==
    /\ answer.factor > 0 => bytes >= answer.value[2] /\ answer.prefix # Prefixes(~si)[answer.factor + 1]
    /\ answer.factor < 6 => bytes < answer.value[2] * (IF si THEN KiloSi ELSE Kilo)
----------------------------------------------------------------------------
(***************************************************************************)
(* Angles, and seconds of arc, are counted in grains, the steps that the   *)
(* rounding of doubles is made of.  Next to no angle is a whole number of  *)
(* seconds: 8.7 degrees, as a double, is a grain less than 31320 of them.  *)
(***************************************************************************)
OneMinute == 60 * Grains
OneDegree == 3600 * Grains

(***************************************************************************)
(* What the product of an angle with 60, or with 3600, is rounded to.  It  *)
(* is exact for a whole number of seconds (these angles are sixteenths of  *)
(* a degree), and else up to a grain off, which may be across a whole      *)
(* minute; of a whole degree no double is near enough for that.            *)
(***************************************************************************)
Nearby(angle) ==
    IF angle % Grains = 0 THEN {angle}
    ELSE {product \in {angle - 1, angle, angle + 1} : product % OneDegree # 0}

(***************************************************************************)
(* Minutes and seconds are taken from two products, rounded each by itself.*)
(* The degrees and the seconds lose their sign; the minutes keep it.       *)
(***************************************************************************)
dd_to_dms(angle, by60, by3600) ==
    [degrees |-> Abs(Quot(angle, OneDegree)), minutes |-> Rem(Quot(by60, OneMinute), 60),
     seconds |-> Rem(Abs(by3600), OneMinute)]

dms_to_dd(dms) == dms.degrees * OneDegree + dms.minutes * OneMinute + dms.seconds

(***************************************************************************)
(* There and back, an angle that is not negative is itself but for the     *)
(* rounding, with one exception: just below a whole minute, as 8.7 degrees *)
(* are, the two products may be rounded to different sides of it, and what *)
(* comes back is a minute of arc off.  It is never more (ac_geo.c:47-69).  *)
(***************************************************************************)
AngleReturns(angle, dms) ==
    LET off == Abs(dms_to_dd(dms) - angle)
    IN  angle >= 0 =>
           /\ angle % Grains = 0 => off = 0
           /\ (angle + 1) % OneMinute # 0 => off <= 1
           /\ off <= OneMinute

(***************************************************************************)
(* ac_geo.c:44-45: it is up to the user to track on which side of the      *)
(* Equator or the prime meridian a value is.  It is so only if an angle    *)
(* and its opposite are converted alike, which they are not.               *)
(***************************************************************************)
SideIsDropped(angle) == dd_to_dms(angle, angle, angle) = dd_to_dms(-angle, -angle, -angle)
----------------------------------------------------------------------------
(***************************************************************************)
(* A port is kept as its two bytes, in network order.                      *)
(***************************************************************************)
ac_net_port_from_sa(sa) ==
    IF sa.family \in {"AF_INET", "AF_INET6"} THEN sa.port[1] * 256 + sa.port[2] ELSE -1

(***************************************************************************)
(* No two ports are answered alike, and no port like an address family     *)
(* that has none (ac_net.c:38-48).                                         *)
(***************************************************************************)
PortsDiffer(sa, other, answer) ==
    answer = ac_net_port_from_sa(other) =>
        /\ sa.family = "AF_UNIX" <=> other.family = "AF_UNIX"
        /\ sa.family # "AF_UNIX" => sa.port = other.port
----------------------------------------------------------------------------
(***************************************************************************)
(* External, inet_ntop(3) and inet_pton(3): how much of a buffer the       *)
(* shortest and the longest text of an address takes.  The texts of IPv6   *)
(* addresses have a colon, those of IPv4 have none.                        *)
(***************************************************************************)
TextSizes == [AF_INET  |-> [shortest |-> 8, longest |-> 16],
              AF_INET6 |-> [shortest |-> 3, longest |-> 46]]

NoText == [family |-> "none", addr |-> "none", colon |-> FALSE]

inet_ntop(family, addr, size) ==
    IF size < TextSizes[family][addr] THEN NoText
    ELSE [family |-> family, addr |-> addr, colon |-> family = "AF_INET6"]

inet_pton(family, text) ==
    IF text.family = family THEN [ret |-> 1, dst |-> text.addr] ELSE [ret |-> 0, dst |-> "unset"]

ac_net_inet_ntop(sa, size) ==
    IF sa.family \in {"AF_INET", "AF_INET6"} THEN inet_ntop(sa.family, sa.addr, size) ELSE NoText

ac_net_inet_pton(text) ==
    inet_pton(IF text.colon THEN "AF_INET6" ELSE "AF_INET", text)

(***************************************************************************)
(* In a buffer of INET6_ADDRSTRLEN bytes every address of either family    *)
(* becomes a text, and what text there is becomes that address again,      *)
(* though nobody tells pton the family (ac_net.c:60-66, :78-96).           *)
(***************************************************************************)
AddressIsWritten(sa, size, text) ==
    sa.family # "AF_UNIX" /\ size >= 46 => text # NoText

AddressReturns(sa, parsed) == parsed = [ret |-> 1, dst |-> sa.addr]
=============================================================================
