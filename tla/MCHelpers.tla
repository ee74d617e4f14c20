------------------------------ MODULE MCHelpers ------------------------------
(***************************************************************************)
(* All helpers, of which each behaviour takes one: those of MCSystem, that *)
(* meet the system; a call of one that keeps no state; or a program that   *)
(* draws random numbers.                                                   *)
(***************************************************************************)
EXTENDS MCSystem, Random, PureCalls, TLC

(***************************************************************************)
(* Three kinds of generators of few numbers, and an array that is big      *)
(* enough for none, for either, or for the last by a byte.                 *)
(***************************************************************************)
MCBreak   == <<8, 16, 24>>
MCDegrees == <<0, 3, 5>>
MCSeps    == <<0, 1, 2>>
MCSizesOf == [a |-> {7, 15, 16}, b |-> {16, 24}]

UpTo(n, S) == UNION {[1..k -> S] : k \in 0..n}

(***************************************************************************)
(* Control characters, those with an escape of their own and others, the   *)
(* characters next to them, and the ends of the two halves of a byte.      *)
(***************************************************************************)
MCBytes == {1, 8, 9, 10, 12, 13, 31, 32, 34, 92, 65, 127, 128, 255}

(***************************************************************************)
(* Substrings that start and end inside a string, at its end and behind    *)
(* its NUL.                                                                *)
(***************************************************************************)
MCSubstrings ==
    {[src |-> <<"x", "y", "NUL", "z">>, dest |-> <<"a", "b", "c", "d">>,
      start |-> start, len |-> len] : start \in 0..2, len \in 0..2}
    \cup {[src |-> <<"x", "y", "NUL", "z">>, dest |-> <<"a", "b", "c", "d">>,
           start |-> start, len |-> 3] : start \in 0..1}

(***************************************************************************)
(* Numbers around those where an hour, a minute, a degree or a unit ends.  *)
(***************************************************************************)
MCTotals == UNION {{n - 1, n, n + 1, -n} :
                      n \in {1, 60, 3600, 3675} \cup {3^k : k \in 1..7} \cup {4^k : k \in 1..7}}

(***************************************************************************)
(* Angles next to where minutes and degrees end, and sixteenths of degrees.*)
(***************************************************************************)
MCAngles == {240 * k + j : k \in {-61, -60, -1, 0, 1, 15, 59, 60, 61, 522}, j \in {-3, -1, 1, 2}}
            \cup {900 * k : k \in {-16, -1, 0, 1, 3, 16, 17}}

MCKeys == ({"str"} \X UpTo(2, {-3, -1, 1, 2, 5}))
          \cup ({"u32"} \X {0, 1, 2, 64, 127, 128, 255})
          \cup ({"ptr"} \X {8, 16, 255, 256, 264, 511})

(***************************************************************************)
(* All trees of up to four nodes, the keys of a tree being from..to, and   *)
(* the trees in them.                                                      *)
(***************************************************************************)
RECURSIVE TreesOf(_, _)
TreesOf(from, to) ==
    IF from > to THEN {<< >>}
    ELSE UNION {{<<left, key, right>> : left \in TreesOf(from, key - 1),
                                        right \in TreesOf(key + 1, to)} : key \in from..to}

MCTrees  == UNION {TreesOf(from, to) : from \in 1..4, to \in 0..4}
MCHeight == [root \in MCTrees |->
                LET height[t \in MCTrees] ==
                        IF t = << >> THEN 0
                        ELSE 1 + (IF height[t[1]] > height[t[3]] THEN height[t[1]] ELSE height[t[3]])
                IN  height[root]]

MCNumbers     == 0..120 \cup {1111, 4539, 5909, 98765, 90009}
MCShifts      == <<3, 2, 1, 3, 4>>
MCSalts       == {[i \in 1..16 |-> i * n] : n \in {0, 1, 63, 64, 9876543}}
MCChars       == {"x", "y", "z", "a", "b", "c", "d", ",", " ", "\n", "\t"}
MCSplits      == [string : UpTo(4, {"x", "y", ","}), delim : {","}, flags : Flags]
MCBefores     == {<<"x">>, <<"x", " ">>}
MCLines       == UpTo(3, {"x", " ", "\n", "\t"})
MCSpellings   == UpTo(3, {"x", "y"})
MCCells       == {-1, 0, 2}
MCFileNames   == UpTo(3, {"letter", "digit", ".", "_", "-", "/", "other"})
MCBytestrings == UpTo(2, MCBytes)
MCBases       == {<< >>, <<1>>, <<1, 2, 3>>, <<2, 1, 2>>, <<1, 2, 3, 4>>}
MCTimespecs   == [sec : 0..2, nsec : 0..3]
MCSockaddrs   == [family : Families, port : {0, 1, 255} \X {0, 1, 255}]
----------------------------------------------------------------------------
NoDrawing == buf = << >> /\ mem = << >> /\ drawn = << >> /\ result = [fn |-> "none"]
NoAsking  == asked = [fn |-> "none"] /\ step = "idle" /\ reply = NoAnswer
NotCalled    == call = << >> /\ pc = "idle" /\ ret = << >>
NoSystem  == NoDirs /\ NoFiles /\ file = << >> /\ met = {}

HelpersInit ==
    \/ SystemInit /\ NoDrawing /\ NoAsking
    \/ kind = "random" /\ DrawInit /\ NotCalled /\ NoSystem /\ NoAsking
    \/ kind = "pure" /\ AskInit /\ NotCalled /\ NoDrawing /\ NoSystem

NotSystem == NotFiles /\ UNCHANGED <<file, met>>

HelpersNext ==
    \/ SystemNext /\ UNCHANGED <<drawVars, askVars>>
    \/ kind = "random" /\ DrawNext /\ UNCHANGED <<call, pc, ret, askVars>> /\ NotSystem
    \/ kind = "pure" /\ AskNext /\ UNCHANGED <<call, pc, ret, drawVars>> /\ NotSystem

HelpersSpec == HelpersInit /\ [][HelpersNext]_<<allVars, drawVars, askVars>> /\ Fairness
=============================================================================
