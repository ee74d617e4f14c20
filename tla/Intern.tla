------------------------------- MODULE Intern -------------------------------
(***************************************************************************)
(* What a quark promises its caller: strings are numbered from 0 in the    *)
(* order they are first seen, and a number, once given out, stays.         *)
(***************************************************************************)
EXTENDS Integers, Sequences

CONSTANTS Strings,
          NULL,
          MaxId      \* bound: the largest number a caller asks for

VARIABLES known,     \* the strings, in the order of their numbers
          ret        \* the answer of the last call

vars == <<known, ret>>

Init == known = << >> /\ ret = NULL

(***************************************************************************)
(* A new or an emptied table.                                              *)
(***************************************************************************)
Clear == known' = << >> /\ UNCHANGED ret

FromString ==
    \E s \in Strings :
       \/ \E i \in 1..Len(known) : known[i] = s /\ ret' = i - 1 /\ UNCHANGED known
       \/ /\ \A i \in 1..Len(known) : known[i] # s
          /\ known' = Append(known, s) /\ ret' = Len(known)

ToString ==
    \E id \in 0..MaxId :
       /\ ret' = IF id < Len(known) THEN known[id + 1] ELSE NULL
       /\ UNCHANGED known

Next == Clear \/ FromString \/ ToString

Spec == Init /\ [][Next]_vars
=============================================================================
