------------------------------ MODULE MCCircBuf ------------------------------
(***************************************************************************)
(* A buffer of one thread, or one between two, which copies its items, so  *)
(* that pop hands out pointers into it.  Every property of the one is also *)
(* a property of the other, at every moment of its calls.                  *)
(***************************************************************************)
EXTENDS CircBufProofs, TLC

VARIABLE threads

mcVars == <<sharedVars, threads>>

BufInit ==
    /\ SharedInit /\ threads \in 1..2
    /\ threads = 1 => lock = "nothing"

BufNext ==
    /\ \/ threads = 1 /\ Next /\ UNCHANGED <<lock, producer, consumer>>
       \/ threads = 2 /\ SharedNext /\ (open' => type' = "CPY_BUF")
    /\ UNCHANGED threads

BufSpec == BufInit /\ [][BufNext]_mcVars

Swapped == Permutations(Items)     \* items are only moved about
=============================================================================
