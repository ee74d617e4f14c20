-------------------------------- MODULE Dict --------------------------------
(***************************************************************************)
(* What the hash table of libac promises its caller: a map from names (the *)
(* values that key_cmp tells apart) to data.                               *)
(***************************************************************************)
CONSTANTS Names, Datas,
          Missing   \* what a lookup answers when there is no entry

VARIABLES map,      \* a function from the names present to their data
          ret       \* the answer of the last call

vars == <<map, ret>>

empty == [n \in {} |-> Missing]

Init == map = empty /\ ret = "ok"

New == map' = empty /\ ret' = "ok"

Insert ==
    \E n \in Names, d \in Datas :
       /\ map' = [m \in DOMAIN map \cup {n} |-> IF m = n THEN d ELSE map[m]]
       /\ ret' = "ok"

Remove ==
    \E n \in Names :
       /\ map' = [m \in DOMAIN map \ {n} |-> map[m]]
       /\ ret' = IF n \in DOMAIN map THEN "removed" ELSE "absent"

Lookup ==
    \E n \in Names :
       /\ ret' = IF n \in DOMAIN map THEN map[n] ELSE Missing
       /\ UNCHANGED map

Next == New \/ Insert \/ Remove \/ Lookup

Spec == Init /\ [][Next]_vars
=============================================================================
