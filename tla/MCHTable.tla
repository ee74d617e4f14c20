------------------------------ MODULE MCHTable ------------------------------
EXTENDS HTable

CONSTANTS k1, k2, k3, k4, n1, n2, n3

(***************************************************************************)
(* k1 and k2 are equal keys, k3 collides with them, k4 does not.           *)
(***************************************************************************)
MCNameOf == [k \in {k1, k2, k3, k4} |->
               IF k \in {k1, k2} THEN n1 ELSE IF k = k3 THEN n2 ELSE n3]
MCHashOf == [n \in {n1, n2, n3} |-> IF n = n1 THEN 0 ELSE IF n = n2 THEN 2 ELSE 3]
=============================================================================
