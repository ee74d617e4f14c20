------------------------------- MODULE Shuffle -------------------------------
(***************************************************************************)
(* ac_misc_shuffle of src/ac_misc.c, for given draws of random_r.          *)
(***************************************************************************)
EXTENDS Integers, Sequences

swap(base, i, j) == [base EXCEPT ![i] = base[j], ![j] = base[i]]

Choose(rnd, nmemb) == (rnd % nmemb) + 1

(***************************************************************************)
(* nmemb counts down; draws[nmemb] is what random_r gives for it.          *)
(***************************************************************************)
shuffle_fisher_yates(base, draws) ==
    LET n == Len(base)
        after[k \in 0..n] ==
            IF k = 0 THEN base ELSE swap(after[k - 1], Choose(draws[n + 1 - k], n + 1 - k), n + 1 - k)
    IN  after[n]

ac_misc_shuffle(base, draws, algo) ==
    IF algo = "fisher_yates" THEN [ret |-> 0, base |-> shuffle_fisher_yates(base, draws)]
    ELSE [ret |-> -1, base |-> base]
----------------------------------------------------------------------------
Orders(n)   == {p \in [1..n -> 1..n] : \A i, j \in 1..n : p[i] = p[j] => i = j}
Residues(n) == {d \in [1..n -> 0..n - 1] : \A k \in 1..n : d[k] < k}

(***************************************************************************)
(* The result has the elements of the array in some order, and - if they   *)
(* are told apart - draws that differ lead to different orders: with even  *)
(* draws no order is likelier than another (ac_misc.c:218-229).            *)
(***************************************************************************)
ShuffleIsFair(base, draws, answered) ==
    answered.ret = 0 =>
        /\ \E p \in Orders(Len(base)) : answered.base = [i \in 1..Len(base) |-> base[p[i]]]
        /\ (\A i, j \in 1..Len(base) : base[i] = base[j] => i = j) =>
              \A d \in Residues(Len(base)) :
                 (shuffle_fisher_yates(base, d) = answered.base)
                     <=> (\A k \in 1..Len(base) : draws[k] % k = d[k])
=============================================================================
