------------------------------- MODULE TreeWalk -------------------------------
(***************************************************************************)
(* The tree walks that the library brings along for platforms without      *)
(* them: twalk_r (src/platform/common/twalk_r.c) and tdestroy              *)
(* (src/platform/freebsd/tdestroy.c).  A tree is << >>, or a node with its *)
(* left and right trees, <<left, key, right>>.                             *)
(***************************************************************************)
EXTENDS Integers, Sequences

CONSTANTS Trees,    \* the trees to walk, and the trees below their nodes
          Height    \* of each tree

Nodes == Trees \ {<< >>}

VisitOf(key, when) == <<[key |-> key, when |-> when]>>

(***************************************************************************)
(* There is nothing to visit in a tree without nodes.                      *)
(***************************************************************************)
trecurse_r[root \in Trees] ==
    IF root = << >> THEN << >>
    ELSE IF root[1] = << >> /\ root[3] = << >> THEN VisitOf(root[2], "leaf")
    ELSE VisitOf(root[2], "preorder") \o trecurse_r[root[1]]
         \o VisitOf(root[2], "postorder") \o trecurse_r[root[3]]
         \o VisitOf(root[2], "endorder")

twalk_r(vroot) == trecurse_r[vroot]

(***************************************************************************)
(* The nodes in the order they are freed, each by its key, which the       *)
(* caller's function is given just before.                                 *)
(***************************************************************************)
FreedInOrder(left, key, right) ==    \* faulty: a node is freed before its right tree is read
    left \o <<key>> \o right

Freed(left, key, right) == left \o right \o <<key>>

tdestroy[root \in Trees] ==
    IF root = << >> THEN << >> ELSE Freed(tdestroy[root[1]], root[2], tdestroy[root[3]])
----------------------------------------------------------------------------
KeysOf[root \in Trees] ==
    IF root = << >> THEN {} ELSE KeysOf[root[1]] \cup {root[2]} \cup KeysOf[root[3]]

Parents[root \in Trees] ==      \* pairs of a node and one below it
    IF root = << >> THEN {}
    ELSE ({root[2]} \X (KeysOf[root[1]] \cup KeysOf[root[3]]))
         \cup Parents[root[1]] \cup Parents[root[3]]

(***************************************************************************)
(* Trees are finite; the keys of a tree increase from left to right.       *)
(***************************************************************************)
TreesAssumption ==
    /\ << >> \in Trees /\ Height \in [Trees -> Nat]
    /\ \A root \in Nodes :
          /\ root \in Trees \X Int \X Trees
          /\ Height[root[1]] < Height[root] /\ Height[root[3]] < Height[root]
          /\ \A key \in KeysOf[root[1]] : key < root[2]
          /\ \A key \in KeysOf[root[3]] : root[2] < key

(***************************************************************************)
(* A callback of ac_btree_foreach_data (ac_btree.c:82-88) that looks at    *)
(* leaf and postorder visits only gets every key once and in order;        *)
(* preorder and endorder bracket what is below a node                      *)
(* (twalk_r.c:203-232).                                                    *)
(***************************************************************************)
Inner(visit) == visit.when \in {"leaf", "postorder"}

WalkIsInOrder(root, visits) ==
    /\ \A i \in 1..Len(visits) : visits[i].key \in KeysOf[root]
    /\ \A key \in KeysOf[root] : \E i \in 1..Len(visits) : visits[i].key = key /\ Inner(visits[i])
    /\ \A i, j \in 1..Len(visits) :
          i < j /\ Inner(visits[i]) /\ Inner(visits[j]) => visits[i].key < visits[j].key
    /\ \A pair \in Parents[root] : \E i, j \in 1..Len(visits) :
          /\ visits[i] = [key |-> pair[1], when |-> "preorder"]
          /\ visits[j] = [key |-> pair[1], when |-> "endorder"]
          /\ \A k \in 1..Len(visits) : visits[k].key = pair[2] => i < k /\ k < j

(***************************************************************************)
(* Every key is handed out and every node freed once, and none while there *)
(* is one below it, which could only be reached through it                 *)
(* (tdestroy.c:30-47).                                                     *)
(***************************************************************************)
DestroysAll(root, freed) ==
    /\ KeysOf[root] = {freed[i] : i \in 1..Len(freed)}
    /\ \A i, j \in 1..Len(freed) : freed[i] = freed[j] => i = j
    /\ \A pair \in Parents[root], i, j \in 1..Len(freed) :
          freed[i] = pair[1] /\ freed[j] = pair[2] => j < i
=============================================================================
