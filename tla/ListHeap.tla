------------------------------ MODULE ListHeap ------------------------------
(***************************************************************************)
(* The heap that the linked lists of src/ac_slist.c and src/ac_list.c put  *)
(* their nodes in, and the walk along the `next' links that every loop of  *)
(* those files makes.                                                      *)
(***************************************************************************)
EXTENDS Naturals, Sequences

CONSTANTS Items,
          KeyOf,       \* what the caller's comparison functions look at
          Addrs,       \* bound: the node addresses of the heap
          HeapSize,    \* how many those are
          NULL, Junk   \* Junk: the value of freed or uninitialised memory

VARIABLES list,        \* the caller's list pointer
          next, data,  \* the nodes
          alloc,       \* addresses of the nodes malloc has handed out
          ret, out,    \* outcome of the last call; what it returned or
                       \* passed to free_data
          walk,        \* which foreach is running: "none", "forward", "back"
          cursor,      \* the node it is at, whose item its callback has
          due          \* history: the nodes it has still to visit

Return(r, xs) == ret' = r /\ out' = xs

(***************************************************************************)
(* The nodes a loop `while (p) ... p = p->next' meets.  A walk longer than *)
(* the heap has gone round a cycle.                                        *)
(***************************************************************************)
Walk(p) ==
    LET at[i \in 1..HeapSize + 1] ==
            IF i = 1 THEN p
            ELSE IF at[i - 1] \in Addrs THEN next[at[i - 1]] ELSE at[i - 1]
    IN  [i \in {j \in 1..HeapSize + 1 : at[j] \in Addrs} |-> at[i]]

nodes      == Walk(list)
final(s)   == s[Len(s)]
Values     == [i \in 1..Len(nodes) |-> data[nodes[i]]]
Wiped(f, gone) == [a \in Addrs |-> IF a \in gone THEN Junk ELSE f[a]]

(***************************************************************************)
(* The position where a search stops: the first node whose item a pointer  *)
(* comparison, or a comparison function, accepts; 0 if there is none.      *)
(***************************************************************************)
Wanted == {{x} : x \in Items} \cup {{y \in Items : KeyOf[y] = KeyOf[x]} : x \in Items}

FindAt(w) ==
    LET v    == Values
        hits == {i \in 1..Len(v) : v[i] \in w}
    IN  IF hits = {} THEN 0 ELSE CHOOSE i \in hits : \A j \in hits : i <= j

(***************************************************************************)
(* A foreach, of which each visit is a step.  Its callback may add to the  *)
(* list and remove any node but the one it was called for (MayUnlink);     *)
(* what it adds at the end is due to a walk forward.                       *)
(***************************************************************************)
foreach == <<walk, cursor, due>>

NoForeach == walk = "none" /\ cursor = NULL /\ due = {}

Visit(direction, first) ==
    /\ walk = "none"
    /\ IF list = NULL
       THEN UNCHANGED foreach
       ELSE /\ walk' = direction /\ cursor' = first
            /\ due' = {nodes[i] : i \in 1..Len(nodes)} \ {first}

VisitNext(link) ==
    /\ cursor' = link[cursor]
    /\ walk' = IF cursor' = NULL THEN "none" ELSE walk
    /\ due' = due \ {cursor'}

MayUnlink(p) == p # cursor

Appended(new) == due' = (IF walk = "forward" THEN due \cup {new} ELSE due)
                 /\ UNCHANGED <<walk, cursor>>

Unlinked(p)   == due' = due \ {p} /\ UNCHANGED <<walk, cursor>>

(***************************************************************************)
(* Whatever the callback has done to the list, the walk goes on to a node  *)
(* that it owes a visit, and ends only when it owes none: each node that   *)
(* stays is visited once.  The link is read after the callback             *)
(* (ac_slist.c:307-311, ac_list.c:318-322, :339-343).                      *)
(***************************************************************************)
VisitsAll(link) ==
    IF walk = "none"
    THEN due = {}
    ELSE /\ cursor \in alloc
         /\ link[cursor] \in due \/ (link[cursor] = NULL /\ due = {})

(***************************************************************************)
(* The walk from the list pointer ends in NULL, and has met every node     *)
(* that is allocated: no node is lost, none is used after it was freed.    *)
(***************************************************************************)
NoneLost ==
    /\ Len(nodes) <= HeapSize
    /\ list # NULL => nodes # << >> /\ next[final(nodes)] = NULL
    /\ alloc = {nodes[i] : i \in 1..Len(nodes)}
=============================================================================
