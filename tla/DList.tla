-------------------------------- MODULE DList --------------------------------
(***************************************************************************)
(* The doubly linked list of src/ac_list.c, on a heap of nodes.            *)
(*                                                                         *)
(* ac_list_preadd does not set the `prev' link of the node it puts its own *)
(* in front of.  preadded records that it has done so, and Mixed says      *)
(* whether the program still calls, after that, the two functions that     *)
(* follow `prev': ac_list_reverse and ac_list_rev_foreach.                 *)
(***************************************************************************)
EXTENDS ListHeap

CONSTANTS MaxLen,    \* bound of ItemList: positions asked for
          Mixed      \* whether `prev' is followed after preadd

VARIABLES prev,
          preadded   \* history: preadd has been called for a list with nodes

heap == <<next, prev, data, alloc>>
vars == <<list, heap, preadded, ret, out, foreach>>

Init ==
    /\ list = NULL /\ alloc = {} /\ next = [a \in Addrs |-> Junk]
    /\ prev = [a \in Addrs |-> Junk] /\ data = [a \in Addrs |-> Junk]
    /\ preadded = FALSE /\ ret = "ok" /\ out = << >> /\ NoForeach

Add(x, new) ==
    /\ new \notin alloc /\ alloc' = alloc \cup {new}
    /\ data' = [data EXCEPT ![new] = x]
    /\ next' = IF list = NULL
               THEN [next EXCEPT ![new] = NULL]
               ELSE [next EXCEPT ![new] = NULL, ![final(nodes)] = new]
    /\ prev' = [prev EXCEPT ![new] = IF list = NULL THEN NULL ELSE final(nodes)]
    /\ list' = IF list = NULL THEN new ELSE list
    /\ Return("ok", << >>)
    /\ Appended(new)
    /\ UNCHANGED preadded

Preadd(x, new) ==
    /\ new \notin alloc /\ alloc' = alloc \cup {new}
    /\ data' = [data EXCEPT ![new] = x]
    /\ next' = [next EXCEPT ![new] = list]
    /\ prev' = [prev EXCEPT ![new] = NULL]
    /\ list' = new
    /\ preadded' = (preadded \/ list # NULL)
    /\ Return("ok", << >>)
    /\ UNCHANGED foreach

(***************************************************************************)
(* The node after p, if there is one, takes over p's `prev'.               *)
(***************************************************************************)
BackLinkForgotten(p) == Wiped(prev, {p})     \* faulty

BackLink(p) ==
    LET linked == IF next[p] = NULL THEN prev ELSE [prev EXCEPT ![next[p]] = prev[p]]
    IN  Wiped(linked, {p})

(***************************************************************************)
(* The body of the three remove functions once the node is found: the      *)
(* pointer that led to it, *pp, is the list or the link of the node before.*)
(***************************************************************************)
Unlink(i) ==
    LET p == nodes[i]
    IN  /\ MayUnlink(p)
        /\ IF i = 1
           THEN list' = next[p] /\ next' = Wiped(next, {p})
           ELSE /\ next' = Wiped([next EXCEPT ![nodes[i - 1]] = next[p]], {p})
                /\ UNCHANGED list
        /\ prev' = BackLink(p)
        /\ alloc' = alloc \ {p} /\ data' = Wiped(data, {p})
        /\ Return("ok", <<data[p]>>)
        /\ Unlinked(p)
        /\ UNCHANGED preadded

NotFound == Return("refused", << >>) /\ UNCHANGED <<list, heap, preadded, foreach>>

Remove(w) == IF FindAt(w) = 0 THEN NotFound ELSE Unlink(FindAt(w))

RemoveNth(n) == IF n >= Len(nodes) THEN NotFound ELSE Unlink(n + 1)

Found(i) == Return("ok", <<data[nodes[i]]>>) /\ UNCHANGED <<list, heap, preadded, foreach>>

Find(w) == IF FindAt(w) = 0 THEN NotFound ELSE Found(FindAt(w))

NthData(n) == IF n >= Len(nodes) THEN NotFound ELSE Found(n + 1)

OnList(a) == \E i \in 1..Len(nodes) : nodes[i] = a

ReverseForgetsPrev ==      \* faulty: only the `next' links are turned
    /\ walk = "none" /\ (preadded => Mixed)
    /\ next' = [a \in Addrs |-> IF OnList(a) THEN prev[a] ELSE next[a]]
    /\ list' = IF list = NULL THEN NULL ELSE final(nodes)
    /\ Return("ok", << >>)
    /\ UNCHANGED <<prev, data, alloc, preadded, foreach>>

(***************************************************************************)
(* Every node of the list has its two links swapped, and the last node     *)
(* becomes the first.                                                      *)
(***************************************************************************)
ReverseList ==
    /\ walk = "none" /\ (preadded => Mixed)
    /\ next' = [a \in Addrs |-> IF OnList(a) THEN prev[a] ELSE next[a]]
    /\ prev' = [a \in Addrs |-> IF OnList(a) THEN next[a] ELSE prev[a]]
    /\ list' = IF list = NULL THEN NULL ELSE final(nodes)
    /\ Return("ok", << >>)
    /\ UNCHANGED <<data, alloc, preadded, foreach>>

Elsewhere == UNCHANGED <<list, heap, preadded, ret, out>>

Foreach     == Visit("forward", list) /\ Elsewhere
ForeachNext == walk = "forward" /\ VisitNext(next) /\ Elsewhere

RevForeach     == (preadded => Mixed) /\ Visit("back", final(nodes)) /\ Elsewhere
RevForeachNext == walk = "back" /\ VisitNext(prev) /\ Elsewhere

Destroy ==
    LET gone == {nodes[i] : i \in 1..Len(nodes)}
    IN  /\ walk = "none" /\ alloc' = alloc \ gone /\ next' = Wiped(next, gone)
        /\ prev' = Wiped(prev, gone) /\ data' = Wiped(data, gone)
        /\ list' = NULL
        /\ preadded' = FALSE
        /\ Return("ok", Values)
        /\ UNCHANGED foreach

Next ==
    \/ \E x \in Items, new \in Addrs : Add(x, new) \/ Preadd(x, new)
    \/ \E w \in Wanted : Remove(w) \/ Find(w)
    \/ \E n \in 0..MaxLen : RemoveNth(n) \/ NthData(n)
    \/ ReverseList \/ Destroy
    \/ Foreach \/ ForeachNext \/ RevForeach \/ RevForeachNext

Spec == Init /\ [][Next]_vars
----------------------------------------------------------------------------
TypeOK ==
    /\ list \in Addrs \cup {NULL}
    /\ next \in [Addrs -> Addrs \cup {NULL, Junk}]
    /\ prev \in [Addrs -> Addrs \cup {NULL, Junk}]
    /\ data \in [Addrs -> Items \cup {Junk}]
    /\ alloc \subseteq Addrs /\ preadded \in BOOLEAN
    /\ walk \in {"none", "forward", "back"} /\ cursor \in Addrs \cup {NULL}

(***************************************************************************)
(* Until preadd leaves a `prev' unset, `prev' is the inverse of `next',    *)
(* through every add, remove and reverse (ac_list.c:120-124, :225-237);    *)
(* and even after that no `prev' of a node in use leads anywhere but to    *)
(* the node before it: the copies that remove makes of it never dangle.    *)
(***************************************************************************)
PrevIsInverse ==
    \A i \in 1..Len(nodes) :
        LET before == IF i = 1 THEN NULL ELSE nodes[i - 1]
        IN  prev[nodes[i]] = before \/ (preadded /\ prev[nodes[i]] = NULL)

(***************************************************************************)
(* The list is a sequence of items.                                        *)
(***************************************************************************)
L == INSTANCE ItemList WITH q <- Values

ImplementsList == L!Spec

(***************************************************************************)
(* ac_list.c:84-85 advises a program to fill a list with ac_list_preadd    *)
(* and then to call ac_list_reverse: reversing a list keeps its items.     *)
(***************************************************************************)
ReverseKeepsItems ==
    [][ReverseList => Values' = [i \in 1..Len(Values) |-> Values[Len(Values) + 1 - i]]]_vars

=============================================================================
