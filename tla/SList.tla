-------------------------------- MODULE SList --------------------------------
(***************************************************************************)
(* The singly linked list of src/ac_slist.c, on a heap of nodes.           *)
(***************************************************************************)
EXTENDS ListHeap

CONSTANT MaxLen     \* bound of ItemList: positions asked for

heap == <<next, data, alloc>>
vars == <<list, heap, ret, out, foreach>>

Init ==
    /\ list = NULL /\ alloc = {}
    /\ next = [a \in Addrs |-> Junk] /\ data = [a \in Addrs |-> Junk]
    /\ ret = "ok" /\ out = << >> /\ NoForeach

malloc(new) == new \notin alloc /\ alloc' = alloc \cup {new}

Add(x, new) ==
    /\ malloc(new)
    /\ data' = [data EXCEPT ![new] = x]
    /\ next' = IF list = NULL
               THEN [next EXCEPT ![new] = NULL]
               ELSE [next EXCEPT ![new] = NULL, ![final(nodes)] = new]
    /\ list' = IF list = NULL THEN new ELSE list
    /\ Return("ok", << >>)
    /\ Appended(new)

Preadd(x, new) ==
    /\ malloc(new)
    /\ data' = [data EXCEPT ![new] = x]
    /\ next' = [next EXCEPT ![new] = list]
    /\ list' = new
    /\ Return("ok", << >>)
    /\ UNCHANGED foreach

UnlinkAfterFree(i) ==      \* faulty: p->next is read once p is freed
    LET p == nodes[i]
    IN  /\ MayUnlink(p)
        /\ alloc' = alloc \ {p}
        /\ data' = Wiped(data, {p})
        /\ IF i = 1
           THEN list' = Junk /\ next' = Wiped(next, {p})
           ELSE /\ next' = Wiped([next EXCEPT ![nodes[i - 1]] = Junk], {p})
                /\ UNCHANGED list
        /\ Return("ok", <<data[p]>>)
        /\ Unlinked(p)

(***************************************************************************)
(* The body of the three remove functions once the node is found: the      *)
(* pointer that led to it, *pp, is the list or the link of the node before.*)
(***************************************************************************)
Unlink(i) ==
    LET p == nodes[i]
    IN  /\ MayUnlink(p)
        /\ alloc' = alloc \ {p}
        /\ data' = Wiped(data, {p})
        /\ IF i = 1
           THEN list' = next[p] /\ next' = Wiped(next, {p})
           ELSE /\ next' = Wiped([next EXCEPT ![nodes[i - 1]] = next[p]], {p})
                /\ UNCHANGED list
        /\ Return("ok", <<data[p]>>)
        /\ Unlinked(p)

NotFound == Return("refused", << >>) /\ UNCHANGED <<list, heap, foreach>>

Remove(w) == IF FindAt(w) = 0 THEN NotFound ELSE Unlink(FindAt(w))

RemoveNth(n) == IF n >= Len(nodes) THEN NotFound ELSE Unlink(n + 1)

Found(i) == Return("ok", <<data[nodes[i]]>>) /\ UNCHANGED <<list, heap, foreach>>

Find(w) == IF FindAt(w) = 0 THEN NotFound ELSE Found(FindAt(w))

NthData(n) == IF n >= Len(nodes) THEN NotFound ELSE Found(n + 1)

(***************************************************************************)
(* Each node's link is turned to the node before it, from the front.       *)
(***************************************************************************)
ReverseList ==
    /\ walk = "none"
    /\ next' = [a \in Addrs |->
                  IF \E i \in 1..Len(nodes) : nodes[i] = a
                  THEN LET i == CHOOSE j \in 1..Len(nodes) : nodes[j] = a
                       IN  IF i = 1 THEN NULL ELSE nodes[i - 1]
                  ELSE next[a]]
    /\ list' = IF list = NULL THEN NULL ELSE final(nodes)
    /\ Return("ok", << >>)
    /\ UNCHANGED <<data, alloc, foreach>>

Elsewhere == UNCHANGED <<list, heap, ret, out>>

Foreach     == Visit("forward", list) /\ Elsewhere
ForeachNext == walk = "forward" /\ VisitNext(next) /\ Elsewhere

Destroy ==
    LET gone == {nodes[i] : i \in 1..Len(nodes)}
    IN  /\ walk = "none" /\ alloc' = alloc \ gone
        /\ next' = Wiped(next, gone) /\ data' = Wiped(data, gone)
        /\ list' = NULL
        /\ Return("ok", Values)
        /\ UNCHANGED foreach

Next ==
    \/ \E x \in Items, new \in Addrs : Add(x, new) \/ Preadd(x, new)
    \/ \E w \in Wanted : Remove(w) \/ Find(w)
    \/ \E n \in 0..MaxLen : RemoveNth(n) \/ NthData(n)
    \/ ReverseList \/ Foreach \/ ForeachNext \/ Destroy

Spec == Init /\ [][Next]_vars
----------------------------------------------------------------------------
TypeOK ==
    /\ list \in Addrs \cup {NULL}
    /\ next \in [Addrs -> Addrs \cup {NULL, Junk}]
    /\ data \in [Addrs -> Items \cup {Junk}]
    /\ alloc \subseteq Addrs
    /\ walk \in {"none", "forward"} /\ cursor \in Addrs \cup {NULL}

(***************************************************************************)
(* The list is a sequence of items.                                        *)
(***************************************************************************)
L == INSTANCE ItemList WITH q <- Values

ImplementsList == L!Spec
=============================================================================
