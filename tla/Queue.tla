-------------------------------- MODULE Queue --------------------------------
(***************************************************************************)
(* The queue of src/ac_queue.c: a singly linked list of nodes with a       *)
(* pointer to its last node.  Nodes live in a heap whose addresses malloc  *)
(* hands out and free takes back, in any order, so that a stale pointer    *)
(* may come to point at another node.                                      *)
(*                                                                         *)
(* push and pop are one step each.  ac_queue_foreach takes one step per    *)
(* item, because its callback may push to the queue it is called for;      *)
(* ac_queue_destroy takes one step per node, because it calls free_func.   *)
(***************************************************************************)
EXTENDS Naturals, Sequences

CONSTANTS Items,
          Addrs,      \* bound: the node addresses of the heap
          NULL, Junk, \* Junk: the value of freed or uninitialised memory
          MaxBatch, Unbounded      \* of Fifo

VARIABLES life,     \* of the queue: "none", "open" or "destroying"
          queue, tail, items,     \* the struct
          next, data,             \* the nodes
          alloc,    \* addresses of the nodes malloc has handed out
          cursor,   \* the node whose item foreach's callback works on, or NULL
          call,     \* the last call: its name, how many items it was about,
                    \* and those it took
          ret, out, \* its outcome and the items it returned
          order,    \* history: the queued nodes, oldest first
          seen,     \* history: what the running foreach has called action with
          released, \* history: what destroy has called free_func with,
          doomed    \* history: and what was queued when it was called

struct  == <<queue, tail, items>>
heap    == <<next, data, alloc>>
history == <<order, seen, released, doomed>>
vars    == <<life, struct, heap, cursor, call, ret, out, history>>

Call(name, n, taken) == [name |-> name, count |-> n, items |-> taken]

Return(c, r, xs) == call' = c /\ ret' = r /\ out' = xs

FreeForgotten(p) == UNCHANGED heap     \* faulty: the node is leaked

free(p) ==
    /\ alloc' = alloc \ {p}
    /\ next' = [next EXCEPT ![p] = Junk]
    /\ data' = [data EXCEPT ![p] = Junk]

Values(nodes) == [i \in 1..Len(nodes) |-> data[nodes[i]]]
----------------------------------------------------------------------------
Init ==
    /\ life = "none" /\ queue = NULL /\ tail = NULL /\ items = 0
    /\ next = [a \in Addrs |-> Junk] /\ data = [a \in Addrs |-> Junk]
    /\ alloc = {} /\ cursor = NULL
    /\ call = Call("none", 0, << >>) /\ ret = "ok" /\ out = << >>
    /\ order = << >> /\ seen = << >> /\ released = << >> /\ doomed = << >>

New ==
    /\ life = "none"
    /\ life' = "open" /\ queue' = NULL /\ tail' = NULL /\ items' = 0
    /\ Return(Call("new", 0, << >>), "ok", << >>)
    /\ UNCHANGED <<heap, cursor, history>>

(***************************************************************************)
(* push returns -1 and pop NULL when there is no queue.                    *)
(***************************************************************************)
NoQueue ==
    /\ life = "none"
    /\ \E name \in {"push", "pop"} : Return(Call(name, 1, << >>), "refused", << >>)
    /\ UNCHANGED <<life, struct, heap, cursor, history>>

NonEmptyByTail == tail # NULL     \* faulty: the tail is never reset

NonEmpty == queue # NULL

LastTooLate(new) == IF queue = NULL THEN new ELSE tail     \* faulty

Last(new) == new

(***************************************************************************)
(* Called by the program, or by the callback of a running foreach.         *)
(***************************************************************************)
Push(x, new) ==
    /\ life = "open" /\ new \notin alloc
    /\ alloc' = alloc \cup {new}
    /\ data' = [data EXCEPT ![new] = x]
    /\ next' = IF NonEmpty
               THEN [next EXCEPT ![new] = NULL, ![tail] = new]
               ELSE [next EXCEPT ![new] = NULL]
    /\ queue' = IF NonEmpty THEN queue ELSE new
    /\ tail' = Last(new)
    /\ items' = items + 1
    /\ order' = Append(order, new)
    /\ Return(Call("push", 1, <<x>>), "ok", << >>)
    /\ UNCHANGED <<life, cursor, seen, released, doomed>>

PopFreed ==     \* faulty: reads the link of the freed node
    /\ life = "open" /\ cursor = NULL /\ queue # NULL
    /\ queue' = Junk
    /\ Return(Call("pop", 1, << >>), "ok", <<data[queue]>>)
    /\ free(queue)
    /\ items' = items - 1 /\ order' = Tail(order)
    /\ UNCHANGED <<tail, life, cursor, seen, released, doomed>>

Pop ==
    /\ life = "open" /\ cursor = NULL
    /\ IF queue = NULL
       THEN /\ Return(Call("pop", 1, << >>), "refused", << >>)
            /\ UNCHANGED <<struct, heap, order>>
       ELSE /\ queue' = next[queue]
            /\ Return(Call("pop", 1, << >>), "ok", <<data[queue]>>)
            /\ free(queue)
            /\ items' = items - 1
            /\ order' = Tail(order)
            /\ UNCHANGED tail
    /\ UNCHANGED <<life, cursor, seen, released, doomed>>

ForeachSkipsFirst ==     \* faulty: follows the link before the callback
    /\ life = "open" /\ cursor = NULL
    /\ items > 1
    /\ cursor' = next[queue]
    /\ seen' = <<data[cursor']>>
    /\ UNCHANGED <<life, struct, heap, call, ret, out, order, released, doomed>>

Foreach ==
    /\ life = "open" /\ cursor = NULL
    /\ items # 0
    /\ cursor' = queue
    /\ seen' = <<data[queue]>>
    /\ UNCHANGED <<life, struct, heap, call, ret, out, order, released, doomed>>

(***************************************************************************)
(* The callback has returned; ac_slist_foreach reads the link only now.    *)
(***************************************************************************)
ForeachStep ==
    /\ cursor # NULL
    /\ cursor' = next[cursor]
    /\ seen' = IF cursor' = NULL THEN << >> ELSE Append(seen, data[cursor'])
    /\ UNCHANGED <<life, struct, heap, call, ret, out, order, released, doomed>>

Destroy ==
    /\ life = "open" /\ cursor = NULL
    /\ life' = "destroying"
    /\ released' = << >> /\ doomed' = Values(order)
    /\ Return(Call("destroy", 0, << >>), "ok", << >>)
    /\ UNCHANGED <<struct, heap, cursor, order, seen>>

DestroyFreesFirst ==     \* faulty: frees the node, then reads its data
    /\ life = "destroying" /\ queue # NULL
    /\ free(queue)
    /\ released' = Append(released, data'[queue])
    /\ queue' = next[queue]
    /\ order' = Tail(order)
    /\ UNCHANGED <<life, tail, items, doomed, cursor, call, ret, out, seen>>

(***************************************************************************)
(* One round of ac_slist_destroy, then the release of the struct.          *)
(***************************************************************************)
DestroyStep ==
    /\ life = "destroying"
    /\ IF queue # NULL
       THEN /\ released' = Append(released, data[queue])
            /\ free(queue)
            /\ queue' = next[queue]
            /\ order' = Tail(order)
            /\ UNCHANGED <<life, tail, items, doomed>>
       ELSE /\ life' = "none"
            /\ released' = << >> /\ doomed' = << >>
            /\ UNCHANGED <<struct, heap, order>>
    /\ UNCHANGED <<cursor, call, ret, out, seen>>

Next ==
    \/ New \/ NoQueue
    \/ \E x \in Items, new \in Addrs : Push(x, new)
    \/ Pop
    \/ Foreach \/ ForeachStep
    \/ Destroy \/ DestroyStep

Spec == Init /\ [][Next]_vars
----------------------------------------------------------------------------
Nodes == {order[i] : i \in 1..Len(order)}

TypeOK ==
    /\ life \in {"none", "open", "destroying"}
    /\ queue \in Addrs \cup {NULL} /\ tail \in Addrs \cup {NULL}
    /\ items \in Nat
    /\ next \in [Addrs -> Addrs \cup {NULL, Junk}]
    /\ data \in [Addrs -> Items \cup {Junk}]
    /\ alloc \subseteq Addrs /\ cursor \in Addrs \cup {NULL}
    /\ order \in Seq(Addrs)

(***************************************************************************)
(* The links lead from `queue' through every queued node, oldest first, to *)
(* a NULL; no node is on the way twice.                                    *)
(***************************************************************************)
Linked ==
    /\ queue = IF order = << >> THEN NULL ELSE order[1]
    /\ \A i \in 1..Len(order) :
          next[order[i]] = IF i < Len(order) THEN order[i + 1] ELSE NULL
    /\ \A i, j \in 1..Len(order) : order[i] = order[j] => i = j

(***************************************************************************)
(* Exactly the queued nodes are allocated: none is leaked, none is used    *)
(* after it was freed (ac_queue.c:53, :95, ac_slist.c:326).                *)
(***************************************************************************)
NoLeak == alloc = Nodes

(***************************************************************************)
(* `tail' is never reset, so that it dangles once the last item is popped. *)
(* Whenever push follows it (ac_queue.c:57-58) it is the last live node.   *)
(***************************************************************************)
TailIsLast == queue # NULL => order # << >> /\ tail = order[Len(order)]

(***************************************************************************)
(* The counter that ac_queue_nr_items returns, and that ac_queue_foreach   *)
(* trusts to skip an empty list, agrees with the list.                     *)
(***************************************************************************)
CountOK == life = "open" => items = Len(order)

(***************************************************************************)
(* What push, pop and destroy hand over from one call to the next: links,  *)
(* allocated nodes and the counter agree on what is queued.                *)
(***************************************************************************)
ListIntact == Linked /\ NoLeak /\ CountOK

(***************************************************************************)
(* A foreach whose callback pushes has called action with the items of the *)
(* queue, oldest first, up to a node that is still allocated.              *)
(***************************************************************************)
ForeachInOrder ==
    cursor # NULL =>
        /\ life = "open" /\ Len(seen) \in 1..Len(order)
        /\ cursor = order[Len(seen)]
        /\ seen = SubSeq(Values(order), 1, Len(seen))

(***************************************************************************)
(* destroy passes every item that was queued to free_func once, in order.  *)
(***************************************************************************)
DestroyReleasesAll ==
    life = "destroying" => released \o Values(order) = doomed

(***************************************************************************)
(* The queue is an unbounded FIFO: a push that answers 0 has put in the    *)
(* item it was given, behind the others, and a pop takes out the oldest    *)
(* (ac_queue.c:44, :77).                                                   *)
(***************************************************************************)
F == INSTANCE Fifo WITH
        open <- life = "open",
        cap <- IF life = "open" THEN Unbounded ELSE 0,
        q <- IF life = "open" THEN Values(order) ELSE << >>

ImplementsFifo == F!Spec
=============================================================================
