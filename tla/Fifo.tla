-------------------------------- MODULE Fifo --------------------------------
(***************************************************************************)
(* What the FIFO containers of libac promise their caller: a sequence of   *)
(* items that are handed out in the order they were put in.  CircBuf       *)
(* (src/ac_circ_buf.c) implements it with a bounded capacity, Queue        *)
(* (src/ac_queue.c) with an unbounded one.                                 *)
(*                                                                         *)
(* A call is one step.  `call' says which one was made last, of how many   *)
(* items, and which items it took from its caller; `ret' whether it        *)
(* succeeded; and `out' holds the items it handed over, in order.          *)
(***************************************************************************)
EXTENDS Naturals, Sequences

CONSTANTS Items,       \* what callers store
          MaxBatch,    \* longest batch a caller passes
          Unbounded    \* the capacity of a container that is never full

VARIABLES open,  \* the container exists
          cap,   \* how many items it holds at most: a number or Unbounded
          q,     \* its contents, oldest first
          call,  \* the last call: [name, count, items]
          ret,   \* "ok" or "refused"
          out    \* the items the last call returned

vars == <<open, cap, q, call, ret, out>>

Batches == UNION {[1..n -> Items] : n \in 0..MaxBatch}

(***************************************************************************)
(* n more items fit.                                                       *)
(***************************************************************************)
Room(n) == cap = Unbounded \/ Len(q) + n <= cap

Call(name, n, taken) == [name |-> name, count |-> n, items |-> taken]

Ok(c, items) == call' = c /\ ret' = "ok" /\ out' = items

(***************************************************************************)
(* A call that is refused takes nothing and hands over nothing.            *)
(***************************************************************************)
Refuse(name, n) ==
    /\ call' = Call(name, n, << >>) /\ ret' = "refused" /\ out' = << >>
    /\ UNCHANGED <<open, cap, q>>

Init ==
    /\ open = FALSE /\ cap = 0 /\ q = << >>
    /\ call = Call("none", 0, << >>) /\ ret = "ok" /\ out = << >>

(***************************************************************************)
(* A container starts empty, whatever was done with an earlier one.        *)
(***************************************************************************)
New ==
    /\ ~open
    /\ \/ /\ open' = TRUE
          /\ cap' \in Nat \cup {Unbounded}
          /\ q' = << >>
          /\ Ok(Call("new", 0, << >>), << >>)
       \/ Refuse("new", 0)

(***************************************************************************)
(* A call without a container (a NULL handle) fails.                       *)
(***************************************************************************)
Absent == ~open /\ \E name \in {"push", "pop"} : Refuse(name, 1)

(***************************************************************************)
(* A push that succeeds has put in the item it was called with.            *)
(***************************************************************************)
Push(x) ==
    /\ open
    /\ \/ /\ Room(1)
          /\ q' = Append(q, x)
          /\ Ok(Call("push", 1, <<x>>), << >>)
          /\ UNCHANGED <<open, cap>>
       \/ ~Room(1) /\ Refuse("push", 1)

(***************************************************************************)
(* A batch goes in as a whole or not at all.  It may be refused for want   *)
(* of contiguous room, but never by an empty container that could hold it. *)
(***************************************************************************)
PushM(b) ==
    /\ open
    /\ \/ /\ Room(Len(b))
          /\ q' = q \o b
          /\ Ok(Call("pushm", Len(b), b), << >>)
          /\ UNCHANGED <<open, cap>>
       \/ /\ Len(b) > 0
          /\ Room(Len(b)) => q # << >>
          /\ Refuse("pushm", Len(b))

Pop ==
    /\ open
    /\ \/ /\ q # << >>
          /\ q' = Tail(q)
          /\ Ok(Call("pop", 1, << >>), <<Head(q)>>)
          /\ UNCHANGED <<open, cap>>
       \/ q = << >> /\ Refuse("pop", 1)

(***************************************************************************)
(* n items come out as a whole or not at all; the refusal of what is there *)
(* is possible only for more than one item.                                *)
(***************************************************************************)
PopM(n) ==
    /\ open
    /\ \/ /\ n <= Len(q)
          /\ q' = SubSeq(q, n + 1, Len(q))
          /\ Ok(Call("popm", n, << >>), SubSeq(q, 1, n))
          /\ UNCHANGED <<open, cap>>
       \/ n > 0 /\ (n <= Len(q) => n > 1) /\ Refuse("popm", n)

Reset ==
    /\ open
    /\ q' = << >> /\ Ok(Call("reset", 0, << >>), << >>)
    /\ UNCHANGED <<open, cap>>

Destroy ==
    /\ open
    /\ open' = FALSE /\ q' = << >> /\ cap' = 0
    /\ Ok(Call("destroy", 0, << >>), << >>)

Next ==
    \/ New \/ Absent
    \/ \E x \in Items : Push(x)
    \/ \E b \in Batches : PushM(b)
    \/ Pop
    \/ \E n \in 0..MaxBatch : PopM(n)
    \/ Reset \/ Destroy

Spec == Init /\ [][Next]_vars
=============================================================================
