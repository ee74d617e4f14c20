------------------------------ MODULE SharedBuf ------------------------------
(***************************************************************************)
(* The circular buffer of src/ac_circ_buf.c between two threads, one that  *)
(* pushes and one that pops.  A call reads the other thread's offset when  *)
(* it begins, pushm once more when it may rewind, and writes its own last, *)
(* with the copying of items in between: a step each.  The decisions are   *)
(* those of CircBuf, whose variables these are.                            *)
(*                                                                         *)
(* The library has no lock of its own; what one of the program covers is   *)
(* `lock'.  Without one the code has to rely on its compiler and its       *)
(* machine to keep a thread's memory accesses in order and whole.          *)
(***************************************************************************)
EXTENDS CircBuf

VARIABLES lock,       \* what the program locks: "nothing"; "calls", each of
                      \* them; or "items", a pop until its item is done with
          producer,   \* [pc, name, at, batch]: what is copied, and where to
          consumer    \* the same: what has been copied, and where from

sharedVars == <<vars, lock, producer, consumer>>

Idle == [pc |-> "idle", name |-> "none", at |-> 0, batch |-> << >>]

(***************************************************************************)
(* A consumer that uses the item of its last pop is in no call.            *)
(***************************************************************************)
InCall(self) == self.pc \notin {"idle", "using", "overrun"}

MayCall(self, other) ==
    /\ open /\ self.pc = "idle"
    /\ lock = "nothing" => other.pc # "torn"
    /\ lock = "calls" => ~InCall(other)
    /\ lock = "items" => other.pc = "idle"

BothIdle == producer.pc = "idle" /\ consumer.pc = "idle"

SharedInit ==
    /\ Init /\ lock \in {"nothing", "calls", "items"}
    /\ producer = Idle /\ consumer = Idle
----------------------------------------------------------------------------
Refused(name, n) == Refuse(name, n) /\ UNCHANGED <<lock, producer, consumer>>

(***************************************************************************)
(* The places from offset at on are spoilt from the moment they are        *)
(* chosen until all of b has been copied there.                            *)
(***************************************************************************)
StartCopy(name, at, b) ==
    /\ mem' = Write(mem, at, [i \in 1..Len(b) |-> Junk], elem_sz)
    /\ producer' = [pc |-> "copying", name |-> name, at |-> at, batch |-> b]
    /\ UNCHANGED <<open, type, size, elem_sz, call, ret, out, lock>>

SharedPush(x) ==
    /\ MayCall(producer, consumer)
    /\ IF circ_space = 0
       THEN Refused("push", 1)
       ELSE StartCopy("push", head, <<x>>) /\ UNCHANGED <<head, tail, popped, consumer>>

(***************************************************************************)
(* A batch for which the first test finds no room goes on to the second.   *)
(***************************************************************************)
SharedPushM(b) ==
    /\ MayCall(producer, consumer)
    /\ Len(b) = size => FullBatch
    /\ IF circ_space_to_end < Len(b)
       THEN /\ producer' = [pc |-> "testing", name |-> "pushm", at |-> 0, batch |-> b]
            /\ UNCHANGED <<vars, lock, consumer>>
       ELSE StartCopy("pushm", head, b) /\ UNCHANGED <<head, tail, popped, consumer>>

NoRoom ==
    /\ producer.pc = "testing" /\ ~CanRewind(Len(producer.batch))
    /\ Refuse("pushm", Len(producer.batch))
    /\ producer' = Idle
    /\ UNCHANGED <<lock, consumer>>

(***************************************************************************)
(* The rewind takes the place of an item the consumer may still be using.  *)
(***************************************************************************)
UsedOverrun ==
    /\ popped' = Junk
    /\ consumer' = IF consumer.pc = "using"
                   THEN [consumer EXCEPT !.pc = "overrun"] ELSE consumer

Rewind ==
    /\ producer.pc = "testing" /\ CanRewind(Len(producer.batch))
    /\ ~InCall(consumer)
    /\ head' = 0 /\ tail' = 0
    /\ StartCopy("pushm", 0, producer.batch)
    /\ UsedOverrun

(***************************************************************************)
(* The rewind writes both offsets, and one of them is the consumer's.      *)
(* Without a lock a call of the consumer may see, or write, one of them    *)
(* between the two stores, and then counts items that nobody pushed: the   *)
(* model follows such a program no further.                                *)
(***************************************************************************)
Tear ==
    /\ producer.pc = "testing" /\ CanRewind(Len(producer.batch))
    /\ lock = "nothing"
    /\ producer' = [producer EXCEPT !.pc = "torn"]
    /\ UNCHANGED <<vars, lock, consumer>>

Torn == producer.pc = "torn" /\ UNCHANGED sharedVars

EndCopy ==
    /\ producer.pc = "copying"
    /\ mem' = Write(mem, producer.at, producer.batch, elem_sz)
    /\ producer' = [producer EXCEPT !.pc = "publishing"]
    /\ UNCHANGED <<open, type, size, elem_sz, head, tail, popped, call, ret, out,
                   lock, consumer>>

Publish ==
    /\ producer.pc = "publishing"
    /\ head' = Advance(producer.at, Len(producer.batch))
    /\ producer' = Idle
    /\ Return(Call(producer.name, Len(producer.batch), producer.batch), "ok", << >>)
    /\ UNCHANGED <<open, type, size, elem_sz, tail, mem, popped, lock, consumer>>
----------------------------------------------------------------------------
Untouched == UNCHANGED <<open, type, size, elem_sz, head, mem, lock, producer>>

SharedPop ==
    /\ MayCall(consumer, producer)
    /\ IF circ_count = 0
       THEN Refused("pop", 1)
       ELSE /\ consumer' = [pc |-> "popping", name |-> "pop", at |-> tail,
                            batch |-> <<mem[tail]>>]
            /\ Untouched /\ UNCHANGED <<tail, popped, call, ret, out>>

SharedPopM(n) ==
    /\ MayCall(consumer, producer)
    /\ IF circ_count_to_end < n
       THEN Refused("popm", n)
       ELSE /\ consumer' = [pc |-> "reading", name |-> "popm", at |-> tail,
                            batch |-> [i \in 1..n |-> Junk]]
            /\ Untouched /\ UNCHANGED <<tail, popped, call, ret, out>>

EndRead ==
    /\ consumer.pc = "reading"
    /\ consumer' = [consumer EXCEPT !.pc = "releasing",
                                    !.batch = Read(tail, Len(@))]
    /\ Untouched /\ UNCHANGED <<tail, popped, call, ret, out>>

(***************************************************************************)
(* The tail moves last.  popm is done with the items by then; of pop's the *)
(* caller has a pointer, which it follows until it is Done with the item.  *)
(***************************************************************************)
Release ==
    /\ consumer.pc \in {"popping", "releasing"}
    /\ tail' = Advance(tail, Len(consumer.batch))
    /\ Return(Call(consumer.name, Len(consumer.batch), << >>), "ok", consumer.batch)
    /\ IF consumer.pc = "popping"
       THEN consumer' = [consumer EXCEPT !.pc = "using"] /\ popped' = consumer.batch[1]
       ELSE consumer' = Idle /\ popped' = Junk
    /\ Untouched

Done ==
    /\ consumer.pc \in {"using", "overrun"}
    /\ consumer' = Idle /\ popped' = Junk
    /\ Untouched /\ UNCHANGED <<tail, call, ret, out>>
----------------------------------------------------------------------------
(***************************************************************************)
(* A buffer is made, emptied and destroyed by one thread, when it is not   *)
(* in use.                                                                 *)
(***************************************************************************)
Alone ==
    /\ BothIdle
    /\ (\E s \in Sizes, e \in ElemSizes : New(s, e)) \/ Reset \/ Destroy
    /\ UNCHANGED <<lock, producer, consumer>>

SharedNext ==
    \/ Alone
    \/ \E x \in Items : SharedPush(x)
    \/ \E b \in Batches : SharedPushM(b)
    \/ NoRoom \/ Rewind \/ Tear \/ Torn
    \/ EndCopy \/ Publish
    \/ SharedPop
    \/ \E n \in 0..MaxBatch : SharedPopM(n)
    \/ EndRead \/ Release \/ Done

SharedSpec == SharedInit /\ [][SharedNext]_sharedVars
----------------------------------------------------------------------------
(***************************************************************************)
(* The two threads never use a place at the same time: the producer writes *)
(* where no item is that the consumer reads, or still has a pointer to     *)
(* (ac_circ_buf.c:178, :208, :236), although the offset that each read     *)
(* when its call began may be old by then.  What a rewind (:144) puts in   *)
(* the place of an item that is in use is the only exception, and there is *)
(* none if the lock is kept until the item is done with.                   *)
(***************************************************************************)
Run(thread) == {Advance(thread.at, i - 1) : i \in 1..Len(thread.batch)}

NeverSamePlace ==
    /\ producer.pc = "copying" /\ consumer.pc \notin {"idle", "overrun"} =>
           Run(producer) \cap Run(consumer) = {}
    /\ consumer.pc = "overrun" => lock # "items"
=============================================================================
