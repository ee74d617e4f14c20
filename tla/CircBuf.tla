------------------------------- MODULE CircBuf -------------------------------
(***************************************************************************)
(* The circular buffer of src/ac_circ_buf.c.  head and tail are unsigned   *)
(* offsets into the storage, counted in bytes when items are copied        *)
(* (CPY_BUF) and in pointers when pointers are stored (PTR_BUF, where      *)
(* elem_sz is 1).  One action is one call of the library's interface.      *)
(*                                                                         *)
(* u32 arithmetic is modulo Word == 2^WordBits, a scaled-down 2^32.  An    *)
(* item of elem_sz bytes is kept at the offset of its first byte: writing  *)
(* it spoils what any item at an overlapping offset held.                  *)
(***************************************************************************)
EXTENDS Integers, Sequences, FiniteSetsExt

CONSTANTS Items,      \* what callers store
          Junk,       \* indeterminate memory, or a spoilt item
          Sizes,      \* the sizes callers ask ac_circ_buf_new for
          ElemSizes,  \* the elem_sz they ask for; 0 asks for pointer storage
          MaxBatch,   \* bound: longest batch passed to pushm and popm
          FullBatch,  \* whether pushm is called with as many items as `size'
          WordBits,   \* width of u32
          Unbounded   \* the capacity Fifo uses for queues; never this one's

VARIABLES open,     \* a buffer exists
          type,     \* "PTR_BUF" or "CPY_BUF"
          size, elem_sz, head, tail,
          mem,      \* the storage, from offsets to items
          popped,   \* the item ac_circ_buf_pop last returned a pointer to,
                    \* until the tail is moved by anything else; else Junk
          call,     \* the last call: its name, how many items it was about,
                    \* and those it took
          ret, out  \* its outcome and the items it returned

buf  == <<type, size, elem_sz, head, tail, mem>>
vars == <<open, buf, popped, call, ret, out>>
----------------------------------------------------------------------------
Word == 2^WordBits
Add(x, y) == (x + y) % Word
Sub(x, y) == (x - y) % Word
Mul(x, y) == (x * y) % Word

Bits(x)      == {i \in 0..WordBits - 1 : (x \div 2^i) % 2 = 1}
BitAnd(x, y) == MapThenSumSet(LAMBDA i : 2^i, Bits(x) \cap Bits(y))

is_pow2(v) == BitAnd(v, Sub(v, 1)) = 0

Mask == Mul(Sub(size, 1), elem_sz)     \* the & of every offset update

(***************************************************************************)
(* Counts and room, in items.                                              *)
(***************************************************************************)
circ_count == BitAnd(Sub(head, tail) \div elem_sz, Sub(size, 1))

SpaceWithoutGap == Sub(size, circ_count)     \* faulty: no place kept free

circ_space ==
    BitAnd(Sub(tail, Add(head, elem_sz)) \div elem_sz, Sub(size, 1))

circ_count_to_end ==
    LET end == Sub(size, tail \div elem_sz)
        n   == BitAnd(Add(head \div elem_sz, end), Sub(size, 1))
    IN  IF n < end THEN n ELSE end

SpaceToEndPastGap ==     \* faulty: < for <=, fills the place behind tail 0
    LET end == Sub(Sub(size, 1), head \div elem_sz)
        n   == BitAnd(Add(end, tail \div elem_sz), Sub(size, 1))
    IN  IF n < end THEN n ELSE Add(end, 1)

circ_space_to_end ==
    LET end == Sub(Sub(size, 1), head \div elem_sz)
        n   == BitAnd(Add(end, tail \div elem_sz), Sub(size, 1))
    IN  IF n <= end THEN n ELSE Add(end, 1)

(***************************************************************************)
(* The offset n items after x, and the items ac_circ_buf_foreach visits.   *)
(***************************************************************************)
AdvanceUnmasked(x, n) == Add(x, Mul(n, elem_sz))     \* faulty: never wraps

Advance(x, n) == BitAnd(Add(x, Mul(n, elem_sz)), Mask)

Contents == [i \in 1..circ_count |-> mem[Advance(tail, i - 1)]]

(***************************************************************************)
(* memcpy of the items b to consecutive places from offset at, in a        *)
(* storage m of items sz long; memcpy of n items from offset at.           *)
(***************************************************************************)
Write(m, at, b, sz) ==
    [x \in DOMAIN m |->
        IF \E i \in 1..Len(b) : x = at + (i - 1) * sz
        THEN b[((x - at) \div sz) + 1]
        ELSE IF at - sz < x /\ x < at + Len(b) * sz THEN Junk ELSE m[x]]

Read(at, n) == [i \in 1..n |-> mem[at + (i - 1) * elem_sz]]
----------------------------------------------------------------------------
Batches == UNION {[1..n -> Items] : n \in 0..MaxBatch}

Call(name, n, taken) == [name |-> name, count |-> n, items |-> taken]

Return(c, r, items) == call' = c /\ ret' = r /\ out' = items

Refuse(name, n) ==
    /\ Return(Call(name, n, << >>), "refused", << >>)
    /\ UNCHANGED <<open, buf, popped>>

Init ==
    /\ open = FALSE /\ type = "PTR_BUF" /\ size = 1 /\ elem_sz = 1
    /\ head = 0 /\ tail = 0 /\ mem = [x \in {0} |-> Junk]
    /\ popped = Junk
    /\ call = Call("none", 0, << >>) /\ ret = "ok" /\ out = << >>

New(s, e) ==
    /\ ~open
    /\ IF is_pow2(s)
       THEN /\ open' = TRUE /\ size' = s /\ head' = 0 /\ tail' = 0
            /\ type' = IF e = 0 THEN "PTR_BUF" ELSE "CPY_BUF"
            /\ elem_sz' = IF e = 0 THEN 1 ELSE e
            /\ mem' = [x \in 0..(s * elem_sz') - 1 |-> Junk]
            /\ popped' = Junk
            /\ Return(Call("new", 0, << >>), "ok", << >>)
       ELSE Refuse("new", 0)

Push(x) ==
    /\ open
    /\ IF circ_space = 0
       THEN Refuse("push", 1)
       ELSE /\ mem' = Write(mem, head, <<x>>, elem_sz)
            /\ head' = Advance(head, 1)
            /\ Return(Call("push", 1, <<x>>), "ok", << >>)
            /\ UNCHANGED <<open, type, size, elem_sz, tail, popped>>

RewindOver(n) == n <= size     \* faulty: drops what is in the buffer

CanRewind(n) == circ_count = 0 /\ n <= size

(***************************************************************************)
(* Both offsets go back to 0 when an empty buffer lacks contiguous room.   *)
(***************************************************************************)
PushM(b) ==
    LET rewind == circ_space_to_end < Len(b)
        at     == IF rewind THEN 0 ELSE head
    IN  /\ open
        /\ Len(b) = size => FullBatch
        /\ IF rewind /\ ~CanRewind(Len(b))
           THEN Refuse("pushm", Len(b))
           ELSE /\ mem' = Write(mem, at, b, elem_sz)
                /\ head' = Advance(at, Len(b))
                /\ tail' = IF rewind THEN 0 ELSE tail
                /\ popped' = IF rewind THEN Junk ELSE popped
                /\ Return(Call("pushm", Len(b), b), "ok", << >>)
                /\ UNCHANGED <<open, type, size, elem_sz>>

Pop ==
    /\ open
    /\ IF circ_count = 0
       THEN Refuse("pop", 1)
       ELSE /\ tail' = Advance(tail, 1)
            /\ popped' = mem[tail]
            /\ Return(Call("pop", 1, << >>), "ok", <<mem[tail]>>)
            /\ UNCHANGED <<open, type, size, elem_sz, head, mem>>

PopM(n) ==
    /\ open
    /\ IF circ_count_to_end < n
       THEN Refuse("popm", n)
       ELSE /\ tail' = Advance(tail, n)
            /\ popped' = IF n = 0 THEN popped ELSE Junk
            /\ Return(Call("popm", n, << >>), "ok", Read(tail, n))
            /\ UNCHANGED <<open, type, size, elem_sz, head, mem>>

Reset ==
    /\ open
    /\ head' = 0 /\ tail' = 0 /\ popped' = Junk
    /\ Return(Call("reset", 0, << >>), "ok", << >>)
    /\ UNCHANGED <<open, type, size, elem_sz, mem>>

Destroy ==
    /\ open
    /\ open' = FALSE /\ popped' = Junk
    /\ head' = 0 /\ tail' = 0      \* the struct is gone; any value will do
    /\ Return(Call("destroy", 0, << >>), "ok", << >>)
    /\ mem' = [x \in DOMAIN mem |-> Junk]
    /\ UNCHANGED <<type, size, elem_sz>>

Next ==
    \/ \E s \in Sizes, e \in ElemSizes : New(s, e)
    \/ \E x \in Items : Push(x)
    \/ \E b \in Batches : PushM(b)
    \/ Pop
    \/ \E n \in 0..MaxBatch : PopM(n)
    \/ Reset
    \/ Destroy

Spec == Init /\ [][Next]_vars
----------------------------------------------------------------------------
(***************************************************************************)
(* head and tail are always the offset of one of the `size' item places    *)
(* (ac_circ_buf.c:156, :182, :211, :238), and the fields have their types. *)
(***************************************************************************)
Places == {i * elem_sz : i \in 0..size - 1}

TypeOK ==
    /\ open \in BOOLEAN
    /\ type \in {"PTR_BUF", "CPY_BUF"}
    /\ size \in Nat \ {0} /\ elem_sz \in Nat \ {0}
    /\ head \in Places /\ tail \in Places
    /\ mem \in [0..(size * elem_sz) - 1 -> Items \cup {Junk}]
    /\ popped \in Items \cup {Junk}

(***************************************************************************)
(* The contiguous room and the contiguous items that circ_space_to_end and *)
(* circ_count_to_end report end inside the storage, so that the memcpys of *)
(* pushm and popm do, and the two never overlap.  Where there is room for  *)
(* an item, or an item, there is such a run: one item is never refused.    *)
(***************************************************************************)
RunsFit ==
    /\ head + circ_space_to_end * elem_sz <= size * elem_sz
    /\ tail + circ_count_to_end * elem_sz <= size * elem_sz
    /\ circ_count + circ_space_to_end < size
    /\ circ_count > 0 => circ_count_to_end > 0
    /\ circ_space > 0 => circ_space_to_end > 0

(***************************************************************************)
(* ac_circ_buf_pop hands out a pointer into the buffer when it stores      *)
(* copies (ac_circ_buf.c:236).  The item under it stays intact, whatever   *)
(* is pushed, until the tail moves again: the place behind the tail is the *)
(* one that is kept free to tell a full buffer from an empty one.          *)
(***************************************************************************)
PoppedIntact ==
    popped # Junk =>
        mem[IF tail = 0 THEN (size - 1) * elem_sz ELSE tail - elem_sz] = popped

(***************************************************************************)
(* ac_circ_buf_push and ac_circ_buf_pushm return "0 on success or -1" when *)
(* there is no room (ac_circ_buf.c:138, :170): 0 means that the items are  *)
(* in the buffer, which ac_circ_buf_count then counts.                     *)
(***************************************************************************)
PushedIsCounted ==
    [][ret' = "ok" =>
        /\ (\E x \in Items : Push(x)) => circ_count' = circ_count + 1
        /\ \A b \in Batches : PushM(b) => circ_count' = circ_count + Len(b)]_vars

(***************************************************************************)
(* The buffer is a FIFO of size - 1 items: a call that answers 0 has put   *)
(* in all that it was called with, or taken out as many items as it was    *)
(* asked for, the oldest first; one that is refused has done nothing, and  *)
(* only for lack of room (ac_circ_buf.c:138, :170, :196, :224).            *)
(***************************************************************************)
F == INSTANCE Fifo WITH
        q <- IF open THEN Contents ELSE << >>,
        cap <- IF open THEN size - 1 ELSE 0

ImplementsFifo == F!Spec
=============================================================================
