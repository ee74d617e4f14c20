---------------------------- MODULE CircBufProofs ----------------------------
(***************************************************************************)
(* Proofs about CircBuf and SharedBuf, for every set of items, all sizes,  *)
(* element sizes, batch lengths and word widths that satisfy the           *)
(* assumptions below.                                                      *)
(*                                                                         *)
(* They work in places instead of offsets: the item place an offset x is   *)
(* at is x \div elem_sz, and H and T are the places of head and tail.      *)
(***************************************************************************)
EXTENDS SharedBuf, Lemmas, SequenceTheorems

GoodSizes == {s \in Sizes : is_pow2(s)} \cup {1}
GoodElems == (ElemSizes \cup {1}) \ {0}

ASSUME ConstantsAssumption ==
    /\ Sizes \subseteq 1..Word - 1
    /\ ElemSizes \subseteq Nat
    /\ MaxBatch \in Nat
    /\ Word \in Nat /\ Word > 1
    /\ Junk \notin Items
    /\ Unbounded \notin Nat

(***************************************************************************)
(* FifoRefinement and the theorems about SharedBuf need this one: a batch  *)
(* of exactly `size' items is lost (see PushedIsCounted).                  *)
(***************************************************************************)
ASSUME BatchAssumption == FullBatch = FALSE

(***************************************************************************)
(* What `&' computes.  This is where powers of two come in: the last line  *)
(* holds for those only.  ac_circ_buf_new makes sure that the size is one, *)
(* but not that elem_sz is, nor that the whole storage can be addressed    *)
(* with a u32; both are assumed here (items of 3 bytes do get lost).       *)
(***************************************************************************)
ASSUME MaskAssumption ==
    \A s \in GoodSizes, e \in GoodElems :
        /\ \E k \in 1..Word : Word = (k * s) * e
        /\ \A i \in 0..Word - 1 : BitAnd(i, s - 1) = i % s
        /\ \A j \in 0..2 * s :
              BitAnd((j * e) % Word, (s - 1) * e) = (j % s) * e

H == head \div elem_sz
T == tail \div elem_sz

Inv ==
    /\ TypeOK
    /\ size \in GoodSizes /\ elem_sz \in GoodElems
    /\ H \in 0..size - 1 /\ head = H * elem_sz
    /\ T \in 0..size - 1 /\ tail = T * elem_sz

----------------------------------------------------------------------------
(***************************************************************************)
(* A place multiplied by elem_sz is an offset that does not wrap.          *)
(***************************************************************************)
LEMMA Positive ==
    ASSUME Inv
    PROVE  /\ size \in Nat \ {0} /\ elem_sz \in Nat \ {0}
           /\ H \in 0..size - 1 /\ T \in 0..size - 1
  BY DEF Inv, TypeOK

LEMMA WordSize ==
    ASSUME Inv
    PROVE  /\ size \in Nat \ {0} /\ elem_sz \in Nat \ {0} /\ Word \in Nat \ {0}
           /\ size < Word
           /\ \E k \in Nat \ {0} : Word = (k * size) * elem_sz
           /\ size * elem_sz <= Word
  <1>1. PICK k \in 1..Word : Word = (k * size) * elem_sz
        BY MaskAssumption DEF Inv
  <1>2. size \in Nat \ {0} /\ elem_sz \in Nat \ {0} /\ Word \in Nat \ {0}
        BY ConstantsAssumption DEF Inv, TypeOK
  <1>3. size < Word
        BY ConstantsAssumption DEF Inv, GoodSizes
  <1>4. size * elem_sz <= Word
        BY <1>1, <1>2
  <1> QED BY <1>1, <1>2, <1>3, <1>4

LEMMA NoWrap ==
    ASSUME NEW x \in 0..Word - 1
    PROVE  x % Word = x
  BY ConstantsAssumption, x = 0 * Word + x, DivMod

LEMMA MaskIs ==
    ASSUME Inv
    PROVE  Sub(size, 1) = size - 1 /\ Mask = (size - 1) * elem_sz
  <1>1. size - 1 \in 0..Word - 1 /\ (size - 1) * elem_sz \in 0..Word - 1
        BY WordSize
  <1> QED BY <1>1, NoWrap DEF Sub, Mask, Mul

LEMMA AdvanceIs ==
    ASSUME Inv, NEW i \in 0..size - 1, NEW n \in 0..size
    PROVE  Advance(i * elem_sz, n) = ((i + n) % size) * elem_sz
  <1>1. (i * elem_sz + ((n * elem_sz) % Word)) % Word = ((i + n) * elem_sz) % Word
    <2>1. /\ i \in Nat /\ n \in Nat
          /\ elem_sz \in Nat /\ Word \in Nat \ {0}
          BY Positive, ConstantsAssumption
    <2> QED BY <2>1, ModOffsets
  <1>2. Advance(i * elem_sz, n) = BitAnd(((i + n) * elem_sz) % Word, (size - 1) * elem_sz)
        BY <1>1, MaskIs DEF Advance, Add, Mul
  <1>3. i + n \in 0..2 * size
        BY Positive
  <1> QED BY <1>2, <1>3, MaskAssumption DEF Inv

(***************************************************************************)
(* A wrapped distance of d places, divided by elem_sz and masked.          *)
(***************************************************************************)
LEMMA MaskedDistance ==
    ASSUME Inv, NEW d \in Int, -size <= d, d < size
    PROVE  BitAnd(((d * elem_sz) % Word) \div elem_sz, size - 1) = d % size
  <1>1. PICK k \in Nat \ {0} : Word = (k * size) * elem_sz
        BY WordSize
  <1> DEFINE m == k * size
  <1>2. m \in Nat \ {0} /\ size <= m /\ m <= Word /\ Word = m * elem_sz
        BY <1>1, Positive
  <1> HIDE DEF m
  <1>3. ((d * elem_sz) % Word) \div elem_sz = d % m
        BY <1>2, PlaceDistance, Positive, ConstantsAssumption
  <1>4. d % m \in 0..Word - 1
    <2>1. d % m \in 0..m - 1 /\ m \in Nat /\ m <= Word
          BY <1>2, ModBounds
    <2> QED BY <2>1, ConstantsAssumption
  <1>5. BitAnd(d % m, size - 1) = (d % m) % size
        BY <1>4, MaskAssumption DEF Inv
  <1>6. (d % m) % size = d % size
        BY ModTwice, WordSize DEF m
  <1> QED BY <1>3, <1>5, <1>6

LEMMA MaskedSum ==
    ASSUME Inv, NEW x \in Int
    PROVE  BitAnd(x % Word, size - 1) = x % size
  <1>1. PICK k \in Nat \ {0} : Word = (k * size) * elem_sz
        BY WordSize
  <1> DEFINE m == k * elem_sz
  <1>2. m \in Nat \ {0} /\ Word = m * size
        BY <1>1, WordSize
  <1> HIDE DEF m
  <1>3. x % Word \in 0..Word - 1
        BY ModBounds, WordSize
  <1>4. BitAnd(x % Word, size - 1) = (x % Word) % size
        BY <1>3, MaskAssumption DEF Inv
  <1> QED BY <1>2, <1>4, ModTwice, WordSize

----------------------------------------------------------------------------
(***************************************************************************)
(* What the four counting functions return.                                *)
(***************************************************************************)
LEMMA CountIs ==
    ASSUME Inv
    PROVE  circ_count = IF H >= T THEN H - T ELSE size - (T - H)
  <1>1. Sub(head, tail) = ((H - T) * elem_sz) % Word
        BY Positive DEF Inv, Sub
  <1>2. circ_count = (H - T) % size
    <2> DEFINE d == H - T
    <2>1. d \in Int /\ -size <= d /\ d < size
          BY Positive
    <2> HIDE DEF d
    <2>2. BitAnd(((d * elem_sz) % Word) \div elem_sz, size - 1) = d % size
          BY <2>1, MaskedDistance
    <2> QED BY <1>1, <2>2, MaskIs DEF circ_count, d
  <1> QED BY <1>2, Positive, ModPlaces

LEMMA SpaceIs ==
    ASSUME Inv
    PROVE  circ_space = size - 1 - circ_count
  <1>1. Sub(tail, Add(head, elem_sz)) = ((T - H - 1) * elem_sz) % Word
    <2>1. /\ H \in Nat /\ T \in Nat
          /\ elem_sz \in Nat /\ Word \in Nat \ {0}
          BY Positive, ConstantsAssumption
    <2>2. (T * elem_sz - ((H * elem_sz + elem_sz) % Word)) % Word
          = ((T - H - 1) * elem_sz) % Word
          BY <2>1, ModOffsets
    <2> QED BY <2>2 DEF Inv, Sub, Add
  <1>2. circ_space = (T - H - 1) % size
    <2> DEFINE d == T - H - 1
    <2>1. d \in Int /\ -size <= d /\ d < size
          BY Positive
    <2> HIDE DEF d
    <2>2. BitAnd(((d * elem_sz) % Word) \div elem_sz, size - 1) = d % size
          BY <2>1, MaskedDistance
    <2> QED BY <1>1, <2>2, MaskIs DEF circ_space, d
  <1>3. circ_space = IF H >= T THEN size - 1 - (H - T) ELSE T - H - 1
        BY <1>2, Positive, ModPlaces
  <1> QED BY <1>3, Positive, CountIs

LEMMA CountToEndIs ==
    ASSUME Inv
    PROVE  circ_count_to_end = IF H >= T THEN H - T ELSE size - T
  <1>1. Sub(size, T) = size - T
        BY Positive, NoWrap, WordSize DEF Sub
  <1>2. BitAnd(Add(H, size - T), size - 1) = (H + (size - T)) % size
        BY Positive, MaskedSum DEF Add
  <1>3. (H + (size - T)) % size = IF H >= T THEN H - T ELSE size - (T - H)
        BY Positive, ModPlaces
  <1> QED BY <1>1, <1>2, <1>3, MaskIs, Positive DEF circ_count_to_end, H, T

LEMMA SpaceToEndIs ==
    ASSUME Inv
    PROVE  circ_space_to_end = IF H < T THEN T - H - 1
                               ELSE IF T = 0 THEN size - 1 - H ELSE size - H
  <1>1. Sub(size - 1, H) = size - 1 - H
        BY Positive, NoWrap, WordSize DEF Sub
  <1>2. Add(size - 1 - H, 1) = size - H
        BY Positive, NoWrap, WordSize DEF Add
  <1>3. BitAnd(Add(size - 1 - H, T), size - 1) = (size - 1 - H + T) % size
        BY Positive, MaskedSum DEF Add
  <1>4. (size - 1 - H + T) % size = IF H >= T THEN size - 1 - (H - T) ELSE T - H - 1
        BY Positive, ModPlaces
  <1> QED BY <1>1, <1>2, <1>3, <1>4, MaskIs, Positive DEF circ_space_to_end, H, T

----------------------------------------------------------------------------
(***************************************************************************)
(* A write changes the items it covers and no other.                       *)
(***************************************************************************)
LEMMA WriteHere ==
    ASSUME NEW m, NEW at \in Nat, NEW b, NEW sz \in Nat \ {0}, Len(b) \in Nat,
           NEW i \in 1..Len(b), at + (i - 1) * sz \in DOMAIN m
    PROVE  Write(m, at, b, sz)[at + (i - 1) * sz] = b[i]
  <1>1. ((at + (i - 1) * sz) - at) \div sz = i - 1
    <2>1. (at + (i - 1) * sz) - at = (i - 1) * sz + 0 /\ i - 1 \in Int
          OBVIOUS
    <2> QED BY <2>1, DivMod
  <1> QED BY <1>1 DEF Write

Clear(x, at, n, sz) == x <= at - sz \/ x >= at + n * sz

LEMMA WriteElsewhere ==
    ASSUME NEW m, NEW at \in Nat, NEW b, NEW sz \in Nat \ {0}, Len(b) \in Nat,
           NEW x \in DOMAIN m, x \in Int, Clear(x, at, Len(b), sz)
    PROVE  Write(m, at, b, sz)[x] = m[x]
  <1> USE DEF Clear
  <1>1. ASSUME NEW i \in 1..Len(b) PROVE x # at + (i - 1) * sz
    <2>1. (i - 1) * sz >= 0 /\ (i - 1) * sz < Len(b) * sz
          OBVIOUS
    <2> QED BY <2>1
  <1> QED BY <1>1 DEF Write

LEMMA WriteType ==
    ASSUME NEW S, NEW n \in Nat, NEW m \in [0..n - 1 -> S \cup {Junk}], NEW at \in Nat,
           NEW b \in Seq(S), NEW sz \in Nat \ {0}
    PROVE  Write(m, at, b, sz) \in [0..n - 1 -> S \cup {Junk}]
  <1>1. ASSUME NEW x \in 0..n - 1 PROVE Write(m, at, b, sz)[x] \in S \cup {Junk}
    <2>1. CASE \E i \in 1..Len(b) : x = at + (i - 1) * sz
      <3>1. PICK i \in 1..Len(b) : x = at + (i - 1) * sz
            BY <2>1
      <3>2. Len(b) \in Nat /\ at + (i - 1) * sz \in DOMAIN m
            BY <3>1
      <3>3. Write(m, at, b, sz)[x] = b[i]
            BY <3>1, <3>2, WriteHere
      <3> QED BY <3>3
    <2>2. CASE ~ \E i \in 1..Len(b) : x = at + (i - 1) * sz
          BY <2>2 DEF Write
    <2> QED BY <2>1, <2>2
  <1> QED BY <1>1 DEF Write

----------------------------------------------------------------------------
(***************************************************************************)
(* Inv is inductive.                                                       *)
(***************************************************************************)
LEMMA PlaceOffset ==
    ASSUME NEW e \in Nat \ {0}, NEW i \in Int
    PROVE  (i * e) \div e = i
  BY i * e = i * e + 0, DivMod

LEMMA ZeroPlace ==
    ASSUME NEW e \in Nat \ {0}
    PROVE  0 \div e = 0 /\ 0 * e = 0
  OBVIOUS

LEMMA Batch ==
    ASSUME NEW b \in Batches
    PROVE  b \in Seq(Items) /\ Len(b) \in Nat
  BY ConstantsAssumption DEF Batches

(***************************************************************************)
(* A step that keeps the buffer and leaves both offsets at places.         *)
(***************************************************************************)
LEMMA MoveInv ==
    ASSUME Inv, UNCHANGED <<open, type, size, elem_sz>>,
           NEW i \in 0..size - 1, NEW j \in 0..size - 1,
           head' = i * elem_sz, tail' = j * elem_sz,
           mem' \in [0..(size * elem_sz) - 1 -> Items \cup {Junk}],
           popped' \in Items \cup {Junk}
    PROVE  Inv'
  <1>1. head' \div elem_sz = i /\ tail' \div elem_sz = j
    <2>1. i \in Int /\ j \in Int /\ elem_sz \in Nat \ {0}
          BY Positive
    <2> QED BY <2>1, PlaceOffset
  <1>2. TypeOK'
        BY DEF Inv, TypeOK, Places
  <1> QED BY <1>1, <1>2 DEF Inv, H, T, TypeOK

(***************************************************************************)
(* An advance of n places from place i ends at a place.                    *)
(***************************************************************************)
LEMMA AdvancePlace ==
    ASSUME Inv, NEW i \in 0..size - 1, NEW n \in 0..size
    PROVE  \E j \in 0..size - 1 : Advance(i * elem_sz, n) = j * elem_sz
  <1>1. (i + n) % size \in 0..size - 1
    <2>1. size \in Nat \ {0} /\ i + n \in Int
          BY Positive
    <2> QED BY <2>1
  <1> QED BY <1>1, AdvanceIs

LEMMA InitInv == Init => Inv
  <1> SUFFICES ASSUME Init PROVE Inv
      OBVIOUS
  <1>1. size = 1 /\ elem_sz = 1 /\ H = 0 /\ T = 0 /\ head = 0 /\ tail = 0
        BY DEF Init, H, T
  <1>2. mem \in [0..(size * elem_sz) - 1 -> Items \cup {Junk}]
        BY <1>1 DEF Init
  <1>3. TypeOK
        BY <1>1, <1>2 DEF Init, TypeOK, Places
  <1> QED BY <1>1, <1>3 DEF Inv, GoodSizes, GoodElems

LEMMA ReadType ==
    ASSUME Inv, NEW i \in 0..size - 1
    PROVE  mem[i * elem_sz] \in Items \cup {Junk}
  <1>1. i * elem_sz \in 0..(size * elem_sz) - 1
        BY Positive
  <1> QED BY <1>1 DEF Inv, TypeOK

LEMMA NextInv == Inv /\ [Next]_vars => Inv'
  <1> SUFFICES ASSUME Inv, [Next]_vars PROVE Inv'
      OBVIOUS
  <1> USE Positive
  <1>0. /\ mem \in [0..(size * elem_sz) - 1 -> Items \cup {Junk}]
        /\ popped \in Items \cup {Junk} /\ size * elem_sz \in Nat
        /\ head = H * elem_sz /\ tail = T * elem_sz
        /\ 0 * elem_sz = 0 /\ 0 \div elem_sz = 0
        /\ 0 \in 0..size - 1 /\ 1 \in 0..size /\ head \in Nat
        BY ZeroPlace DEF Inv, TypeOK
  <1>s. CASE UNCHANGED <<open, buf, popped>>
        BY <1>s, <1>0, MoveInv DEF buf
  <1>1. ASSUME NEW s \in Sizes, NEW e \in ElemSizes, New(s, e) PROVE Inv'
    <2>1. CASE ~is_pow2(s)
          BY <1>1, <1>s, <2>1 DEF New, Refuse
    <2>2. CASE is_pow2(s)
      <3>1. /\ s \in GoodSizes /\ s \in Nat \ {0} /\ size' = s
            /\ elem_sz' \in GoodElems /\ elem_sz' \in Nat \ {0}
            /\ head' = 0 /\ tail' = 0 /\ type' \in {"PTR_BUF", "CPY_BUF"}
            /\ open' \in BOOLEAN /\ popped' \in Items \cup {Junk}
            /\ mem' = [x \in 0..(s * elem_sz') - 1 |-> Junk]
            BY <1>1, <2>2, ConstantsAssumption DEF New, GoodSizes, GoodElems
      <3>2. 0 \div elem_sz' = 0 /\ 0 * elem_sz' = 0 /\ 0 \in 0..size' - 1
        <4>1. \A z \in Nat \ {0} : 0 \div z = 0 /\ 0 * z = 0
              BY ZeroPlace
        <4>2. elem_sz' \in Nat \ {0} /\ 0 \in 0..size' - 1
              BY <3>1
        <4> QED BY <4>1, <4>2
      <3>3. TypeOK'
            BY <3>1, <3>2 DEF TypeOK, Places
      <3> QED BY <3>1, <3>2, <3>3 DEF Inv, H, T
    <2> QED BY <2>1, <2>2
  <1>2. ASSUME NEW x \in Items, Push(x) PROVE Inv'
    <2>1. CASE circ_space = 0
          BY <1>2, <1>s, <2>1 DEF Push, Refuse
    <2>2. CASE circ_space # 0
      <3>1. PICK j \in 0..size - 1 : head' = j * elem_sz
        <4>1. head' = Advance(H * elem_sz, 1)
              BY <1>0, <1>2, <2>2 DEF Push
        <4> QED BY <1>0, <4>1, AdvancePlace
      <3>2. mem' \in [0..(size * elem_sz) - 1 -> Items \cup {Junk}]
        <4>1. mem' = Write(mem, head, <<x>>, elem_sz) /\ <<x>> \in Seq(Items)
              BY <1>2, <2>2 DEF Push
        <4> QED BY <1>0, <4>1, WriteType
      <3> QED BY <1>0, <1>2, <2>2, <3>1, <3>2, MoveInv DEF Push
    <2> QED BY <2>1, <2>2
  <1>3. ASSUME NEW b \in Batches, PushM(b) PROVE Inv'
    <2> DEFINE rewind == circ_space_to_end < Len(b)
               i == IF rewind THEN 0 ELSE H
    <2>1. CASE rewind /\ ~CanRewind(Len(b))
          BY <1>3, <1>s, <2>1 DEF PushM, Refuse
    <2>2. CASE ~(rewind /\ ~CanRewind(Len(b)))
      <3>1. Len(b) \in 0..size
            BY <2>2, Batch, SpaceToEndIs DEF CanRewind
      <3>2. i \in 0..size - 1 /\ i * elem_sz \in Nat
            OBVIOUS
      <3>3. /\ mem' = Write(mem, i * elem_sz, b, elem_sz)
            /\ head' = Advance(i * elem_sz, Len(b))
            /\ tail' = (IF rewind THEN 0 ELSE T) * elem_sz
            /\ popped' \in Items \cup {Junk}
            /\ UNCHANGED <<open, type, size, elem_sz>>
            BY <1>0, <1>3, <2>2 DEF PushM
      <3>4. PICK j \in 0..size - 1 : head' = j * elem_sz
            BY <3>1, <3>2, <3>3, AdvancePlace
      <3>5. mem' \in [0..(size * elem_sz) - 1 -> Items \cup {Junk}]
            BY <1>0, <3>2, <3>3, Batch, WriteType
      <3> QED BY <3>3, <3>4, <3>5, MoveInv
    <2> QED BY <2>1, <2>2
  <1>4. ASSUME Pop PROVE Inv'
    <2>1. CASE circ_count = 0
          BY <1>4, <1>s, <2>1 DEF Pop, Refuse
    <2>2. CASE circ_count # 0
      <3>1. PICK j \in 0..size - 1 : tail' = j * elem_sz
        <4>1. tail' = Advance(T * elem_sz, 1)
              BY <1>0, <1>4, <2>2 DEF Pop
        <4> QED BY <1>0, <4>1, AdvancePlace
      <3> QED BY <1>0, <1>4, <2>2, <3>1, ReadType, MoveInv DEF Pop
    <2> QED BY <2>1, <2>2
  <1>5. ASSUME NEW n \in 0..MaxBatch, PopM(n) PROVE Inv'
    <2>1. CASE circ_count_to_end < n
          BY <1>5, <1>s, <2>1 DEF PopM, Refuse
    <2>2. CASE ~(circ_count_to_end < n)
      <3>1. n \in 0..size
            BY <2>2, CountToEndIs, ConstantsAssumption
      <3>2. PICK j \in 0..size - 1 : tail' = j * elem_sz
            BY <1>0, <1>5, <2>2, <3>1, AdvancePlace DEF PopM
      <3> QED BY <1>0, <1>5, <2>2, <3>2, MoveInv DEF PopM
    <2> QED BY <2>1, <2>2
  <1>6. ASSUME Reset PROVE Inv'
    <2>1. head' = 0 * elem_sz /\ tail' = 0 * elem_sz
          BY <1>0, <1>6 DEF Reset
    <2> QED BY <1>0, <1>6, <2>1, MoveInv DEF Reset
  <1>7. ASSUME Destroy PROVE Inv'
    <2>1. mem' \in [0..(size * elem_sz) - 1 -> Items \cup {Junk}]
          BY <1>0, <1>7 DEF Destroy
    <2>2. /\ UNCHANGED <<type, size, elem_sz>> /\ head' = 0 /\ tail' = 0
          /\ open' \in BOOLEAN /\ popped' \in Items \cup {Junk}
          BY <1>7 DEF Destroy
    <2>3. TypeOK'
          BY <1>0, <2>1, <2>2 DEF Inv, TypeOK, Places
    <2> QED BY <1>0, <2>2, <2>3 DEF Inv, H, T
  <1>8. CASE UNCHANGED vars
        BY <1>s, <1>8 DEF vars
  <1> QED BY <1>1, <1>2, <1>3, <1>4, <1>5, <1>6, <1>7, <1>8 DEF Next
----------------------------------------------------------------------------
(***************************************************************************)
(* head and tail stay at the offsets of item places under every sequence   *)
(* of calls: what pushm, push, popm and pop mask their sums for.           *)
(***************************************************************************)
THEOREM TypeCorrect == Spec => []TypeOK
  <1>1. Inv => TypeOK
        BY DEF Inv
  <1> QED BY <1>1, InitInv, NextInv, PTL DEF Spec

LEMMA RunsInv == Inv => RunsFit
  <1> SUFFICES ASSUME Inv PROVE RunsFit
      OBVIOUS
  <1>1. /\ circ_space_to_end \in Nat /\ H + circ_space_to_end <= size
        /\ circ_count_to_end \in Nat /\ T + circ_count_to_end <= size
        BY Positive, SpaceToEndIs, CountToEndIs
  <1>2. /\ H * elem_sz + circ_space_to_end * elem_sz <= size * elem_sz
        /\ T * elem_sz + circ_count_to_end * elem_sz <= size * elem_sz
        BY <1>1, Positive
  <1>3. /\ circ_count + circ_space_to_end < size
        /\ circ_count > 0 => circ_count_to_end > 0
        /\ circ_space > 0 => circ_space_to_end > 0
        BY Positive, CountIs, SpaceIs, SpaceToEndIs, CountToEndIs
  <1>4. head = H * elem_sz /\ tail = T * elem_sz
        BY DEF Inv
  <1>5. /\ head + circ_space_to_end * elem_sz <= size * elem_sz
        /\ tail + circ_count_to_end * elem_sz <= size * elem_sz
        BY <1>2, <1>4
  <1> QED BY <1>3, <1>5 DEF RunsFit

(***************************************************************************)
(* The memcpys of pushm and popm stay inside the storage, and room and     *)
(* contents never add up to more than size - 1 items.                      *)
(***************************************************************************)
THEOREM RunsInside == Spec => []RunsFit
  BY RunsInv, InitInv, NextInv, PTL DEF Spec

(***************************************************************************)
(* The order of places is that of their offsets, and every place is inside *)
(* the storage.                                                            *)
(***************************************************************************)
LEMMA OffsetOrder ==
    ASSUME NEW e \in Nat \ {0}, NEW j \in Int, NEW h \in Int, NEW n \in Int
    PROVE  /\ j <= h - 1 => j * e <= h * e - e
           /\ j >= h + n => j * e >= h * e + n * e
           /\ (h + j) * e = h * e + j * e
  OBVIOUS

LEMMA OffsetIn ==
    ASSUME NEW e \in Nat \ {0}, NEW s \in Nat \ {0}, NEW j \in 0..s - 1
    PROVE  j * e \in 0..(s * e) - 1
  <1>1. j <= s - 1 /\ j \in Int /\ s \in Int /\ 0 \in Int
        OBVIOUS
  <1>2. j * e <= s * e - e
        BY <1>1, OffsetOrder
  <1>3. j * e \in Nat /\ s * e \in Nat
        OBVIOUS
  <1> DEFINE x == j * e
             y == s * e
  <1>4. x <= y - e /\ x \in Nat /\ y \in Nat
        BY <1>2, <1>3
  <1> HIDE DEF x, y
  <1>5. x \in 0..y - 1
        BY <1>4
  <1> QED BY <1>5 DEF x, y

(***************************************************************************)
(* The place behind the tail is not among those that a push or a pushm     *)
(* without rewind writes.                                                  *)
(***************************************************************************)
Behind == IF tail = 0 THEN (size - 1) * elem_sz ELSE tail - elem_sz

LEMMA BehindIs ==
    ASSUME Inv
    PROVE  Behind = (IF T = 0 THEN size - 1 ELSE T - 1) * elem_sz
  <1>1. tail = T * elem_sz
        BY DEF Inv
  <1>2. tail = 0 <=> T = 0
        BY <1>1, Positive
  <1> QED BY <1>1, <1>2, Positive DEF Behind

LEMMA BehindUntouched ==
    ASSUME Inv, NEW b, Len(b) \in 0..circ_space_to_end
    PROVE  Write(mem, head, b, elem_sz)[Behind] = mem[Behind]
  <1> USE Positive
  <1> DEFINE j == IF T = 0 THEN size - 1 ELSE T - 1
             n == Len(b)
  <1>1. j \in 0..size - 1 /\ n \in Nat /\ (j <= H - 1 \/ j >= H + n)
        BY SpaceToEndIs
  <1> HIDE DEF j, n
  <1>2. j * elem_sz <= H * elem_sz - elem_sz \/ j * elem_sz >= H * elem_sz + n * elem_sz
    <2>1. j \in Int /\ H \in Int /\ n \in Int
          BY <1>1
    <2> QED BY <1>1, <2>1, OffsetOrder
  <1>3. Behind = j * elem_sz /\ head = H * elem_sz
        BY BehindIs DEF j, Inv
  <1>4. j * elem_sz \in 0..(size * elem_sz) - 1 /\ H * elem_sz \in 0..(size * elem_sz) - 1
        BY <1>1, OffsetIn
  <1>5. Behind \in DOMAIN mem /\ Behind \in Int /\ head \in Nat
        BY <1>3, <1>4 DEF Inv, TypeOK
  <1>6. Clear(Behind, head, Len(b), elem_sz)
        BY <1>2, <1>3 DEF n, Clear
  <1>7. Len(b) \in Nat /\ elem_sz \in Nat \ {0}
        BY <1>1 DEF n
  <1> HIDE Positive
  <1> DEFINE place == Behind
  <1> HIDE DEF place
  <1>8. /\ place \in DOMAIN mem /\ place \in Int /\ head \in Nat
        /\ Clear(place, head, Len(b), elem_sz)
        BY <1>5, <1>6 DEF place
  <1>9. Write(mem, head, b, elem_sz)[place] = mem[place]
        BY <1>7, <1>8, WriteElsewhere
  <1> QED BY <1>9 DEF place

(***************************************************************************)
(* A pop moves the tail one place on: what was at it is behind it.         *)
(***************************************************************************)
LEMMA BehindAdvanced ==
    ASSUME Inv
    PROVE  LET t == Advance(tail, 1)
           IN  (IF t = 0 THEN (size - 1) * elem_sz ELSE t - elem_sz) = tail
  <1> USE Positive
  <1> DEFINE i == IF T + 1 < size THEN T + 1 ELSE 0
  <1>1. (T + 1) % size = i
    <2>1. CASE T + 1 < size
          BY <2>1
    <2>2. CASE T + 1 = size
          BY <2>2
    <2> QED BY <2>1, <2>2
  <1>2. tail = T * elem_sz /\ 1 \in 0..size
        BY DEF Inv
  <1>3. Advance(tail, 1) = i * elem_sz
        BY <1>1, <1>2, AdvanceIs
  <1>4. CASE T + 1 < size
    <2>1. (T + 1) * elem_sz # 0 /\ (T + 1) * elem_sz - elem_sz = T * elem_sz
          OBVIOUS
    <2> QED BY <1>2, <1>3, <1>4, <2>1
  <1>5. CASE T + 1 = size
        BY <1>2, <1>3, <1>5, ZeroPlace
  <1> QED BY <1>4, <1>5

LEMMA PoppedStep == Inv /\ PoppedIntact /\ [Next]_vars => PoppedIntact'
  <1> SUFFICES ASSUME Inv, PoppedIntact, [Next]_vars, popped' # Junk
               PROVE  mem'[Behind'] = popped'
      BY DEF PoppedIntact, Behind
  <1>0. popped # Junk => mem[Behind] = popped
        BY DEF PoppedIntact, Behind
  <1>s. CASE UNCHANGED <<open, buf, popped>>
        BY <1>0, <1>s DEF buf, Behind
  <1>1. ASSUME NEW s \in Sizes, NEW e \in ElemSizes, New(s, e) PROVE mem'[Behind'] = popped'
        BY <1>1, <1>s DEF New, Refuse
  <1>2. ASSUME NEW x \in Items, Push(x) PROVE mem'[Behind'] = popped'
    <2>1. CASE circ_space = 0
          BY <1>2, <1>s, <2>1 DEF Push, Refuse
    <2>2. CASE circ_space # 0
      <3>1. Len(<<x>>) \in 0..circ_space_to_end
            BY <2>2, Positive, CountIs, SpaceIs, SpaceToEndIs
      <3>2. mem'[Behind] = mem[Behind] /\ Behind' = Behind /\ popped' = popped
            BY <1>2, <2>2, <3>1, BehindUntouched DEF Push, Behind
      <3> QED BY <1>0, <3>2
    <2> QED BY <2>1, <2>2
  <1>3. ASSUME NEW b \in Batches, PushM(b) PROVE mem'[Behind'] = popped'
    <2>1. CASE circ_space_to_end < Len(b)
          BY <1>3, <1>s, <2>1 DEF PushM, Refuse
    <2>2. CASE ~(circ_space_to_end < Len(b))
      <3>1. Len(b) \in 0..circ_space_to_end
            BY <2>2, Batch, Positive, SpaceToEndIs
      <3>2. mem'[Behind] = mem[Behind] /\ Behind' = Behind /\ popped' = popped
            BY <1>3, <2>2, <3>1, BehindUntouched DEF PushM, Behind
      <3> QED BY <1>0, <3>2
    <2> QED BY <2>1, <2>2
  <1>4. ASSUME Pop PROVE mem'[Behind'] = popped'
    <2>1. CASE circ_count = 0
          BY <1>4, <1>s, <2>1 DEF Pop, Refuse
    <2>2. CASE circ_count # 0
      <3>1. Behind' = tail
            BY <1>4, <2>2, BehindAdvanced DEF Pop, Behind
      <3> QED BY <1>4, <2>2, <3>1 DEF Pop
    <2> QED BY <2>1, <2>2
  <1>5. ASSUME NEW n \in 0..MaxBatch, PopM(n) PROVE mem'[Behind'] = popped'
    <2>1. CASE circ_count_to_end < n
          BY <1>5, <1>s, <2>1 DEF PopM, Refuse
    <2>2. CASE ~(circ_count_to_end < n)
      <3>1. n = 0 /\ popped' = popped /\ mem' = mem
            BY <1>5, <2>2 DEF PopM
      <3>2. tail' = tail
        <4>1. T \in 0..size - 1 /\ 0 \in 0..size /\ tail = T * elem_sz
              BY Positive DEF Inv
        <4>2. (T + 0) % size = T
              BY Positive, ModPlaces
        <4> QED BY <1>5, <2>2, <3>1, <4>1, <4>2, AdvanceIs DEF PopM
      <3> QED BY <1>0, <1>5, <2>2, <3>1, <3>2 DEF PopM, Behind
    <2> QED BY <2>1, <2>2
  <1>6. ASSUME Reset \/ Destroy PROVE mem'[Behind'] = popped'
        BY <1>6 DEF Reset, Destroy
  <1>7. CASE UNCHANGED vars
        BY <1>s, <1>7 DEF vars
  <1> QED BY <1>1, <1>2, <1>3, <1>4, <1>5, <1>6, <1>7 DEF Next

(***************************************************************************)
(* An item ac_circ_buf_pop returned a pointer to is not overwritten before *)
(* the tail moves again, however much is pushed in between.                *)
(***************************************************************************)
THEOREM PoppedSafe == Spec => []PoppedIntact
  <1>1. Init => PoppedIntact
        BY DEF Init, PoppedIntact
  <1> QED BY <1>1, InitInv, NextInv, PoppedStep, PTL DEF Spec
----------------------------------------------------------------------------
(***************************************************************************)
(* The buffer implements Fifo.  Place number i of its contents, from 0.    *)
(***************************************************************************)
Wrap(s, x) == IF x < s THEN x ELSE x - s

LEMMA ModWrap ==
    ASSUME NEW s \in Nat \ {0}, NEW a \in 0..s - 1, NEW b \in 0..s
    PROVE  (a + b) % s = Wrap(s, a + b) /\ Wrap(s, a + b) \in 0..s - 1
  <1>1. CASE a + b < s
        BY <1>1 DEF Wrap
  <1>2. CASE a + b >= s
        BY <1>2 DEF Wrap
  <1> QED BY <1>1, <1>2

(***************************************************************************)
(* c items start at place t; the next n places, from h on, are free.       *)
(***************************************************************************)
Layout(s, t, c, n, h) ==
    /\ \A i \in 1..c : LET j == Wrap(s, t + (i - 1))
                     IN  j \in 0..s - 1 /\ (j <= h - 1 \/ j >= h + n)
    /\ \A i \in 1..n : Wrap(s, t + ((c + i) - 1)) = h + (i - 1)
    /\ LET g == Wrap(s, h + n) IN c + n = IF g >= t THEN g - t ELSE s - (t - g)

LEMMA FreePlaces ==
    ASSUME NEW s \in Nat \ {0}, NEW t \in 0..s - 1, NEW c \in 0..s - 1, NEW n \in Nat,
           NEW h \in 0..s - 1, h = Wrap(s, t + c), c + n < s, h + n <= s
    PROVE  Layout(s, t, c, n, h)
  <1>1. CASE t + c < s
        BY <1>1 DEF Wrap, Layout
  <1>2. CASE t + c >= s
        BY <1>2 DEF Wrap, Layout
  <1> QED BY <1>1, <1>2

LEMMA ContentsIs ==
    ASSUME Inv
    PROVE  /\ circ_count \in 0..size - 1
           /\ Contents = [i \in 1..circ_count |-> mem[Wrap(size, T + (i - 1)) * elem_sz]]
  <1> USE Positive
  <1>1. circ_count \in 0..size - 1
        BY CountIs
  <1>2. ASSUME NEW i \in 1..circ_count
        PROVE  Advance(tail, i - 1) = Wrap(size, T + (i - 1)) * elem_sz
    <2>1. i - 1 \in 0..size /\ T \in 0..size - 1 /\ tail = T * elem_sz
          BY <1>1 DEF Inv
    <2>2. (T + (i - 1)) % size = Wrap(size, T + (i - 1))
          BY <2>1, ModWrap
    <2> QED BY <2>1, <2>2, AdvanceIs
  <1> QED BY <1>1, <1>2 DEF Contents

LEMMA FunctionSeq ==
    ASSUME NEW c \in Nat, NEW S, NEW f \in [1..c -> S]
    PROVE  f \in Seq(S) /\ Len(f) = c
  OBVIOUS

LEMMA ContentsSeq ==
    ASSUME Inv
    PROVE  Contents \in Seq(Items \cup {Junk}) /\ Len(Contents) = circ_count
  <1>1. ASSUME NEW i \in 1..circ_count PROVE Contents[i] \in Items \cup {Junk}
    <2>1. i - 1 \in 0..size /\ size \in Nat \ {0} /\ T \in 0..size - 1
          BY ContentsIs, Positive
    <2>2. Wrap(size, T + (i - 1)) \in 0..size - 1
          BY <2>1, ModWrap
    <2> QED BY <2>2, ContentsIs, ReadType
  <1>2. Contents \in [1..circ_count -> Items \cup {Junk}]
        BY <1>1, ContentsIs
  <1> QED BY <1>2, ContentsIs, FunctionSeq

(***************************************************************************)
(* The common part of push and of both outcomes of pushm: n items b are    *)
(* written from place h on, behind the c items that start at place t.      *)
(***************************************************************************)
Writes(b, n, h, t, c) ==
    /\ b \in Seq(Items) /\ n = Len(b) /\ n \in Nat
    /\ h \in 0..size - 1 /\ t \in 0..size - 1 /\ c \in 0..size - 1
    /\ h = Wrap(size, t + c) /\ c + n < size /\ h + n <= size
    /\ mem' = Write(mem, h * elem_sz, b, elem_sz)
    /\ head' = Advance(h * elem_sz, n) /\ tail' = t * elem_sz
    /\ UNCHANGED <<size, elem_sz>>

LEMMA Written ==
    ASSUME Inv, Inv', NEW b, NEW n, NEW h, NEW t, NEW c, Writes(b, n, h, t, c)
    PROVE  /\ circ_count' = c + n
           /\ \A i \in 1..c : Contents'[i] = mem[Wrap(size, t + (i - 1)) * elem_sz]
           /\ \A i \in 1..n : Contents'[c + i] = b[i]
  <1> USE Positive
  <1>1. /\ b \in Seq(Items) /\ n = Len(b) /\ n \in Nat
        /\ h \in 0..size - 1 /\ t \in 0..size - 1 /\ c \in 0..size - 1
        /\ h = Wrap(size, t + c) /\ c + n < size /\ h + n <= size
        BY DEF Writes
  <1>2. Layout(size, t, c, n, h)
        BY <1>1, FreePlaces
  <1>3. T' = t
    <2>1. tail' = t * elem_sz /\ elem_sz' = elem_sz /\ t \in Int
          BY <1>1 DEF Writes
    <2> QED BY <2>1, PlaceOffset DEF T
  <1>4. H' = Wrap(size, h + n)
    <2>1. n \in 0..size /\ head' = Advance(h * elem_sz, n) /\ elem_sz' = elem_sz
          BY <1>1 DEF Writes
    <2>2. head' = ((h + n) % size) * elem_sz
          BY <1>1, <2>1, AdvanceIs
    <2>3. (h + n) % size = Wrap(size, h + n) /\ Wrap(size, h + n) \in Int
      <3>1. size \in Nat \ {0} /\ h \in 0..size - 1 /\ n \in 0..size
            BY <1>1, <2>1
      <3>2. (h + n) % size = Wrap(size, h + n) /\ Wrap(size, h + n) \in 0..size - 1
            BY <3>1, ModWrap
      <3> QED BY <3>2
    <2> QED BY <2>1, <2>2, <2>3, PlaceOffset DEF H
  <1>5. circ_count' = c + n
    <2>1. (circ_count = IF H >= T THEN H - T ELSE size - (T - H))'
          BY CountIs, PTL
    <2>2. size' = size
          BY DEF Writes
    <2> QED BY <1>2, <1>3, <1>4, <2>1, <2>2 DEF Layout
  <1>6. Contents' = [i \in 1..c + n |-> mem'[Wrap(size, t + (i - 1)) * elem_sz]]
    <2>1. (Contents = [i \in 1..circ_count |-> mem[Wrap(size, T + (i - 1)) * elem_sz]])'
          BY ContentsIs, PTL
    <2> QED BY <1>3, <1>5, <2>1 DEF Writes
  <1>7. /\ DOMAIN mem = 0..(size * elem_sz) - 1 /\ h * elem_sz \in Nat
        /\ mem' = Write(mem, h * elem_sz, b, elem_sz)
    <2>1. DOMAIN mem = 0..(size * elem_sz) - 1
          BY DEF Inv, TypeOK
    <2>2. h \in Nat /\ elem_sz \in Nat
          BY <1>1
    <2>3. h * elem_sz \in Nat
          BY <2>2
    <2>4. mem' = Write(mem, h * elem_sz, b, elem_sz)
          BY DEF Writes
    <2> QED BY <2>1, <2>3, <2>4, Zenon
  <1>8. ASSUME NEW i \in 1..c
        PROVE  Contents'[i] = mem[Wrap(size, t + (i - 1)) * elem_sz]
    <2> DEFINE j == Wrap(size, t + (i - 1))
    <2>1. j \in 0..size - 1 /\ (j <= h - 1 \/ j >= h + n)
          BY <1>2 DEF Layout
    <2>2. i \in 1..c + n
          BY <1>1
    <2>3. Contents'[i] = mem'[j * elem_sz]
          BY <1>6, <2>2
    <2> HIDE DEF j
    <2>4. j * elem_sz <= h * elem_sz - elem_sz \/ j * elem_sz >= h * elem_sz + n * elem_sz
      <3>1. j \in Int /\ h \in Int /\ n \in Int
            BY <1>1, <2>1
      <3> QED BY <2>1, <3>1, OffsetOrder
    <2>5. j * elem_sz \in 0..(size * elem_sz) - 1
          BY <2>1, OffsetIn
    <2>6. mem'[j * elem_sz] = mem[j * elem_sz]
      <3> DEFINE x == j * elem_sz
                 at == h * elem_sz
      <3>1. /\ x \in DOMAIN mem /\ x \in Int /\ at \in Nat /\ Len(b) \in Nat
            /\ Clear(x, at, Len(b), elem_sz)
            /\ mem' = Write(mem, at, b, elem_sz)
            BY <1>1, <1>7, <2>4, <2>5 DEF Clear
      <3> HIDE DEF x, at
      <3>2. elem_sz \in Nat \ {0}
            OBVIOUS
      <3>3. Write(mem, at, b, elem_sz)[x] = mem[x]
            BY <3>1, <3>2, WriteElsewhere
      <3> QED BY <3>1, <3>3 DEF x
    <2> QED BY <2>3, <2>6 DEF j
  <1>9. ASSUME NEW i \in 1..n
        PROVE  Contents'[c + i] = b[i]
    <2>1. Wrap(size, t + ((c + i) - 1)) = h + (i - 1) /\ c + i \in 1..c + n
          BY <1>1, <1>2 DEF Layout
    <2>2. Contents'[c + i] = mem'[(h + (i - 1)) * elem_sz]
          BY <1>6, <2>1
    <2>3. (h + (i - 1)) * elem_sz = h * elem_sz + (i - 1) * elem_sz
          BY <1>1, OffsetOrder
    <2>4. h + (i - 1) \in 0..size - 1
      <3>1. h \in Nat /\ n \in Nat /\ h + n <= size /\ i \in 1..n /\ size \in Nat
            BY <1>1
      <3> QED BY <3>1
    <2>5. (h + (i - 1)) * elem_sz \in 0..(size * elem_sz) - 1
      <3> DEFINE k == h + (i - 1)
      <3>1. k \in 0..size - 1
            BY <2>4
      <3> HIDE DEF k
      <3>2. k * elem_sz \in 0..(size * elem_sz) - 1
            BY <3>1, OffsetIn
      <3> QED BY <3>2 DEF k
    <2> DEFINE at == h * elem_sz
    <2>6. /\ at + (i - 1) * elem_sz \in DOMAIN mem /\ at \in Nat
          /\ Len(b) \in Nat /\ i \in 1..Len(b)
          /\ mem' = Write(mem, at, b, elem_sz)
          /\ Contents'[c + i] = mem'[at + (i - 1) * elem_sz]
          BY <1>1, <1>7, <2>2, <2>3, <2>5
    <2> HIDE DEF at
    <2> QED BY <2>6, WriteHere
  <1> QED BY <1>5, <1>8, <1>9
LEMMA Stored ==
    ASSUME Inv, Inv', NEW b, NEW n, NEW h, NEW t, NEW c, Writes(b, n, h, t, c),
           c = circ_count, t = T \/ c = 0
    PROVE  Contents' = Contents \o b
  <1>1. /\ circ_count' = c + n
        /\ \A i \in 1..c : Contents'[i] = mem[Wrap(size, t + (i - 1)) * elem_sz]
        /\ \A i \in 1..n : Contents'[c + i] = b[i]
        BY Written
  <1>2. c \in Nat /\ n \in Nat /\ b \in Seq(Items) /\ n = Len(b)
        BY Positive DEF Writes
  <1>3. Contents = [i \in 1..c |-> mem[Wrap(size, T + (i - 1)) * elem_sz]]
        BY ContentsIs
  <1>4. \A i \in 1..c : Contents'[i] = Contents[i]
        BY <1>1, <1>2, <1>3
  <1>5. Contents' \in Seq(Items \cup {Junk}) /\ Len(Contents') = c + n
    <2>1. (Contents \in Seq(Items \cup {Junk}) /\ Len(Contents) = circ_count)'
          BY ContentsSeq, PTL
    <2> QED BY <1>1, <2>1
  <1>6. Contents \in Seq(Items \cup {Junk}) /\ Len(Contents) = c
        BY ContentsSeq
  <1>7. b \in Seq(Items \cup {Junk})
        BY <1>2
  <1>8. /\ Contents \o b \in Seq(Items \cup {Junk}) /\ Len(Contents \o b) = c + n
        /\ \A i \in 1..c + n : (Contents \o b)[i] = IF i <= c THEN Contents[i] ELSE b[i - c]
    <2> DEFINE S == Items \cup {Junk}
               kept == Contents
    <2>1. kept \in Seq(S) /\ b \in Seq(S) /\ Len(kept) = c /\ Len(b) = n
          BY <1>2, <1>6, <1>7
    <2> HIDE DEF S, kept
    <2>2. /\ kept \o b \in Seq(S) /\ Len(kept \o b) = c + n
          /\ \A i \in 1..c + n : (kept \o b)[i] = IF i <= c THEN kept[i] ELSE b[i - c]
          BY <2>1, ConcatProperties
    <2> QED BY <2>2 DEF S, kept
  <1>9. ASSUME NEW i \in 1..c + n
        PROVE  Contents'[i] = (Contents \o b)[i]
    <2>1. CASE i <= c
      <3>1. i \in 1..c
            BY <1>2, <2>1
      <3>2. (Contents \o b)[i] = Contents[i]
            BY <1>8, <2>1
      <3>3. Contents'[i] = Contents[i]
            BY <1>4, <3>1, Zenon
      <3> QED BY <3>2, <3>3, Zenon
    <2>2. CASE i > c
      <3>1. i - c \in 1..n /\ c + (i - c) = i
            BY <1>2, <2>2
      <3>2. Contents'[i] = b[i - c]
            BY <1>1, <3>1
      <3> QED BY <1>2, <1>8, <2>2, <3>2
    <2>3. i <= c \/ i > c
          BY <1>2
    <2> QED BY <2>1, <2>2, <2>3, Zenon
  <1> QED BY <1>5, <1>8, <1>9, SeqEqual

LEMMA Dropped ==
    ASSUME Inv, Inv', NEW n \in Nat, n <= circ_count_to_end,
           tail' = Advance(tail, n), UNCHANGED <<head, mem, size, elem_sz>>
    PROVE  /\ n <= circ_count
           /\ Contents' = SubSeq(Contents, n + 1, circ_count)
           /\ Read(tail, n) = SubSeq(Contents, 1, n)
  <1> USE Positive
  <1> DEFINE c == circ_count
  <1>1. n <= c /\ c \in 0..size - 1 /\ n \in 0..size /\ T + n <= size
        BY CountIs, CountToEndIs
  <1>2. T' = Wrap(size, T + n)
    <2>1. size \in Nat \ {0} /\ T \in 0..size - 1 /\ n \in 0..size /\ tail = T * elem_sz
          BY <1>1 DEF Inv
    <2>2. (T + n) % size = Wrap(size, T + n) /\ Wrap(size, T + n) \in 0..size - 1
          BY <2>1, ModWrap
    <2>3. tail' = Wrap(size, T + n) * elem_sz
          BY <2>1, <2>2, AdvanceIs
    <2>4. Wrap(size, T + n) \in Int
          BY <2>2
    <2> QED BY <2>3, <2>4, PlaceOffset DEF T
  <1>3. H' = H
        BY DEF H
  <1>4. circ_count' = c - n
    <2>1. (circ_count = IF H >= T THEN H - T ELSE size - (T - H))'
          BY CountIs, PTL
    <2>2. circ_count_to_end = IF H >= T THEN H - T ELSE size - T
          BY CountToEndIs
    <2> QED BY <1>2, <1>3, <2>1, <2>2, CountIs DEF Wrap
  <1>5. Contents' = [i \in 1..c - n |-> mem[Wrap(size, T' + (i - 1)) * elem_sz]]
    <2>1. (Contents = [i \in 1..circ_count |-> mem[Wrap(size, T + (i - 1)) * elem_sz]])'
          BY ContentsIs, PTL
    <2> QED BY <1>4, <2>1
  <1>6. Contents = [i \in 1..c |-> mem[Wrap(size, T + (i - 1)) * elem_sz]]
        BY ContentsIs
  <1>7. Contents \in Seq(Items \cup {Junk}) /\ Len(Contents) = c
        BY ContentsSeq
  <1> HIDE DEF c
  <1>8. ASSUME NEW i \in 1..c - n
        PROVE  Contents'[i] = Contents[n + i]
    <2>1. Wrap(size, T' + (i - 1)) = Wrap(size, T + ((n + i) - 1)) /\ n + i \in 1..c
          BY <1>1, <1>2 DEF Wrap
    <2> QED BY <1>5, <1>6, <2>1
  <1>9. Contents' = SubSeq(Contents, n + 1, c)
    <2>1. SubSeq(Contents, n + 1, c) = [i \in 1..c - n |-> Contents[n + i]]
          BY <1>1, <1>7
    <2> QED BY <1>5, <1>8, <2>1
  <1>10. Read(tail, n) = SubSeq(Contents, 1, n)
    <2>1. SubSeq(Contents, 1, n) = [i \in 1..n |-> Contents[i]]
          BY <1>1, <1>7
    <2>2. ASSUME NEW i \in 1..n
          PROVE  mem[tail + (i - 1) * elem_sz] = Contents[i]
      <3>1. Wrap(size, T + (i - 1)) = T + (i - 1) /\ i \in 1..c
            BY <1>1 DEF Wrap
      <3>2. (T + (i - 1)) * elem_sz = T * elem_sz + (i - 1) * elem_sz
            BY OffsetOrder
      <3> QED BY <1>6, <3>1, <3>2 DEF Inv
    <2> QED BY <2>1, <2>2 DEF Read
  <1> QED BY <1>1, <1>9, <1>10 DEF c
(***************************************************************************)
(* Every call is a step of Fifo.                                           *)
(***************************************************************************)
Q == IF open THEN Contents ELSE << >>
C == IF open THEN size - 1 ELSE 0

LEMMA SameContents ==
    ASSUME UNCHANGED <<open, buf>>
    PROVE  UNCHANGED <<open, Q, C>>
  BY DEF buf, Q, C, Contents, circ_count, Advance, Mask, Add, Sub, Mul

LEMMA EmptyContents ==
    ASSUME Inv, Q = Contents
    PROVE  (Q = << >> <=> circ_count = 0) /\ Len(Q) = circ_count
  BY ContentsSeq, EmptySeq

LEMMA InitRefines == Init => F!Init
  BY DEF Init, Call, F!Init, F!Call

LEMMA RefusalRefines ==
    ASSUME NEW name, NEW n, Refuse(name, n)
    PROVE  F!Refuse(name, n)
  <1>1. UNCHANGED <<open, Q, C>>
        BY SameContents DEF Refuse
  <1> QED BY <1>1 DEF Refuse, Return, Call, F!Refuse, F!Call, Q, C

LEMMA NewRefines ==
    ASSUME Inv, Inv', NEW s \in Sizes, NEW e \in ElemSizes, New(s, e)
    PROVE  F!New
  <1>1. CASE ~is_pow2(s)
        BY <1>1, RefusalRefines DEF New, F!New
  <1>2. CASE is_pow2(s)
    <2>1. /\ open' = TRUE /\ head' = 0 /\ tail' = 0
          /\ F!Ok(F!Call("new", 0, << >>), << >>)
          BY <1>2 DEF New, Return, Call, F!Ok, F!Call
    <2>2. circ_count' = 0
      <3>1. (circ_count = IF H >= T THEN H - T ELSE size - (T - H))'
            BY CountIs, PTL
      <3>2. H' \in 0..size' - 1
            BY DEF Inv
      <3> QED BY <2>1, <3>1, <3>2 DEF H, T
    <2>3. Q' = << >>
      <3>1. (Contents \in Seq(Items \cup {Junk}) /\ Len(Contents) = circ_count)'
            BY ContentsSeq, PTL
      <3> QED BY <2>1, <2>2, <3>1, EmptySeq DEF Q
    <2>4. C' \in Nat
      <3>1. size' \in Nat \ {0}
            BY DEF Inv, TypeOK
      <3>2. C' = size' - 1
            BY <2>1 DEF C
      <3>3. \A z \in Nat \ {0} : z - 1 \in Nat
            OBVIOUS
      <3>4. size' - 1 \in Nat
            BY <3>1, <3>3, Zenon
      <3> QED BY <3>2, <3>4, Zenon
    <2> QED BY <1>2, <2>1, <2>3, <2>4 DEF New, F!New, Q, C
  <1> QED BY <1>1, <1>2
LEMMA PushRefines ==
    ASSUME Inv, Inv', NEW x \in Items, Push(x)
    PROVE  F!Push(x)
  <1>0. open /\ Q = Contents /\ C = size - 1
        BY DEF Push, Q, C
  <1>1. CASE circ_space = 0
    <2>1. circ_count = size - 1
          BY <1>1, SpaceIs, CountIs, Positive
    <2>2. ~F!Room(1)
          BY <1>0, <2>1, EmptyContents, Positive, ConstantsAssumption DEF F!Room, Q, C
    <2> QED BY <1>0, <1>1, <2>2, RefusalRefines DEF Push, F!Push
  <1>2. CASE circ_space # 0
    <2>1. Writes(<<x>>, 1, H, T, circ_count)
      <3>1. /\ circ_count \in 0..size - 1 /\ circ_count + 1 < size
            /\ H = Wrap(size, T + circ_count)
            BY <1>2, SpaceIs, CountIs, Positive DEF Wrap
      <3>2. /\ mem' = Write(mem, H * elem_sz, <<x>>, elem_sz)
            /\ head' = Advance(H * elem_sz, 1) /\ tail' = T * elem_sz
            /\ UNCHANGED <<size, elem_sz>>
            BY <1>2 DEF Push, Inv
      <3>3. <<x>> \in Seq(Items) /\ Len(<<x>>) = 1
            OBVIOUS
      <3>4. H + 1 <= size
            BY Positive
      <3> QED BY <3>1, <3>2, <3>3, <3>4, Positive DEF Writes
    <2>2. Contents' = Contents \o <<x>>
          BY <2>1, Stored
    <2>3. Contents \o <<x>> = Append(Contents, x)
          BY ContentsSeq
    <2>4. F!Room(1)
      <3>1. circ_count + 1 <= size - 1
            BY <1>2, SpaceIs, CountIs, Positive
      <3> QED BY <1>0, <3>1, EmptyContents DEF F!Room, Q, C
    <2>5. /\ open' = open /\ size' = size
          /\ F!Ok(F!Call("push", 1, <<x>>), << >>)
          BY <1>2 DEF Push, Return, Call, F!Ok, F!Call
    <2> QED BY <1>0, <2>2, <2>3, <2>4, <2>5 DEF F!Push, Q, C
  <1> QED BY <1>1, <1>2

LEMMA PushMRefines ==
    ASSUME Inv, Inv', NEW b \in Batches, PushM(b)
    PROVE  F!PushM(b)
  <1> DEFINE rewind == circ_space_to_end < Len(b)
             n == Len(b)
             h == IF rewind THEN 0 ELSE H
             t == IF rewind THEN 0 ELSE T
  <1>0. /\ open /\ Q = Contents /\ C = size - 1 /\ b \in F!Batches
        /\ b \in Seq(Items) /\ n \in Nat /\ n # size /\ Len(Q) = circ_count
        BY Batch, BatchAssumption, EmptyContents DEF PushM, Q, C, Batches, F!Batches
  <1>1. CASE rewind /\ ~CanRewind(n)
    <2>1. n > 0 /\ (circ_count + n <= size - 1 => circ_count # 0)
          BY <1>0, <1>1, SpaceToEndIs, CountIs, Positive DEF CanRewind
    <2>2. F!Room(n) => circ_count + n <= size - 1
          BY <1>0, Positive, ConstantsAssumption DEF F!Room, Q, C
    <2>3. Q # << >> <=> circ_count # 0
          BY <1>0, EmptyContents
    <2>4. F!Refuse("pushm", n)
          BY <1>1, RefusalRefines DEF PushM
    <2> QED BY <1>0, <2>1, <2>2, <2>3, <2>4 DEF F!PushM, Q, C
  <1>2. CASE ~(rewind /\ ~CanRewind(n))
    <2>1. Writes(b, n, h, t, circ_count) /\ (t = T \/ circ_count = 0)
      <3>1. /\ circ_count \in 0..size - 1 /\ circ_count + n < size /\ h + n <= size
            /\ h \in 0..size - 1 /\ t \in 0..size - 1 /\ h = Wrap(size, t + circ_count)
            /\ t = T \/ circ_count = 0
        <4>1. CASE rewind
              BY <1>0, <1>2, <4>1, Positive DEF Wrap, CanRewind
        <4>2. CASE ~rewind
          <5>1. h = H /\ t = T /\ n \in Nat /\ circ_space_to_end >= n
            <6>1. ~(circ_space_to_end < n) /\ n \in Nat
                  BY <1>0, <4>2
            <6>2. circ_space_to_end \in Int
                  BY SpaceToEndIs, Positive
            <6> QED BY <4>2, <6>1, <6>2
          <5> HIDE DEF n, h, t
          <5>2. /\ circ_count \in 0..size - 1 /\ circ_count + n < size /\ H + n <= size
                /\ H \in 0..size - 1 /\ T \in 0..size - 1
                BY <5>1, SpaceToEndIs, CountIs, Positive
          <5>3. H = Wrap(size, T + circ_count)
                BY CountIs, Positive DEF Wrap
          <5> QED BY <5>1, <5>2, <5>3
        <4> HIDE DEF n, h, t
        <4> QED BY <4>1, <4>2
      <3>2. /\ head = H * elem_sz /\ tail = T * elem_sz /\ 0 * elem_sz = 0
            BY ZeroPlace, Positive DEF Inv
      <3>3. /\ mem' = Write(mem, h * elem_sz, b, elem_sz)
            /\ head' = Advance(h * elem_sz, n) /\ tail' = t * elem_sz
            /\ UNCHANGED <<size, elem_sz>>
            BY <1>2, <3>2 DEF PushM
      <3> QED BY <1>0, <3>1, <3>3 DEF Writes
    <2>2. Contents' = Contents \o b
          BY <2>1, Stored
    <2>3. F!Room(n)
      <3>1. circ_count + n <= size - 1
            BY <2>1, Positive DEF Writes
      <3> QED BY <1>0, <3>1 DEF F!Room, Q, C
    <2>4. /\ open' = open /\ size' = size
          /\ F!Ok(F!Call("pushm", n, b), << >>)
          BY <1>2 DEF PushM, Return, Call, F!Ok, F!Call
    <2> QED BY <1>0, <2>2, <2>3, <2>4 DEF F!PushM, Q, C
  <1> QED BY <1>1, <1>2
LEMMA PopRefines ==
    ASSUME Inv, Inv', Pop
    PROVE  F!Pop
  <1>0. open /\ Q = Contents /\ C = size - 1
        BY DEF Pop, Q, C
  <1>1. CASE circ_count = 0
        BY <1>0, <1>1, EmptyContents, RefusalRefines DEF Pop, F!Pop, Q
  <1>2. CASE circ_count # 0
    <2>1. /\ tail' = Advance(tail, 1) /\ UNCHANGED <<head, mem, size, elem_sz>>
          /\ F!Ok(F!Call("pop", 1, << >>), <<mem[tail]>>) /\ open' = open
          BY <1>2 DEF Pop, Return, Call, F!Ok, F!Call
    <2>2. 1 <= circ_count_to_end
          BY <1>2, CountIs, CountToEndIs, Positive
    <2>3. /\ Contents' = SubSeq(Contents, 2, circ_count)
          /\ Read(tail, 1) = SubSeq(Contents, 1, 1)
      <3>1. 1 \in Nat /\ 1 + 1 = 2
            OBVIOUS
      <3> QED BY <2>1, <2>2, <3>1, Dropped
    <2>4. /\ Contents \in Seq(Items \cup {Junk}) /\ Len(Contents) = circ_count
          /\ circ_count \in Nat /\ circ_count # 0
          BY <1>2, ContentsSeq, ContentsIs
    <2>5. Contents' = Tail(Contents)
          BY <2>3, <2>4
    <2>6. mem[tail] = Head(Contents)
      <3>1. Read(tail, 1)[1] = mem[tail + (1 - 1) * elem_sz]
            BY DEF Read
      <3>2. tail + (1 - 1) * elem_sz = tail
            BY Positive DEF Inv
      <3>3. SubSeq(Contents, 1, 1)[1] = Contents[1]
            BY <2>4
      <3> QED BY <2>3, <2>4, <3>1, <3>2, <3>3
    <2>7. Q # << >>
          BY <1>0, <1>2, EmptyContents
    <2> QED BY <1>0, <2>1, <2>5, <2>6, <2>7 DEF F!Pop, Q, C
  <1> QED BY <1>1, <1>2

LEMMA PopMRefines ==
    ASSUME Inv, Inv', NEW n \in 0..MaxBatch, PopM(n)
    PROVE  F!PopM(n)
  <1>0. /\ open /\ Q = Contents /\ C = size - 1 /\ n \in Nat /\ Len(Q) = circ_count
        /\ circ_count \in Nat
        BY ConstantsAssumption, EmptyContents, ContentsIs DEF PopM, Q, C
  <1>1. CASE circ_count_to_end < n
    <2>1. n > 0 /\ (n <= circ_count => n > 1)
          BY <1>0, <1>1, CountIs, CountToEndIs, Positive
    <2> QED BY <1>0, <1>1, <2>1, RefusalRefines DEF PopM, F!PopM, Q, C
  <1>2. CASE ~(circ_count_to_end < n)
    <2>1. /\ tail' = Advance(tail, n) /\ UNCHANGED <<head, mem, size, elem_sz>>
          /\ F!Ok(F!Call("popm", n, << >>), Read(tail, n)) /\ open' = open
          BY <1>2 DEF PopM, Return, Call, F!Ok, F!Call
    <2>2. n <= circ_count_to_end
          BY <1>0, <1>2, CountToEndIs, Positive
    <2>3. /\ n <= circ_count
          /\ Contents' = SubSeq(Contents, n + 1, circ_count)
          /\ Read(tail, n) = SubSeq(Contents, 1, n)
          BY <1>0, <2>1, <2>2, Dropped
    <2> QED BY <1>0, <2>1, <2>3 DEF F!PopM, Q, C
  <1> QED BY <1>1, <1>2

LEMMA ResetRefines ==
    ASSUME Inv, Inv', Reset
    PROVE  F!Reset
  <1>1. circ_count' = 0
    <2>1. (circ_count = IF H >= T THEN H - T ELSE size - (T - H))'
          BY CountIs, PTL
    <2>2. H' \in 0..size' - 1
          BY DEF Inv
    <2>3. head' = 0 /\ tail' = 0
          BY DEF Reset
    <2> QED BY <2>1, <2>2, <2>3 DEF H, T
  <1>2. Contents' = << >>
    <2>1. (Contents \in Seq(Items \cup {Junk}) /\ Len(Contents) = circ_count)'
          BY ContentsSeq, PTL
    <2> QED BY <1>1, <2>1, EmptySeq
  <1> QED BY <1>2 DEF Reset, Return, Call, F!Reset, F!Ok, F!Call, Q, C

LEMMA NextRefines == Inv /\ Inv' /\ [Next]_vars => [F!Next]_(F!vars)
  <1> SUFFICES ASSUME Inv, Inv', [Next]_vars PROVE [F!Next]_(F!vars)
      OBVIOUS
  <1>1. CASE \E s \in Sizes, e \in ElemSizes : New(s, e)
        BY <1>1, NewRefines DEF F!Next
  <1>2. CASE \E x \in Items : Push(x)
        BY <1>2, PushRefines DEF F!Next
  <1>3. CASE \E b \in Batches : PushM(b)
        BY <1>3, PushMRefines DEF F!Next, Batches, F!Batches
  <1>4. CASE Pop
        BY <1>4, PopRefines DEF F!Next
  <1>5. CASE \E n \in 0..MaxBatch : PopM(n)
        BY <1>5, PopMRefines DEF F!Next
  <1>6. CASE Reset
        BY <1>6, ResetRefines DEF F!Next
  <1>7. CASE Destroy
        BY <1>7 DEF Destroy, Return, Call, F!Next, F!Destroy, F!Ok, F!Call
  <1>8. CASE UNCHANGED vars
    <2>1. UNCHANGED <<open, Q, C, call, ret, out>>
          BY <1>8, SameContents DEF vars
    <2> QED BY <2>1 DEF F!vars, Q, C
  <1> QED BY <1>1, <1>2, <1>3, <1>4, <1>5, <1>6, <1>7, <1>8 DEF Next

(***************************************************************************)
(* The circular buffer is a FIFO of size - 1 items: a call that answers 0  *)
(* has put in every item it was given, or taken out as many as it was      *)
(* asked for, the oldest first, and one is refused only for lack of room,  *)
(* or of contiguous room (ac_circ_buf.c:138, :170, :196, :224).  This is   *)
(* for item sizes that are powers of two and batches shorter than `size'.  *)
(***************************************************************************)
THEOREM FifoRefinement == Spec => ImplementsFifo
  <1> QED BY InitInv, NextInv, InitRefines, NextRefines, PTL DEF Spec, ImplementsFifo, F!Spec
----------------------------------------------------------------------------
(***************************************************************************)
(* The two threads of SharedBuf keep out of each other's way, under the    *)
(* same assumptions.                                                       *)
(***************************************************************************)
Producers == [pc : {"idle", "testing", "copying", "publishing", "torn"},
              name : {"none", "push", "pushm"}, at : Nat, batch : Seq(Items)]
Consumers == [pc : {"idle", "popping", "reading", "releasing", "using", "overrun"},
              name : {"none", "pop", "popm"}, at : Nat, batch : Seq(Items \cup {Junk})]

(***************************************************************************)
(* What the producer is pushing is room that is still there; what the      *)
(* consumer is taking out is still counted, and what it is using was at    *)
(* the place behind the tail.                                              *)
(***************************************************************************)
Pushing == producer.pc \in {"copying", "publishing"}

RoomKept ==
    Pushing => producer.at = head /\ circ_count + Len(producer.batch) < size

(***************************************************************************)
(* A batch that is at the second test did not pass the first.              *)
(***************************************************************************)
Tested ==
    producer.pc = "testing" =>
        /\ producer.batch \in Batches
        /\ Len(producer.batch) > 0 /\ Len(producer.batch) # size

ItemsKept ==
    consumer.pc \in {"popping", "reading", "releasing"} =>
        /\ consumer.at = tail
        /\ Len(consumer.batch) <= circ_count /\ T + Len(consumer.batch) <= size

PoppedOne ==
    /\ consumer.pc \in {"popping", "using"} => Len(consumer.batch) = 1
    /\ consumer.pc = "using" => consumer.at = Behind

SharedInv ==
    /\ Inv
    /\ producer \in Producers /\ consumer \in Consumers
    /\ RoomKept /\ Tested /\ ItemsKept /\ PoppedOne
----------------------------------------------------------------------------
(***************************************************************************)
(* Places ahead.                                                           *)
(***************************************************************************)
LEMMA AdvanceWraps ==
    ASSUME Inv, NEW i \in 0..size - 1, NEW n \in 0..size
    PROVE  /\ Advance(i * elem_sz, n) = Wrap(size, i + n) * elem_sz
           /\ Wrap(size, i + n) \in 0..size - 1
  <1>1. size \in Nat \ {0}
        BY Positive
  <1>2. (i + n) % size = Wrap(size, i + n) /\ Wrap(size, i + n) \in 0..size - 1
        BY <1>1, ModWrap
  <1> QED BY <1>2, AdvanceIs

LEMMA SamePlace ==
    ASSUME NEW e \in Nat \ {0}, NEW i \in Int, NEW j \in Int, i * e = j * e
    PROVE  i = j
  BY PlaceOffset

LEMMA SameCounts ==
    ASSUME UNCHANGED <<head, tail, size, elem_sz>>
    PROVE  UNCHANGED <<circ_count, T, Behind>>
  BY DEF circ_count, T, Behind, Sub

(***************************************************************************)
(* Moving the head on makes the contents longer, moving the tail on makes  *)
(* them shorter.                                                           *)
(***************************************************************************)
LEMMA HeadMoves ==
    ASSUME Inv, Inv', NEW n \in Nat, circ_count + n < size,
           head' = Advance(head, n), UNCHANGED <<tail, size, elem_sz>>
    PROVE  circ_count' = circ_count + n
  <1> USE Positive
  <1>1. circ_count \in 0..size - 1 /\ n \in 0..size /\ head = H * elem_sz
        BY CountIs DEF Inv
  <1>2. head' = Wrap(size, H + n) * elem_sz /\ Wrap(size, H + n) \in 0..size - 1
        BY <1>1, AdvanceWraps
  <1>3. H' = Wrap(size, H + n)
        BY <1>2, PlaceOffset DEF H
  <1>4. T' = T
        BY DEF T
  <1>5. (circ_count = IF H >= T THEN H - T ELSE size - (T - H))'
        BY CountIs, PTL
  <1> QED BY <1>1, <1>3, <1>4, <1>5, CountIs DEF Wrap

LEMMA TailMoves ==
    ASSUME Inv, Inv', NEW n \in Nat, n <= circ_count,
           tail' = Advance(tail, n), UNCHANGED <<head, size, elem_sz>>
    PROVE  circ_count' = circ_count - n
  <1> USE Positive
  <1>1. circ_count \in 0..size - 1 /\ n \in 0..size /\ tail = T * elem_sz
        BY CountIs DEF Inv
  <1>2. tail' = Wrap(size, T + n) * elem_sz /\ Wrap(size, T + n) \in 0..size - 1
        BY <1>1, AdvanceWraps
  <1>3. T' = Wrap(size, T + n)
        BY <1>2, PlaceOffset DEF T
  <1>4. H' = H
        BY DEF H
  <1>5. (circ_count = IF H >= T THEN H - T ELSE size - (T - H))'
        BY CountIs, PTL
  <1>6. circ_count' = IF H >= Wrap(size, T + n) THEN H - Wrap(size, T + n)
                      ELSE size - (Wrap(size, T + n) - H)
        BY <1>3, <1>4, <1>5
  <1>7. CASE H >= T
    <2>1. circ_count = H - T /\ T + n <= H
          BY <1>7, CountIs
    <2>2. Wrap(size, T + n) = T + n
          BY <2>1 DEF Wrap
    <2> QED BY <1>6, <2>1, <2>2
  <1>8. CASE H < T
        BY <1>6, <1>8, CountIs DEF Wrap
  <1> QED BY <1>7, <1>8
----------------------------------------------------------------------------
(***************************************************************************)
(* What the two threads are at is never in the same place: the producer's  *)
(* room begins where the items end, and ends before the place behind the   *)
(* tail.                                                                   *)
(***************************************************************************)
LEMMA RoomPlaces ==
    ASSUME SharedInv, Pushing, NEW x \in Run(producer)
    PROVE  \E i \in 0..size - 2 : /\ circ_count + i < size - 1
                                  /\ x = Wrap(size, H + i) * elem_sz
  <1> USE Positive DEF SharedInv
  <1>1. PICK k \in 1..Len(producer.batch) : x = Advance(producer.at, k - 1)
        BY DEF Run
  <1>2. producer.at = H * elem_sz /\ circ_count + Len(producer.batch) < size
        BY DEF RoomKept, Inv
  <1>3. circ_count \in 0..size - 1 /\ Len(producer.batch) \in Nat
        BY CountIs DEF Producers
  <1>4. k - 1 \in 0..size - 2 /\ k - 1 \in 0..size /\ circ_count + (k - 1) < size - 1
        BY <1>2, <1>3
  <1>5. x = Wrap(size, H + (k - 1)) * elem_sz
        BY <1>1, <1>2, <1>4, AdvanceWraps
  <1> QED BY <1>4, <1>5

LEMMA ItemPlaces ==
    ASSUME SharedInv, consumer.pc \in {"popping", "reading", "releasing"},
           NEW x \in Run(consumer)
    PROVE  \E j \in 0..circ_count - 1 : x = Wrap(size, T + j) * elem_sz
  <1> USE Positive DEF SharedInv
  <1>1. PICK k \in 1..Len(consumer.batch) : x = Advance(consumer.at, k - 1)
        BY DEF Run
  <1>2. consumer.at = T * elem_sz /\ Len(consumer.batch) <= circ_count
        BY DEF ItemsKept, Inv
  <1>3. circ_count \in 0..size - 1 /\ Len(consumer.batch) \in Nat
        BY CountIs DEF Consumers
  <1>4. k - 1 \in 0..circ_count - 1 /\ k - 1 \in 0..size
        BY <1>2, <1>3
  <1>5. x = Wrap(size, T + (k - 1)) * elem_sz
        BY <1>1, <1>2, <1>4, AdvanceWraps
  <1> QED BY <1>4, <1>5

LEMMA UsedPlace ==
    ASSUME SharedInv, consumer.pc = "using", NEW x \in Run(consumer)
    PROVE  x = (IF T = 0 THEN size - 1 ELSE T - 1) * elem_sz
  <1> USE Positive DEF SharedInv
  <1> DEFINE j == IF T = 0 THEN size - 1 ELSE T - 1
  <1>1. x = Advance(consumer.at, 0) /\ consumer.at = j * elem_sz
    <2>1. PICK k \in 1..Len(consumer.batch) : x = Advance(consumer.at, k - 1)
          BY DEF Run
    <2>2. Len(consumer.batch) = 1 /\ consumer.at = Behind
          BY DEF PoppedOne
    <2>3. k - 1 = 0
          BY <2>1, <2>2
    <2> QED BY <2>1, <2>2, <2>3, BehindIs
  <1>2. j \in 0..size - 1 /\ 0 \in 0..size
        OBVIOUS
  <1> HIDE DEF j
  <1>3. x = Wrap(size, j + 0) * elem_sz
        BY <1>1, <1>2, AdvanceWraps
  <1>4. Wrap(size, j + 0) = j
        BY <1>2 DEF Wrap
  <1> QED BY <1>3, <1>4 DEF j

LEMMA Apart ==
    ASSUME SharedInv, producer.pc = "copying", consumer.pc \notin {"idle", "overrun"}
    PROVE  Run(producer) \cap Run(consumer) = {}
  <1> SUFFICES ASSUME NEW x \in Run(producer), x \in Run(consumer)
               PROVE  FALSE
      OBVIOUS
  <1> USE Positive
  <1>1. Inv /\ Pushing /\ consumer.pc \in {"popping", "reading", "releasing", "using"}
        BY DEF SharedInv, Consumers, Pushing
  <1>2. PICK i \in 0..size - 2 : /\ circ_count + i < size - 1
                                /\ x = Wrap(size, H + i) * elem_sz
        BY <1>1, RoomPlaces
  <1>3. circ_count = IF H >= T THEN H - T ELSE size - (T - H)
        BY <1>1, CountIs
  <1>4. CASE consumer.pc # "using"
    <2>1. PICK j \in 0..circ_count - 1 : x = Wrap(size, T + j) * elem_sz
          BY <1>1, <1>4, ItemPlaces
    <2>2. /\ H \in 0..size - 1 /\ T \in 0..size - 1 /\ size \in Nat /\ i \in Int /\ j \in Int
          /\ Wrap(size, H + i) \in Int /\ Wrap(size, T + j) \in Int
          BY <1>1, <1>3 DEF Wrap
    <2>3. Wrap(size, H + i) = Wrap(size, T + j)
          BY <1>1, <1>2, <2>1, <2>2, SamePlace
    <2> QED BY <1>2, <1>3, <2>1, <2>2, <2>3 DEF Wrap
  <1>5. CASE consumer.pc = "using"
    <2> DEFINE j == IF T = 0 THEN size - 1 ELSE T - 1
    <2>1. x = j * elem_sz
          BY <1>5, UsedPlace
    <2>2. /\ H \in 0..size - 1 /\ T \in 0..size - 1 /\ size \in Nat /\ i \in Int /\ j \in Int
          /\ Wrap(size, H + i) \in Int
          BY <1>1 DEF Wrap
    <2>3. Wrap(size, H + i) = j
      <3> HIDE DEF j
      <3> QED BY <1>1, <1>2, <2>1, <2>2, SamePlace
    <2> QED BY <1>2, <1>3, <2>2, <2>3 DEF Wrap
  <1> QED BY <1>4, <1>5
----------------------------------------------------------------------------
(***************************************************************************)
(* SharedInv is inductive.                                                 *)
(***************************************************************************)
LEMMA SharedInitInv == SharedInit => SharedInv
  <1> SUFFICES ASSUME SharedInit PROVE SharedInv
      OBVIOUS
  <1>1. Inv
        BY InitInv DEF SharedInit
  <1>2. Idle \in Producers /\ Idle \in Consumers /\ Idle.pc = "idle"
        BY DEF Idle, Producers, Consumers
  <1> QED BY <1>1, <1>2
          DEF SharedInit, SharedInv, RoomKept, Pushing, Tested, ItemsKept, PoppedOne

(***************************************************************************)
(* A thread that does not move keeps what it has, if the offsets stay.     *)
(***************************************************************************)
LEMMA OffsetsStay ==
    ASSUME SharedInv, UNCHANGED <<head, tail, size, elem_sz>>
    PROVE  /\ UNCHANGED producer => RoomKept' /\ Tested' /\ producer' \in Producers
           /\ UNCHANGED consumer => ItemsKept' /\ PoppedOne' /\ consumer' \in Consumers
           /\ circ_count' = circ_count /\ T' = T /\ Behind' = Behind
  BY SameCounts DEF SharedInv, RoomKept, Pushing, Tested, ItemsKept, PoppedOne

(***************************************************************************)
(* Nor does a step that writes the storage only disturb the buffer.        *)
(***************************************************************************)
LEMMA OnlyMemory ==
    ASSUME Inv, UNCHANGED <<open, type, size, elem_sz, head, tail, popped>>,
           mem' \in [0..(size * elem_sz) - 1 -> Items \cup {Junk}]
    PROVE  Inv'
  BY Positive, MoveInv DEF Inv, TypeOK

LEMMA CopyType ==
    ASSUME Inv, NEW at \in Nat, NEW b \in Seq(Items \cup {Junk})
    PROVE  Write(mem, at, b, elem_sz) \in [0..(size * elem_sz) - 1 -> Items \cup {Junk}]
  <1> DEFINE S == Items \cup {Junk}
  <1>1. S \cup {Junk} = S /\ size * elem_sz \in Nat /\ elem_sz \in Nat \ {0}
        BY Positive
  <1>2. mem \in [0..(size * elem_sz) - 1 -> S \cup {Junk}] /\ b \in Seq(S)
        BY <1>1 DEF Inv, TypeOK
  <1> HIDE DEF S
  <1>3. Write(mem, at, b, elem_sz) \in [0..(size * elem_sz) - 1 -> S \cup {Junk}]
        BY <1>1, <1>2, WriteType
  <1> QED BY <1>1, <1>3 DEF S

LEMMA SpoiltBatch ==
    ASSUME NEW n \in Nat
    PROVE  /\ [i \in 1..n |-> Junk] \in Seq(Items \cup {Junk})
           /\ Len([i \in 1..n |-> Junk]) = n
  <1>1. [i \in 1..n |-> Junk] \in [1..n -> Items \cup {Junk}]
        OBVIOUS
  <1> QED BY <1>1, FunctionSeq

LEMMA IdleProducer ==
    ASSUME producer' = Idle
    PROVE  producer' \in Producers /\ RoomKept' /\ Tested'
  BY DEF Idle, Producers, RoomKept, Pushing, Tested

LEMMA Refusal ==
    ASSUME SharedInv, NEW name, NEW n, Refuse(name, n),
           producer' \in {producer, Idle}, UNCHANGED consumer
    PROVE  SharedInv'
  <1>1. UNCHANGED <<open, type, size, elem_sz, head, tail, mem, popped>>
        BY DEF Refuse, buf
  <1>2. Inv'
        BY <1>1, OnlyMemory DEF SharedInv, Inv, TypeOK
  <1> QED BY <1>1, <1>2, OffsetsStay, IdleProducer DEF SharedInv
----------------------------------------------------------------------------
(***************************************************************************)
(* The producer's steps.                                                   *)
(***************************************************************************)
LEMMA StartInv ==
    ASSUME SharedInv, NEW name \in {"push", "pushm"}, NEW b \in Seq(Items),
           circ_count + Len(b) < size, StartCopy(name, head, b),
           UNCHANGED <<head, tail, popped, consumer>>
    PROVE  SharedInv'
  <1> USE DEF SharedInv
  <1>1. head \in Nat /\ Len(b) \in Nat
        BY Positive DEF Inv, TypeOK, Places
  <1>2. Inv'
        BY <1>1, SpoiltBatch, CopyType, OnlyMemory DEF StartCopy
  <1>3. producer' \in Producers /\ RoomKept' /\ Tested'
        BY <1>1, OffsetsStay DEF StartCopy, Producers, RoomKept, Tested
  <1> QED BY <1>2, <1>3, OffsetsStay DEF StartCopy

LEMMA PushInv == ASSUME SharedInv, NEW x \in Items, SharedPush(x) PROVE SharedInv'
  <1>1. CASE circ_space = 0
        BY <1>1, Refusal DEF SharedPush, Refused
  <1>2. CASE circ_space # 0
    <2>1. circ_count + 1 < size
          BY <1>2, SpaceIs, CountIs, Positive DEF SharedInv
    <2>2. <<x>> \in Seq(Items) /\ Len(<<x>>) = 1
          OBVIOUS
    <2> QED BY <1>2, <2>1, <2>2, StartInv DEF SharedPush
  <1> QED BY <1>1, <1>2

LEMMA PushMInv == ASSUME SharedInv, NEW b \in Batches, SharedPushM(b) PROVE SharedInv'
  <1> DEFINE n == Len(b)
  <1>0. /\ b \in Seq(Items) /\ n \in Nat /\ Inv /\ n # size
        /\ circ_count \in 0..size - 1 /\ size \in Nat \ {0}
        BY Batch, BatchAssumption, CountIs, Positive DEF SharedInv, SharedPushM
  <1>1. CASE circ_space_to_end < n
    <2>1. /\ producer' = [pc |-> "testing", name |-> "pushm", at |-> 0, batch |-> b]
          /\ UNCHANGED <<vars, consumer>>
          BY <1>1 DEF SharedPushM
    <2>2. Inv' /\ UNCHANGED <<head, tail, size, elem_sz>>
          BY <2>1, <1>0, NextInv DEF vars, buf
    <2>3. n > 0
          BY <1>0, <1>1, SpaceToEndIs, Positive
    <2>4. producer' \in Producers /\ RoomKept' /\ Tested'
          BY <1>0, <2>1, <2>2, <2>3 DEF Producers, RoomKept, Pushing, Tested
    <2> QED BY <2>1, <2>2, <2>4, OffsetsStay DEF SharedInv
  <1>2. CASE ~(circ_space_to_end < n)
    <2>1. circ_count + n < size
          BY <1>0, <1>2, CountIs, SpaceToEndIs, Positive
    <2> QED BY <1>0, <1>2, <2>1, StartInv DEF SharedPushM
  <1> QED BY <1>1, <1>2

LEMMA NoRoomInv == ASSUME SharedInv, NoRoom PROVE SharedInv'
  BY Refusal DEF NoRoom

(***************************************************************************)
(* A rewind finds the consumer in no call, and leaves the buffer empty.    *)
(***************************************************************************)
LEMMA Rewound ==
    ASSUME SharedInv, Rewind
    PROVE  /\ Inv' /\ circ_count = 0 /\ circ_count' = 0 /\ H' = 0
           /\ Len(producer.batch) \in Nat /\ Len(producer.batch) < size
           /\ consumer' \in Consumers /\ consumer'.pc \in {"idle", "overrun"}
  <1> DEFINE b == producer.batch
  <1>1. /\ StartCopy("pushm", 0, b) /\ head' = 0 /\ tail' = 0 /\ popped' = Junk
        /\ circ_count = 0 /\ Len(b) <= size /\ Len(b) # size
        BY DEF Rewind, UsedOverrun, CanRewind, SharedInv, Tested
  <1>2. /\ Inv /\ b \in Seq(Items) /\ Len(b) \in Nat
        /\ size \in Nat \ {0} /\ elem_sz \in Nat \ {0}
        BY Positive DEF SharedInv, Producers
  <1>3. 0 * elem_sz = 0 /\ 0 \in 0..size - 1
        BY <1>2
  <1>4. UNCHANGED <<open, type, size, elem_sz>>
        BY <1>1 DEF StartCopy
  <1>5. mem' \in [0..(size * elem_sz) - 1 -> Items \cup {Junk}]
        BY <1>1, <1>2, SpoiltBatch, CopyType DEF StartCopy
  <1>6. Inv'
        BY <1>1, <1>2, <1>3, <1>4, <1>5, MoveInv
  <1>7. H' = 0 /\ T' = 0
        BY <1>1, <1>2, <1>4, ZeroPlace DEF H, T
  <1>8. (circ_count = IF H >= T THEN H - T ELSE size - (T - H))'
        BY <1>6, CountIs, PTL
  <1>9. consumer' \in Consumers /\ consumer'.pc \in {"idle", "overrun"}
        BY DEF Rewind, InCall, UsedOverrun, SharedInv, Consumers
  <1> QED BY <1>1, <1>2, <1>6, <1>7, <1>8, <1>9

LEMMA RewindInv == ASSUME SharedInv, Rewind PROVE SharedInv'
  <1>1. /\ producer' = [pc |-> "copying", name |-> "pushm", at |-> 0,
                        batch |-> producer.batch]
        /\ head' = 0 /\ size' = size
        BY DEF Rewind, StartCopy
  <1>2. producer' \in Producers /\ RoomKept' /\ Tested'
        BY <1>1, Rewound DEF Producers, RoomKept, Tested, SharedInv
  <1>3. ItemsKept' /\ PoppedOne'
        BY Rewound DEF ItemsKept, PoppedOne
  <1> QED BY <1>2, <1>3, Rewound DEF SharedInv

LEMMA TearInv == ASSUME SharedInv, Tear \/ Torn PROVE SharedInv'
  <1>1. UNCHANGED vars /\ UNCHANGED consumer
        BY DEF Tear, Torn, sharedVars
  <1>2. Inv' /\ UNCHANGED <<head, tail, size, elem_sz>>
        BY <1>1, NextInv DEF vars, buf, SharedInv
  <1>3. producer' \in Producers /\ RoomKept' /\ Tested'
        BY <1>2, OffsetsStay
        DEF Tear, Torn, sharedVars, SharedInv, Producers, RoomKept, Pushing, Tested
  <1> QED BY <1>1, <1>2, <1>3, OffsetsStay DEF SharedInv

LEMMA EndCopyInv == ASSUME SharedInv, EndCopy PROVE SharedInv'
  <1> USE DEF SharedInv
  <1>1. producer.at \in Nat /\ producer.batch \in Seq(Items \cup {Junk})
        BY DEF Producers
  <1>2. Inv'
        BY <1>1, CopyType, OnlyMemory DEF EndCopy
  <1>3. producer' \in Producers /\ RoomKept' /\ Tested'
        BY OffsetsStay DEF EndCopy, Producers, RoomKept, Pushing, Tested
  <1> QED BY <1>2, <1>3, OffsetsStay DEF EndCopy

LEMMA PublishInv == ASSUME SharedInv, Publish PROVE SharedInv'
  <1> USE Positive DEF SharedInv
  <1> DEFINE n == Len(producer.batch)
  <1>1. /\ n \in Nat /\ circ_count + n < size /\ head' = Advance(head, n)
        /\ UNCHANGED <<open, type, size, elem_sz, tail, mem, popped, consumer>>
        BY DEF Publish, RoomKept, Pushing, Producers
  <1>2. Inv'
    <2>1. H \in 0..size - 1 /\ n \in 0..size /\ head = H * elem_sz
          BY <1>1, CountIs DEF Inv
    <2>2. PICK i \in 0..size - 1 : head' = i * elem_sz
          BY <1>1, <2>1, AdvancePlace
    <2> QED BY <1>1, <2>2, MoveInv DEF Inv, TypeOK
  <1>3. circ_count' = circ_count + n
        BY <1>1, <1>2, HeadMoves
  <1>4. producer' \in Producers /\ RoomKept' /\ Tested'
        BY IdleProducer DEF Publish
  <1>5. T' = T /\ Behind' = Behind
        BY <1>1 DEF T, Behind
  <1>6. ItemsKept'
    <2>1. circ_count \in Nat
          BY CountIs
    <2> QED BY <1>1, <1>3, <1>5, <2>1 DEF ItemsKept, Consumers
  <1>7. PoppedOne' /\ consumer' \in Consumers
        BY <1>1, <1>5 DEF PoppedOne
  <1> QED BY <1>2, <1>4, <1>6, <1>7
----------------------------------------------------------------------------
(***************************************************************************)
(* The consumer's steps.                                                   *)
(***************************************************************************)
LEMMA TakeInv ==
    ASSUME SharedInv, NEW pc \in {"popping", "reading"}, NEW name \in {"pop", "popm"},
           NEW b \in Seq(Items \cup {Junk}),
           Len(b) <= circ_count, T + Len(b) <= size, pc = "popping" => Len(b) = 1,
           consumer' = [pc |-> pc, name |-> name, at |-> tail, batch |-> b],
           Untouched, UNCHANGED <<tail, popped, call, ret, out>>
    PROVE  SharedInv'
  <1> USE DEF SharedInv
  <1>1. UNCHANGED <<open, type, size, elem_sz, head, tail, mem, popped, producer>>
        BY DEF Untouched
  <1>2. Inv'
        BY <1>1, OnlyMemory DEF Inv, TypeOK
  <1>3. tail \in Nat
        BY Positive DEF Inv, TypeOK, Places
  <1>4. consumer' \in Consumers /\ ItemsKept' /\ PoppedOne'
        BY <1>1, <1>3, OffsetsStay DEF Consumers, ItemsKept, PoppedOne
  <1> QED BY <1>1, <1>2, <1>4, OffsetsStay

LEMMA PopInv == ASSUME SharedInv, SharedPop PROVE SharedInv'
  <1>1. CASE circ_count = 0
        BY <1>1, Refusal DEF SharedPop, Refused
  <1>2. CASE circ_count # 0
    <2>1. 1 <= circ_count /\ T + 1 <= size
          BY <1>2, CountIs, Positive DEF SharedInv
    <2>2. <<mem[tail]>> \in Seq(Items \cup {Junk}) /\ Len(<<mem[tail]>>) = 1
          BY Positive, ReadType DEF SharedInv, Inv
    <2> QED BY <1>2, <2>1, <2>2, TakeInv DEF SharedPop
  <1> QED BY <1>1, <1>2

LEMMA PopMInv == ASSUME SharedInv, NEW n \in 0..MaxBatch, SharedPopM(n) PROVE SharedInv'
  <1>1. CASE circ_count_to_end < n
        BY <1>1, Refusal DEF SharedPopM, Refused
  <1>2. CASE ~(circ_count_to_end < n)
    <2>1. n \in Nat /\ n <= circ_count /\ T + n <= size
          BY <1>2, ConstantsAssumption, CountIs, CountToEndIs, Positive DEF SharedInv
    <2> DEFINE b == [i \in 1..n |-> Junk]
    <2>2. b \in Seq(Items \cup {Junk}) /\ Len(b) = n
          BY <2>1, SpoiltBatch
    <2>3. /\ consumer' = [pc |-> "reading", name |-> "popm", at |-> tail, batch |-> b]
          /\ Untouched /\ UNCHANGED <<tail, popped, call, ret, out>>
          BY <1>2 DEF SharedPopM
    <2> HIDE DEF b
    <2> QED BY <2>1, <2>2, <2>3, TakeInv
  <1> QED BY <1>1, <1>2

LEMMA EndReadInv == ASSUME SharedInv, EndRead PROVE SharedInv'
  <1> USE Positive DEF SharedInv
  <1> DEFINE n == Len(consumer.batch)
  <1>1. /\ consumer' = [consumer EXCEPT !.pc = "releasing", !.batch = Read(tail, n)]
        /\ consumer.pc = "reading"
        /\ UNCHANGED <<open, type, size, elem_sz, head, tail, mem, popped, producer>>
        BY DEF EndRead, Untouched
  <1>2. /\ n \in Nat /\ consumer.at = tail /\ n <= circ_count /\ T + n <= size
        BY <1>1 DEF ItemsKept, Consumers
  <1>3. Inv'
        BY <1>1, OnlyMemory DEF Inv, TypeOK
  <1>4. Read(tail, n) \in [1..n -> Items \cup {Junk}]
    <2>1. ASSUME NEW i \in 1..n PROVE mem[tail + (i - 1) * elem_sz] \in Items \cup {Junk}
      <3>1. T + (i - 1) \in 0..size - 1 /\ tail = T * elem_sz
            BY <1>2 DEF Inv
      <3>2. (T + (i - 1)) * elem_sz = T * elem_sz + (i - 1) * elem_sz
            BY <1>2, OffsetOrder
      <3> QED BY <3>1, <3>2, ReadType
    <2> QED BY <2>1 DEF Read
  <1>5. Read(tail, n) \in Seq(Items \cup {Junk}) /\ Len(Read(tail, n)) = n
        BY <1>2, <1>4, FunctionSeq
  <1> HIDE DEF n
  <1>6. consumer' \in Consumers /\ ItemsKept' /\ PoppedOne'
        BY <1>1, <1>2, <1>5, OffsetsStay DEF Consumers, ItemsKept, PoppedOne
  <1> QED BY <1>1, <1>3, <1>6, OffsetsStay

LEMMA ReleaseInv == ASSUME SharedInv, Release PROVE SharedInv'
  <1> USE Positive DEF SharedInv
  <1> DEFINE n == Len(consumer.batch)
  <1>1. /\ n \in Nat /\ n <= circ_count /\ tail' = Advance(tail, n) /\ consumer.at = tail
        /\ UNCHANGED <<open, type, size, elem_sz, head, mem, producer>>
        BY DEF Release, Untouched, ItemsKept, Consumers
  <1>2. popped' \in Items \cup {Junk}
        BY DEF Release, Consumers, PoppedOne
  <1>3. Inv'
    <2>1. T \in 0..size - 1 /\ n \in 0..size /\ tail = T * elem_sz
          BY <1>1, CountIs DEF Inv
    <2>2. PICK i \in 0..size - 1 : tail' = i * elem_sz
          BY <1>1, <2>1, AdvancePlace
    <2> QED BY <1>1, <1>2, <2>2, MoveInv DEF Inv, TypeOK
  <1>4. circ_count' = circ_count - n
        BY <1>1, <1>3, TailMoves
  <1>5. RoomKept' /\ Tested' /\ producer' \in Producers
    <2>1. circ_count \in Nat
          BY CountIs
    <2>2. ASSUME Pushing PROVE circ_count' + Len(producer.batch) < size
      <3>1. circ_count + Len(producer.batch) < size /\ Len(producer.batch) \in Nat
            BY <2>2 DEF RoomKept, Producers
      <3>2. n \in Nat /\ size \in Nat /\ circ_count' = circ_count - n
            BY <1>1, <1>4
      <3> HIDE DEF n
      <3> QED BY <2>1, <3>1, <3>2
    <2> QED BY <1>1, <2>2 DEF RoomKept, Pushing, Tested
  <1>6. CASE consumer.pc = "popping"
    <2>1. n = 1 /\ consumer' = [consumer EXCEPT !.pc = "using"]
          BY <1>6 DEF Release, PoppedOne
    <2>2. Behind' = tail
          BY <1>1, <2>1, BehindAdvanced DEF Behind
    <2> QED BY <1>1, <1>3, <1>5, <2>1, <2>2 DEF Consumers, ItemsKept, PoppedOne
  <1>7. CASE consumer.pc # "popping"
    <2>1. consumer' = Idle
          BY <1>7 DEF Release
    <2> QED BY <1>3, <1>5, <2>1 DEF Idle, Consumers, ItemsKept, PoppedOne
  <1> QED BY <1>6, <1>7

LEMMA DoneInv == ASSUME SharedInv, Done PROVE SharedInv'
  <1> USE DEF SharedInv
  <1>1. /\ consumer' = Idle /\ popped' = Junk
        /\ UNCHANGED <<open, type, size, elem_sz, head, tail, mem, producer>>
        BY DEF Done, Untouched
  <1>2. Inv'
        BY <1>1, Positive, MoveInv DEF Inv, TypeOK
  <1> QED BY <1>1, <1>2, OffsetsStay DEF Idle, Consumers, ItemsKept, PoppedOne
----------------------------------------------------------------------------
LEMMA SharedNextInv == SharedInv /\ [SharedNext]_sharedVars => SharedInv'
  <1> SUFFICES ASSUME SharedInv, [SharedNext]_sharedVars PROVE SharedInv'
      OBVIOUS
  <1>1. CASE Alone
    <2>1. Inv'
          BY <1>1, NextInv DEF Alone, Next, SharedInv
    <2>2. producer.pc = "idle" /\ consumer.pc = "idle" /\ UNCHANGED <<producer, consumer>>
          BY <1>1 DEF Alone, BothIdle
    <2> QED BY <2>1, <2>2
            DEF SharedInv, RoomKept, Pushing, Tested, ItemsKept, PoppedOne
  <1>2. CASE UNCHANGED sharedVars
    <2>1. Inv'
          BY <1>2, NextInv DEF sharedVars, SharedInv
    <2> QED BY <1>2, <2>1, OffsetsStay DEF sharedVars, vars, buf, SharedInv
  <1> QED BY <1>1, <1>2, PushInv, PushMInv, NoRoomInv, RewindInv, TearInv,
             EndCopyInv, PublishInv, PopInv, PopMInv,
             EndReadInv, ReleaseInv, DoneInv DEF SharedNext

(***************************************************************************)
(* A lock that is kept until the item is done with lets one thread in at a *)
(* time, and so no item that is in use is overrun.                         *)
(***************************************************************************)
LockHeld ==
    /\ lock = "items" => producer.pc = "idle" \/ consumer.pc = "idle"
    /\ consumer.pc = "overrun" => lock # "items"

LEMMA LockNext ==
    ASSUME SharedInv, LockHeld, [SharedNext]_sharedVars
    PROVE  LockHeld'
  <1> USE DEF LockHeld
  <1>1. ASSUME NEW x \in Items, SharedPush(x) PROVE LockHeld'
        BY <1>1 DEF SharedPush, MayCall, Refused, StartCopy
  <1>2. ASSUME NEW b \in Batches, SharedPushM(b) PROVE LockHeld'
        BY <1>2 DEF SharedPushM, MayCall, StartCopy
  <1>3. CASE Rewind
        BY <1>3 DEF Rewind, StartCopy, UsedOverrun, SharedInv, Consumers
  <1>4. CASE NoRoom \/ Tear \/ Torn \/ EndCopy \/ Publish
        BY <1>4 DEF NoRoom, Tear, Torn, EndCopy, Publish, Idle, sharedVars,
                    SharedInv, Producers
  <1>5. CASE SharedPop \/ \E n \in 0..MaxBatch : SharedPopM(n)
        BY <1>5 DEF SharedPop, SharedPopM, MayCall, Refused, Untouched
  <1>6. CASE EndRead \/ Release \/ Done
    <2>1. UNCHANGED <<lock, producer>> /\ consumer.pc # "idle"
          BY <1>6 DEF EndRead, Release, Done, Untouched
    <2>2. consumer'.pc # "overrun"
      <3>1. CASE EndRead
            BY <3>1 DEF EndRead, SharedInv, Consumers
      <3>2. CASE Release
            BY <3>2 DEF Release, Idle, SharedInv, Consumers
      <3>3. CASE Done
            BY <3>3 DEF Done, Idle
      <3> QED BY <1>6, <3>1, <3>2, <3>3
    <2> QED BY <2>1, <2>2
  <1>7. CASE Alone \/ UNCHANGED sharedVars
        BY <1>7 DEF Alone, sharedVars
  <1> QED BY <1>1, <1>2, <1>3, <1>4, <1>5, <1>6, <1>7 DEF SharedNext

(***************************************************************************)
(* A thread that pushes and one that pops never use a place at the same    *)
(* time, whether each call is locked, or the use of an item too, or        *)
(* nothing (ac_circ_buf.c:149-157, :178-182, :204-211, :236-238).  This is *)
(* for item sizes that are powers of two and batches shorter than `size';  *)
(* an item in use may be overrun by a pushm that rewinds (:142-147) unless *)
(* the lock is kept until it is done with; and without a lock nothing is   *)
(* said of what follows a rewind whose two stores are seen apart.          *)
(***************************************************************************)
THEOREM NeverShared == SharedSpec => []NeverSamePlace
  <1>1. SharedInit => LockHeld
        BY DEF SharedInit, LockHeld, Idle
  <1>2. SharedInv /\ LockHeld => NeverSamePlace
        BY Apart DEF NeverSamePlace, LockHeld
  <1> QED BY <1>1, <1>2, SharedInitInv, SharedNextInv, LockNext, PTL DEF SharedSpec

----------------------------------------------------------------------------
(***************************************************************************)
(* The buffer between two threads implements the same Fifo as the one of a *)
(* single thread: items are pushed when the head is published, and popped  *)
(* when the tail is released.  What was copied before is still so then.    *)
(***************************************************************************)
AsAsked(name, b) ==
    \/ name = "push" /\ Len(b) = 1
    \/ name = "pushm" /\ b \in Batches

Contiguous ==
    Pushing =>
        /\ H + Len(producer.batch) <= size
        /\ AsAsked(producer.name, producer.batch)

Copied ==
    producer.pc = "publishing" =>
        \A i \in 1..Len(producer.batch) :
           mem[head + (i - 1) * elem_sz] = producer.batch[i]

Taken ==
    /\ consumer.pc \in {"popping", "releasing"} =>
          \A i \in 1..Len(consumer.batch) :
             consumer.batch[i] = mem[tail + (i - 1) * elem_sz]
    /\ consumer.pc = "popping" => consumer.name = "pop"
    /\ consumer.pc \in {"reading", "releasing"} =>
          consumer.name = "popm" /\ Len(consumer.batch) \in 0..MaxBatch

HeldInv ==
    /\ SharedInv
    /\ ~BothIdle => open
    /\ Contiguous /\ Copied /\ Taken
    /\ PoppedIntact

(***************************************************************************)
(* Copying into the room leaves alone what the buffer holds and what was   *)
(* popped.                                                                 *)
(***************************************************************************)
Room(n) == n \in Nat /\ circ_count + n < size /\ H + n <= size

LEMMA RoomWrite ==
    ASSUME Inv, NEW b, Room(Len(b)), NEW i \in 1..circ_count
    PROVE  LET x == Wrap(size, T + (i - 1)) * elem_sz
           IN  Write(mem, head, b, elem_sz)[x] = mem[x]
  <1> USE Positive
  <1> DEFINE n == Len(b)
             j == Wrap(size, T + (i - 1))
             x == j * elem_sz
  <1>1. /\ n \in Nat /\ circ_count + n < size /\ H + n <= size
        /\ circ_count \in 0..size - 1 /\ H = Wrap(size, T + circ_count)
        /\ size \in Nat \ {0} /\ H \in 0..size - 1 /\ T \in 0..size - 1
        BY CountIs DEF Room, Wrap
  <1> HIDE DEF n
  <1>2. Layout(size, T, circ_count, n, H)
        BY <1>1, FreePlaces
  <1>3. j \in 0..size - 1 /\ (j <= H - 1 \/ j >= H + n)
        BY <1>2 DEF Layout
  <1> HIDE DEF j
  <1>4. x <= H * elem_sz - elem_sz \/ x >= H * elem_sz + n * elem_sz
    <2>1. j \in Int /\ H \in Int /\ n \in Int
          BY <1>1, <1>3
    <2> QED BY <1>3, <2>1, OffsetOrder
  <1>5. x \in 0..(size * elem_sz) - 1
        BY <1>3, OffsetIn
  <1>6. head = H * elem_sz /\ DOMAIN mem = 0..(size * elem_sz) - 1 /\ head \in Nat
    <2>1. head = H * elem_sz /\ DOMAIN mem = 0..(size * elem_sz) - 1
          BY DEF Inv, TypeOK
    <2> QED BY <2>1
  <1>7. /\ x \in DOMAIN mem /\ x \in Int /\ Len(b) \in Nat
        /\ Clear(x, head, Len(b), elem_sz)
        BY <1>1, <1>4, <1>5, <1>6 DEF Clear, n
  <1> HIDE DEF x
  <1>8. elem_sz \in Nat \ {0}
        OBVIOUS
  <1>9. Write(mem, head, b, elem_sz)[x] = mem[x]
        BY <1>6, <1>7, <1>8, WriteElsewhere
  <1> QED BY <1>9 DEF x, j

LEMMA CopyStep ==
    ASSUME Inv, Inv', NEW b, Room(Len(b)), mem' = Write(mem, head, b, elem_sz),
           UNCHANGED <<head, tail, size, elem_sz>>
    PROVE  /\ Contents' = Contents
           /\ mem'[Behind] = mem[Behind]
           /\ \A n \in Nat : n <= circ_count /\ T + n <= size =>
                 \A i \in 1..n : mem'[tail + (i - 1) * elem_sz] = mem[tail + (i - 1) * elem_sz]
  <1> USE Positive
  <1>1. circ_count' = circ_count /\ T' = T /\ circ_count \in 0..size - 1 /\ T \in 0..size - 1
        BY SameCounts, CountIs
  <1>2. Contents' = Contents
    <2>1. Contents = [i \in 1..circ_count |-> mem[Wrap(size, T + (i - 1)) * elem_sz]]
          BY ContentsIs
    <2>2. Contents' = [i \in 1..circ_count |-> mem'[Wrap(size, T + (i - 1)) * elem_sz]]
      <3>1. (Contents = [i \in 1..circ_count |-> mem[Wrap(size, T + (i - 1)) * elem_sz]])'
            BY ContentsIs, PTL
      <3> QED BY <1>1, <3>1
    <2>3. \A i \in 1..circ_count : mem'[Wrap(size, T + (i - 1)) * elem_sz] =
                                   mem[Wrap(size, T + (i - 1)) * elem_sz]
          BY RoomWrite
    <2> QED BY <2>1, <2>2, <2>3
  <1>3. mem'[Behind] = mem[Behind]
    <2>1. Len(b) \in 0..circ_space_to_end
          BY CountIs, SpaceToEndIs DEF Room
    <2> QED BY <2>1, BehindUntouched
  <1>4. ASSUME NEW n \in Nat, n <= circ_count, T + n <= size, NEW i \in 1..n
        PROVE  mem'[tail + (i - 1) * elem_sz] = mem[tail + (i - 1) * elem_sz]
    <2>1. Wrap(size, T + (i - 1)) = T + (i - 1) /\ i \in 1..circ_count
          BY <1>1, <1>4 DEF Wrap
    <2>2. (T + (i - 1)) * elem_sz = T * elem_sz + (i - 1) * elem_sz
          BY <1>1, <1>4, OffsetOrder
    <2>3. tail = T * elem_sz
          BY DEF Inv
    <2>4. Wrap(size, T + (i - 1)) * elem_sz = tail + (i - 1) * elem_sz
          BY <2>1, <2>2, <2>3
    <2> QED BY <2>1, <2>4, RoomWrite
  <1> QED BY <1>2, <1>3, <1>4

(***************************************************************************)
(* What was copied is where the head will be moved over it.                *)
(***************************************************************************)
LEMMA CopiedThere ==
    ASSUME Inv, NEW b, Room(Len(b)), NEW i \in 1..Len(b)
    PROVE  Write(mem, head, b, elem_sz)[head + (i - 1) * elem_sz] = b[i]
  <1> USE Positive
  <1>1. H + (i - 1) \in 0..size - 1 /\ head = H * elem_sz /\ Len(b) \in Nat
        BY DEF Room, Inv
  <1>2. (H + (i - 1)) * elem_sz = head + (i - 1) * elem_sz
        BY <1>1, OffsetOrder
  <1>3. (H + (i - 1)) * elem_sz \in 0..(size * elem_sz) - 1
        BY <1>1, OffsetIn
  <1>4. DOMAIN mem = 0..(size * elem_sz) - 1 /\ head \in Nat
    <2>1. DOMAIN mem = 0..(size * elem_sz) - 1
          BY DEF Inv, TypeOK
    <2> QED BY <1>1, <2>1
  <1>5. head + (i - 1) * elem_sz \in DOMAIN mem
        BY <1>2, <1>3, <1>4
  <1>6. elem_sz \in Nat \ {0} /\ head \in Nat /\ Len(b) \in Nat
        BY <1>1, <1>4
  <1>7. \A m, at, sz : /\ at \in Nat /\ sz \in Nat \ {0}
                       /\ at + (i - 1) * sz \in DOMAIN m
                       => Write(m, at, b, sz)[at + (i - 1) * sz] = b[i]
        BY <1>6, WriteHere
  <1> QED BY <1>5, <1>6, <1>7

LEMMA HeadOver ==
    ASSUME Inv, Inv', NEW b \in Seq(Items), Room(Len(b)), head' = Advance(head, Len(b)),
           UNCHANGED <<tail, mem, size, elem_sz>>,
           \A i \in 1..Len(b) : mem[head + (i - 1) * elem_sz] = b[i]
    PROVE  Contents' = Contents \o b
  <1> USE Positive
  <1> DEFINE n == Len(b)
             c == circ_count
  <1>1. /\ n \in Nat /\ c + n < size /\ H + n <= size
        /\ c \in 0..size - 1 /\ H = Wrap(size, T + c)
        /\ size \in Nat \ {0} /\ H \in 0..size - 1 /\ T \in 0..size - 1
        BY CountIs DEF Room, Wrap
  <1>2. Layout(size, T, c, n, H)
        BY <1>1, FreePlaces
  <1>3. circ_count' = c + n /\ T' = T
        BY <1>1, HeadMoves DEF T
  <1>4. Contents' = [i \in 1..c + n |-> mem[Wrap(size, T + (i - 1)) * elem_sz]]
    <2>1. (Contents = [i \in 1..circ_count |-> mem[Wrap(size, T + (i - 1)) * elem_sz]])'
          BY ContentsIs, PTL
    <2> QED BY <1>3, <2>1
  <1>5. Contents = [i \in 1..c |-> mem[Wrap(size, T + (i - 1)) * elem_sz]]
        BY ContentsIs
  <1>6. Contents \in Seq(Items \cup {Junk}) /\ Len(Contents) = c
        BY ContentsSeq
  <1>7. (Contents \in Seq(Items \cup {Junk}) /\ Len(Contents) = circ_count)'
        BY ContentsSeq, PTL
  <1>8. /\ Contents \o b \in Seq(Items \cup {Junk}) /\ Len(Contents \o b) = c + n
        /\ \A i \in 1..c + n : (Contents \o b)[i] = IF i <= c THEN Contents[i] ELSE b[i - c]
    <2>1. b \in Seq(Items \cup {Junk})
          OBVIOUS
    <2> QED BY <1>6, <2>1, ConcatProperties
  <1> HIDE DEF c, n
  <1>9. ASSUME NEW i \in 1..c + n
        PROVE  Contents'[i] = (Contents \o b)[i]
    <2>1. CASE i <= c
      <3>1. i \in 1..c
            BY <1>1, <2>1
      <3>2. (Contents \o b)[i] = Contents[i]
            BY <1>8, <2>1
      <3> QED BY <1>4, <1>5, <3>1, <3>2
    <2>2. CASE i > c
      <3> DEFINE k == i - c
      <3>1. k \in 1..n /\ c + k = i
            BY <1>1, <2>2
      <3> HIDE DEF k
      <3>2. Wrap(size, T + (i - 1)) = H + (k - 1)
            BY <1>2, <3>1 DEF Layout
      <3>3. (H + (k - 1)) * elem_sz = head + (k - 1) * elem_sz
        <4>1. head = H * elem_sz /\ k - 1 \in Int /\ H \in Int /\ elem_sz \in Nat \ {0}
              BY <1>1, <3>1 DEF Inv
        <4>2. (H + (k - 1)) * elem_sz = H * elem_sz + (k - 1) * elem_sz
              BY <4>1, OffsetOrder
        <4> QED BY <4>1, <4>2
      <3>4. Contents'[i] = mem[head + (k - 1) * elem_sz]
            BY <1>4, <3>2, <3>3
      <3>5. mem[head + (k - 1) * elem_sz] = b[k]
            BY <3>1 DEF n
      <3>6. (Contents \o b)[i] = b[i - c]
        <4> DEFINE all == Contents \o b
                   kept == Contents
        <4> HIDE DEF all, kept
        <4>1. \A j \in 1..c + n : all[j] = IF j <= c THEN kept[j] ELSE b[j - c]
              BY <1>8 DEF all, kept
        <4>2. ~(i <= c)
              BY <1>1, <2>2
        <4> QED BY <4>1, <4>2 DEF all
      <3> QED BY <3>4, <3>5, <3>6 DEF k
    <2>3. i <= c \/ i > c
          BY <1>1
    <2> QED BY <2>1, <2>2, <2>3, Zenon
  <1> QED BY <1>3, <1>7, <1>8, <1>9, SeqEqual DEF c
----------------------------------------------------------------------------
(***************************************************************************)
(* A thread that does not move keeps what it has, if the buffer stays.     *)
(***************************************************************************)
LEMMA BufferStays ==
    ASSUME HeldInv, UNCHANGED <<head, tail, size, elem_sz, mem>>
    PROVE  /\ UNCHANGED producer => Contiguous' /\ Copied'
           /\ UNCHANGED consumer => Taken'
           /\ UNCHANGED popped => PoppedIntact'
           /\ UNCHANGED <<open, call, ret, out>> => UNCHANGED F!vars
  <1>1. H' = H
        BY DEF H
  <1>2. UNCHANGED Contents
        BY DEF Contents, circ_count, Advance, Mask, Add, Sub, Mul
  <1> QED BY <1>1, <1>2
          DEF HeldInv, Contiguous, Pushing, Copied, Taken, PoppedIntact, F!vars

LEMMA IdleHeld ==
    ASSUME producer' = Idle
    PROVE  Contiguous' /\ Copied'
  BY DEF Idle, Contiguous, Pushing, Copied

LEMMA RefusalHeld ==
    ASSUME HeldInv, SharedInv', NEW name, NEW n, Refuse(name, n), open,
           producer' \in {producer, Idle}, UNCHANGED consumer
    PROVE  HeldInv' /\ F!Refuse(name, n)
  <1>1. UNCHANGED <<open, head, tail, size, elem_sz, mem, popped>>
        BY DEF Refuse, buf
  <1>2. Contiguous' /\ Copied' /\ Taken' /\ PoppedIntact'
        BY <1>1, BufferStays, IdleHeld
  <1> QED BY <1>1, <1>2, RefusalRefines DEF HeldInv
----------------------------------------------------------------------------
(***************************************************************************)
(* The producer's steps: a refusal, or nothing Fifo sees until the head is *)
(* published.                                                              *)
(***************************************************************************)
LEMMA CopyHeld ==
    ASSUME HeldInv, Inv', NEW b, Room(Len(b)), mem' = Write(mem, head, b, elem_sz),
           UNCHANGED <<open, head, tail, size, elem_sz, popped, consumer, call, ret, out>>
    PROVE  Taken' /\ PoppedIntact' /\ UNCHANGED F!vars
  <1>1. /\ Contents' = Contents /\ mem'[Behind] = mem[Behind]
        /\ \A n \in Nat : n <= circ_count /\ T + n <= size =>
              \A i \in 1..n : mem'[tail + (i - 1) * elem_sz] = mem[tail + (i - 1) * elem_sz]
        BY CopyStep DEF HeldInv, SharedInv
  <1>2. Taken'
    <2>1. ASSUME consumer.pc \in {"popping", "releasing"}, NEW i \in 1..Len(consumer.batch)
          PROVE  mem'[tail + (i - 1) * elem_sz] = mem[tail + (i - 1) * elem_sz]
      <3>1. /\ Len(consumer.batch) \in Nat
            /\ Len(consumer.batch) <= circ_count /\ T + Len(consumer.batch) <= size
            BY <2>1 DEF HeldInv, SharedInv, ItemsKept, Consumers
      <3> QED BY <1>1, <3>1
    <2> QED BY <2>1 DEF HeldInv, Taken
  <1>3. PoppedIntact'
        BY <1>1 DEF HeldInv, PoppedIntact, Behind
  <1> QED BY <1>1, <1>2, <1>3 DEF F!vars

LEMMA StartHeld ==
    ASSUME HeldInv, SharedInv', open, NEW name, NEW b \in Seq(Items), AsAsked(name, b),
           Room(Len(b)), StartCopy(name, head, b),
           UNCHANGED <<head, tail, popped, consumer>>
    PROVE  HeldInv' /\ UNCHANGED F!vars
  <1> DEFINE j == [i \in 1..Len(b) |-> Junk]
  <1>1. /\ mem' = Write(mem, head, j, elem_sz)
        /\ producer' = [pc |-> "copying", name |-> name, at |-> head, batch |-> b]
        /\ UNCHANGED <<open, head, tail, size, elem_sz, popped, consumer, call, ret, out>>
        BY DEF StartCopy
  <1>2. Len(j) = Len(b)
        BY SpoiltBatch
  <1> HIDE DEF j
  <1>3. Taken' /\ PoppedIntact' /\ UNCHANGED F!vars
        BY <1>1, <1>2, CopyHeld DEF SharedInv
  <1>4. H' = H
        BY <1>1 DEF H
  <1>5. Contiguous' /\ Copied'
        BY <1>1, <1>4 DEF Contiguous, AsAsked, Copied, Room
  <1> QED BY <1>1, <1>3, <1>5 DEF HeldInv

LEMMA PushHeld ==
    ASSUME HeldInv, SharedInv', NEW x \in Items, SharedPush(x)
    PROVE  HeldInv' /\ [F!Next]_(F!vars)
  <1>0. Inv /\ open
        BY DEF HeldInv, SharedInv, SharedPush, MayCall
  <1>1. CASE circ_space = 0
    <2>1. HeldInv' /\ F!Refuse("push", 1)
          BY <1>0, <1>1, RefusalHeld DEF SharedPush, Refused
    <2>2. circ_count = size - 1 /\ C = size - 1 /\ Q = Contents
          BY <1>0, <1>1, SpaceIs, CountIs, Positive DEF Q, C
    <2>3. ~F!Room(1)
          BY <1>0, <2>2, EmptyContents, Positive, ConstantsAssumption DEF F!Room, Q, C
    <2> QED BY <1>0, <2>1, <2>3 DEF F!Push, F!Next
  <1>2. CASE circ_space # 0
    <2>1. Room(1)
          BY <1>0, <1>2, SpaceIs, CountIs, Positive DEF Room
    <2>2. <<x>> \in Seq(Items) /\ Len(<<x>>) = 1
          OBVIOUS
    <2>3. /\ StartCopy("push", head, <<x>>) /\ UNCHANGED <<head, tail, popped, consumer>>
          /\ AsAsked("push", <<x>>)
          BY <1>2 DEF SharedPush, AsAsked
    <2> QED BY <1>0, <2>1, <2>2, <2>3, StartHeld
  <1> QED BY <1>1, <1>2

LEMMA PushMHeld ==
    ASSUME HeldInv, SharedInv', NEW b \in Batches, SharedPushM(b)
    PROVE  HeldInv' /\ UNCHANGED F!vars
  <1> DEFINE n == Len(b)
  <1>0. b \in Seq(Items) /\ n \in Nat /\ Inv /\ open
        BY Batch DEF HeldInv, SharedInv, SharedPushM, MayCall
  <1>1. CASE circ_space_to_end < n
    <2>1. producer'.pc = "testing" /\ UNCHANGED <<vars, consumer>>
          BY <1>1 DEF SharedPushM
    <2>2. UNCHANGED <<open, head, tail, size, elem_sz, mem, popped, call, ret, out>>
          BY <2>1 DEF vars, buf
    <2>3. Contiguous' /\ Copied'
          BY <2>1 DEF Contiguous, Pushing, Copied
    <2> QED BY <1>0, <2>1, <2>2, <2>3, BufferStays DEF HeldInv
  <1>2. CASE ~(circ_space_to_end < n)
    <2>1. Room(n)
          BY <1>0, <1>2, CountIs, SpaceToEndIs, Positive DEF Room
    <2>2. /\ StartCopy("pushm", head, b) /\ UNCHANGED <<head, tail, popped, consumer>>
          /\ AsAsked("pushm", b)
          BY <1>2 DEF SharedPushM, AsAsked
    <2> QED BY <1>0, <2>1, <2>2, StartHeld
  <1> QED BY <1>1, <1>2

(***************************************************************************)
(* The second test refuses a batch only when the buffer is not empty, or   *)
(* could not hold it.                                                      *)
(***************************************************************************)
LEMMA NoRoomHeld ==
    ASSUME HeldInv, SharedInv', NoRoom
    PROVE  HeldInv' /\ F!Next
  <1> DEFINE b == producer.batch
             n == Len(b)
  <1>1. /\ Inv /\ open /\ b \in Batches /\ n \in Nat /\ n > 0
        /\ circ_count # 0 \/ ~(n <= size)
        BY Batch DEF HeldInv, SharedInv, Tested, NoRoom, BothIdle, CanRewind
  <1>2. HeldInv' /\ F!Refuse("pushm", n)
        BY <1>1, RefusalHeld DEF NoRoom
  <1>3. Q = Contents /\ C = size - 1 /\ b \in F!Batches
        BY <1>1 DEF Q, C, Batches, F!Batches
  <1>4. F!Room(n) => circ_count + n <= size - 1
        BY <1>1, <1>3, EmptyContents, Positive, ConstantsAssumption DEF F!Room, Q, C
  <1>5. Q # << >> <=> circ_count # 0
        BY <1>1, <1>3, EmptyContents
  <1>6. F!Room(n) => Q # << >>
        BY <1>1, <1>4, <1>5, CountIs, Positive
  <1>7. F!PushM(b)
        BY <1>1, <1>2, <1>6 DEF F!PushM, Q
  <1> QED BY <1>2, <1>3, <1>7 DEF F!Next

LEMMA RewindHeld ==
    ASSUME HeldInv, SharedInv', Rewind
    PROVE  HeldInv' /\ UNCHANGED F!vars
  <1> DEFINE b == producer.batch
  <1>1. /\ producer' = [pc |-> "copying", name |-> "pushm", at |-> 0, batch |-> b]
        /\ popped' = Junk /\ UNCHANGED <<open, size, call, ret, out>>
        /\ b \in Batches /\ open
        BY DEF Rewind, StartCopy, UsedOverrun, HeldInv, SharedInv, Tested, BothIdle
  <1>2. Inv /\ Inv' /\ circ_count = 0 /\ circ_count' = 0
        BY Rewound DEF HeldInv, SharedInv
  <1>3. Contiguous' /\ Copied' /\ Taken' /\ PoppedIntact'
    <2>1. H' = 0 /\ Len(b) \in Nat /\ Len(b) < size /\ size \in Nat
          BY <1>2, Rewound, Positive DEF HeldInv
    <2>2. Contiguous' /\ Copied'
          BY <1>1, <2>1 DEF Contiguous, AsAsked, Copied
    <2>3. consumer'.pc \in {"idle", "overrun"}
          BY Rewound DEF HeldInv
    <2> QED BY <1>1, <2>2, <2>3 DEF Taken, PoppedIntact
  <1>4. Contents = << >> /\ Contents' = << >>
    <2>1. (Contents \in Seq(Items \cup {Junk}) /\ Len(Contents) = circ_count)'
          BY <1>2, ContentsSeq, PTL
    <2>2. Contents \in Seq(Items \cup {Junk}) /\ Len(Contents) = circ_count
          BY <1>2, ContentsSeq
    <2> QED BY <1>2, <2>1, <2>2, EmptySeq
  <1>5. UNCHANGED F!vars
        BY <1>1, <1>4 DEF F!vars
  <1> QED BY <1>1, <1>3, <1>5 DEF HeldInv

LEMMA TearHeld ==
    ASSUME HeldInv, SharedInv', Tear \/ Torn
    PROVE  HeldInv' /\ UNCHANGED F!vars
  <1>1. UNCHANGED <<open, head, tail, size, elem_sz, mem, popped, call, ret, out, consumer>>
        BY DEF Tear, Torn, sharedVars, vars, buf
  <1>2. producer.pc # "idle" /\ producer'.pc = "torn"
        BY DEF Tear, Torn, sharedVars, HeldInv, SharedInv, Producers
  <1>3. open
        BY <1>2 DEF HeldInv, BothIdle
  <1>4. Contiguous' /\ Copied'
        BY <1>2 DEF Contiguous, Pushing, Copied
  <1> QED BY <1>1, <1>3, <1>4, BufferStays DEF HeldInv

LEMMA RoomThere ==
    ASSUME HeldInv, Pushing
    PROVE  Room(Len(producer.batch)) /\ producer.at = head /\ producer.batch \in Seq(Items)
  BY DEF HeldInv, SharedInv, RoomKept, Contiguous, Producers, Room

LEMMA EndCopyHeld ==
    ASSUME HeldInv, SharedInv', EndCopy
    PROVE  HeldInv' /\ UNCHANGED F!vars
  <1> DEFINE b == producer.batch
  <1>1. /\ mem' = Write(mem, head, b, elem_sz) /\ Room(Len(b))
        /\ UNCHANGED <<open, head, tail, size, elem_sz, popped, consumer, call, ret, out>>
        BY RoomThere DEF EndCopy, Pushing
  <1>2. /\ producer'.batch = b /\ producer'.name = producer.name
        /\ Pushing /\ producer.pc # "idle"
        BY DEF EndCopy, Pushing, HeldInv, SharedInv, Producers
  <1>3. Inv /\ Inv'
        BY DEF HeldInv, SharedInv
  <1>4. Taken' /\ PoppedIntact' /\ UNCHANGED F!vars
        BY <1>1, <1>3, CopyHeld
  <1>5. \A i \in 1..Len(b) : mem'[head + (i - 1) * elem_sz] = b[i]
        BY <1>1, <1>3, CopiedThere
  <1>6. H' = H
        BY <1>1 DEF H
  <1>7. Contiguous' /\ Copied'
        BY <1>1, <1>2, <1>5, <1>6 DEF HeldInv, Contiguous, Copied
  <1> QED BY <1>1, <1>2, <1>4, <1>7 DEF HeldInv, BothIdle

LEMMA PublishHeld ==
    ASSUME HeldInv, SharedInv', Publish
    PROVE  HeldInv' /\ F!Next
  <1> DEFINE b == producer.batch
             n == Len(b)
  <1>1. /\ head' = Advance(head, n) /\ Room(n) /\ b \in Seq(Items)
        /\ producer' = Idle /\ AsAsked(producer.name, b)
        /\ F!Ok(F!Call(producer.name, n, b), << >>)
        /\ UNCHANGED <<open, tail, size, elem_sz, mem, popped, consumer>>
        BY RoomThere DEF Publish, Return, Call, F!Ok, F!Call, Pushing, HeldInv, Contiguous
  <1>2. Inv /\ Inv' /\ open /\ n \in Nat
        BY <1>1 DEF HeldInv, SharedInv, Publish, BothIdle, Room
  <1>3. \A i \in 1..Len(b) : mem[head + (i - 1) * elem_sz] = b[i]
        BY DEF HeldInv, Copied, Publish
  <1>4. Contents' = Contents \o b
        BY <1>1, <1>2, <1>3, HeadOver
  <1>5. Q = Contents /\ Q' = Contents' /\ C = size - 1 /\ C' = size - 1 /\ open' = open
        BY <1>1, <1>2 DEF Q, C
  <1>6. F!Room(n)
    <2>1. circ_count + n <= size - 1
          BY <1>1, <1>2, CountIs, Positive DEF Room
    <2> QED BY <1>2, <1>5, <2>1, EmptyContents DEF F!Room, Q, C
  <1>7. HeldInv'
    <2>1. Contiguous' /\ Copied'
          BY <1>1, IdleHeld
    <2>2. Taken' /\ PoppedIntact'
          BY <1>1 DEF HeldInv, Taken, PoppedIntact
    <2> QED BY <1>1, <1>2, <2>1, <2>2 DEF HeldInv
  <1>8. CASE producer.name = "push" /\ n = 1
    <2>1. b = <<b[1]>> /\ b[1] \in Items
          BY <1>1, <1>8
    <2>2. Contents \o b = Append(Contents, b[1])
      <3>1. Contents \in Seq(Items \cup {Junk})
            BY <1>2, ContentsSeq
      <3>2. Contents \o <<b[1]>> = Append(Contents, b[1])
            BY <3>1, <2>1
      <3> QED BY <2>1, <3>2
    <2>3. F!Push(b[1])
          BY <1>1, <1>2, <1>4, <1>5, <1>6, <1>8, <2>1, <2>2 DEF F!Push, Q, C
    <2> QED BY <1>7, <2>1, <2>3 DEF F!Next
  <1>9. CASE producer.name = "pushm" /\ b \in Batches
    <2>1. F!PushM(b)
          BY <1>1, <1>2, <1>4, <1>5, <1>6, <1>9 DEF F!PushM, Q, C
    <2> QED BY <1>7, <1>9, <2>1 DEF F!Next, Batches, F!Batches
  <1> QED BY <1>1, <1>8, <1>9 DEF AsAsked
----------------------------------------------------------------------------
(***************************************************************************)
(* The consumer's steps: a refusal, or nothing Fifo sees until the tail is *)
(* released.                                                               *)
(***************************************************************************)
LEMMA TakeHeld ==
    ASSUME HeldInv, SharedInv', open, Taken', Untouched,
           UNCHANGED <<tail, popped, call, ret, out>>
    PROVE  HeldInv' /\ UNCHANGED F!vars
  <1>1. UNCHANGED <<open, head, tail, size, elem_sz, mem, popped, producer>>
        BY DEF Untouched
  <1> QED BY <1>1, BufferStays DEF HeldInv

LEMMA FirstPlace ==
    ASSUME Inv
    PROVE  tail + (1 - 1) * elem_sz = tail
  BY Positive DEF Inv

LEMMA PopHeld ==
    ASSUME HeldInv, SharedInv', SharedPop
    PROVE  HeldInv' /\ [F!Next]_(F!vars)
  <1>0. Inv /\ open
        BY DEF HeldInv, SharedInv, SharedPop, MayCall
  <1>1. CASE circ_count = 0
    <2>1. HeldInv' /\ F!Refuse("pop", 1)
          BY <1>0, <1>1, RefusalHeld DEF SharedPop, Refused
    <2>2. Q = << >>
          BY <1>0, <1>1, EmptyContents DEF Q
    <2> QED BY <1>0, <2>1, <2>2 DEF F!Pop, F!Next, Q
  <1>2. CASE circ_count # 0
    <2>1. /\ consumer' = [pc |-> "popping", name |-> "pop", at |-> tail,
                          batch |-> <<mem[tail]>>]
          /\ Untouched /\ UNCHANGED <<tail, popped, call, ret, out>>
          BY <1>2 DEF SharedPop
    <2>2. Taken'
      <3>1. ASSUME NEW i \in 1..Len(<<mem[tail]>>)
            PROVE  <<mem[tail]>>[i] = mem[tail + (i - 1) * elem_sz]
        <4>1. i = 1
              OBVIOUS
        <4> QED BY <1>0, <4>1, FirstPlace
      <3> QED BY <2>1, <3>1 DEF Taken, Untouched
    <2> QED BY <1>0, <2>1, <2>2, TakeHeld
  <1> QED BY <1>1, <1>2

LEMMA PopMHeld ==
    ASSUME HeldInv, SharedInv', NEW n \in 0..MaxBatch, SharedPopM(n)
    PROVE  HeldInv' /\ [F!Next]_(F!vars)
  <1>0. Inv /\ open /\ n \in Nat
        BY ConstantsAssumption DEF HeldInv, SharedInv, SharedPopM, MayCall
  <1>1. CASE circ_count_to_end < n
    <2>1. HeldInv' /\ F!Refuse("popm", n)
          BY <1>0, <1>1, RefusalHeld DEF SharedPopM, Refused
    <2>2. n > 0 /\ (n <= circ_count => n > 1)
          BY <1>0, <1>1, CountIs, CountToEndIs, Positive
    <2>3. Q = Contents /\ Len(Q) = circ_count
          BY <1>0, EmptyContents DEF Q
    <2> QED BY <1>0, <2>1, <2>2, <2>3 DEF F!PopM, F!Next, Q
  <1>2. CASE ~(circ_count_to_end < n)
    <2>1. /\ consumer' = [pc |-> "reading", name |-> "popm", at |-> tail,
                          batch |-> [i \in 1..n |-> Junk]]
          /\ Untouched /\ UNCHANGED <<tail, popped, call, ret, out>>
          BY <1>2 DEF SharedPopM
    <2>2. Taken'
          BY <1>0, <2>1, SpoiltBatch DEF Taken
    <2> QED BY <1>0, <2>1, <2>2, TakeHeld
  <1> QED BY <1>1, <1>2

LEMMA EndReadHeld ==
    ASSUME HeldInv, SharedInv', EndRead
    PROVE  HeldInv' /\ UNCHANGED F!vars
  <1> DEFINE n == Len(consumer.batch)
  <1>1. /\ consumer' = [consumer EXCEPT !.pc = "releasing", !.batch = Read(tail, n)]
        /\ consumer.pc = "reading" /\ open /\ n \in 0..MaxBatch /\ n \in Nat
        /\ Untouched /\ UNCHANGED <<tail, popped, call, ret, out>>
        BY DEF EndRead, HeldInv, SharedInv, BothIdle, Taken, Consumers
  <1>2. /\ consumer'.pc = "releasing" /\ consumer'.batch = Read(tail, n)
        /\ consumer'.name = "popm"
        BY <1>1 DEF HeldInv, SharedInv, Consumers, Taken
  <1>3. consumer'.batch \in Seq(Items \cup {Junk})
        BY DEF SharedInv, Consumers
  <1>4. DOMAIN Read(tail, n) = 1..n /\ DOMAIN Read(tail, n) = 1..Len(Read(tail, n))
        BY <1>2, <1>3 DEF Read
  <1>5. Len(Read(tail, n)) = n
    <2> HIDE DEF n
    <2>1. Len(Read(tail, n)) \in Nat
          BY <1>2, <1>3
    <2>2. \A a, b \in Nat : 1..a = 1..b => a = b
      <3> SUFFICES ASSUME NEW a \in Nat, NEW b \in Nat, 1..a = 1..b PROVE a = b
          OBVIOUS
      <3>1. ~(a < b)
        <4>1. b \in 1..b <=> b \in 1..a
              OBVIOUS
        <4> QED BY <4>1
      <3>2. ~(b < a)
        <4>1. a \in 1..b <=> a \in 1..a
              OBVIOUS
        <4> QED BY <4>1
      <3> QED BY <3>1, <3>2
    <2> QED BY <1>1, <1>4, <2>1, <2>2
  <1>6. Taken'
    <2>1. ASSUME NEW i \in 1..n PROVE Read(tail, n)[i] = mem[tail + (i - 1) * elem_sz]
          BY DEF Read
    <2> HIDE DEF n
    <2> QED BY <1>1, <1>2, <1>5, <2>1 DEF Taken, Untouched
  <1> QED BY <1>1, <1>6, TakeHeld

LEMMA ReleaseHeld ==
    ASSUME HeldInv, SharedInv', Release
    PROVE  HeldInv' /\ F!Next
  <1> DEFINE b == consumer.batch
             n == Len(b)
  <1>1. /\ tail' = Advance(tail, n) /\ F!Ok(F!Call(consumer.name, n, << >>), b)
        /\ UNCHANGED <<open, head, size, elem_sz, mem, producer>>
        /\ consumer.pc \in {"popping", "releasing"}
        BY DEF Release, Return, Call, F!Ok, F!Call, Untouched
  <1>2. Inv /\ Inv' /\ open
        BY <1>1 DEF HeldInv, SharedInv, BothIdle
  <1>3. b \in Seq(Items \cup {Junk}) /\ n \in Nat /\ n <= circ_count /\ T + n <= size
        BY <1>1 DEF HeldInv, SharedInv, ItemsKept, Consumers
  <1>4. n <= circ_count_to_end
        BY <1>2, <1>3, CountIs, CountToEndIs, Positive
  <1>5. /\ Contents' = SubSeq(Contents, n + 1, circ_count)
        /\ Read(tail, n) = SubSeq(Contents, 1, n)
        BY <1>1, <1>2, <1>3, <1>4, Dropped
  <1>6. b = Read(tail, n)
    <2>1. \A i \in 1..n : b[i] = mem[tail + (i - 1) * elem_sz]
          BY <1>1 DEF HeldInv, Taken
    <2>2. b = [i \in 1..n |-> b[i]]
          BY <1>3
    <2> QED BY <2>1, <2>2 DEF Read
  <1>7. /\ Q = Contents /\ Q' = Contents' /\ C' = C /\ Len(Q) = circ_count
        /\ Contents \in Seq(Items \cup {Junk}) /\ circ_count \in Nat
        BY <1>1, <1>2, EmptyContents, ContentsSeq, ContentsIs DEF Q, C
  <1>8. H' = H
        BY <1>1 DEF H
  <1>9. Contiguous'
        BY <1>1, <1>8 DEF HeldInv, Contiguous, Pushing
  <1>10. Copied'
        BY <1>1 DEF HeldInv, Copied
  <1>11. CASE consumer.pc = "popping"
    <2>1. /\ n = 1 /\ consumer'.pc = "using" /\ popped' = b[1] /\ consumer.name = "pop"
          BY <1>11 DEF Release, HeldInv, SharedInv, PoppedOne, Consumers, Taken
    <2>2. b[1] = mem[tail] /\ b = <<b[1]>>
      <3>1. b[1] = mem[tail + (1 - 1) * elem_sz]
            BY <1>1, <2>1 DEF HeldInv, Taken
      <3> QED BY <1>2, <1>3, <2>1, <3>1, FirstPlace
    <2>3. PoppedIntact'
      <3>1. Behind' = tail
            BY <1>1, <1>2, <2>1, BehindAdvanced DEF Behind
      <3> QED BY <1>1, <2>1, <2>2, <3>1 DEF PoppedIntact, Behind
    <2>4. Taken'
          BY <2>1 DEF Taken
    <2>5. Contents' = Tail(Contents) /\ b = <<Head(Contents)>> /\ Contents # << >>
      <3>1. Len(Contents) = circ_count /\ 1 <= circ_count
            BY <1>3, <1>7, <2>1
      <3>2. Contents' = SubSeq(Contents, 2, circ_count) /\ b = SubSeq(Contents, 1, 1)
            BY <1>5, <1>6, <2>1
      <3>3. SubSeq(Contents, 1, 1)[1] = Contents[1]
            BY <1>7, <3>1
      <3>4. b = <<Contents[1]>>
            BY <2>2, <3>2, <3>3
      <3>5. Contents # << >>
            BY <3>1, EmptySeq, <1>7
      <3>6. Contents' = Tail(Contents)
            BY <1>7, <3>1, <3>2
      <3>7. Head(Contents) = Contents[1]
            BY <1>7, <3>5
      <3> QED BY <3>4, <3>5, <3>6, <3>7
    <2>6. F!Pop
          BY <1>1, <1>2, <1>7, <2>1, <2>5 DEF F!Pop, Q, C
    <2> QED BY <1>1, <1>2, <1>9, <1>10, <2>3, <2>4, <2>6 DEF HeldInv, F!Next
  <1>12. CASE consumer.pc = "releasing"
    <2>1. consumer' = Idle /\ popped' = Junk /\ n \in 0..MaxBatch /\ consumer.name = "popm"
          BY <1>12 DEF Release, HeldInv, Taken
    <2>2. PoppedIntact' /\ Taken'
          BY <2>1 DEF PoppedIntact, Taken, Idle
    <2>3. F!PopM(n)
      <3>1. Q' = SubSeq(Q, n + 1, Len(Q)) /\ b = SubSeq(Q, 1, n) /\ n <= Len(Q)
            BY <1>3, <1>5, <1>6, <1>7
      <3> QED BY <1>1, <1>2, <1>7, <2>1, <3>1 DEF F!PopM, Q, C
    <2> QED BY <1>1, <1>2, <1>9, <1>10, <2>1, <2>2, <2>3 DEF HeldInv, F!Next
  <1> QED BY <1>1, <1>11, <1>12

LEMMA DoneHeld ==
    ASSUME HeldInv, SharedInv', Done
    PROVE  HeldInv' /\ UNCHANGED F!vars
  <1>1. /\ UNCHANGED <<open, head, tail, size, elem_sz, mem, producer, call, ret, out>>
        /\ consumer' = Idle /\ popped' = Junk /\ open
        BY DEF Done, Untouched, HeldInv, BothIdle
  <1>2. Taken' /\ PoppedIntact'
        BY <1>1 DEF Idle, Taken, PoppedIntact
  <1> QED BY <1>1, <1>2, BufferStays DEF HeldInv
----------------------------------------------------------------------------
(***************************************************************************)
(* What one thread does when both are idle is a call of CircBuf.           *)
(***************************************************************************)
LEMMA AloneHeld ==
    ASSUME HeldInv, SharedInv', Alone
    PROVE  HeldInv' /\ [F!Next]_(F!vars)
  <1>1. Inv /\ Inv' /\ Next /\ UNCHANGED <<producer, consumer>> /\ BothIdle
        BY DEF HeldInv, SharedInv, Alone, Next
  <1>2. [F!Next]_(F!vars)
        BY <1>1, NextRefines
  <1>3. PoppedIntact'
        BY <1>1, PoppedStep DEF HeldInv
  <1>4. BothIdle' /\ Contiguous' /\ Copied' /\ Taken'
        BY <1>1 DEF BothIdle, Contiguous, Pushing, Copied, Taken
  <1> QED BY <1>2, <1>3, <1>4 DEF HeldInv

LEMMA HeldInit == SharedInit => HeldInv /\ F!Init
  <1> SUFFICES ASSUME SharedInit PROVE HeldInv /\ F!Init
      OBVIOUS
  <1>1. Init /\ producer = Idle /\ consumer = Idle
        BY DEF SharedInit
  <1>2. BothIdle /\ Contiguous /\ Copied /\ Taken /\ PoppedIntact
        BY <1>1 DEF Idle, BothIdle, Contiguous, Pushing, Copied, Taken, Init, PoppedIntact
  <1> QED BY <1>1, <1>2, SharedInitInv, InitRefines DEF HeldInv

LEMMA HeldNext == HeldInv /\ [SharedNext]_sharedVars => HeldInv' /\ [F!Next]_(F!vars)
  <1> SUFFICES ASSUME HeldInv, [SharedNext]_sharedVars
               PROVE  HeldInv' /\ [F!Next]_(F!vars)
      OBVIOUS
  <1>1. SharedInv'
        BY SharedNextInv DEF HeldInv
  <1>2. CASE Publish
        BY <1>1, <1>2, PublishHeld
  <1>3. CASE Release
        BY <1>1, <1>3, ReleaseHeld
  <1>4. CASE UNCHANGED sharedVars
    <2>1. UNCHANGED <<open, head, tail, size, elem_sz, mem, popped,
                      producer, consumer, call, ret, out>>
          BY <1>4 DEF sharedVars, vars, buf
    <2> QED BY <1>1, <2>1, BufferStays DEF HeldInv, BothIdle
  <1> QED BY <1>1, <1>2, <1>3, <1>4, AloneHeld, PushHeld, PushMHeld, NoRoomHeld,
             RewindHeld, TearHeld, EndCopyHeld, PopHeld,
             PopMHeld, EndReadHeld, DoneHeld DEF SharedNext

(***************************************************************************)
(* Between two threads the buffer is the FIFO it is for one: what a call   *)
(* that answered 0 was given goes in as a whole, what the consumer gets is *)
(* what the producer published, in order, and a call is refused only for   *)
(* lack of room, or of contiguous room, when it tested for it              *)
(* (ac_circ_buf.c:142-157, :178-211, :236-238).  The limits are those of   *)
(* NeverShared.                                                            *)
(***************************************************************************)
THEOREM SharedFifo == SharedSpec => ImplementsFifo
  <1> QED BY HeldInit, HeldNext, PTL DEF SharedSpec, ImplementsFifo, F!Spec

(***************************************************************************)
(* The item that the consumer got a pointer to from ac_circ_buf_pop stays  *)
(* as it was, although the other thread goes on pushing, until the tail    *)
(* moves: by the next pop, or by a pushm that rewinds, which only a lock   *)
(* that is kept until the item is done with keeps away (:142-147, :236).   *)
(***************************************************************************)
THEOREM SharedPoppedSafe == SharedSpec => []PoppedIntact
  <1>1. HeldInv => PoppedIntact
        BY DEF HeldInv
  <1> QED BY <1>1, HeldInit, HeldNext, PTL DEF SharedSpec

(***************************************************************************)
(* The offsets are those of places, and the contiguous runs end inside the *)
(* storage, between any two steps of the threads.                          *)
(***************************************************************************)
THEOREM SharedTypes == SharedSpec => [](TypeOK /\ RunsFit)
  <1>1. SharedInv => TypeOK /\ RunsFit
        BY RunsInv DEF SharedInv, Inv
  <1> QED BY <1>1, SharedInitInv, SharedNextInv, PTL DEF SharedSpec
=============================================================================
