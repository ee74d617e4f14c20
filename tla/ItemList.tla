------------------------------ MODULE ItemList ------------------------------
(***************************************************************************)
(* What the linked lists of libac promise their caller: a sequence of      *)
(* items with the operations of src/ac_slist.c and src/ac_list.c, each in  *)
(* one step.  Positions count from 0.                                      *)
(***************************************************************************)
EXTENDS Naturals, SequencesExt

CONSTANTS Items,
          KeyOf,    \* what the caller's comparison functions look at
          MaxLen    \* bound: the positions a caller asks for are below it

VARIABLES q,     \* the contents
          ret,   \* "ok" or "refused"
          out    \* the items the last call returned or released

vars == <<q, ret, out>>

Ok(items) == ret' = "ok" /\ out' = items
Refuse    == ret' = "refused" /\ out' = << >> /\ UNCHANGED q

(***************************************************************************)
(* The items that a lookup for x accepts: x itself, or, with a comparison  *)
(* function, every item with its key.                                      *)
(***************************************************************************)
Wanted == {{x} : x \in Items} \cup {{y \in Items : KeyOf[y] = KeyOf[x]} : x \in Items}

FirstAt(w, i) == q[i] \in w /\ \A j \in 1..i - 1 : q[j] \notin w
Present(w)    == \E i \in 1..Len(q) : q[i] \in w

Init == q = << >> /\ ret = "ok" /\ out = << >>

Add    == \E x \in Items : q' = Append(q, x) /\ Ok(<< >>)
Preadd == \E x \in Items : q' = <<x>> \o q /\ Ok(<< >>)

RemoveItem ==
    \E w \in Wanted :
       \/ \E i \in 1..Len(q) : FirstAt(w, i) /\ q' = RemoveAt(q, i) /\ Ok(<<q[i]>>)
       \/ ~Present(w) /\ Refuse

RemoveNth ==
    \E n \in 0..MaxLen :
       \/ n < Len(q) /\ q' = RemoveAt(q, n + 1) /\ Ok(<<q[n + 1]>>)
       \/ n >= Len(q) /\ Refuse

Find ==
    \E w \in Wanted :
       \/ \E i \in 1..Len(q) : FirstAt(w, i) /\ Ok(<<q[i]>>) /\ UNCHANGED q
       \/ ~Present(w) /\ Refuse

NthData ==
    \E n \in 0..MaxLen :
       \/ n < Len(q) /\ Ok(<<q[n + 1]>>) /\ UNCHANGED q
       \/ n >= Len(q) /\ Refuse

ReverseList == q' = Reverse(q) /\ Ok(<< >>)
Destroy     == q' = << >> /\ Ok(q)

Next ==
    \/ Add \/ Preadd \/ RemoveItem \/ RemoveNth \/ Find \/ NthData
    \/ ReverseList \/ Destroy

Spec == Init /\ [][Next]_vars
=============================================================================
