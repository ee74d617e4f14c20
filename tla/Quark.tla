-------------------------------- MODULE Quark --------------------------------
(***************************************************************************)
(* The quarks of src/ac_quark.c: a binary tree of nodes to find a string's *)
(* number, and an array of the same nodes to find a number's string.       *)
(***************************************************************************)
EXTENDS Integers, Sequences, FiniteSets

CONSTANTS Strings, NULL, Garbage,
          MaxId      \* bound: the largest number a caller asks for

VARIABLES life,      \* "none" or "open"
          qt, rootp, live, node,    \* of the tree (BTree); node: its last answer
          quarks,    \* the array of nodes, a function from numbers
          last,      \* the number given out last
          ret        \* the answer of the last call

vars == <<life, qt, rootp, live, node, quarks, last, ret>>

Nodes == [id : 0..Cardinality(Strings), string : Strings]

T == INSTANCE BTree WITH
        contents <- qt, ret <- node,
        KeyOf <- [n \in Nodes |-> n.string]

Init == T!Init /\ quarks = [i \in {} |-> NULL] /\ last = -1 /\ ret = NULL

init ==
    /\ T!New
    /\ quarks' = [i \in {} |-> NULL] /\ last' = -1
    /\ UNCHANGED ret

Grow(qn) == [i \in DOMAIN quarks \cup {last'} |-> IF i = last' THEN qn ELSE quarks[i]]

NextIdAnew == Cardinality(qt) % 2    \* faulty: numbers come round again

NextId == last + 1

(***************************************************************************)
(* The string is looked up with a node of its own on the stack.            *)
(***************************************************************************)
from_string(s) ==
    LET qnl == [id |-> 0, string |-> s]
        qn  == [id |-> NextId, string |-> s]
    IN  IF T!tfind(qnl) = NULL
        THEN /\ last' = NextId
             /\ T!Add(qn)
             /\ quarks' = Grow(qn)
             /\ ret' = last'
        ELSE /\ T!Lookup(qnl)
             /\ ret' = T!tfind(qnl).id
             /\ UNCHANGED <<quarks, last>>

to_string(id) ==
    /\ life = "open"
    /\ ret' = IF id > last THEN NULL ELSE quarks[id].string
    /\ UNCHANGED <<life, qt, rootp, live, node, quarks, last>>

(***************************************************************************)
(* The struct is the caller's and keeps its stale fields until init.       *)
(***************************************************************************)
destroy ==
    /\ T!Destroy
    /\ UNCHANGED <<quarks, last, ret>>

Next ==
    \/ init \/ destroy
    \/ life = "open" /\ \E s \in Strings : from_string(s)
    \/ \E id \in 0..MaxId : to_string(id)

Spec == Init /\ [][Next]_vars
----------------------------------------------------------------------------
(***************************************************************************)
(* The tree and the array hold the same nodes, each at the number it       *)
(* carries.                                                                *)
(***************************************************************************)
TreeIsArray ==
    life = "open" =>
        /\ DOMAIN quarks = 0..last
        /\ qt = {quarks[i] : i \in 0..last}
        /\ \A i \in 0..last : quarks[i].id = i

(***************************************************************************)
(* A quark numbers strings in the order they are first seen.               *)
(***************************************************************************)
known == IF life = "open" THEN [i \in 1..last + 1 |-> quarks[i - 1].string] ELSE << >>

I == INSTANCE Intern

ImplementsIntern == I!Spec
=============================================================================
