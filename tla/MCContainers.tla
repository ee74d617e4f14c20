---------------------------- MODULE MCContainers ----------------------------
(***************************************************************************)
(* A program that uses one container: a list of either kind, a binary      *)
(* tree, or a quark.  To a singly linked list, `prev' means nothing; the   *)
(* variables of a tree on its own are among those of the quark.            *)
(***************************************************************************)
EXTENDS DList, Integers, FiniteSets, TLC

CONSTANTS x1, x2, x3,           \* items
          n1, n2,               \* two nodes that compare equal
          OwnNodes, NodeKey,    \* the nodes of a tree, and what a comparison sees of them
          Strings, Garbage, MaxId

ASSUME HeapAssumption ==
    /\ NULL \notin Addrs /\ Junk \notin Addrs /\ NULL # Junk
    /\ IsFiniteSet(Addrs) /\ Cardinality(Addrs) = HeapSize

VARIABLES life, qt, rootp, live, node, quarks, lastId, answer, kind

listVars == <<list, prev, next, data, alloc, preadded, ret, out, foreach>>
treeVars == <<life, qt, rootp, live, node, quarks, lastId, answer>>

(***************************************************************************)
(* x1 and x2 are different items that a comparison function takes for the  *)
(* same.                                                                   *)
(***************************************************************************)
MCKeyOf == [x \in {x1, x2, x3} |-> IF x = x3 THEN 2 ELSE 1]

Symmetry == Permutations(Addrs)

Singly == INSTANCE SList

Quarks == INSTANCE Quark WITH last <- lastId, ret <- answer

ASSUME NodesAssumption ==
    /\ NULL \notin OwnNodes \cup Quarks!Nodes /\ OwnNodes \cap Quarks!Nodes = {}
    /\ IsFiniteSet(Strings)

MCNodeKey == [n \in OwnNodes |-> IF n = n2 THEN n1 ELSE n]

Tree == INSTANCE BTree WITH
           Nodes <- OwnNodes, contents <- qt, ret <- node,
           KeyOf <- [n \in OwnNodes \cup Quarks!Nodes |->
                        IF n \in OwnNodes THEN NodeKey[n] ELSE n.string]

ContainersInit ==
    /\ kind \in {"list", "slist", "btree", "quark"}
    /\ IF kind = "slist"
       THEN Singly!Init /\ prev = [a \in Addrs |-> NULL] /\ preadded = TRUE
       ELSE Init
    /\ Quarks!Init

ContainersNext ==
    \/ kind = "list" /\ Next /\ UNCHANGED <<treeVars, kind>>
    \/ kind = "slist" /\ Singly!Next /\ UNCHANGED <<prev, preadded, treeVars, kind>>
    \/ kind = "quark" /\ Quarks!Next /\ UNCHANGED <<listVars, kind>>
    \/ kind = "btree" /\ Tree!Next /\ UNCHANGED <<quarks, lastId, answer, listVars, kind>>

ContainersSpec == ContainersInit /\ [][ContainersNext]_<<listVars, treeVars, kind>>
----------------------------------------------------------------------------
(***************************************************************************)
(* The nodes of a list are those allocated, and no link in use leads to    *)
(* one that was freed, forwards or backwards (ac_slist.c, ac_list.c).      *)
(***************************************************************************)
ListsIntact == TypeOK /\ NoneLost /\ PrevIsInverse

(***************************************************************************)
(* A foreach of either list, in either direction, whose callback adds and  *)
(* removes items, visits each node that stays once (ac_slist.c:304-311,    *)
(* ac_list.c:318-349).                                                     *)
(***************************************************************************)
ForeachVisits == VisitsAll(IF walk = "back" THEN prev ELSE next)

(***************************************************************************)
(* The properties of BTree, which the tree of a quark has as well; and     *)
(* that of Quark, where there is one (ac_quark.c:84-88).                   *)
(***************************************************************************)
TreesIntact ==
    /\ Tree!FreesWhatItHeld /\ Tree!OnePerKey
    /\ kind = "quark" => Quarks!TreeIsArray

RemoveAnswersNode == Tree!RemoveAnswersNode
ImplementsIntern  == Quarks!ImplementsIntern
=============================================================================
