-------------------------------- MODULE BTree --------------------------------
(***************************************************************************)
(* The binary tree of src/ac_btree.c: a wrapper around the tsearch family  *)
(* of the C library.  The tree is the set of nodes it holds and the one at *)
(* its root; which node that is after a change is up to the library.       *)
(***************************************************************************)
EXTENDS FiniteSets

CONSTANTS Nodes,      \* the caller's objects
          KeyOf,      \* compar takes nodes of one key for equal
          NULL,
          Garbage     \* what is read through a pointer that leads nowhere

VARIABLES life,       \* of the tree: "none" or "open"
          contents, rootp,
          live,       \* nodes handed over to the tree and not freed
          ret

vars == <<life, contents, rootp, live, ret>>

(***************************************************************************)
(* The library: the node equal to n, if there is one; how a change leaves  *)
(* the root; and what tdelete returns, the parent of the node it removes,  *)
(* or, says POSIX, "an unspecified non-null pointer" if that was the root. *)
(***************************************************************************)
equal(n) == {m \in contents : KeyOf[m] = KeyOf[n]}

tfind(n) == IF equal(n) = {} THEN NULL ELSE CHOOSE m \in equal(n) : TRUE

Rebalance == IF contents' = {} THEN rootp' = NULL ELSE rootp' \in contents'

tdelete(node) ==
    /\ contents' = contents \ {node}
    /\ Rebalance

ReadParent(node) == IF node = rootp THEN contents' \cup {Garbage} ELSE contents'
----------------------------------------------------------------------------
Init == life = "none" /\ contents = {} /\ rootp = NULL /\ live = {} /\ ret = NULL

New ==
    /\ life = "none"
    /\ life' = "open" /\ contents' = {} /\ rootp' = NULL
    /\ UNCHANGED <<live, ret>>

Lookup(n) ==
    /\ life = "open"
    /\ ret' = tfind(n)
    /\ UNCHANGED <<life, contents, rootp, live>>

(***************************************************************************)
(* The node that is there already is returned; the caller keeps its own.   *)
(***************************************************************************)
Add(n) ==
    /\ life = "open" /\ n \notin live
    /\ IF tfind(n) # NULL
       THEN ret' = tfind(n) /\ UNCHANGED <<contents, rootp, live>>
       ELSE /\ contents' = contents \cup {n} /\ Rebalance
            /\ ret' = n /\ live' = live \cup {n}
    /\ UNCHANGED life

RemoveFreesKey(n) ==   \* faulty: frees what it was asked for, not what it found
    /\ life = "open"
    /\ IF tfind(n) = NULL
       THEN ret' = NULL /\ UNCHANGED <<contents, rootp, live>>
       ELSE /\ tdelete(tfind(n))
            /\ live' = live \ {n}
            /\ IF contents' = {} THEN ret' = NULL ELSE ret' \in ReadParent(tfind(n))
    /\ UNCHANGED life

RemoveNoRootCheck(n) ==   \* faulty: an emptied tree is not noticed
    /\ life = "open"
    /\ IF tfind(n) = NULL
       THEN ret' = NULL /\ UNCHANGED <<contents, rootp, live>>
       ELSE /\ tdelete(tfind(n))
            /\ live' = live \ {tfind(n)}
            /\ ret' \in ReadParent(tfind(n))
    /\ UNCHANGED life

Remove(n) ==
    /\ life = "open"
    /\ IF tfind(n) = NULL
       THEN ret' = NULL /\ UNCHANGED <<contents, rootp, live>>
       ELSE /\ tdelete(tfind(n))
            /\ live' = live \ {tfind(n)}
            /\ IF contents' = {} THEN ret' = NULL ELSE ret' \in ReadParent(tfind(n))
    /\ UNCHANGED life

Destroy ==
    /\ life = "open"
    /\ life' = "none" /\ contents' = {} /\ rootp' = NULL
    /\ live' = live \ contents
    /\ UNCHANGED ret

(***************************************************************************)
(* Both walks call `action' for every node.                                *)
(***************************************************************************)
Foreach ==
    /\ life = "open"
    /\ ret' = contents
    /\ UNCHANGED <<life, contents, rootp, live>>

IsEmpty ==
    /\ life = "open"
    /\ ret' = (rootp = NULL)
    /\ UNCHANGED <<life, contents, rootp, live>>

Next ==
    \/ New \/ Destroy \/ Foreach \/ IsEmpty
    \/ \E n \in Nodes : Lookup(n) \/ Add(n) \/ Remove(n)

Spec == Init /\ [][Next]_vars
----------------------------------------------------------------------------
(***************************************************************************)
(* The nodes handed over and not freed are those of the tree: remove frees *)
(* the node it found, whichever equal node it was asked for                *)
(* (ac_btree.c:142, :149), and destroy the rest.                           *)
(***************************************************************************)
FreesWhatItHeld == live = contents

(***************************************************************************)
(* No two nodes are equal: lookup and remove have one node to find.        *)
(***************************************************************************)
OnePerKey == \A m, n \in contents : KeyOf[m] = KeyOf[n] => m = n

(***************************************************************************)
(* Except when it took away the root of a tree of several nodes, remove    *)
(* answers with a node of the tree, or with NULL; with NULL for certain    *)
(* when it emptied the tree (ac_btree.c:150).                              *)
(***************************************************************************)
RemoveAnswersNode ==
    [][\A n \in Nodes : Remove(n) =>
          /\ contents' = {} => ret' = NULL
          /\ tfind(n) # rootp => ret' \in contents' \cup {NULL}]_vars

(***************************************************************************)
(* ac_btree.c:133-135: remove returns "A pointer to the parent node of the *)
(* removed item or NULL", so what it returns is in the tree.  That does    *)
(* not hold when the root of several nodes is removed (line 153).          *)
(***************************************************************************)
RemoveReturnsNode ==
    [][(\E n \in Nodes : Remove(n)) => ret' \in contents' \cup {NULL}]_vars
=============================================================================
