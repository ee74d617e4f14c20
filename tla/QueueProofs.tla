----------------------------- MODULE QueueProofs -----------------------------
(***************************************************************************)
(* Proofs about Queue, for every heap: the links, the count and the tail   *)
(* pointer agree, no node leaks, and the queue is a FIFO.                  *)
(***************************************************************************)
EXTENDS Queue, SequenceTheorems, TLAPS

ASSUME HeapAssumption ==
    /\ NULL \notin Addrs /\ Junk \notin Addrs /\ NULL # Junk
    /\ Unbounded \notin Nat

Inv ==
    /\ TypeOK /\ Linked /\ NoLeak /\ TailIsLast /\ CountOK
    /\ life = "none" => queue = NULL
    /\ life # "open" => cursor = NULL

----------------------------------------------------------------------------
LEMMA EmptyIffNull ==
    ASSUME Inv
    PROVE  /\ queue = NULL <=> order = << >>
           /\ order \in Seq(Addrs) /\ Len(order) \in Nat
           /\ order # << >> => queue = order[1] /\ queue \in Addrs /\ Len(order) > 0
  <1>1. order \in Seq(Addrs) /\ Len(order) \in Nat
        BY DEF Inv, TypeOK
  <1>2. order # << >> => Len(order) > 0
        BY <1>1, EmptySeq
  <1>3. order # << >> => order[1] \in Addrs
        BY <1>1, <1>2
  <1> QED BY <1>1, <1>2, <1>3, HeapAssumption DEF Inv, Linked

(***************************************************************************)
(* Removing the oldest node, as pop and each round of destroy do.          *)
(***************************************************************************)
LEMMA TailIs ==
    ASSUME NEW s \in Seq(Addrs), s # << >>
    PROVE  /\ Tail(s) \in Seq(Addrs) /\ Len(Tail(s)) = Len(s) - 1 /\ Len(s) > 0
           /\ \A i \in 1..Len(s) - 1 : Tail(s)[i] = s[i + 1]
  BY HeadTailProperties, EmptySeq

LEMMA Removed ==
    ASSUME Inv, order # << >>, order' = Tail(order), queue' = next[queue],
           free(queue), tail' = tail
    PROVE  /\ Linked' /\ NoLeak' /\ TailIsLast'
           /\ next' \in [Addrs -> Addrs \cup {NULL, Junk}]
           /\ data' \in [Addrs -> Items \cup {Junk}]
           /\ queue' \in Addrs \cup {NULL} /\ order' \in Seq(Addrs)
           /\ Len(order') = Len(order) - 1
           /\ alloc' \subseteq Addrs
           /\ \A i \in 1..Len(order') : data'[order'[i]] = data[order[i + 1]]
  <1> DEFINE n == Len(order)
  <1>1. /\ n \in Nat /\ n > 0 /\ queue = order[1] /\ queue \in Addrs /\ order \in Seq(Addrs)
        BY EmptyIffNull
  <1>2. /\ order' \in Seq(Addrs) /\ Len(order') = n - 1
        /\ \A i \in 1..n - 1 : order'[i] = order[i + 1]
        BY <1>1, TailIs
  <1>3. /\ \A i \in 1..n : next[order[i]] = IF i < n THEN order[i + 1] ELSE NULL
        /\ \A i, j \in 1..n : order[i] = order[j] => i = j
        /\ \A i \in 1..n : order[i] \in Addrs
        BY <1>1 DEF Inv, Linked
  <1>4. /\ next' = [next EXCEPT ![queue] = Junk] /\ data' = [data EXCEPT ![queue] = Junk]
        /\ alloc' = alloc \ {queue}
        /\ next \in [Addrs -> Addrs \cup {NULL, Junk}] /\ data \in [Addrs -> Items \cup {Junk}]
        BY DEF free, Inv, TypeOK
  <1>5. \A i \in 1..n - 1 : /\ order'[i] = order[i + 1] /\ order[i + 1] # queue
                            /\ i + 1 \in 1..n
        BY <1>1, <1>2, <1>3
  <1>6. \A i \in 1..n - 1 : next'[order'[i]] = next[order[i + 1]]
                            /\ data'[order'[i]] = data[order[i + 1]]
        BY <1>3, <1>4, <1>5
  <1>7. order' = << >> <=> n = 1
        BY <1>1, <1>2, EmptySeq
  <1>8. queue' = IF order' = << >> THEN NULL ELSE order'[1]
        BY <1>1, <1>2, <1>3, <1>7
  <1>9. \A i \in 1..n - 1 : next'[order'[i]] = IF i < n - 1 THEN order'[i + 1] ELSE NULL
    <2> SUFFICES ASSUME NEW i \in 1..n - 1
                 PROVE  next'[order'[i]] = IF i < n - 1 THEN order'[i + 1] ELSE NULL
        OBVIOUS
    <2>1. next'[order'[i]] = IF i + 1 < n THEN order[i + 2] ELSE NULL
          BY <1>1, <1>3, <1>5, <1>6
    <2>2. i < n - 1 => order'[i + 1] = order[i + 2]
          BY <1>1, <1>2
    <2> QED BY <1>1, <2>1, <2>2
  <1>10. \A i, j \in 1..n - 1 : order'[i] = order'[j] => i = j
    <2> SUFFICES ASSUME NEW i \in 1..n - 1, NEW j \in 1..n - 1, order'[i] = order'[j]
                 PROVE  i = j
        OBVIOUS
    <2>1. order[i + 1] = order[j + 1] /\ i + 1 \in 1..n /\ j + 1 \in 1..n
          BY <1>5
    <2>2. i + 1 = j + 1
          BY <1>3, <2>1
    <2> QED BY <1>1, <2>2
  <1>11. Linked'
        BY <1>2, <1>8, <1>9, <1>10 DEF Linked
  <1>12. NoLeak'
    <2>1. alloc = {order[i] : i \in 1..n}
          BY DEF Inv, NoLeak, Nodes
    <2>2. {order'[i] : i \in 1..n - 1} = {order[i] : i \in 1..n} \ {queue}
      <3>1. ASSUME NEW k \in 1..n, order[k] # queue
            PROVE  \E i \in 1..n - 1 : order[k] = order'[i]
        <4>1. k # 1
              BY <1>1, <3>1
        <4>2. k - 1 \in 1..n - 1 /\ (k - 1) + 1 = k
              BY <1>1, <4>1
        <4> QED BY <1>5, <4>2
      <3>2. ASSUME NEW i \in 1..n - 1
            PROVE  order'[i] \in {order[j] : j \in 1..n} \ {queue}
            BY <1>5
      <3> QED BY <3>1, <3>2
    <2> QED BY <1>2, <1>4, <2>1, <2>2 DEF NoLeak, Nodes
  <1>13. TailIsLast'
    <2>1. tail = order[n]
          BY <1>1, HeapAssumption DEF Inv, TailIsLast
    <2>2. n # 1 => order'[n - 1] = order[n]
      <3>1. \A k \in Nat : k > 0 /\ k # 1 => k - 1 \in 1..k - 1 /\ (k - 1) + 1 = k
            OBVIOUS
      <3> HIDE DEF n
      <3> QED BY <1>1, <1>5, <3>1
    <2> QED BY <1>2, <1>7, <1>8, <2>1, <2>2 DEF TailIsLast
  <1>14. queue' \in Addrs \cup {NULL}
    <2>1. n # 1 => order'[1] \in Addrs
          BY <1>1, <1>2
    <2> QED BY <1>7, <1>8, <2>1
  <1> QED BY <1>1, <1>2, <1>4, <1>6, <1>11, <1>12, <1>13, <1>14 DEF Inv, TypeOK
(***************************************************************************)
(* Appending a node, as push does.                                         *)
(***************************************************************************)
LEMMA Added ==
    ASSUME Inv, NEW x \in Items, NEW new \in Addrs, Push(x, new)
    PROVE  /\ Linked' /\ NoLeak' /\ TailIsLast'
           /\ next' \in [Addrs -> Addrs \cup {NULL, Junk}]
           /\ data' \in [Addrs -> Items \cup {Junk}]
           /\ queue' \in Addrs \cup {NULL} /\ tail' \in Addrs
           /\ order' \in Seq(Addrs) /\ Len(order') = Len(order) + 1
           /\ alloc' \subseteq Addrs
           /\ \A i \in 1..Len(order) : data'[order'[i]] = data[order[i]]
           /\ data'[order'[Len(order) + 1]] = x
  <1> DEFINE n == Len(order)
  <1>1. /\ n \in Nat /\ order \in Seq(Addrs) /\ (queue = NULL <=> n = 0)
        /\ n > 0 => queue = order[1]
        BY EmptyIffNull, EmptySeq
  <1>2. /\ order' = Append(order, new) /\ new \notin alloc /\ tail' = new
        /\ alloc' = alloc \cup {new} /\ data' = [data EXCEPT ![new] = x]
        /\ next' = IF queue # NULL THEN [next EXCEPT ![new] = NULL, ![tail] = new]
                                   ELSE [next EXCEPT ![new] = NULL]
        /\ queue' = IF queue # NULL THEN queue ELSE new
        BY DEF Push, NonEmpty, Last
  <1>3. /\ order' \in Seq(Addrs) /\ Len(order') = n + 1 /\ order' # << >>
        /\ \A i \in 1..n : order'[i] = order[i]
        /\ order'[n + 1] = new
        BY <1>1, <1>2, AppendProperties
  <1>4. /\ \A i \in 1..n : next[order[i]] = IF i < n THEN order[i + 1] ELSE NULL
        /\ \A i, j \in 1..n : order[i] = order[j] => i = j
        /\ \A i \in 1..n : order[i] \in Addrs /\ order[i] \in alloc /\ order[i] # new
        BY <1>1, <1>2 DEF Inv, Linked, NoLeak, Nodes
  <1>5. /\ next \in [Addrs -> Addrs \cup {NULL, Junk}]
        /\ data \in [Addrs -> Items \cup {Junk}] /\ alloc \subseteq Addrs
        /\ tail \in Addrs \cup {NULL} /\ queue \in Addrs \cup {NULL}
        BY DEF Inv, TypeOK
  <1>6. n > 0 => /\ tail = order[n] /\ tail \in Addrs /\ tail # new
                 /\ next' = [next EXCEPT ![new] = NULL, ![tail] = new]
    <2>1. ASSUME n > 0 PROVE tail = order[n] /\ n \in 1..n
          BY <1>1, <2>1 DEF Inv, TailIsLast
    <2> QED BY <1>1, <1>2, <1>4, <2>1
  <1>7. n = 0 => next' = [next EXCEPT ![new] = NULL]
        BY <1>1, <1>2
  <1>8. next'[new] = NULL
        BY <1>1, <1>5, <1>6, <1>7
  <1>9. \A i \in 1..n : next'[order[i]] = IF i < n THEN order[i + 1] ELSE new
    <2> SUFFICES ASSUME NEW i \in 1..n
                 PROVE  next'[order[i]] = IF i < n THEN order[i + 1] ELSE new
        OBVIOUS
    <2>1. n > 0 /\ n \in 1..n
          BY <1>1
    <2>2. CASE i = n
          BY <1>1, <1>4, <1>5, <1>6, <2>1, <2>2
    <2>3. CASE i # n
      <3>1. order[i] # tail
            BY <1>4, <1>6, <2>1, <2>3
      <3>2. next'[order[i]] = next[order[i]]
            BY <1>4, <1>5, <1>6, <2>1, <3>1
      <3> QED BY <1>1, <1>4, <2>3, <3>2
    <2> QED BY <2>2, <2>3
  <1>10. \A i \in 1..n + 1 : next'[order'[i]] = IF i < n + 1 THEN order'[i + 1] ELSE NULL
    <2> SUFFICES ASSUME NEW i \in 1..n + 1
                 PROVE  next'[order'[i]] = IF i < n + 1 THEN order'[i + 1] ELSE NULL
        OBVIOUS
    <2>1. CASE i = n + 1
          BY <1>1, <1>3, <1>8, <2>1
    <2>2. CASE i = n
          BY <1>1, <1>3, <1>9, <2>2
    <2>3. CASE i < n
          BY <1>1, <1>3, <1>9, <2>3
    <2> QED BY <1>1, <2>1, <2>2, <2>3
  <1>11. \A i, j \in 1..n + 1 : order'[i] = order'[j] => i = j
        BY <1>1, <1>3, <1>4
  <1>12. queue' = order'[1]
        BY <1>1, <1>2, <1>3
  <1>13. Linked'
        BY <1>3, <1>10, <1>11, <1>12 DEF Linked
  <1>14. NoLeak'
    <2>1. alloc = {order[i] : i \in 1..n}
          BY DEF Inv, NoLeak, Nodes
    <2>2. {order'[i] : i \in 1..n + 1} = {order[i] : i \in 1..n} \cup {new}
          BY <1>1, <1>3
    <2> QED BY <1>2, <1>3, <2>1, <2>2 DEF NoLeak, Nodes
  <1>15. TailIsLast'
        BY <1>2, <1>3 DEF TailIsLast
  <1>16. /\ next' \in [Addrs -> Addrs \cup {NULL, Junk}]
         /\ data' \in [Addrs -> Items \cup {Junk}]
        BY <1>1, <1>2, <1>5, <1>6, <1>7
  <1>17. /\ \A i \in 1..n : data'[order'[i]] = data[order[i]]
         /\ data'[order'[n + 1]] = x
        BY <1>2, <1>3, <1>4, <1>5
  <1> QED BY <1>2, <1>3, <1>5, <1>13, <1>14, <1>15, <1>16, <1>17

----------------------------------------------------------------------------
LEMMA InitInv == Init => Inv
  <1> SUFFICES ASSUME Init PROVE Inv
      OBVIOUS
  <1>1. order = << >> /\ Len(order) = 0 /\ order \in Seq(Addrs)
        BY EmptySeq DEF Init
  <1> QED BY <1>1 DEF Init, Inv, TypeOK, Linked, NoLeak, Nodes, TailIsLast, CountOK

LEMMA Untouched ==
    ASSUME Inv, UNCHANGED <<queue, tail, items, heap, order>>, CountOK', NoLeak => NoLeak',
           life' \in {"none", "open", "destroying"}, cursor' \in Addrs \cup {NULL},
           life' = "none" => queue = NULL, life' # "open" => cursor' = NULL
    PROVE  Inv'
  BY DEF Inv, TypeOK, Linked, NoLeak, Nodes, TailIsLast, heap

LEMMA NextInv == Inv /\ ForeachInOrder /\ [Next]_vars => Inv'
  <1> SUFFICES ASSUME Inv, ForeachInOrder, [Next]_vars PROVE Inv'
      OBVIOUS
  <1>0. /\ NoLeak /\ CountOK /\ items \in Nat /\ tail \in Addrs \cup {NULL}
        /\ cursor \in Addrs \cup {NULL} /\ life \in {"none", "open", "destroying"}
        BY DEF Inv, TypeOK
  <1>1. CASE New
    <2>1. queue = NULL /\ order = << >> /\ Len(order) = 0
          BY <1>1, EmptyIffNull, EmptySeq DEF New, Inv
    <2> QED BY <1>1, <2>1 DEF New, Inv, TypeOK, Linked, NoLeak, Nodes, TailIsLast, CountOK,
                              heap, history
  <1>2. CASE NoQueue
        BY <1>2, <1>0, Untouched DEF NoQueue, struct, heap, history, Inv, CountOK, NoLeak, Nodes
  <1>3. ASSUME NEW x \in Items, NEW new \in Addrs, Push(x, new) PROVE Inv'
    <2>1. CountOK'
          BY <1>3, <1>0, Added, EmptyIffNull DEF Push, CountOK
    <2>2. items' \in Nat
          BY <1>0, <1>3 DEF Push
    <2> QED BY <1>3, <1>0, <2>1, <2>2, Added DEF Push, Inv, TypeOK
  <1>4. CASE Pop
    <2>1. CASE queue = NULL
          BY <1>4, <1>0, <2>1, Untouched DEF Pop, struct, heap, history, Inv, CountOK, NoLeak, Nodes
    <2>2. CASE queue # NULL
      <3>1. /\ order # << >> /\ order' = Tail(order) /\ queue' = next[queue]
            /\ free(queue) /\ tail' = tail /\ items' = items - 1
            /\ life = "open" /\ life' = "open" /\ cursor' = cursor
            BY <1>4, <2>2, EmptyIffNull DEF Pop
      <3>2. items = Len(order) /\ Len(order) > 0
            BY <1>0, <3>1, EmptyIffNull DEF CountOK
      <3>3. items' \in Nat /\ items' = Len(order')
            BY <1>0, <3>1, <3>2, Removed
      <3> QED BY <1>0, <3>1, <3>3, Removed DEF Inv, TypeOK, CountOK
    <2> QED BY <2>1, <2>2
  <1>5. CASE Foreach
    <2>1. items = Len(order) /\ Len(order) # 0
          BY <1>0, <1>5 DEF Foreach, CountOK
    <2>2. queue \in Addrs
          BY <2>1, EmptyIffNull, EmptySeq
    <2> QED BY <1>5, <1>0, <2>2, Untouched DEF Foreach, struct, heap, Inv, CountOK, NoLeak, Nodes
  <1>6. CASE ForeachStep
    <2>1. cursor' \in Addrs \cup {NULL}
      <3>1. /\ cursor' = next[cursor] /\ Len(seen) \in 1..Len(order)
            /\ cursor = order[Len(seen)] /\ Len(order) \in Nat /\ order \in Seq(Addrs)
            BY <1>6, EmptyIffNull DEF ForeachStep, ForeachInOrder
      <3>2. next[cursor] = IF Len(seen) < Len(order) THEN order[Len(seen) + 1] ELSE NULL
            BY <3>1 DEF Inv, Linked
      <3>3. Len(seen) < Len(order) => order[Len(seen) + 1] \in Addrs
            BY <3>1
      <3> QED BY <3>1, <3>2, <3>3
    <2>2. life = "open" /\ life' = "open"
          BY <1>6 DEF ForeachStep, ForeachInOrder
    <2> QED BY <1>6, <1>0, <2>1, <2>2, Untouched DEF ForeachStep, struct, heap, CountOK, NoLeak, Nodes
  <1>7. CASE Destroy
        BY <1>7, <1>0, Untouched DEF Destroy, struct, heap, Inv, CountOK, NoLeak, Nodes
  <1>8. CASE DestroyStep
    <2>1. CASE queue # NULL
      <3>1. /\ order # << >> /\ order' = Tail(order) /\ queue' = next[queue]
            /\ free(queue) /\ tail' = tail /\ items' = items
            /\ life' = "destroying" /\ life = "destroying" /\ cursor' = cursor
            BY <1>8, <2>1, EmptyIffNull DEF DestroyStep
      <3> QED BY <1>0, <3>1, Removed DEF Inv, TypeOK, CountOK
    <2>2. CASE queue = NULL
          BY <1>8, <1>0, <2>2, Untouched DEF DestroyStep, struct, heap, Inv, CountOK, NoLeak, Nodes
    <2> QED BY <2>1, <2>2
  <1>9. CASE UNCHANGED vars
        BY <1>9, <1>0, Untouched DEF vars, struct, heap, history, Inv, CountOK, NoLeak, Nodes
  <1> QED BY <1>1, <1>2, <1>3, <1>4, <1>5, <1>6, <1>7, <1>8, <1>9 DEF Next
----------------------------------------------------------------------------
(***************************************************************************)
(* Sequences: prefixes, and moving an element between two sequences.       *)
(***************************************************************************)
LEMMA Prefixes ==
    ASSUME NEW S, NEW s \in Seq(S), NEW k \in 1..Len(s)
    PROVE  /\ SubSeq(s, 1, 1) = <<s[1]>>
           /\ k < Len(s) => SubSeq(s, 1, k + 1) = Append(SubSeq(s, 1, k), s[k + 1])
  <1>1. Len(s) \in Nat /\ \A i \in 1..Len(s) : s[i] \in S
        OBVIOUS
  <1>2. SubSeq(s, 1, 1) = <<s[1]>>
    <2> DEFINE p == SubSeq(s, 1, 1)
    <2>1. p \in Seq(S) /\ Len(p) = 1 /\ p[1] = s[1]
          BY <1>1
    <2> HIDE DEF p
    <2>2. p = <<p[1]>>
          BY <2>1
    <2>3. p = <<s[1]>>
          BY <2>1, <2>2
    <2> QED BY <2>3 DEF p
  <1>3. ASSUME k < Len(s)
        PROVE  SubSeq(s, 1, k + 1) = Append(SubSeq(s, 1, k), s[k + 1])
    <2> DEFINE p == SubSeq(s, 1, k)
    <2>1. p \in Seq(S) /\ Len(p) = k /\ \A i \in 1..k : p[i] = s[i]
          BY <1>1
    <2>2. /\ SubSeq(s, 1, k + 1) \in Seq(S) /\ Len(SubSeq(s, 1, k + 1)) = k + 1
          /\ \A i \in 1..k + 1 : SubSeq(s, 1, k + 1)[i] = s[i]
          BY <1>1, <1>3
    <2>3. s[k + 1] \in S
          BY <1>1, <1>3
    <2> HIDE DEF p
    <2>4. /\ Append(p, s[k + 1]) \in Seq(S) /\ Len(Append(p, s[k + 1])) = k + 1
          /\ \A i \in 1..k : Append(p, s[k + 1])[i] = s[i]
          /\ Append(p, s[k + 1])[k + 1] = s[k + 1]
          BY <2>1, <2>3, AppendProperties
    <2>5. \A i \in 1..k + 1 : i \in 1..k \/ i = k + 1
          OBVIOUS
    <2>6. \A i \in 1..k + 1 : SubSeq(s, 1, k + 1)[i] = Append(p, s[k + 1])[i]
          BY <2>2, <2>4, <2>5
    <2>7. SubSeq(s, 1, k + 1) = Append(p, s[k + 1])
          BY <2>2, <2>4, <2>6, SeqEqual
    <2> QED BY <2>7 DEF p
  <1> QED BY <1>2, <1>3

LEMMA Moved ==
    ASSUME NEW S, NEW r \in Seq(S), NEW s \in Seq(S), s # << >>
    PROVE  Append(r, Head(s)) \o Tail(s) = r \o s /\ Append(r, Head(s)) \in Seq(S)
  <1> DEFINE a == Append(r, Head(s))
             t == Tail(s)
  <1>1. /\ t \in Seq(S) /\ Len(t) = Len(s) - 1 /\ Len(s) > 0
        /\ \A i \in 1..Len(s) - 1 : t[i] = s[i + 1]
        /\ Head(s) = s[1] /\ s[1] \in S
        BY HeadTailProperties, EmptySeq
  <1>2. a \in Seq(S) /\ Len(a) = Len(r) + 1 /\ a[Len(r) + 1] = s[1]
        /\ \A i \in 1..Len(r) : a[i] = r[i]
        BY <1>1, AppendProperties
  <1> HIDE DEF a, t
  <1>3. /\ a \o t \in Seq(S) /\ Len(a \o t) = Len(r) + Len(s)
        /\ \A i \in 1..Len(r) + Len(s) : (a \o t)[i] =
              IF i <= Len(r) + 1 THEN a[i] ELSE t[i - (Len(r) + 1)]
    <2>1. /\ a \o t \in Seq(S) /\ Len(a \o t) = Len(a) + Len(t)
          /\ \A i \in 1..Len(a) + Len(t) : (a \o t)[i] =
                IF i <= Len(a) THEN a[i] ELSE t[i - Len(a)]
          BY <1>1, <1>2, ConcatProperties
    <2>2. Len(a) + Len(t) = Len(r) + Len(s)
          BY <1>1, <1>2
    <2> QED BY <1>2, <2>1, <2>2
  <1>4. /\ r \o s \in Seq(S) /\ Len(r \o s) = Len(r) + Len(s)
        /\ \A i \in 1..Len(r) + Len(s) : (r \o s)[i] =
              IF i <= Len(r) THEN r[i] ELSE s[i - Len(r)]
        BY ConcatProperties
  <1>5. ASSUME NEW i \in 1..Len(r) + Len(s) PROVE (a \o t)[i] = (r \o s)[i]
    <2>1. CASE i <= Len(r)
      <3>1. i \in 1..Len(r) /\ i <= Len(r) + 1
            BY <2>1
      <3> QED BY <1>2, <1>3, <1>4, <2>1, <3>1
    <2>2. CASE i = Len(r) + 1
          BY <1>1, <1>2, <1>3, <1>4, <2>2
    <2>0. Len(r) \in Nat /\ Len(s) \in Nat
          OBVIOUS
    <2>3. CASE i > Len(r) + 1
      <3>1. i - (Len(r) + 1) \in 1..Len(s) - 1 /\ (i - (Len(r) + 1)) + 1 = i - Len(r)
            BY <1>1, <2>3
      <3>2. t[i - (Len(r) + 1)] = s[i - Len(r)]
            BY <1>1, <3>1
      <3> QED BY <1>3, <1>4, <2>3, <3>2
    <2>4. i <= Len(r) \/ i = Len(r) + 1 \/ i > Len(r) + 1
          BY <2>0
    <2> QED BY <2>1, <2>2, <2>3, <2>4, Zenon
  <1>6. a \o t = r \o s
        BY <1>3, <1>4, <1>5, SeqEqual
  <1> QED BY <1>2, <1>6 DEF a, t

----------------------------------------------------------------------------
(***************************************************************************)
(* What the operations do to the queued values.                            *)
(***************************************************************************)
Stored == Items \cup {Junk}

LEMMA ValuesOf ==
    ASSUME Inv
    PROVE  /\ Values(order) \in Seq(Stored) /\ Len(Values(order)) = Len(order)
           /\ \A i \in 1..Len(order) : Values(order)[i] = data[order[i]]
           /\ order = << >> <=> Values(order) = << >>
           /\ order # << >> => Head(Values(order)) = data[queue]
  <1>1. /\ order \in Seq(Addrs) /\ Len(order) \in Nat /\ data \in [Addrs -> Stored]
        BY DEF Inv, TypeOK, Stored
  <1>2. \A i \in 1..Len(order) : order[i] \in Addrs /\ data[order[i]] \in Stored
        BY <1>1
  <1>3. /\ Values(order) \in Seq(Stored) /\ Len(Values(order)) = Len(order)
        /\ \A i \in 1..Len(order) : Values(order)[i] = data[order[i]]
        BY <1>1, <1>2 DEF Values
  <1>4. order = << >> <=> Values(order) = << >>
        BY <1>1, <1>3, EmptySeq
  <1>5. order # << >> => Head(Values(order)) = data[queue]
        BY <1>1, <1>3, <1>4, EmptyIffNull
  <1> QED BY <1>3, <1>4, <1>5

LEMMA ValuesAre ==
    Inv => /\ Values(order) \in Seq(Stored) /\ Len(Values(order)) = Len(order)
           /\ \A i \in 1..Len(order) : Values(order)[i] = data[order[i]]
  BY ValuesOf

LEMMA ValuesAdded ==
    ASSUME Inv, Inv', NEW x \in Items, NEW new \in Addrs, Push(x, new)
    PROVE  Values(order)' = Append(Values(order), x)
  <1>1. /\ Values(order)' \in Seq(Stored) /\ Len(Values(order)') = Len(order')
        /\ \A i \in 1..Len(order') : Values(order)'[i] = data'[order'[i]]
    <2>1. (/\ Values(order) \in Seq(Stored) /\ Len(Values(order)) = Len(order)
           /\ \A i \in 1..Len(order) : Values(order)[i] = data[order[i]])'
          BY ValuesAre, PTL
    <2> QED BY <2>1
  <1>2. /\ Len(order') = Len(order) + 1 /\ Len(order) \in Nat
        /\ \A i \in 1..Len(order) : data'[order'[i]] = data[order[i]]
        /\ data'[order'[Len(order) + 1]] = x
        BY Added, EmptyIffNull
  <1>3. /\ Append(Values(order), x) \in Seq(Stored)
        /\ Len(Append(Values(order), x)) = Len(order) + 1
        /\ \A i \in 1..Len(order) : Append(Values(order), x)[i] = data[order[i]]
        /\ Append(Values(order), x)[Len(order) + 1] = x
        BY <1>2, ValuesOf, AppendProperties DEF Stored
  <1>4. \A i \in 1..Len(order) + 1 : Values(order)'[i] = Append(Values(order), x)[i]
    <2> SUFFICES ASSUME NEW i \in 1..Len(order) + 1
                 PROVE  Values(order)'[i] = Append(Values(order), x)[i]
        OBVIOUS
    <2>1. i \in 1..Len(order) \/ i = Len(order) + 1
          BY <1>2
    <2>2. Values(order)'[i] = data'[order'[i]]
          BY <1>1, <1>2
    <2> QED BY <2>1, <2>2, <1>2, <1>3
  <1> QED BY <1>1, <1>2, <1>3, <1>4, SeqEqual

LEMMA ValuesRemoved ==
    ASSUME Inv, Inv', order # << >>, order' = Tail(order), queue' = next[queue],
           free(queue), tail' = tail
    PROVE  Values(order)' = Tail(Values(order))
  <1>1. /\ Values(order)' \in Seq(Stored) /\ Len(Values(order)') = Len(order')
        /\ \A i \in 1..Len(order') : Values(order)'[i] = data'[order'[i]]
    <2>1. (/\ Values(order) \in Seq(Stored) /\ Len(Values(order)) = Len(order)
           /\ \A i \in 1..Len(order) : Values(order)[i] = data[order[i]])'
          BY ValuesAre, PTL
    <2> QED BY <2>1
  <1>2. /\ Len(order') = Len(order) - 1 /\ Len(order) \in Nat /\ Len(order) > 0
        /\ \A i \in 1..Len(order') : data'[order'[i]] = data[order[i + 1]]
        BY Removed, EmptyIffNull
  <1>3. /\ Tail(Values(order)) \in Seq(Stored)
        /\ Len(Tail(Values(order))) = Len(order) - 1
        /\ \A i \in 1..Len(order) - 1 : Tail(Values(order))[i] = Values(order)[i + 1]
        BY <1>2, ValuesOf, HeadTailProperties
  <1>4. \A i \in 1..Len(order) - 1 : Tail(Values(order))[i] = data[order[i + 1]]
        BY <1>2, <1>3, ValuesOf
  <1> DEFINE s == Values(order)'
             t == Tail(Values(order))
  <1> HIDE DEF s, t
  <1>5. s \in Seq(Stored) /\ t \in Seq(Stored) /\ Len(s) = Len(t) /\ Len(s) = Len(order) - 1
        BY <1>1, <1>2, <1>3 DEF s, t
  <1>6. \A i \in 1..Len(s) : s[i] = t[i]
        BY <1>1, <1>2, <1>4, <1>5 DEF s, t
  <1>7. s = t
        BY <1>5, <1>6, SeqEqual
  <1> QED BY <1>7 DEF s, t

LEMMA ValuesKept ==
    ASSUME UNCHANGED <<order, data>>
    PROVE  Values(order)' = Values(order)
  BY DEF Values

----------------------------------------------------------------------------
(***************************************************************************)
(* A foreach and a destroy keep their histories in step with the list.     *)
(***************************************************************************)
FullInv ==
    /\ Inv /\ ForeachInOrder /\ DestroyReleasesAll
    /\ released \in Seq(Stored)

LEMMA ForeachInv == Inv /\ Inv' /\ ForeachInOrder /\ [Next]_vars => ForeachInOrder'
  <1> SUFFICES ASSUME Inv, Inv', ForeachInOrder, [Next]_vars, cursor' # NULL
               PROVE  /\ life' = "open" /\ Len(seen)' \in 1..Len(order)'
                      /\ cursor' = order'[Len(seen)']
                      /\ seen' = SubSeq(Values(order)', 1, Len(seen)')
      BY DEF ForeachInOrder
  <1> DEFINE n == Len(order)
             v == Values(order)
  <1>1. /\ n \in Nat /\ order \in Seq(Addrs) /\ (order = << >> <=> n = 0)
        BY EmptyIffNull, EmptySeq
  <1>2. /\ v \in Seq(Stored) /\ Len(v) = n
        /\ \A i \in 1..n : v[i] = data[order[i]]
        BY ValuesOf
  <1>3. cursor # NULL => /\ life = "open" /\ Len(seen) \in 1..n
                         /\ cursor = order[Len(seen)]
                         /\ seen = SubSeq(v, 1, Len(seen))
        BY DEF ForeachInOrder
  <1> HIDE DEF v
  <1>4. CASE UNCHANGED <<life, cursor, seen, order, data>>
    <2>1. Values(order)' = v
          BY <1>4, ValuesKept DEF v
    <2> QED BY <1>3, <1>4, <2>1
  <1>5. ASSUME NEW x \in Items, NEW new \in Addrs, Push(x, new)
        PROVE  /\ life' = "open" /\ Len(seen)' \in 1..Len(order)'
               /\ cursor' = order'[Len(seen)']
               /\ seen' = SubSeq(Values(order)', 1, Len(seen)')
    <2>1. /\ cursor' = cursor /\ seen' = seen /\ life' = "open" /\ cursor # NULL
          /\ order' = Append(order, new)
          BY <1>5 DEF Push
    <2>2. Len(order') = n + 1 /\ \A i \in 1..n : order'[i] = order[i]
          BY <1>1, <2>1, AppendProperties
    <2>3. Values(order)' = Append(v, x)
          BY <1>5, ValuesAdded DEF v
    <2>4. SubSeq(Append(v, x), 1, Len(seen)) = SubSeq(v, 1, Len(seen))
          BY <1>1, <1>2, <1>3, <2>1 DEF Stored
    <2>5. Len(seen) \in 1..n /\ cursor = order'[Len(seen)] /\ Len(seen) \in 1..n + 1
          BY <1>1, <1>3, <2>1, <2>2
    <2>6. seen = SubSeq(Values(order)', 1, Len(seen))
          BY <1>3, <2>1, <2>3, <2>4
    <2> QED BY <2>1, <2>2, <2>5, <2>6
  <1>6. CASE Pop
        BY <1>6 DEF Pop
  <1>7. CASE Foreach
    <2>1. /\ n # 0 /\ cursor' = queue /\ seen' = <<data[queue]>>
          /\ UNCHANGED <<life, order, data>> /\ life = "open"
          BY <1>7 DEF Foreach, heap, Inv, CountOK
    <2>2. queue = order[1] /\ 1 \in 1..n /\ Len(seen') = 1
          BY <1>1, <2>1, EmptyIffNull
    <2>3. SubSeq(v, 1, 1) = <<data[order[1]]>>
          BY <1>2, <2>2, Prefixes
    <2>4. Values(order)' = v
          BY <2>1, ValuesKept DEF v
    <2> QED BY <2>1, <2>2, <2>3, <2>4
  <1>8. CASE ForeachStep
    <2> DEFINE k == Len(seen)
    <2>1. /\ cursor # NULL /\ cursor' = next[cursor]
          /\ seen' = Append(seen, data[cursor'])
          /\ UNCHANGED <<life, order, data>>
          BY <1>8 DEF ForeachStep, heap
    <2>2. k \in 1..n /\ cursor = order[k] /\ seen = SubSeq(v, 1, k) /\ life = "open"
          BY <1>3, <2>1
    <2>3. cursor' = order[k + 1] /\ k < n /\ k + 1 \in 1..n
          BY <1>1, <2>1, <2>2 DEF Inv, Linked
    <2>4. SubSeq(v, 1, k + 1) = Append(SubSeq(v, 1, k), v[k + 1])
          BY <1>2, <2>2, <2>3, Prefixes
    <2>5. seen' = SubSeq(v, 1, k + 1)
          BY <1>2, <2>1, <2>2, <2>3, <2>4
    <2>6. Len(seen') = k + 1
      <3>1. SubSeq(v, 1, k + 1) \in Seq(Stored) /\ Len(SubSeq(v, 1, k + 1)) = k + 1
            BY <1>1, <1>2, <2>2, <2>3
      <3> QED BY <2>5, <3>1
    <2>7. Values(order)' = v
          BY <2>1, ValuesKept DEF v
    <2> QED BY <2>1, <2>2, <2>3, <2>5, <2>6, <2>7
  <1>9. CASE Destroy \/ DestroyStep
        BY <1>3, <1>9 DEF Destroy, DestroyStep, Inv
  <1>10. CASE New \/ NoQueue
    <2>1. cursor' = cursor /\ life = "none"
          BY <1>10 DEF New, NoQueue
    <2> QED BY <1>3, <2>1
  <1>11. CASE UNCHANGED vars
        BY <1>4, <1>11 DEF vars, heap, history
  <1> QED BY <1>5, <1>6, <1>7, <1>8, <1>9, <1>10, <1>11 DEF Next

LEMMA DestroyInv ==
    FullInv /\ Inv' /\ [Next]_vars => DestroyReleasesAll' /\ released' \in Seq(Stored)
  <1> SUFFICES ASSUME FullInv, Inv', [Next]_vars
               PROVE  /\ released' \in Seq(Stored)
                      /\ life' = "destroying" => released' \o Values(order)' = doomed'
      BY DEF DestroyReleasesAll
  <1> DEFINE v == Values(order)
  <1>1. Inv /\ released \in Seq(Stored) /\ (life = "destroying" => released \o v = doomed)
        BY DEF FullInv, DestroyReleasesAll
  <1>2. v \in Seq(Stored)
        BY <1>1, ValuesOf
  <1>3. << >> \in Seq(Stored)
        BY EmptySeq
  <1> HIDE DEF v
  <1>4. CASE Destroy
    <2>1. released' = << >> /\ doomed' = v /\ UNCHANGED <<order, data>>
          BY <1>4 DEF Destroy, heap, v
    <2>2. Values(order)' = v
          BY <2>1, ValuesKept DEF v
    <2>3. << >> \o v = v
          BY <1>2, ConcatEmptySeq
    <2> QED BY <1>3, <2>1, <2>2, <2>3
  <1>5. CASE DestroyStep /\ queue # NULL
    <2>1. /\ released' = Append(released, data[queue]) /\ doomed' = doomed
          /\ order # << >> /\ order' = Tail(order) /\ queue' = next[queue]
          /\ free(queue) /\ tail' = tail /\ life = "destroying"
          BY <1>1, <1>5, EmptyIffNull DEF DestroyStep
    <2>2. Values(order)' = Tail(v)
          BY <1>1, <2>1, ValuesRemoved DEF v
    <2>3. data[queue] = Head(v) /\ v # << >>
          BY <1>1, <2>1, ValuesOf DEF v
    <2>4. /\ Append(released, Head(v)) \o Tail(v) = released \o v
          /\ Append(released, Head(v)) \in Seq(Stored)
          BY <1>1, <1>2, <2>3, Moved
    <2> QED BY <1>1, <2>1, <2>2, <2>3, <2>4
  <1>6. CASE DestroyStep /\ queue = NULL
        BY <1>3, <1>6 DEF DestroyStep
  <1>7. CASE UNCHANGED <<released, doomed>> /\ life' # "destroying"
        BY <1>1, <1>7
  <1>8. CASE New \/ NoQueue \/ Pop \/ Foreach
        BY <1>1, <1>8 DEF New, NoQueue, Pop, Foreach, history
  <1>9. CASE ForeachStep
        BY <1>1, <1>7, <1>9 DEF ForeachStep, FullInv, ForeachInOrder
  <1>10. ASSUME NEW x \in Items, NEW new \in Addrs, Push(x, new)
         PROVE  UNCHANGED <<released, doomed>> /\ life' # "destroying"
         BY <1>10 DEF Push
  <1>11. CASE UNCHANGED vars
    <2>1. UNCHANGED <<order, data, released, doomed, life>>
          BY <1>11 DEF vars, heap, history
    <2> QED BY <1>1, <2>1, ValuesKept DEF v
  <1> QED BY <1>4, <1>5, <1>6, <1>7, <1>8, <1>9, <1>10, <1>11 DEF Next

(***************************************************************************)
(* The whole invariant holds of every reachable state.                     *)
(***************************************************************************)
LEMMA FullInvariant == Spec => []FullInv
  <1>1. Init => FullInv
    <2> SUFFICES ASSUME Init PROVE FullInv
        OBVIOUS
    <2>1. Inv
          BY InitInv
    <2>2. cursor = NULL /\ life = "none" /\ released \in Seq(Stored)
          BY EmptySeq DEF Init
    <2> QED BY <2>1, <2>2 DEF FullInv, ForeachInOrder, DestroyReleasesAll
  <1>2. FullInv /\ [Next]_vars => FullInv'
    <2> SUFFICES ASSUME FullInv, [Next]_vars PROVE FullInv'
        OBVIOUS
    <2>1. Inv /\ ForeachInOrder
          BY DEF FullInv
    <2>2. Inv'
          BY <2>1, NextInv
    <2>3. ForeachInOrder'
          BY <2>1, <2>2, ForeachInv
    <2>4. DestroyReleasesAll' /\ released' \in Seq(Stored)
          BY <2>2, DestroyInv
    <2> QED BY <2>2, <2>3, <2>4 DEF FullInv
  <1> QED BY <1>1, <1>2, PTL DEF Spec

(***************************************************************************)
(* ac_queue.c keeps its struct and its nodes well formed: every pointer is *)
(* an address or NULL, the count a natural number.                         *)
(***************************************************************************)
THEOREM TypeCorrect == Spec => []TypeOK
  <1>1. FullInv => TypeOK
        BY DEF FullInv, Inv
  <1> QED BY <1>1, FullInvariant, PTL

(***************************************************************************)
(* The list that ac_queue_push and ac_queue_pop (ac_queue.c:46-99) edit    *)
(* always leads through every queued node, in order, to NULL; no node is   *)
(* leaked or kept after it was freed; the counter is the list's length.    *)
(***************************************************************************)
THEOREM ListCorrect == Spec => []ListIntact
  <1>1. FullInv => ListIntact
        BY DEF FullInv, Inv, ListIntact
  <1> QED BY <1>1, FullInvariant, PTL

(***************************************************************************)
(* Although pop leaves a dangling `tail' behind (ac_queue.c:93-96), push   *)
(* follows it (57-58) only while it is the last live node.                 *)
(***************************************************************************)
THEOREM TailSafe == Spec => []TailIsLast
  <1>1. FullInv => TailIsLast
        BY DEF FullInv, Inv
  <1> QED BY <1>1, FullInvariant, PTL

(***************************************************************************)
(* ac_queue_foreach visits the items in order, pushes of its callback      *)
(* included.                                                               *)
(***************************************************************************)
THEOREM ForeachVisits == Spec => []ForeachInOrder
  <1>1. FullInv => ForeachInOrder
        BY DEF FullInv
  <1> QED BY <1>1, FullInvariant, PTL

(***************************************************************************)
(* ac_queue_destroy hands every queued item to free_func exactly once.     *)
(***************************************************************************)
THEOREM DestroyComplete == Spec => []DestroyReleasesAll
  <1>1. FullInv => DestroyReleasesAll
        BY DEF FullInv
  <1> QED BY <1>1, FullInvariant, PTL

(***************************************************************************)
(* ac_queue.c is an unbounded FIFO: a push that answers 0 has put in the   *)
(* item it was given, a pop has taken out the oldest, and every other step *)
(* leaves the queued values as they are (ac_queue.c:50-67, :85-98).        *)
(***************************************************************************)
THEOREM FifoRefinement == Spec => ImplementsFifo
  <1>1. Init => F!Init
        BY DEF Init, Call, F!Init, F!Call
  <1>2. FullInv /\ FullInv' /\ [Next]_vars => [F!Next]_F!vars
    <2> SUFFICES ASSUME FullInv, FullInv', [Next]_vars PROVE [F!Next]_F!vars
        OBVIOUS
    <2> DEFINE v == Values(order)
    <2>1. /\ Inv /\ Inv' /\ ForeachInOrder
          /\ (order = << >> <=> v = << >>) /\ (queue = NULL <=> order = << >>)
          BY ValuesOf, EmptyIffNull DEF FullInv
    <2>2. UNCHANGED <<order, data>> => Values(order)' = v
          BY ValuesKept
    <2> HIDE DEF v
    <2>3. CASE New
      <3>1. life = "none" /\ life' = "open" /\ F!Ok(F!Call("new", 0, << >>), << >>)
            BY <2>3 DEF New, Return, Call, F!Ok, F!Call
      <3>2. order = << >> /\ UNCHANGED <<order, data>>
            BY <2>1, <2>3, <3>1 DEF New, heap, history, Inv
      <3>3. Values(order)' = << >>
            BY <2>1, <2>2, <3>2
      <3>4. F!New
            BY <3>1, <3>3, Zenon DEF F!New
      <3> QED BY <3>4 DEF F!Next
    <2>4. CASE NoQueue
      <3>1. PICK name \in {"push", "pop"} :
                /\ life = "none" /\ life' = "none"
                /\ call' = F!Call(name, 1, << >>) /\ ret' = "refused" /\ out' = << >>
            BY <2>4 DEF NoQueue, Return, Call, F!Call
      <3>2. F!Refuse(name, 1)
            BY <3>1, Zenon DEF F!Refuse
      <3>3. F!Absent
            BY <3>1, <3>2, Zenon DEF F!Absent
      <3> QED BY <3>3 DEF F!Next
    <2>5. ASSUME NEW x \in Items, NEW new \in Addrs, Push(x, new) PROVE F!Next
      <3>1. life = "open" /\ life' = "open" /\ F!Ok(F!Call("push", 1, <<x>>), << >>)
            BY <2>5 DEF Push, Return, Call, F!Ok, F!Call
      <3>2. Values(order)' = Append(v, x)
            BY <2>1, <2>5, ValuesAdded DEF v
      <3>3. F!Push(x)
            BY <3>1, <3>2, Zenon DEF F!Push, F!Room, v
      <3> QED BY <3>3 DEF F!Next
    <2>6. CASE Pop
      <3>1. life = "open" /\ life' = "open"
            BY <2>6 DEF Pop
      <3>2. CASE queue = NULL
        <4>1. /\ call' = F!Call("pop", 1, << >>) /\ ret' = "refused" /\ out' = << >>
              /\ UNCHANGED <<order, data>>
              BY <2>6, <3>2 DEF Pop, Return, Call, F!Call, heap
        <4>2. v = << >> /\ Values(order)' = v
              BY <2>1, <2>2, <3>2, <4>1
        <4>3. F!Pop
              BY <3>1, <4>1, <4>2, Zenon DEF F!Pop, F!Refuse, v
        <4> QED BY <4>3 DEF F!Next
      <3>3. CASE queue # NULL
        <4>1. /\ F!Ok(F!Call("pop", 1, << >>), <<data[queue]>>) /\ order # << >>
              /\ order' = Tail(order) /\ queue' = next[queue]
              /\ free(queue) /\ tail' = tail
              BY <2>1, <2>6, <3>3 DEF Pop, Return, Call, F!Ok, F!Call
        <4>2. Values(order)' = Tail(v) /\ data[queue] = Head(v) /\ v # << >>
              BY <2>1, <4>1, ValuesRemoved, ValuesOf DEF v
        <4>3. F!Ok(F!Call("pop", 1, << >>), <<Head(v)>>)
              BY <4>1, <4>2
        <4>4. F!Pop
              BY <3>1, <4>1, <4>2, <4>3, Zenon DEF F!Pop, v
        <4> QED BY <4>4 DEF F!Next
      <3> QED BY <3>2, <3>3
    <2>7. CASE Destroy
      <3>1. life = "open" /\ life' = "destroying" /\ F!Ok(F!Call("destroy", 0, << >>), << >>)
            BY <2>7 DEF Destroy, Return, Call, F!Ok, F!Call
      <3>2. F!Destroy
            BY <3>1, Zenon DEF F!Destroy
      <3> QED BY <3>2 DEF F!Next
    <2>8. CASE DestroyStep
      <3>1. life # "open" /\ life' # "open" /\ UNCHANGED <<call, ret, out>>
            BY <2>8 DEF DestroyStep
      <3> QED BY <3>1, Zenon DEF F!vars
    <2>9. CASE Foreach \/ ForeachStep \/ UNCHANGED vars
      <3>1. life' = life /\ UNCHANGED <<call, ret, out>> /\ UNCHANGED <<order, data>>
            BY <2>9 DEF Foreach, ForeachStep, vars, heap, history
      <3>2. Values(order)' = Values(order)
            BY <3>1, ValuesKept
      <3> QED BY <3>1, <3>2 DEF F!vars
    <2> QED BY <2>3, <2>4, <2>5, <2>6, <2>7, <2>8, <2>9 DEF Next
  <1> QED BY <1>1, <1>2, FullInvariant, PTL DEF Spec, ImplementsFifo, F!Spec
=============================================================================
