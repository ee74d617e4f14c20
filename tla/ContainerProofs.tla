--------------------------- MODULE ContainerProofs ---------------------------
(***************************************************************************)
(* Proofs about the lists, the binary tree and the quark of MCContainers,  *)
(* for every heap, every set of items, nodes and strings.                  *)
(*                                                                         *)
(* What both kinds of list have in common is proved once, about the        *)
(* effects their functions share: a node is put at the end, put in front,  *)
(* cut out, the links are turned, all nodes are freed.                     *)
(***************************************************************************)
EXTENDS MCContainers, FiniteSetTheorems, Lemmas

(***************************************************************************)
(* The addresses s are linked in this order, from p.                       *)
(***************************************************************************)
Chain(s, p, link) ==
    /\ s \in Seq(Addrs)
    /\ p = IF s = << >> THEN NULL ELSE s[1]
    /\ \A i \in 1..Len(s) : link[s[i]] = IF i = Len(s) THEN NULL ELSE s[i + 1]
    /\ \A i, j \in 1..Len(s) : s[i] = s[j] => i = j

Core ==
    /\ Chain(nodes, list, next)
    /\ \A a : a \in alloc <=> \E i \in 1..Len(nodes) : a = nodes[i]
    /\ next \in [Addrs -> Addrs \cup {NULL, Junk}]
    /\ data \in [Addrs -> Items \cup {Junk}]
    /\ due \in SUBSET Addrs /\ walk \in {"none", "forward", "back"}

BackLinks ==
    /\ prev \in [Addrs -> Addrs \cup {NULL, Junk}] /\ preadded \in BOOLEAN
    /\ PrevIsInverse

(***************************************************************************)
(* A foreach is at the k-th node, and owes a visit to all that follow.     *)
(***************************************************************************)
Forward(k) ==
    /\ k \in 1..Len(nodes) /\ cursor = nodes[k]
    /\ \A a : a \in due <=> \E i \in k + 1..Len(nodes) : a = nodes[i]

(***************************************************************************)
(* A rev_foreach owes a visit to those before, up to the m-th: the nodes   *)
(* in front of that one were put there since it began.                     *)
(***************************************************************************)
Back(k, m) ==
    /\ k \in 1..Len(nodes) /\ m \in 1..k /\ cursor = nodes[k]
    /\ \A a : a \in due <=> \E i \in m..k - 1 : a = nodes[i]
    /\ \A i \in 1..k : prev[nodes[i]] = IF i <= m THEN NULL ELSE nodes[i - 1]

WalkInv ==
    /\ walk = "none" => cursor = NULL /\ due = {}
    /\ walk = "forward" => \E k \in 1..Len(nodes) : Forward(k)
    /\ walk = "back" => \E k \in 1..Len(nodes) : \E m \in 1..k : Back(k, m)

(***************************************************************************)
(* To a singly linked list, `prev' means nothing.                          *)
(***************************************************************************)
OneWay ==
    kind = "slist" => /\ walk # "back" /\ preadded = TRUE
                      /\ prev = [a \in Addrs |-> NULL]

ListsInv == Core /\ BackLinks /\ WalkInv /\ OneWay
----------------------------------------------------------------------------
(***************************************************************************)
(* What a walk meets.  The function that Walk defines is the only one with *)
(* its property.                                                           *)
(***************************************************************************)
LEMMA Places ==
    ASSUME NEW s, NEW p, NEW link, Chain(s, p, link)
    PROVE  Len(s) \in Nat /\ Len(s) <= HeapSize /\ HeapSize \in Nat
  <1> DEFINE n == Len(s)
  <1>1. n \in Nat /\ s \in [1..n -> Addrs]
        BY DEF Chain
  <1>2. s \in Injection(1..n, Addrs)
        BY <1>1 DEF Chain, Injection, IsInjective
  <1>3. Cardinality(1..n) = n
        BY <1>1, FS_Interval
  <1>4. Cardinality(1..n) <= Cardinality(Addrs)
        BY <1>2, FS_Injection, HeapAssumption
  <1>5. Cardinality(Addrs) \in Nat
        BY FS_CardinalityType, HeapAssumption
  <1> QED BY <1>1, <1>3, <1>4, <1>5, HeapAssumption

LEMMA WalkIs ==
    ASSUME NEW s, NEW p, Chain(s, p, next)
    PROVE  Walk(p) = s
  <1> DEFINE n     == Len(s)
             D     == 1..HeapSize + 1
             e(f)  == [i \in D |-> IF i = 1 THEN p
                                  ELSE IF f[i - 1] \in Addrs THEN next[f[i - 1]] ELSE f[i - 1]]
             g     == [i \in D |-> IF i <= n THEN s[i] ELSE NULL]
             at    == CHOOSE f : f = e(f)
  <1>1. n \in Nat /\ n <= HeapSize /\ HeapSize \in Nat
        BY Places
  <1>2. /\ p = IF n = 0 THEN NULL ELSE s[1]
        /\ \A i \in 1..n : s[i] \in Addrs /\ next[s[i]] = IF i = n THEN NULL ELSE s[i + 1]
        BY EmptySeq DEF Chain
  <1>3. s = [i \in 1..n |-> s[i]]
        BY DEF Chain
  <1>4. \A i \in D : g[i] = IF i = 1 THEN p
                            ELSE IF g[i - 1] \in Addrs THEN next[g[i - 1]] ELSE g[i - 1]
    <2> SUFFICES ASSUME NEW i \in D
                 PROVE  g[i] = IF i = 1 THEN p
                               ELSE IF g[i - 1] \in Addrs THEN next[g[i - 1]] ELSE g[i - 1]
        OBVIOUS
    <2>1. CASE i = 1
          BY <1>1, <1>2, <2>1
    <2>2. CASE i # 1
      <3>1. i - 1 \in D /\ (i - 1) + 1 = i
            BY <1>1, <2>2
      <3>2. CASE i - 1 <= n
        <4>1. i - 1 \in 1..n /\ g[i - 1] = s[i - 1] /\ g[i - 1] \in Addrs
              BY <1>1, <1>2, <3>1, <3>2
        <4>2. next[s[i - 1]] = IF i - 1 = n THEN NULL ELSE s[i]
              BY <1>2, <3>1, <4>1
        <4> QED BY <1>1, <2>2, <3>1, <3>2, <4>1, <4>2
      <3>3. CASE ~(i - 1 <= n)
            BY <1>1, <2>2, <3>1, <3>3, HeapAssumption
      <3> QED BY <3>2, <3>3
    <2> QED BY <2>1, <2>2
  <1>5. g = e(g)
        BY <1>4
  <1>6. at = e(at)
        BY <1>5
  <1>7. \A i \in D : at[i] = g[i]
    <2> HIDE DEF g
    <2>1. \A i \in D : at[i] = IF i = 1 THEN p
                               ELSE IF at[i - 1] \in Addrs THEN next[at[i - 1]] ELSE at[i - 1]
          BY <1>6
    <2> HIDE DEF at
    <2> DEFINE S == {m \in Nat : m + 1 \in D => at[m + 1] = g[m + 1]}
    <2>2. 0 \in S
          BY <1>1, <1>4, <2>1
    <2>3. ASSUME NEW m \in Nat, m \in S PROVE m + 1 \in S
      <3>1. CASE m + 2 \in D
        <4>1. m + 1 \in D /\ (m + 2) - 1 = m + 1 /\ m + 2 # 1 /\ at[m + 1] = g[m + 1]
              BY <1>1, <2>3, <3>1
        <4>2. at[m + 2] = g[m + 2]
              BY <1>4, <2>1, <3>1, <4>1
        <4> QED BY <4>2
      <3>2. CASE m + 2 \notin D
            BY <3>2
      <3> QED BY <3>1, <3>2
    <2> HIDE DEF S
    <2>4. Nat \subseteq S
          BY <2>2, <2>3, Induct
    <2>5. ASSUME NEW i \in D PROVE at[i] = g[i]
      <3>1. i - 1 \in S /\ (i - 1) + 1 = i
            BY <1>1, <2>4
      <3> QED BY <3>1 DEF S
    <2> QED BY <2>5
  <1>8. Walk(p) = [i \in {j \in D : at[j] \in Addrs} |-> at[i]]
        BY DEF Walk
  <1> HIDE DEF at
  <1>9. {j \in D : at[j] \in Addrs} = 1..n
    <2>1. ASSUME NEW j PROVE j \in {k \in D : at[k] \in Addrs} <=> j \in 1..n
          BY <1>1, <1>2, <1>7, HeapAssumption
    <2> QED BY <2>1
  <1>10. \A i \in 1..n : at[i] = s[i]
         BY <1>1, <1>7
  <1> QED BY <1>3, <1>8, <1>9, <1>10

LEMMA NodesAre == \A s : Chain(s, list, next) => nodes = s
  BY WalkIs DEF nodes

(***************************************************************************)
(* What the operations do to a chain.                                      *)
(***************************************************************************)
Links(f) == f \in [Addrs -> Addrs \cup {NULL, Junk}]

LEMMA ChainFacts ==
    ASSUME NEW s, NEW p, NEW link, Chain(s, p, link)
    PROVE  /\ s \in Seq(Addrs) /\ Len(s) \in Nat
           /\ p = NULL <=> Len(s) = 0
           /\ p = NULL <=> s = << >>
           /\ Len(s) > 0 => p = s[1] /\ p \in Addrs /\ p # NULL
           /\ \A i \in 1..Len(s) :
                 s[i] \in Addrs /\ s[i] # NULL /\ s[i] # Junk
                 /\ link[s[i]] = IF i = Len(s) THEN NULL ELSE s[i + 1]
           /\ \A i, j \in 1..Len(s) : s[i] = s[j] => i = j
  <1>1. s \in Seq(Addrs) /\ Len(s) \in Nat /\ \A i \in 1..Len(s) : s[i] \in Addrs
        BY DEF Chain
  <1>2. s = << >> <=> Len(s) = 0
        BY <1>1, EmptySeq
  <1>3. Len(s) > 0 => s[1] \in Addrs
        BY <1>1
  <1> QED BY <1>1, <1>2, <1>3, HeapAssumption DEF Chain

LEMMA ChainIs ==
    ASSUME NEW s \in Seq(Addrs), NEW p, NEW link,
           p = IF Len(s) = 0 THEN NULL ELSE s[1],
           \A i \in 1..Len(s) : link[s[i]] = IF i = Len(s) THEN NULL ELSE s[i + 1],
           \A i \in 1..Len(s) : \A j \in 1..Len(s) : s[i] = s[j] => i = j
    PROVE  Chain(s, p, link)
  BY EmptySeq DEF Chain

LEMMA ChainAppended ==
    ASSUME NEW s, NEW p, NEW link, Chain(s, p, link), Links(link),
           NEW new \in Addrs, \A i \in 1..Len(s) : s[i] # new
    PROVE  LET t == Append(s, new)
               l == IF p = NULL THEN [link EXCEPT ![new] = NULL]
                    ELSE [link EXCEPT ![new] = NULL, ![s[Len(s)]] = new]
           IN  /\ Chain(t, IF p = NULL THEN new ELSE p, l) /\ Links(l)
               /\ Len(t) = Len(s) + 1 /\ t[Len(s) + 1] = new
               /\ \A i \in 1..Len(s) : t[i] = s[i]
  <1> DEFINE n == Len(s)
             t == Append(s, new)
             q == IF p = NULL THEN new ELSE p
             l == IF p = NULL THEN [link EXCEPT ![new] = NULL]
                  ELSE [link EXCEPT ![new] = NULL, ![s[n]] = new]
  <1>1. /\ s \in Seq(Addrs) /\ n \in Nat /\ (p = NULL <=> n = 0)
        /\ n > 0 => p = s[1]
        /\ \A i \in 1..n : s[i] \in Addrs /\ link[s[i]] = IF i = n THEN NULL ELSE s[i + 1]
        /\ \A i, j \in 1..n : s[i] = s[j] => i = j
        BY ChainFacts
  <1>2. /\ t \in Seq(Addrs) /\ Len(t) = n + 1 /\ t[n + 1] = new
        /\ \A i \in 1..n : t[i] = s[i]
        BY <1>1, AppendProperties
  <1>3. n > 0 => s[n] \in Addrs
        BY <1>1
  <1>4. /\ Links(l) /\ l[new] = NULL
        /\ \A a \in Addrs : a # new => l[a] = IF n > 0 /\ a = s[n] THEN new ELSE link[a]
    <2>1. CASE p = NULL
          BY <1>1, <2>1 DEF Links
    <2>2. CASE p # NULL
      <3>1. n > 0 /\ s[n] \in Addrs /\ s[n] # new
            BY <1>1, <1>3, <2>2
      <3> QED BY <2>2, <3>1 DEF Links
    <2> QED BY <2>1, <2>2
  <1> HIDE DEF l, t
  <1>5. ASSUME NEW i \in 1..n + 1 PROVE l[t[i]] = IF i = n + 1 THEN NULL ELSE t[i + 1]
    <2>1. CASE i = n + 1
          BY <1>2, <1>4, <2>1
    <2>2. CASE i = n
          BY <1>1, <1>2, <1>3, <1>4, <2>2
    <2>3. CASE i < n
      <3>1. i \in 1..n /\ i + 1 \in 1..n /\ n \in 1..n /\ i # n /\ i # n + 1
            BY <1>1, <2>3
      <3>2. s[i] # s[n] /\ s[i] # new /\ s[i] \in Addrs /\ link[s[i]] = s[i + 1]
            BY <1>1, <3>1
      <3> QED BY <1>2, <1>4, <3>1, <3>2
    <2>4. i = n + 1 \/ i = n \/ i < n
          BY <1>1
    <2> QED BY <2>1, <2>2, <2>3, <2>4
  <1>6. ASSUME NEW i \in 1..n + 1, NEW j \in 1..n + 1, t[i] = t[j] PROVE i = j
        BY <1>1, <1>2, <1>6
  <1>7. q = t[1] /\ n + 1 # 0
    <2>1. n = 0 => 1 = n + 1
          OBVIOUS
    <2>2. n > 0 => 1 \in 1..n
          BY <1>1
    <2> QED BY <1>1, <1>2, <2>1, <2>2
  <1>8. Chain(t, q, l)
    <2> HIDE DEF q
    <2> QED BY <1>2, <1>5, <1>6, <1>7, ChainIs
  <1> QED BY <1>2, <1>4, <1>8 DEF t, l

LEMMA ChainPut ==
    ASSUME NEW s, NEW p, NEW link, Chain(s, p, link), Links(link),
           NEW new \in Addrs, \A i \in 1..Len(s) : s[i] # new
    PROVE  LET t == <<new>> \o s
               l == [link EXCEPT ![new] = p]
           IN  /\ Chain(t, new, l) /\ Links(l)
               /\ Len(t) = Len(s) + 1 /\ t[1] = new
               /\ \A i \in 1..Len(s) : t[i + 1] = s[i]
               /\ \A i \in 2..Len(s) + 1 : t[i] = s[i - 1]
  <1> DEFINE n == Len(s)
             t == <<new>> \o s
             l == [link EXCEPT ![new] = p]
  <1>1. /\ s \in Seq(Addrs) /\ n \in Nat /\ (p = NULL <=> n = 0)
        /\ n > 0 => p = s[1] /\ p \in Addrs
        /\ \A i \in 1..n : s[i] \in Addrs /\ link[s[i]] = IF i = n THEN NULL ELSE s[i + 1]
        /\ \A i, j \in 1..n : s[i] = s[j] => i = j
        BY ChainFacts
  <1>2. /\ t \in Seq(Addrs) /\ Len(t) = n + 1
        /\ \A j \in 1..n + 1 : t[j] = IF j = 1 THEN new ELSE s[j - 1]
        BY <1>1, PutInFront
  <1>3. t[1] = new /\ \A i \in 1..n : t[i + 1] = s[i]
    <2>1. \A i \in 1..n : i + 1 \in 1..n + 1 /\ i + 1 # 1 /\ (i + 1) - 1 = i
          BY <1>1
    <2> QED BY <1>1, <1>2, <2>1
  <1>4. Links(l) /\ l[new] = p /\ \A a \in Addrs : a # new => l[a] = link[a]
    <2>1. p \in Addrs \cup {NULL}
          BY <1>1
    <2> QED BY <2>1 DEF Links
  <1> HIDE DEF l, t
  <1>5. ASSUME NEW i \in 1..n + 1 PROVE l[t[i]] = IF i = n + 1 THEN NULL ELSE t[i + 1]
    <2>1. CASE i = 1
      <3>1. n > 0 => 1 \in 1..n /\ t[1 + 1] = s[1]
            BY <1>1, <1>3
      <3> QED BY <1>1, <1>3, <1>4, <2>1, <3>1
    <2>2. CASE i # 1
      <3>1. i - 1 \in 1..n /\ (i - 1) + 1 = i /\ (i = n + 1 <=> i - 1 = n)
            BY <1>1, <2>2
      <3>2. t[i] = s[i - 1] /\ s[i - 1] # new /\ s[i - 1] \in Addrs
            BY <1>1, <1>3, <3>1
      <3>3. l[t[i]] = IF i - 1 = n THEN NULL ELSE s[i]
            BY <1>1, <1>4, <3>1, <3>2
      <3>4. i # n + 1 => i \in 1..n /\ t[i + 1] = s[i]
            BY <1>1, <1>3
      <3> QED BY <3>1, <3>3, <3>4
    <2> QED BY <2>1, <2>2
  <1>6. ASSUME NEW i \in 1..n + 1, NEW j \in 1..n + 1, t[i] = t[j] PROVE i = j
    <2>1. \A k \in 1..n + 1 : k # 1 => k - 1 \in 1..n /\ t[k] = s[k - 1] /\ t[k] # new
          BY <1>1, <1>2
    <2>2. CASE i = 1
          BY <1>3, <1>6, <2>1, <2>2
    <2>3. CASE i # 1
      <3>1. j # 1
            BY <1>3, <1>6, <2>1, <2>3
      <3>2. i - 1 = j - 1
            BY <1>1, <1>6, <2>1, <2>3, <3>1
      <3> QED BY <3>2
    <2> QED BY <2>2, <2>3
  <1>7. Chain(t, new, l)
    <2>1. n + 1 # 0
          BY <1>1
    <2> QED BY <1>2, <1>3, <1>5, <1>6, <2>1, ChainIs
  <1>8. \A i \in 2..n + 1 : t[i] = s[i - 1]
        BY <1>1, <1>2
  <1> QED BY <1>2, <1>3, <1>4, <1>7, <1>8 DEF t, l

Without(s, i) == SubSeq(s, 1, i - 1) \o SubSeq(s, i + 1, Len(s))

LEMMA WithoutIs ==
    ASSUME NEW S, NEW s \in Seq(S), NEW i \in 1..Len(s)
    PROVE  /\ Without(s, i) \in Seq(S) /\ Len(Without(s, i)) = Len(s) - 1
           /\ \A j \in 1..Len(s) - 1 : Without(s, i)[j] = IF j < i THEN s[j] ELSE s[j + 1]
  BY TakenOut DEF Without

CutLinks(s, i, link) ==
    IF i = 1 THEN Wiped(link, {s[i]})
    ELSE Wiped([link EXCEPT ![s[i - 1]] = link[s[i]]], {s[i]})

LEMMA ChainCut ==
    ASSUME NEW s, NEW p, NEW link, Chain(s, p, link), Links(link), NEW i \in 1..Len(s)
    PROVE  /\ Chain(Without(s, i), IF i = 1 THEN link[s[i]] ELSE p, CutLinks(s, i, link))
           /\ Links(CutLinks(s, i, link))
           /\ Without(s, i) \in Seq(Addrs) /\ Len(Without(s, i)) = Len(s) - 1
           /\ \A j \in 1..Len(s) - 1 : Without(s, i)[j] = IF j < i THEN s[j] ELSE s[j + 1]
  <1> DEFINE n == Len(s)
             t == Without(s, i)
             q == IF i = 1 THEN link[s[i]] ELSE p
             l == CutLinks(s, i, link)
  <1>1. /\ s \in Seq(Addrs) /\ n \in Nat
        /\ n > 0 => p = s[1] /\ p \in Addrs
        /\ \A k \in 1..n : s[k] \in Addrs /\ link[s[k]] = IF k = n THEN NULL ELSE s[k + 1]
        /\ \A j, k \in 1..n : s[j] = s[k] => j = k
        BY ChainFacts
  <1>2. /\ t \in Seq(Addrs) /\ Len(t) = n - 1
        /\ \A j \in 1..n - 1 : t[j] = IF j < i THEN s[j] ELSE s[j + 1]
        BY <1>1, WithoutIs
  <1>0. i \in Nat /\ i >= 1 /\ i <= n
        BY <1>1
  <1>3. i > 1 => i - 1 \in 1..n /\ s[i - 1] \in Addrs /\ s[i - 1] # s[i]
    <2>1. i > 1 => i - 1 \in 1..n
          BY <1>0, <1>1
    <2> QED BY <1>0, <1>1, <2>1
  <1>4. /\ Links(l)
        /\ \A a \in Addrs : a # s[i] =>
              l[a] = IF i > 1 /\ a = s[i - 1] THEN link[s[i]] ELSE link[a]
    <2>1. link[s[i]] \in Addrs \cup {NULL, Junk}
          BY <1>1 DEF Links
    <2>2. CASE i = 1
          BY <2>2 DEF Links, CutLinks, Wiped
    <2>3. CASE i # 1
      <3>1. i > 1
            BY <1>0, <2>3
      <3>2. l = Wiped([link EXCEPT ![s[i - 1]] = link[s[i]]], {s[i]})
            BY <2>3 DEF CutLinks
      <3>3. Links([link EXCEPT ![s[i - 1]] = link[s[i]]])
            BY <2>1 DEF Links
      <3> QED BY <1>3, <2>1, <3>1, <3>2, <3>3 DEF Links, Wiped
    <2> QED BY <2>2, <2>3
  <1> HIDE DEF l, t
  <1>5. ASSUME NEW j \in 1..n - 1 PROVE l[t[j]] = IF j = n - 1 THEN NULL ELSE t[j + 1]
    <2>0. j \in Nat /\ j >= 1 /\ j <= n - 1 /\ j \in 1..n /\ j + 1 \in 1..n
          BY <1>1
    <2>1. CASE j + 1 < i
      <3>1. /\ t[j] = s[j] /\ t[j + 1] = s[j + 1] /\ j # n - 1 /\ j # i /\ j # i - 1 /\ j # n
        <4>1. j + 1 \in 1..n - 1 /\ j < i
              BY <1>0, <1>1, <2>0, <2>1
        <4> QED BY <1>0, <1>1, <1>2, <2>0, <2>1, <4>1
      <3>2. s[j] # s[i] /\ s[j] \in Addrs /\ (i > 1 => s[j] # s[i - 1])
            BY <1>1, <1>3, <2>0, <3>1
      <3> QED BY <1>1, <1>4, <2>0, <3>1, <3>2
    <2>2. CASE j + 1 = i
      <3>1. t[j] = s[j] /\ j = i - 1 /\ i > 1 /\ (j = n - 1 <=> i = n)
            BY <1>0, <1>2, <2>0, <2>2
      <3>2. l[t[j]] = IF i = n THEN NULL ELSE s[i + 1]
            BY <1>1, <1>3, <1>4, <3>1
      <3>3. j # n - 1 => t[j + 1] = s[i + 1]
        <4>1. j # n - 1 => j + 1 \in 1..n - 1 /\ ~(j + 1 < i) /\ (j + 1) + 1 = i + 1
              BY <1>1, <2>0, <2>2
        <4> QED BY <1>2, <4>1
      <3> QED BY <3>1, <3>2, <3>3
    <2>3. CASE j + 1 > i
      <3>1. t[j] = s[j + 1] /\ (j = n - 1 <=> j + 1 = n) /\ j + 1 # i /\ j + 1 # i - 1
        <4>1. ~(j < i) /\ (j = n - 1 <=> j + 1 = n) /\ j + 1 # i /\ j + 1 # i - 1
              BY <1>0, <1>1, <2>0, <2>3
        <4> QED BY <1>2, <4>1
      <3>2. s[j + 1] # s[i] /\ s[j + 1] \in Addrs /\ (i > 1 => s[j + 1] # s[i - 1])
            BY <1>1, <1>3, <2>0, <3>1
      <3>3. l[t[j]] = IF j + 1 = n THEN NULL ELSE s[(j + 1) + 1]
            BY <1>1, <1>4, <2>0, <3>1, <3>2
      <3>4. j # n - 1 => t[j + 1] = s[(j + 1) + 1]
        <4>1. j # n - 1 => j + 1 \in 1..n - 1 /\ ~(j + 1 < i)
              BY <1>0, <1>1, <2>0, <2>3
        <4> QED BY <1>2, <4>1
      <3> QED BY <3>1, <3>3, <3>4
    <2>4. j + 1 < i \/ j + 1 = i \/ j + 1 > i
          BY <1>0, <2>0
    <2> QED BY <2>1, <2>2, <2>3, <2>4
  <1>6. ASSUME NEW j \in 1..n - 1, NEW k \in 1..n - 1, t[j] = t[k] PROVE j = k
    <2>1. \A x \in 1..n - 1 : x \in 1..n /\ x + 1 \in 1..n /\ x \in Nat
          BY <1>1
    <2>2. t[j] = IF j < i THEN s[j] ELSE s[j + 1]
          BY <1>2
    <2>3. t[k] = IF k < i THEN s[k] ELSE s[k + 1]
          BY <1>2
    <2> DEFINE a == IF j < i THEN j ELSE j + 1
               b == IF k < i THEN k ELSE k + 1
    <2>4. a \in 1..n /\ b \in 1..n
          BY <2>1
    <2>5. s[a] = s[b]
          BY <1>6, <2>2, <2>3
    <2> HIDE DEF a, b
    <2>6. a = b
          BY <1>1, <2>4, <2>5
    <2> QED BY <1>0, <2>1, <2>6 DEF a, b
  <1>7. q = IF n - 1 = 0 THEN NULL ELSE t[1]
    <2>1. CASE i = 1
      <3>1. 1 \in 1..n /\ 1 + 1 = 2
            BY <1>0, <1>1
      <3>2. ASSUME n - 1 # 0 PROVE t[1] = s[2] /\ n # 1
        <4>0. n \in Nat /\ n >= 1 /\ n # 1
              BY <1>0, <1>1, <2>1, <3>2
        <4>1. 1 \in 1..n - 1 /\ n # 1
          <5> HIDE DEF n
          <5> QED BY <4>0
        <4>2. ~(1 < i)
              BY <2>1
        <4> QED BY <1>2, <3>1, <4>1, <4>2
      <3>3. link[s[1]] = IF 1 = n THEN NULL ELSE s[1 + 1]
            BY <1>1, <3>1
      <3>4. n - 1 = 0 => n = 1
            BY <1>1
      <3> QED BY <2>1, <3>1, <3>2, <3>3, <3>4
    <2>2. CASE i # 1
      <3>1. n - 1 # 0 /\ 1 \in 1..n - 1 /\ 1 < i /\ n > 0
            BY <1>0, <1>1, <2>2
      <3> QED BY <1>1, <1>2, <2>2, <3>1
    <2> QED BY <2>1, <2>2
  <1>8. Chain(t, q, l)
    <2> HIDE DEF q
    <2> QED BY <1>2, <1>5, <1>6, <1>7, ChainIs
  <1> QED BY <1>2, <1>4, <1>8 DEF t, l

LEMMA ChainTurned ==
    ASSUME NEW s, NEW p, NEW link, Chain(s, p, link), NEW l,
           \A i \in 1..Len(s) : l[s[i]] = IF i = 1 THEN NULL ELSE s[i - 1]
    PROVE  LET t == [i \in 1..Len(s) |-> s[Len(s) + 1 - i]]
           IN  /\ Chain(t, IF p = NULL THEN NULL ELSE s[Len(s)], l)
               /\ t \in Seq(Addrs) /\ Len(t) = Len(s)
  <1> DEFINE n == Len(s)
             t == [i \in 1..n |-> s[n + 1 - i]]
  <1>1. /\ s \in Seq(Addrs) /\ n \in Nat /\ (p = NULL <=> n = 0)
        /\ \A k \in 1..n : s[k] \in Addrs
        /\ \A j, k \in 1..n : s[j] = s[k] => j = k
        BY ChainFacts
  <1>2. \A i \in 1..n : n + 1 - i \in 1..n /\ (n + 1 - i = 1 <=> i = n) /\ i \in Nat
        BY <1>1
  <1>3. t \in [1..n -> Addrs]
        BY <1>1, <1>2
  <1>4. t \in Seq(Addrs) /\ Len(t) = n
        BY <1>1, <1>3
  <1>5. \A i \in 1..n : t[i] = s[n + 1 - i]
        OBVIOUS
  <1> HIDE DEF t
  <1>6. ASSUME NEW i \in 1..n PROVE l[t[i]] = IF i = n THEN NULL ELSE t[i + 1]
    <2>1. l[t[i]] = IF n + 1 - i = 1 THEN NULL ELSE s[(n + 1 - i) - 1]
          BY <1>2, <1>5
    <2>2. i # n => i + 1 \in 1..n /\ n + 1 - (i + 1) = (n + 1 - i) - 1
          BY <1>1
    <2> QED BY <1>2, <1>5, <2>1, <2>2
  <1>7. ASSUME NEW i \in 1..n, NEW j \in 1..n, t[i] = t[j] PROVE i = j
    <2>1. s[n + 1 - i] = s[n + 1 - j] /\ n + 1 - i \in 1..n /\ n + 1 - j \in 1..n
          BY <1>2, <1>5, <1>7
    <2>2. n + 1 - i = n + 1 - j
          BY <1>1, <2>1
    <2> QED BY <1>1, <2>2
  <1>8. (IF p = NULL THEN NULL ELSE s[n]) = IF n = 0 THEN NULL ELSE t[1]
    <2>1. n # 0 => 1 \in 1..n /\ n + 1 - 1 = n
          BY <1>1
    <2> QED BY <1>1, <1>5, <2>1
  <1> DEFINE q == IF p = NULL THEN NULL ELSE s[n]
  <1>9. Chain(t, q, l)
    <2> HIDE DEF q
    <2>1. q = IF n = 0 THEN NULL ELSE t[1]
          BY <1>8 DEF q
    <2> QED BY <1>4, <1>6, <1>7, <2>1, ChainIs
  <1> QED BY <1>4, <1>9 DEF t
----------------------------------------------------------------------------
(***************************************************************************)
(* What the functions of both kinds of list have in common.                *)
(***************************************************************************)
PutLast(x, new) ==
    /\ new \notin alloc /\ alloc' = alloc \cup {new}
    /\ data' = [data EXCEPT ![new] = x]
    /\ next' = IF list = NULL
               THEN [next EXCEPT ![new] = NULL]
               ELSE [next EXCEPT ![new] = NULL, ![final(nodes)] = new]
    /\ list' = IF list = NULL THEN new ELSE list
    /\ Return("ok", << >>) /\ Appended(new)

PutFront(x, new) ==
    /\ new \notin alloc /\ alloc' = alloc \cup {new}
    /\ data' = [data EXCEPT ![new] = x]
    /\ next' = [next EXCEPT ![new] = list]
    /\ list' = new
    /\ Return("ok", << >>) /\ UNCHANGED foreach

CutOut(i) ==
    /\ MayUnlink(nodes[i])
    /\ alloc' = alloc \ {nodes[i]} /\ data' = Wiped(data, {nodes[i]})
    /\ next' = CutLinks(nodes, i, next)
    /\ list' = IF i = 1 THEN next[nodes[i]] ELSE list
    /\ Return("ok", <<data[nodes[i]]>>) /\ Unlinked(nodes[i])

TurnRound ==
    /\ walk = "none"
    /\ Links(next')
    /\ \A i \in 1..Len(nodes) : next'[nodes[i]] = IF i = 1 THEN NULL ELSE nodes[i - 1]
    /\ list' = IF list = NULL THEN NULL ELSE final(nodes)
    /\ Return("ok", << >>) /\ UNCHANGED <<data, alloc, foreach>>

FreeAll ==
    LET gone == {nodes[i] : i \in 1..Len(nodes)}
    IN  /\ walk = "none" /\ alloc' = alloc \ gone
        /\ next' = Wiped(next, gone) /\ data' = Wiped(data, gone)
        /\ list' = NULL
        /\ Return("ok", Values) /\ UNCHANGED foreach

LEMMA Becomes ==
    ASSUME NEW t, Chain(t, list', next')
    PROVE  nodes' = t /\ Chain(nodes', list', next')
  <1>1. (\A s : Chain(s, list, next) => nodes = s)'
        BY NodesAre, PTL
  <1>2. \A s : Chain(s, list', next') => nodes' = s
        BY <1>1 DEF Chain
  <1> QED BY <1>2

LEMMA CoreFacts ==
    ASSUME Core
    PROVE  /\ nodes \in Seq(Addrs) /\ Len(nodes) \in Nat
           /\ list = NULL <=> Len(nodes) = 0
           /\ list # NULL => list = nodes[1] /\ list \in Addrs /\ nodes # << >>
           /\ \A i \in 1..Len(nodes) :
                 /\ nodes[i] \in Addrs /\ nodes[i] # NULL /\ nodes[i] \in alloc
                 /\ next[nodes[i]] = IF i = Len(nodes) THEN NULL ELSE nodes[i + 1]
           /\ \A i, j \in 1..Len(nodes) : nodes[i] = nodes[j] => i = j
           /\ alloc \subseteq Addrs
           /\ Len(nodes) <= HeapSize
           /\ Values \in Seq(Items \cup {Junk}) /\ Len(Values) = Len(nodes)
           /\ \A i \in 1..Len(nodes) : Values[i] = data[nodes[i]]
  <1>1. Chain(nodes, list, next)
        BY DEF Core
  <1>2. Len(nodes) \in Nat /\ \A i \in 1..Len(nodes) : nodes[i] \in Addrs
        BY <1>1, ChainFacts
  <1>3. /\ Values \in Seq(Items \cup {Junk}) /\ Len(Values) = Len(nodes)
        /\ \A i \in 1..Len(nodes) : Values[i] = data[nodes[i]]
    <2>1. Values \in [1..Len(nodes) -> Items \cup {Junk}]
          BY <1>2 DEF Values, Core
    <2> QED BY <1>2, <2>1 DEF Values
  <1>4. Len(nodes) <= HeapSize
        BY <1>1, Places
  <1>5. alloc \subseteq Addrs /\ \A i \in 1..Len(nodes) : nodes[i] \in alloc
        BY <1>2 DEF Core
  <1>6. list # NULL => Len(nodes) > 0
        BY <1>1, <1>2, ChainFacts
  <1> HIDE DEF nodes
  <1> QED BY <1>1, <1>3, <1>4, <1>5, <1>6, ChainFacts

(***************************************************************************)
(* A list is as its sequence of nodes says, whatever the sequence is.      *)
(***************************************************************************)
LEMMA CoreIs ==
    ASSUME NEW t, Chain(t, list', next'), Links(next'),
           \A a : a \in alloc' <=> \E i \in 1..Len(t) : a = t[i],
           data' \in [Addrs -> Items \cup {Junk}],
           due' \in SUBSET Addrs, walk' \in {"none", "forward", "back"}
    PROVE  Core' /\ nodes' = t
  <1>1. nodes' = t /\ Chain(nodes', list', next')
        BY Becomes
  <1>2. Chain(nodes, list, next)'
        BY <1>1 DEF Chain
  <1> QED BY <1>1, <1>2 DEF Core, Links

LEMMA ValuesAre ==
    ASSUME Core', NEW v, v \in Seq(Items \cup {Junk}), Len(v) = Len(nodes'),
           \A i \in 1..Len(v) : v[i] = data'[nodes'[i]]
    PROVE  Values' = v
  <1>1. Values' = [i \in 1..Len(nodes') |-> data'[nodes'[i]]]
        BY DEF Values
  <1>2. v = [i \in 1..Len(v) |-> v[i]]
        OBVIOUS
  <1> QED BY <1>1, <1>2

LEMMA PutLastKeeps ==
    ASSUME Core, NEW x \in Items, NEW new \in Addrs, PutLast(x, new)
    PROVE  /\ Core' /\ Values' = Append(Values, x)
           /\ nodes' = Append(nodes, new) /\ Len(nodes') = Len(nodes) + 1
           /\ nodes'[Len(nodes) + 1] = new
           /\ \A i \in 1..Len(nodes) : nodes'[i] = nodes[i] /\ nodes[i] # new
           /\ \A k \in 1..Len(nodes) : walk = "forward" /\ Forward(k) => Forward(k)'
  <1> DEFINE n == Len(nodes)
             t == Append(nodes, new)
  <1>1. \A i \in 1..n : nodes[i] # new /\ nodes[i] \in Addrs
        BY CoreFacts DEF PutLast
  <1>0. n \in Nat /\ nodes \in Seq(Addrs)
        BY CoreFacts
  <1>2. Links(next)
        BY DEF Core, Links
  <1>3. /\ Chain(t, list', next') /\ Links(next')
        /\ Len(t) = n + 1 /\ t[n + 1] = new /\ \A i \in 1..n : t[i] = nodes[i]
    <2>0. Chain(nodes, list, next)
          BY DEF Core
    <2>1. /\ list' = IF list = NULL THEN new ELSE list
          /\ next' = IF list = NULL THEN [next EXCEPT ![new] = NULL]
                     ELSE [next EXCEPT ![new] = NULL, ![nodes[Len(nodes)]] = new]
          BY DEF PutLast, final
    <2> HIDE DEF nodes
    <2> QED BY <1>1, <1>2, <2>0, <2>1, ChainAppended
  <1>4. data' = [data EXCEPT ![new] = x] /\ data' \in [Addrs -> Items \cup {Junk}]
        BY DEF Core, PutLast
  <1>5. ASSUME NEW a PROVE a \in alloc' <=> \E i \in 1..Len(t) : a = t[i]
    <2>1. a \in alloc' <=> a = new \/ \E i \in 1..n : a = nodes[i]
          BY DEF PutLast, Core
    <2>2. \A i \in 1..n + 1 : i = n + 1 \/ i \in 1..n
          BY <1>0
    <2>3. \A i \in 1..n : i \in 1..n + 1
          BY <1>0
    <2>4. n + 1 \in 1..n + 1
          BY <1>0
    <2> HIDE DEF t, n
    <2> QED BY <1>3, <2>1, <2>2, <2>3, <2>4
  <1>6. due' \in SUBSET Addrs /\ walk' \in {"none", "forward", "back"}
        BY DEF PutLast, Appended, Core
  <1>7. Core' /\ nodes' = t
        BY <1>3, <1>4, <1>5, <1>6, CoreIs
  <1>8. Values' = Append(Values, x)
    <2> DEFINE v == Append(Values, x)
    <2>1. /\ v \in Seq(Items \cup {Junk}) /\ Len(v) = n + 1 /\ v[n + 1] = x
          /\ \A i \in 1..n : v[i] = data[nodes[i]]
          BY CoreFacts, AppendProperties
    <2>2. ASSUME NEW i \in 1..n + 1 PROVE v[i] = data'[t[i]]
      <3>1. i = n + 1 \/ i \in 1..n
            BY <1>0
      <3> HIDE DEF v, t
      <3> QED BY <1>1, <1>3, <1>4, <2>1, <3>1 DEF Core
    <2> HIDE DEF v, t
    <2> QED BY <1>3, <1>7, <2>1, <2>2, ValuesAre DEF v
  <1>9. ASSUME NEW k \in 1..n, walk = "forward", Forward(k) PROVE Forward(k)'
    <2>1. cursor' = cursor /\ due' = due \cup {new}
          BY <1>9 DEF PutLast, Appended
    <2>2. cursor' = nodes'[k] /\ k \in 1..Len(nodes')
          BY <1>0, <1>3, <1>7, <1>9, <2>1 DEF Forward
    <2>3. ASSUME NEW a PROVE a \in due' <=> \E i \in k + 1..Len(nodes') : a = nodes'[i]
      <3>1. a \in due' <=> a = new \/ \E i \in k + 1..n : a = nodes[i]
            BY <1>9, <2>1 DEF Forward
      <3>2. \A i \in k + 1..n + 1 : i = n + 1 \/ (i \in k + 1..n /\ i \in 1..n)
            BY <1>0
      <3>3. \A i \in k + 1..n : i \in k + 1..n + 1 /\ i \in 1..n
            BY <1>0
      <3>4. n + 1 \in k + 1..n + 1
            BY <1>0
      <3> HIDE DEF t, n
      <3> QED BY <1>3, <1>7, <3>1, <3>2, <3>3, <3>4
    <2> QED BY <2>2, <2>3 DEF Forward
  <1> QED BY <1>1, <1>3, <1>7, <1>8, <1>9

LEMMA PutFrontKeeps ==
    ASSUME Core, NEW x \in Items, NEW new \in Addrs, PutFront(x, new)
    PROVE  /\ Core' /\ Values' = <<x>> \o Values
           /\ Len(nodes') = Len(nodes) + 1
           /\ nodes'[1] = new
           /\ \A i \in 1..Len(nodes) : nodes'[i + 1] = nodes[i] /\ nodes[i] # new
           /\ \A i \in 2..Len(nodes) + 1 : nodes'[i] = nodes[i - 1]
           /\ \A k \in 1..Len(nodes) : Forward(k) => Forward(k + 1)'
  <1> DEFINE n == Len(nodes)
             t == <<new>> \o nodes
  <1>0. n \in Nat /\ nodes \in Seq(Addrs)
        BY CoreFacts
  <1>1. \A i \in 1..n : nodes[i] # new /\ nodes[i] \in Addrs
        BY CoreFacts DEF PutFront
  <1>2. Links(next)
        BY DEF Core, Links
  <1>3. /\ Chain(t, list', next') /\ Links(next')
        /\ Len(t) = n + 1 /\ t[1] = new
        /\ \A i \in 1..n : t[i + 1] = nodes[i]
        /\ \A i \in 2..n + 1 : t[i] = nodes[i - 1]
    <2>1. LET l == [next EXCEPT ![new] = list]
          IN  /\ Chain(t, new, l) /\ Links(l)
              /\ Len(t) = n + 1 /\ t[1] = new
              /\ \A i \in 1..n : t[i + 1] = nodes[i]
              /\ \A i \in 2..n + 1 : t[i] = nodes[i - 1]
      <3>1. Chain(nodes, list, next)
            BY DEF Core
      <3> HIDE DEF nodes
      <3> QED BY <1>1, <1>2, <3>1, ChainPut
    <2>2. next' = [next EXCEPT ![new] = list] /\ list' = new
          BY DEF PutFront
    <2> HIDE DEF t, n
    <2> QED BY <2>1, <2>2
  <1>4. data' = [data EXCEPT ![new] = x] /\ data' \in [Addrs -> Items \cup {Junk}]
        BY DEF Core, PutFront
  <1>5. ASSUME NEW a PROVE a \in alloc' <=> \E i \in 1..Len(t) : a = t[i]
    <2>1. a \in alloc' <=> a = new \/ \E i \in 1..n : a = nodes[i]
          BY DEF PutFront, Core
    <2>2. \A i \in 1..n + 1 : i = 1 \/ (i - 1 \in 1..n /\ i \in 2..n + 1)
          BY <1>0
    <2>3. \A i \in 1..n : i + 1 \in 1..n + 1
          BY <1>0
    <2>4. 1 \in 1..n + 1
          BY <1>0
    <2> HIDE DEF t, n
    <2> QED BY <1>3, <2>1, <2>2, <2>3, <2>4
  <1>6. due' \in SUBSET Addrs /\ walk' \in {"none", "forward", "back"}
        BY DEF PutFront, foreach, Core
  <1>7. Core' /\ nodes' = t
        BY <1>3, <1>4, <1>5, <1>6, CoreIs
  <1>8. Values' = <<x>> \o Values
    <2> DEFINE v == <<x>> \o Values
    <2>0. Values \in Seq(Items \cup {Junk}) /\ Len(Values) = n /\ x \in Items \cup {Junk}
          BY CoreFacts
    <2>1. /\ v \in Seq(Items \cup {Junk}) /\ Len(v) = n + 1
          /\ \A i \in 1..n + 1 : v[i] = IF i = 1 THEN x ELSE Values[i - 1]
          BY <2>0, PutInFront
    <2>2. ASSUME NEW i \in 1..n + 1 PROVE v[i] = data'[t[i]]
      <3>1. CASE i = 1
        <4> HIDE DEF v, t
        <4> QED BY <1>3, <1>4, <2>1, <3>1 DEF Core
      <3>2. CASE i # 1
        <4>1. i - 1 \in 1..n /\ i \in 2..n + 1
              BY <1>0, <3>2
        <4>2. v[i] = data[nodes[i - 1]]
              BY <2>1, <3>2, <4>1, CoreFacts
        <4> HIDE DEF v, t
        <4> QED BY <1>1, <1>3, <1>4, <4>1, <4>2 DEF Core
      <3> QED BY <3>1, <3>2
    <2> HIDE DEF v, t
    <2> QED BY <1>3, <1>7, <2>1, <2>2, ValuesAre DEF v
  <1>9. ASSUME NEW k \in 1..n, Forward(k) PROVE Forward(k + 1)'
    <2>1. cursor' = cursor /\ due' = due
          BY DEF PutFront, foreach
    <2>2. cursor' = nodes'[k + 1] /\ k + 1 \in 1..Len(nodes')
          BY <1>0, <1>3, <1>7, <1>9, <2>1 DEF Forward
    <2>3. ASSUME NEW a
          PROVE  a \in due' <=> \E i \in (k + 1) + 1..Len(nodes') : a = nodes'[i]
      <3>1. a \in due' <=> \E i \in k + 1..n : a = nodes[i]
            BY <1>9, <2>1 DEF Forward
      <3>2. \A i \in (k + 1) + 1..n + 1 : i - 1 \in k + 1..n /\ i \in 2..n + 1
            BY <1>0
      <3>3. \A i \in k + 1..n : i + 1 \in (k + 1) + 1..n + 1 /\ i \in 1..n
            BY <1>0
      <3> HIDE DEF t, n
      <3> QED BY <1>3, <1>7, <3>1, <3>2, <3>3
    <2> QED BY <2>2, <2>3 DEF Forward
  <1> QED BY <1>1, <1>3, <1>7, <1>8, <1>9

(***************************************************************************)
(* Cutting out the i-th node moves those behind it forward.                *)
(***************************************************************************)
Moved(i, k) == IF i < k THEN k - 1 ELSE k

LEMMA CutOutKeeps ==
    ASSUME Core, NEW i \in 1..Len(nodes), CutOut(i)
    PROVE  /\ Core' /\ Values' = Without(Values, i)
           /\ Len(nodes') = Len(nodes) - 1
           /\ \A j \in 1..Len(nodes) - 1 :
                 nodes'[j] = IF j < i THEN nodes[j] ELSE nodes[j + 1]
           /\ \A j \in 1..Len(nodes) : j # i => nodes[j] # nodes[i]
           /\ \A k \in 1..Len(nodes) : Forward(k) => k # i /\ Forward(Moved(i, k))'
  <1> DEFINE n == Len(nodes)
             t == Without(nodes, i)
  <1>0. /\ n \in Nat /\ nodes \in Seq(Addrs) /\ i \in Nat /\ i >= 1 /\ i <= n
        /\ \A j \in 1..n : nodes[j] \in Addrs
        /\ \A j, k \in 1..n : nodes[j] = nodes[k] => j = k
        BY CoreFacts
  <1>1. /\ \A j \in 1..n - 1 : j \in 1..n /\ j + 1 \in 1..n
        /\ \A j \in 1..n : j < i => j \in 1..n - 1
        /\ \A j \in 1..n : j > i => j - 1 \in 1..n - 1 /\ ~(j - 1 < i) /\ (j - 1) + 1 = j
        BY <1>0
  <1>2. Links(next) /\ Chain(nodes, list, next)
        BY DEF Core, Links
  <1>3. /\ Chain(t, list', next') /\ Links(next')
        /\ Len(t) = n - 1
        /\ \A j \in 1..n - 1 : t[j] = IF j < i THEN nodes[j] ELSE nodes[j + 1]
    <2>1. /\ Chain(t, IF i = 1 THEN next[nodes[i]] ELSE list, CutLinks(nodes, i, next))
          /\ Links(CutLinks(nodes, i, next))
          /\ Len(t) = n - 1
          /\ \A j \in 1..n - 1 : t[j] = IF j < i THEN nodes[j] ELSE nodes[j + 1]
          BY <1>2, ChainCut
    <2> QED BY <2>1 DEF CutOut
  <1> HIDE DEF t
  <1>4. \A j \in 1..n : j # i => \E k \in 1..n - 1 : t[k] = nodes[j]
    <2> SUFFICES ASSUME NEW j \in 1..n, j # i PROVE \E k \in 1..n - 1 : t[k] = nodes[j]
        OBVIOUS
    <2>1. CASE j < i
          BY <1>1, <1>3, <2>1
    <2>2. CASE j > i
          BY <1>1, <1>3, <2>2
    <2> QED BY <1>0, <2>1, <2>2
  <1>5. \A j \in 1..n - 1 : \E k \in 1..n : k # i /\ t[j] = nodes[k]
    <2> SUFFICES ASSUME NEW j \in 1..n - 1 PROVE \E k \in 1..n : k # i /\ t[j] = nodes[k]
        OBVIOUS
    <2>1. CASE j < i
          BY <1>0, <1>1, <1>3, <2>1
    <2>2. CASE ~(j < i)
      <3>1. j + 1 # i
            BY <1>0, <2>2
      <3> QED BY <1>1, <1>3, <2>2, <3>1
    <2> QED BY <2>1, <2>2
  <1>6. \A j \in 1..n : j # i => nodes[j] # nodes[i]
        BY <1>0
  <1>7. data' \in [Addrs -> Items \cup {Junk}]
        /\ \A a \in Addrs : a # nodes[i] => data'[a] = data[a]
        BY DEF Core, CutOut, Wiped
  <1>8. ASSUME NEW a PROVE a \in alloc' <=> \E j \in 1..Len(t) : a = t[j]
    <2>1. a \in alloc' <=> a # nodes[i] /\ \E j \in 1..n : a = nodes[j]
          BY DEF CutOut, Core
    <2> HIDE DEF n
    <2> QED BY <1>3, <1>4, <1>5, <1>6, <2>1
  <1>9. due' \in SUBSET Addrs /\ walk' \in {"none", "forward", "back"}
        BY DEF CutOut, Unlinked, Core
  <1>10. Core' /\ nodes' = t
         BY <1>3, <1>7, <1>8, <1>9, CoreIs
  <1>11. Values' = Without(Values, i)
    <2> DEFINE v == Without(Values, i)
    <2>1. /\ v \in Seq(Items \cup {Junk}) /\ Len(v) = n - 1
          /\ \A j \in 1..n - 1 : v[j] = IF j < i THEN Values[j] ELSE Values[j + 1]
          BY CoreFacts, WithoutIs
    <2>2. \A j \in 1..n : Values[j] = data[nodes[j]]
          BY CoreFacts
    <2> HIDE DEF v
    <2>3. ASSUME NEW j \in 1..n - 1 PROVE v[j] = data'[t[j]]
      <3>2. CASE j < i
        <4>1. v[j] = Values[j] /\ t[j] = nodes[j] /\ j \in 1..n
              BY <1>1, <1>3, <2>1, <3>2
        <4>2. j # i
              BY <1>0, <3>2
        <4> QED BY <1>0, <1>6, <1>7, <2>2, <4>1, <4>2
      <3>3. CASE ~(j < i)
        <4>1. v[j] = Values[j + 1] /\ t[j] = nodes[j + 1] /\ j + 1 \in 1..n
              BY <1>1, <1>3, <2>1, <3>3
        <4>2. j + 1 # i
              BY <1>0, <3>3
        <4> QED BY <1>0, <1>6, <1>7, <2>2, <4>1, <4>2
      <3> QED BY <3>2, <3>3
    <2> QED BY <1>3, <1>10, <2>1, <2>3, ValuesAre DEF v
  <1>12. ASSUME NEW k \in 1..n, Forward(k) PROVE k # i /\ Forward(Moved(i, k))'
    <2>1. cursor' = cursor /\ due' = due \ {nodes[i]} /\ nodes[i] # cursor
          BY DEF CutOut, Unlinked, MayUnlink
    <2>2. k # i /\ cursor = nodes[k]
          BY <1>12, <2>1 DEF Forward
    <2> DEFINE m == Moved(i, k)
    <2>3. m \in 1..n - 1 /\ nodes[k] = t[m]
      <3>1. CASE i < k
            BY <1>0, <1>1, <1>3, <3>1 DEF Moved
      <3>2. CASE ~(i < k)
        <4>1. k < i
              BY <1>0, <2>2, <3>2
        <4> QED BY <1>1, <1>3, <3>2, <4>1 DEF Moved
      <3> QED BY <3>1, <3>2
    <2>4. /\ \A j \in m + 1..n - 1 : j < i => j \in k + 1..n /\ j \in 1..n - 1
          /\ \A j \in m + 1..n - 1 : ~(j < i) => j + 1 \in k + 1..n /\ j + 1 # i /\ j \in 1..n - 1
          /\ \A j \in k + 1..n : j < i => j \in m + 1..n - 1 /\ j \in 1..n - 1
          /\ \A j \in k + 1..n : j > i => j - 1 \in m + 1..n - 1 /\ j \in 1..n
          /\ \A j \in k + 1..n : j \in 1..n /\ (j < i \/ j = i \/ j > i)
          BY <1>0, <2>2 DEF Moved
    <2>5. ASSUME NEW a PROVE a \in due' <=> \E j \in m + 1..n - 1 : a = t[j]
      <3>1. a \in due' <=> a # nodes[i] /\ \E j \in k + 1..n : a = nodes[j]
            BY <1>12, <2>1 DEF Forward
      <3>2. ASSUME NEW j \in m + 1..n - 1, a = t[j] PROVE a \in due'
        <4>0. j \in 1..n - 1 /\ j + 1 \in 1..n /\ j \in 1..n
              BY <1>1, <2>4
        <4>1. CASE j < i
          <5>1. t[j] = nodes[j] /\ j \in k + 1..n /\ j # i
                BY <1>0, <1>3, <2>4, <4>0, <4>1
          <5> QED BY <1>6, <3>1, <3>2, <4>0, <5>1
        <4>2. CASE ~(j < i)
          <5>1. t[j] = nodes[j + 1] /\ j + 1 \in k + 1..n /\ j + 1 # i
                BY <1>3, <2>4, <4>0, <4>2
          <5> QED BY <1>6, <3>1, <3>2, <4>0, <5>1
        <4> QED BY <4>1, <4>2
      <3>3. ASSUME NEW j \in k + 1..n, a = nodes[j], a # nodes[i]
            PROVE  \E l \in m + 1..n - 1 : a = t[l]
        <4>1. CASE j < i
              BY <1>3, <2>4, <3>3, <4>1
        <4>2. CASE j > i
              BY <1>1, <1>3, <2>4, <3>3, <4>2
        <4> QED BY <2>4, <3>3, <4>1, <4>2
      <3> QED BY <3>1, <3>2, <3>3
    <2> HIDE DEF m
    <2>6. Forward(m)'
          BY <1>3, <1>10, <2>1, <2>2, <2>3, <2>5 DEF Forward
    <2> QED BY <2>2, <2>6 DEF m
  <1> QED BY <1>3, <1>6, <1>10, <1>11, <1>12

LEMMA TurnRoundKeeps ==
    ASSUME Core, TurnRound
    PROVE  /\ Core' /\ Len(nodes') = Len(nodes)
           /\ Values' = [i \in 1..Len(Values) |-> Values[Len(Values) + 1 - i]]
           /\ \A i \in 1..Len(nodes) : nodes'[i] = nodes[Len(nodes) + 1 - i]
  <1> DEFINE n == Len(nodes)
             t == [i \in 1..n |-> nodes[n + 1 - i]]
  <1>0. n \in Nat /\ \A i \in 1..n : nodes[i] \in Addrs /\ n + 1 - i \in 1..n
        BY CoreFacts
  <1>1. Chain(t, list', next') /\ Len(t) = n
    <2>1. Chain(nodes, list, next)
          BY DEF Core
    <2>2. \A i \in 1..Len(nodes) : next'[nodes[i]] = IF i = 1 THEN NULL ELSE nodes[i - 1]
          BY DEF TurnRound
    <2>3. list' = IF list = NULL THEN NULL ELSE nodes[Len(nodes)]
          BY DEF TurnRound, final
    <2> QED BY <2>1, <2>2, <2>3, ChainTurned
  <1>2. \A i \in 1..n : t[i] = nodes[n + 1 - i] /\ n + 1 - (n + 1 - i) = i
        BY <1>0
  <1> HIDE DEF t
  <1>3. Links(next') /\ data' = data /\ alloc' = alloc /\ due' = due /\ walk' = walk
        BY DEF TurnRound, foreach
  <1>4. data' \in [Addrs -> Items \cup {Junk}] /\ due' \in SUBSET Addrs
        /\ walk' \in {"none", "forward", "back"}
        BY <1>3 DEF Core
  <1>5. ASSUME NEW a PROVE a \in alloc' <=> \E i \in 1..Len(t) : a = t[i]
    <2>1. a \in alloc' <=> \E i \in 1..n : a = nodes[i]
          BY <1>3 DEF Core
    <2>2. \A i \in 1..n : n + 1 - i \in 1..n /\ t[n + 1 - i] = nodes[i]
          BY <1>0, <1>2
    <2>3. \A i \in 1..n : n + 1 - i \in 1..n /\ t[i] = nodes[n + 1 - i]
          BY <1>0, <1>2
    <2>4. ASSUME NEW i \in 1..n, a = nodes[i] PROVE \E j \in 1..n : a = t[j]
      <3>1. n + 1 - i \in 1..n /\ a = t[n + 1 - i]
            BY <2>2, <2>4
      <3> QED BY <3>1
    <2>5. ASSUME NEW i \in 1..n, a = t[i] PROVE \E j \in 1..n : a = nodes[j]
      <3>1. n + 1 - i \in 1..n /\ a = nodes[n + 1 - i]
            BY <2>3, <2>5
      <3> QED BY <3>1
    <2> HIDE DEF n
    <2> QED BY <1>1, <2>1, <2>4, <2>5
  <1>6. Core' /\ nodes' = t
        BY <1>1, <1>3, <1>4, <1>5, CoreIs
  <1>7. Values' = [i \in 1..Len(Values) |-> Values[Len(Values) + 1 - i]]
    <2> DEFINE v == [i \in 1..n |-> Values[n + 1 - i]]
    <2>1. /\ Values \in Seq(Items \cup {Junk}) /\ Len(Values) = n
          /\ \A i \in 1..n : Values[i] = data[nodes[i]] /\ Values[i] \in Items \cup {Junk}
          BY CoreFacts
    <2>2. v \in [1..n -> Items \cup {Junk}]
          BY <1>0, <2>1
    <2>3. v \in Seq(Items \cup {Junk}) /\ Len(v) = n
          BY <1>0, <2>2
    <2>4. \A i \in 1..n : v[i] = data'[t[i]]
          BY <1>0, <1>2, <1>3, <2>1
    <2> HIDE DEF v
    <2>5. Values' = v
          BY <1>1, <1>6, <2>3, <2>4, ValuesAre
    <2> QED BY <2>1, <2>5 DEF v
  <1> QED BY <1>1, <1>2, <1>6, <1>7

LEMMA FreeAllKeeps ==
    ASSUME Core, FreeAll
    PROVE  Core' /\ Len(nodes') = 0 /\ Values' = << >>
  <1> DEFINE gone == {nodes[i] : i \in 1..Len(nodes)}
  <1>1. alloc' = alloc \ gone /\ next' = Wiped(next, gone) /\ data' = Wiped(data, gone)
        /\ list' = NULL
        BY DEF FreeAll
  <1>2. Chain(<< >>, list', next')
    <2>1. << >> \in Seq(Addrs) /\ Len(<< >>) = 0
          OBVIOUS
    <2>2. list' = NULL
          BY <1>1
    <2> QED BY <2>1, <2>2 DEF Chain
  <1>3. Links(next') /\ data' \in [Addrs -> Items \cup {Junk}]
        BY <1>1 DEF Core, Wiped, Links
  <1>4. due' \in SUBSET Addrs /\ walk' \in {"none", "forward", "back"}
        BY DEF FreeAll, foreach, Core
  <1>5. \A a : a \in alloc' <=> \E i \in 1..Len(<< >>) : a = << >>[i]
        BY <1>1 DEF Core
  <1>6. Core' /\ nodes' = << >>
        BY <1>2, <1>3, <1>4, <1>5, CoreIs
  <1>7. Values' = << >>
        BY <1>6 DEF Values
  <1> QED BY <1>6, <1>7

LEMMA NothingMoves ==
    ASSUME UNCHANGED <<list, next, data, alloc>>
    PROVE  nodes' = nodes /\ Values' = Values
  <1>1. nodes' = nodes
        BY DEF nodes, Walk
  <1> QED BY <1>1 DEF Values
----------------------------------------------------------------------------
(***************************************************************************)
(* What they do to the `prev' links of a doubly linked list.               *)
(***************************************************************************)
LEMMA BackLinksAre ==
    ASSUME prev' \in [Addrs -> Addrs \cup {NULL, Junk}], preadded' \in BOOLEAN,
           \A i \in 1..Len(nodes') :
              \/ prev'[nodes'[i]] = IF i = 1 THEN NULL ELSE nodes'[i - 1]
              \/ preadded' /\ prev'[nodes'[i]] = NULL
    PROVE  BackLinks'
  BY DEF BackLinks, PrevIsInverse

LEMMA PrevOf ==
    ASSUME Core, BackLinks
    PROVE  \A i \in 1..Len(nodes) :
              /\ prev[nodes[i]] \in Addrs \cup {NULL, Junk}
              /\ \/ prev[nodes[i]] = IF i = 1 THEN NULL ELSE nodes[i - 1]
                 \/ preadded /\ prev[nodes[i]] = NULL
  <1>1. \A i \in 1..Len(nodes) : nodes[i] \in Addrs
        BY CoreFacts
  <1> QED BY <1>1 DEF BackLinks, PrevIsInverse

LEMMA AddSetsPrev ==
    ASSUME Core, BackLinks, NEW x \in Items, NEW new \in Addrs, PutLast(x, new),
           preadded' = preadded,
           prev' = [prev EXCEPT ![new] = IF list = NULL THEN NULL ELSE final(nodes)]
    PROVE  /\ BackLinks'
           /\ \A k \in 1..Len(nodes) : \A m \in 1..k :
                 walk = "back" /\ Back(k, m) => Back(k, m)'
  <1> DEFINE n == Len(nodes)
  <1>1. /\ n \in Nat /\ Len(nodes') = n + 1 /\ nodes'[n + 1] = new
        /\ \A i \in 1..n : nodes'[i] = nodes[i] /\ nodes[i] # new /\ nodes[i] \in Addrs
        /\ list = NULL <=> n = 0
        BY PutLastKeeps, CoreFacts
  <1>2. /\ prev' \in [Addrs -> Addrs \cup {NULL, Junk}] /\ preadded' \in BOOLEAN
        /\ prev'[new] = IF n = 0 THEN NULL ELSE nodes[n]
        /\ \A i \in 1..n : prev'[nodes[i]] = prev[nodes[i]]
    <2>1. list # NULL => nodes[n] \in Addrs
          BY <1>1
    <2>2. prev \in [Addrs -> Addrs \cup {NULL, Junk}] /\ preadded \in BOOLEAN
          BY DEF BackLinks
    <2> QED BY <1>1, <2>1, <2>2 DEF final
  <1> HIDE DEF n
  <1>3. ASSUME NEW i \in 1..n + 1
        PROVE  \/ prev'[nodes'[i]] = IF i = 1 THEN NULL ELSE nodes'[i - 1]
               \/ preadded' /\ prev'[nodes'[i]] = NULL
    <2>1. CASE i = n + 1
      <3>1. i # 1 => n # 0 /\ n \in 1..n /\ i - 1 = n
            BY <1>1, <2>1
      <3>2. i = 1 => n = 0
            BY <1>1, <2>1
      <3> QED BY <1>1, <1>2, <2>1, <3>1, <3>2
    <2>2. CASE i # n + 1
      <3>1. i \in 1..n /\ (i # 1 => i - 1 \in 1..n)
            BY <1>1, <2>2
      <3>2. \/ prev[nodes[i]] = IF i = 1 THEN NULL ELSE nodes[i - 1]
            \/ preadded /\ prev[nodes[i]] = NULL
            BY <3>1, PrevOf DEF n
      <3>3. nodes'[i] = nodes[i] /\ prev'[nodes[i]] = prev[nodes[i]]
            BY <1>1, <1>2, <3>1
      <3>4. i # 1 => nodes'[i - 1] = nodes[i - 1]
            BY <1>1, <3>1
      <3> QED BY <3>2, <3>3, <3>4
    <2> QED BY <2>1, <2>2
  <1>4. BackLinks'
        BY <1>1, <1>2, <1>3, BackLinksAre
  <1>5. ASSUME NEW k \in 1..n, NEW m \in 1..k, walk = "back", Back(k, m) PROVE Back(k, m)'
    <2>1. cursor' = cursor /\ due' = due
          BY <1>5 DEF PutLast, Appended
    <2>2. \A i \in 1..k : i \in 1..n /\ (~(i <= m) => i - 1 \in 1..n)
          BY <1>1
    <2>3. \A i \in m..k - 1 : i \in 1..n
          BY <1>1
    <2>4. k \in 1..Len(nodes')
          BY <1>1
    <2> QED BY <1>1, <1>2, <1>5, <2>1, <2>2, <2>3, <2>4 DEF Back
  <1> QED BY <1>4, <1>5 DEF n

LEMMA PreaddSetsPrev ==
    ASSUME Core, BackLinks, NEW x \in Items, NEW new \in Addrs, PutFront(x, new),
           preadded' = (preadded \/ list # NULL), prev' = [prev EXCEPT ![new] = NULL]
    PROVE  /\ BackLinks'
           /\ \A k \in 1..Len(nodes) : \A m \in 1..k : Back(k, m) => Back(k + 1, m + 1)'
  <1> DEFINE n == Len(nodes)
  <1>1. /\ n \in Nat /\ Len(nodes') = n + 1 /\ nodes'[1] = new
        /\ \A i \in 1..n : nodes'[i + 1] = nodes[i] /\ nodes[i] # new /\ nodes[i] \in Addrs
        /\ \A i \in 2..n + 1 : nodes'[i] = nodes[i - 1]
        /\ list = NULL <=> n = 0
        BY PutFrontKeeps, CoreFacts
  <1>2. /\ prev' \in [Addrs -> Addrs \cup {NULL, Junk}] /\ preadded' \in BOOLEAN
        /\ prev'[new] = NULL
        /\ \A i \in 1..n : prev'[nodes[i]] = prev[nodes[i]]
    <2>2. prev \in [Addrs -> Addrs \cup {NULL, Junk}] /\ preadded \in BOOLEAN
          BY DEF BackLinks
    <2> QED BY <1>1, <2>2
  <1> HIDE DEF n
  <1>3. ASSUME NEW i \in 1..n + 1
        PROVE  \/ prev'[nodes'[i]] = IF i = 1 THEN NULL ELSE nodes'[i - 1]
               \/ preadded' /\ prev'[nodes'[i]] = NULL
    <2>1. CASE i = 1
          BY <1>1, <1>2, <2>1
    <2>2. CASE i # 1
      <3>1. i - 1 \in 1..n /\ i \in 2..n + 1 /\ (i - 1 # 1 => i - 1 \in 2..n + 1) /\ n # 0
            BY <1>1, <2>2
      <3>2. \/ prev[nodes[i - 1]] = IF i - 1 = 1 THEN NULL ELSE nodes[(i - 1) - 1]
            \/ preadded /\ prev[nodes[i - 1]] = NULL
            BY <3>1, PrevOf DEF n
      <3>3. nodes'[i] = nodes[i - 1] /\ prev'[nodes[i - 1]] = prev[nodes[i - 1]]
            BY <1>1, <1>2, <3>1
      <3>4. i - 1 # 1 => nodes'[i - 1] = nodes[(i - 1) - 1]
            BY <1>1, <3>1
      <3>5. preadded'
            BY <1>1, <3>1
      <3> QED BY <2>2, <3>2, <3>3, <3>4, <3>5
    <2> QED BY <2>1, <2>2
  <1>4. BackLinks'
        BY <1>1, <1>2, <1>3, BackLinksAre
  <1>5. ASSUME NEW k \in 1..n, NEW m \in 1..k, Back(k, m) PROVE Back(k + 1, m + 1)'
    <2>1. cursor' = cursor /\ due' = due
          BY DEF PutFront, foreach
    <2>2. k + 1 \in 1..Len(nodes') /\ m + 1 \in 1..k + 1 /\ cursor' = nodes'[k + 1]
          BY <1>1, <1>5, <2>1 DEF Back
    <2>3. ASSUME NEW a
          PROVE  a \in due' <=> \E i \in m + 1..(k + 1) - 1 : a = nodes'[i]
      <3>1. a \in due' <=> \E i \in m..k - 1 : a = nodes[i]
            BY <1>5, <2>1 DEF Back
      <3>2. \A i \in m + 1..(k + 1) - 1 : i - 1 \in m..k - 1 /\ i \in 2..n + 1
            BY <1>1
      <3>3. \A i \in m..k - 1 : i + 1 \in m + 1..(k + 1) - 1 /\ i \in 1..n
            BY <1>1
      <3> QED BY <1>1, <3>1, <3>2, <3>3
    <2>4. ASSUME NEW i \in 1..k + 1
          PROVE  prev'[nodes'[i]] = IF i <= m + 1 THEN NULL ELSE nodes'[i - 1]
      <3>1. CASE i = 1
            BY <1>1, <1>2, <3>1
      <3>2. CASE i # 1
        <4>1. /\ i - 1 \in 1..k /\ i \in 2..n + 1 /\ i - 1 \in 1..n
              /\ (i <= m + 1 <=> i - 1 <= m)
              /\ ~(i - 1 <= m) => i - 1 \in 2..n + 1
              BY <1>1, <3>2
        <4>2. prev[nodes[i - 1]] = IF i - 1 <= m THEN NULL ELSE nodes[(i - 1) - 1]
              BY <1>5, <4>1 DEF Back
        <4>3. nodes'[i] = nodes[i - 1] /\ prev'[nodes[i - 1]] = prev[nodes[i - 1]]
              BY <1>1, <1>2, <4>1
        <4>4. ~(i - 1 <= m) => nodes'[i - 1] = nodes[(i - 1) - 1]
              BY <1>1, <4>1
        <4> QED BY <4>1, <4>2, <4>3, <4>4
      <3> QED BY <3>1, <3>2
    <2> QED BY <2>2, <2>3, <2>4 DEF Back
  <1> QED BY <1>4, <1>5 DEF n

LEMMA CutSetsPrev ==
    ASSUME Core, BackLinks, NEW i \in 1..Len(nodes), CutOut(i),
           preadded' = preadded, prev' = BackLink(nodes[i])
    PROVE  /\ BackLinks'
           /\ \A k \in 1..Len(nodes) : \A m \in 1..k :
                 Back(k, m) => Moved(i, m) \in 1..Moved(i, k) /\ Back(Moved(i, k), Moved(i, m))'
  <1> DEFINE n == Len(nodes)
  <1>1. /\ n \in Nat /\ Len(nodes') = n - 1 /\ i \in Nat /\ i >= 1 /\ i <= n
        /\ \A j \in 1..n - 1 : nodes'[j] = IF j < i THEN nodes[j] ELSE nodes[j + 1]
        /\ \A j \in 1..n : /\ nodes[j] \in Addrs /\ nodes[j] # NULL
                           /\ next[nodes[j]] = IF j = n THEN NULL ELSE nodes[j + 1]
                           /\ j # i => nodes[j] # nodes[i]
        /\ \A j, k \in 1..n : nodes[j] = nodes[k] => j = k
        BY CutOutKeeps, CoreFacts
  <1>0. prev \in [Addrs -> Addrs \cup {NULL, Junk}] /\ preadded \in BOOLEAN
        BY DEF BackLinks
  <1>2. /\ prev' \in [Addrs -> Addrs \cup {NULL, Junk}]
        /\ \A j \in 1..n : j # i =>
              prev'[nodes[j]] = IF j = i + 1 THEN prev[nodes[i]] ELSE prev[nodes[j]]
    <2>0. \A j \in 1..n : j # i => nodes[j] # nodes[i] /\ nodes[j] \in Addrs
          BY <1>1
    <2>4. nodes[i] \in Addrs /\ prev[nodes[i]] \in Addrs \cup {NULL, Junk}
          BY <1>0, <1>1
    <2>1. CASE i = n
      <3>1. next[nodes[i]] = NULL
            BY <1>1, <2>1
      <3>2. prev' = Wiped(prev, {nodes[i]})
            BY <3>1 DEF BackLink
      <3>3. \A j \in 1..n : j # i + 1
            BY <1>1, <2>1
      <3> QED BY <1>0, <2>0, <3>2, <3>3 DEF Wiped
    <2>2. CASE i # n
      <3>1. i + 1 \in 1..n /\ next[nodes[i]] = nodes[i + 1] /\ nodes[i + 1] # NULL
            BY <1>1, <2>2
      <3>2. prev' = Wiped([prev EXCEPT ![nodes[i + 1]] = prev[nodes[i]]], {nodes[i]})
            BY <3>1 DEF BackLink
      <3>3. \A j \in 1..n : nodes[j] = nodes[i + 1] <=> j = i + 1
            BY <1>1, <3>1
      <3>4. nodes[i + 1] \in Addrs
            BY <1>1, <3>1
      <3> DEFINE g == [prev EXCEPT ![nodes[i + 1]] = prev[nodes[i]]]
      <3>5. /\ g \in [Addrs -> Addrs \cup {NULL, Junk}]
            /\ \A a \in Addrs : g[a] = IF a = nodes[i + 1] THEN prev[nodes[i]] ELSE prev[a]
            BY <1>0, <2>4, <3>4
      <3> HIDE DEF g
      <3>6. prev' = Wiped(g, {nodes[i]})
            BY <3>2 DEF g
      <3> QED BY <2>0, <3>3, <3>5, <3>6 DEF Wiped
    <2> QED BY <2>1, <2>2
  <1> HIDE DEF n
  <1>3. ASSUME NEW j \in 1..n - 1
        PROVE  \/ prev'[nodes'[j]] = IF j = 1 THEN NULL ELSE nodes'[j - 1]
               \/ preadded' /\ prev'[nodes'[j]] = NULL
    <2>0. j \in Nat /\ j >= 1 /\ j <= n - 1 /\ j \in 1..n /\ j + 1 \in 1..n
          /\ (j # 1 => j - 1 \in 1..n - 1 /\ (j - 1) + 1 = j)
          BY <1>1
    <2>9. \A l \in 1..n : \/ prev[nodes[l]] = IF l = 1 THEN NULL ELSE nodes[l - 1]
                          \/ preadded /\ prev[nodes[l]] = NULL
          BY PrevOf DEF n
    <2>1. CASE j < i
      <3>1. nodes'[j] = nodes[j] /\ (j # 1 => nodes'[j - 1] = nodes[j - 1])
        <4>1. j # 1 => j - 1 < i
              BY <1>1, <2>0, <2>1
        <4> QED BY <1>1, <2>0, <2>1, <4>1
      <3>2. prev'[nodes[j]] = prev[nodes[j]]
        <4>1. j # i /\ j # i + 1
              BY <1>1, <2>0, <2>1
        <4> QED BY <1>2, <2>0, <4>1
      <3> QED BY <2>0, <2>9, <3>1, <3>2
    <2>2. CASE j = i
      <3>1. nodes'[j] = nodes[i + 1] /\ (j # 1 => nodes'[j - 1] = nodes[i - 1])
        <4>1. ~(j < i) /\ (j # 1 => j - 1 < i)
              BY <1>1, <2>2
        <4> QED BY <1>1, <2>0, <2>2, <4>1
      <3>2. prev'[nodes[i + 1]] = prev[nodes[i]]
        <4>1. i + 1 # i /\ i + 1 \in 1..n
              BY <1>1, <2>0, <2>2
        <4> QED BY <1>2, <4>1
      <3>3. i \in 1..n /\ (j = 1 <=> i = 1)
            BY <2>0, <2>2
      <3> QED BY <2>2, <2>9, <3>1, <3>2, <3>3
    <2>3. CASE j > i
      <3>0. ~(j < i) /\ j # 1 /\ ~(j - 1 < i) /\ j + 1 # i /\ j + 1 # i + 1
            /\ j + 1 # 1 /\ (j + 1) - 1 = j
            BY <1>1, <2>0, <2>3
      <3>1. nodes'[j] = nodes[j + 1] /\ nodes'[j - 1] = nodes[j]
            BY <1>1, <2>0, <3>0
      <3>2. prev'[nodes[j + 1]] = prev[nodes[j + 1]]
            BY <1>2, <2>0, <3>0
      <3>3. prev[nodes[j + 1]] = nodes[j] \/ (preadded /\ prev[nodes[j + 1]] = NULL)
            BY <2>0, <2>9, <3>0
      <3> QED BY <3>0, <3>1, <3>2, <3>3
    <2> QED BY <1>1, <2>0, <2>1, <2>2, <2>3
  <1>4. BackLinks'
        BY <1>0, <1>1, <1>2, <1>3, BackLinksAre
  <1>5. ASSUME NEW k \in 1..n, NEW m \in 1..k, Back(k, m)
        PROVE  Moved(i, m) \in 1..Moved(i, k) /\ Back(Moved(i, k), Moved(i, m))'
    <2> DEFINE kk == Moved(i, k)
               mm == Moved(i, m)
    <2>1. cursor' = cursor /\ due' = due \ {nodes[i]} /\ nodes[i] # cursor /\ cursor = nodes[k]
          BY <1>5 DEF CutOut, Unlinked, MayUnlink, Back
    <2>2. k # i /\ k \in Nat /\ m \in Nat /\ k <= n /\ m <= k /\ m >= 1 /\ k >= 1
          BY <1>1, <2>1
    <2>3. /\ kk \in 1..n - 1 /\ mm \in 1..kk
          /\ kk < i => kk = k
          /\ ~(kk < i) => kk + 1 = k
          BY <1>1, <2>2 DEF Moved
    <2>4. nodes'[kk] = nodes[k]
          BY <1>1, <2>3
    <2>5. /\ \A j \in mm..kk - 1 : j < i => j \in m..k - 1 /\ j \in 1..n - 1 /\ j \in 1..n /\ j # i
          /\ \A j \in mm..kk - 1 : ~(j < i) => /\ j + 1 \in m..k - 1 /\ j + 1 # i
                                              /\ j \in 1..n - 1 /\ j + 1 \in 1..n
          /\ \A j \in m..k - 1 : j < i => j \in mm..kk - 1 /\ j \in 1..n - 1
          /\ \A j \in m..k - 1 : j > i => /\ j - 1 \in mm..kk - 1 /\ j - 1 \in 1..n - 1
                                          /\ ~(j - 1 < i) /\ (j - 1) + 1 = j
          /\ \A j \in m..k - 1 : j \in 1..n /\ (j < i \/ j = i \/ j > i)
          BY <1>1, <2>2 DEF Moved
    <2>6. ASSUME NEW a PROVE a \in due' <=> \E j \in mm..kk - 1 : a = nodes'[j]
      <3>1. a \in due' <=> a # nodes[i] /\ \E j \in m..k - 1 : a = nodes[j]
            BY <1>5, <2>1 DEF Back
      <3> HIDE DEF kk, mm
      <3>2. ASSUME NEW j \in mm..kk - 1, a = nodes'[j] PROVE a \in due'
        <4>1. CASE j < i
          <5>1. j \in 1..n - 1 /\ j \in m..k - 1 /\ j \in 1..n /\ j # i
                BY <2>5, <4>1
          <5>2. a = nodes[j] /\ a # nodes[i]
                BY <1>1, <3>2, <4>1, <5>1
          <5> QED BY <3>1, <5>1, <5>2
        <4>2. CASE ~(j < i)
          <5>1. j \in 1..n - 1 /\ j + 1 \in m..k - 1 /\ j + 1 \in 1..n /\ j + 1 # i
                BY <2>5, <4>2
          <5>2. a = nodes[j + 1] /\ a # nodes[i]
                BY <1>1, <3>2, <4>2, <5>1
          <5> QED BY <3>1, <5>1, <5>2
        <4> QED BY <4>1, <4>2
      <3>3. ASSUME NEW j \in m..k - 1, a = nodes[j], a # nodes[i]
            PROVE  \E l \in mm..kk - 1 : a = nodes'[l]
        <4>1. CASE j < i
              BY <1>1, <2>5, <3>3, <4>1
        <4>2. CASE j > i
          <5>1. nodes'[j - 1] = nodes[j] /\ j - 1 \in mm..kk - 1
                BY <1>1, <2>5, <4>2
          <5> QED BY <3>3, <5>1
        <4> QED BY <2>5, <3>3, <4>1, <4>2
      <3> QED BY <3>1, <3>2, <3>3
    <2>7. ASSUME NEW j \in 1..kk
          PROVE  prev'[nodes'[j]] = IF j <= mm THEN NULL ELSE nodes'[j - 1]
      <3>0. j \in Nat /\ j >= 1 /\ j <= kk /\ j \in 1..n - 1 /\ j \in 1..n /\ j + 1 \in 1..n
            BY <1>1, <2>3
      <3>9. \A l \in 1..k : prev[nodes[l]] = IF l <= m THEN NULL ELSE nodes[l - 1]
            BY <1>5 DEF Back
      <3>1. CASE j < i
        <4>1. j \in 1..k /\ (j <= mm <=> j <= m) /\ j # i /\ j # i + 1
              /\ (~(j <= m) => j - 1 \in 1..n - 1 /\ j - 1 < i)
              BY <1>1, <2>2, <3>0, <3>1 DEF Moved
        <4>2. nodes'[j] = nodes[j] /\ prev'[nodes[j]] = prev[nodes[j]]
              BY <1>1, <1>2, <3>0, <3>1, <4>1
        <4>3. ~(j <= m) => nodes'[j - 1] = nodes[j - 1]
              BY <1>1, <4>1
        <4> HIDE DEF mm
        <4> QED BY <3>9, <4>1, <4>2, <4>3
      <3>2. CASE j = i
        <4>1. i \in 1..k /\ (j <= mm <=> i <= m) /\ i + 1 # i /\ ~(j < i)
              /\ (~(i <= m) => i - 1 \in 1..n - 1 /\ i - 1 < i)
              BY <1>1, <2>2, <3>0, <3>2 DEF Moved
        <4>2. nodes'[j] = nodes[i + 1] /\ prev'[nodes[i + 1]] = prev[nodes[i]]
              BY <1>1, <1>2, <3>0, <3>2, <4>1
        <4>3. ~(i <= m) => nodes'[j - 1] = nodes[i - 1]
              BY <1>1, <3>2, <4>1
        <4> HIDE DEF mm
        <4> QED BY <3>9, <4>1, <4>2, <4>3
      <3>3. CASE j > i
        <4>1. j + 1 \in 1..k /\ (j <= mm <=> j + 1 <= m) /\ j + 1 # i /\ j + 1 # i + 1
              /\ ~(j < i) /\ (j + 1) - 1 = j
              /\ j - 1 \in 1..n - 1 /\ ~(j - 1 < i) /\ (j - 1) + 1 = j
              BY <1>1, <2>2, <3>0, <3>3 DEF Moved
        <4>2. nodes'[j] = nodes[j + 1] /\ prev'[nodes[j + 1]] = prev[nodes[j + 1]]
              BY <1>1, <1>2, <3>0, <4>1
        <4>3. nodes'[j - 1] = nodes[j]
              BY <1>1, <4>1
        <4>4. prev[nodes[j + 1]] = IF j + 1 <= m THEN NULL ELSE nodes[j]
              BY <3>9, <4>1
        <4> HIDE DEF mm
        <4> QED BY <4>1, <4>2, <4>3, <4>4
      <3> QED BY <1>1, <3>0, <3>1, <3>2, <3>3
    <2> HIDE DEF kk, mm
    <2>8. Back(kk, mm)'
          BY <1>1, <2>1, <2>3, <2>4, <2>6, <2>7 DEF Back
    <2> QED BY <2>3, <2>8 DEF kk, mm
  <1> QED BY <1>4, <1>5 DEF n

LEMMA TurnSetsPrev ==
    ASSUME Core, BackLinks, TurnRound, preadded' = preadded,
           prev' = [a \in Addrs |-> IF OnList(a) THEN next[a] ELSE prev[a]]
    PROVE  BackLinks'
  <1> DEFINE n == Len(nodes)
  <1>1. /\ n \in Nat /\ Len(nodes') = n
        /\ \A i \in 1..n : nodes'[i] = nodes[n + 1 - i]
        /\ \A j \in 1..n : /\ nodes[j] \in Addrs
                           /\ next[nodes[j]] = IF j = n THEN NULL ELSE nodes[j + 1]
        BY TurnRoundKeeps, CoreFacts
  <1>2. prev' \in [Addrs -> Addrs \cup {NULL, Junk}] /\ preadded' \in BOOLEAN
        BY DEF BackLinks, Core
  <1>3. \A j \in 1..n : prev'[nodes[j]] = next[nodes[j]]
        BY <1>1 DEF OnList
  <1> HIDE DEF n
  <1>4. ASSUME NEW i \in 1..n
        PROVE  prev'[nodes'[i]] = IF i = 1 THEN NULL ELSE nodes'[i - 1]
    <2>1. n + 1 - i \in 1..n /\ (n + 1 - i = n <=> i = 1)
          BY <1>1
    <2>2. i # 1 => i - 1 \in 1..n /\ n + 1 - (i - 1) = (n + 1 - i) + 1
          BY <1>1
    <2>3. i # 1 => nodes'[i - 1] = nodes[(n + 1 - i) + 1]
          BY <1>1, <2>2
    <2>4. prev'[nodes'[i]] = IF n + 1 - i = n THEN NULL ELSE nodes[(n + 1 - i) + 1]
          BY <1>1, <1>3, <2>1
    <2> QED BY <2>1, <2>3, <2>4
  <1> QED BY <1>1, <1>2, <1>4, BackLinksAre

LEMMA FreeSetsPrev ==
    ASSUME Core, BackLinks, FreeAll, preadded' = FALSE,
           prev' = Wiped(prev, {nodes[i] : i \in 1..Len(nodes)})
    PROVE  BackLinks'
  <1>1. prev' \in [Addrs -> Addrs \cup {NULL, Junk}]
        BY DEF BackLinks, Wiped
  <1>2. Len(nodes') = 0
        BY FreeAllKeeps
  <1>3. 1..Len(nodes') = {}
        BY <1>2
  <1>4. preadded' \in BOOLEAN
        OBVIOUS
  <1> QED BY <1>1, <1>3, <1>4, BackLinksAre
----------------------------------------------------------------------------
(***************************************************************************)
(* The foreach that runs meanwhile.                                        *)
(***************************************************************************)
LEMMA WalkIsAt ==
    /\ WalkInv /\ walk = "forward" => \E k \in 1..Len(nodes) : Forward(k)
    /\ WalkInv /\ walk = "back" => \E k \in 1..Len(nodes) : \E m \in 1..k : Back(k, m)
    /\ WalkInv /\ walk = "none" => cursor = NULL /\ due = {}
  BY DEF WalkInv

LEMMA NoWalk ==
    ASSUME walk' = "none", cursor' = NULL, due' = {}
    PROVE  WalkInv'
  BY DEF WalkInv

LEMMA WalksForward ==
    ASSUME walk' = "forward", NEW k \in 1..Len(nodes'), Forward(k)'
    PROVE  WalkInv'
  BY DEF WalkInv

LEMMA WalksBack ==
    ASSUME walk' = "back", NEW k \in 1..Len(nodes'), NEW m \in 1..k, Back(k, m)'
    PROVE  WalkInv'
  BY DEF WalkInv

LEMMA AddLetsWalk ==
    ASSUME Core, WalkInv, NEW x \in Items, NEW new \in Addrs, PutLast(x, new),
           \A k \in 1..Len(nodes) : \A m \in 1..k :
                 walk = "back" /\ Back(k, m) => Back(k, m)'
    PROVE  WalkInv'
  <1>1. walk' = walk /\ cursor' = cursor /\ (walk # "forward" => due' = due)
        BY DEF PutLast, Appended
  <1>2. Len(nodes) \in Nat /\ Len(nodes') = Len(nodes) + 1
        /\ \A k \in 1..Len(nodes) : walk = "forward" /\ Forward(k) => Forward(k)'
        BY PutLastKeeps, CoreFacts
  <1>3. \A k \in 1..Len(nodes) : k \in 1..Len(nodes')
        BY <1>2
  <1>4. CASE walk = "none"
        BY <1>1, <1>4, WalkIsAt, NoWalk
  <1>5. CASE walk = "forward"
        BY <1>1, <1>2, <1>3, <1>5, WalkIsAt, WalksForward
  <1>6. CASE walk = "back"
        BY <1>1, <1>3, <1>6, WalkIsAt, WalksBack
  <1> QED BY <1>4, <1>5, <1>6 DEF Core

LEMMA PreaddLetsWalk ==
    ASSUME Core, WalkInv, NEW x \in Items, NEW new \in Addrs, PutFront(x, new),
           walk = "back" => \A k \in 1..Len(nodes) : \A m \in 1..k :
                               Back(k, m) => Back(k + 1, m + 1)'
    PROVE  WalkInv'
  <1>1. walk' = walk /\ cursor' = cursor /\ due' = due
        BY DEF PutFront, foreach
  <1>2. Len(nodes) \in Nat /\ Len(nodes') = Len(nodes) + 1
        /\ \A k \in 1..Len(nodes) : Forward(k) => Forward(k + 1)'
        BY PutFrontKeeps, CoreFacts
  <1>3. /\ \A k \in 1..Len(nodes) : k + 1 \in 1..Len(nodes')
        /\ \A k \in 1..Len(nodes) : \A m \in 1..k : m + 1 \in 1..k + 1
        BY <1>2
  <1>4. CASE walk = "none"
        BY <1>1, <1>4, WalkIsAt, NoWalk
  <1>5. CASE walk = "forward"
        BY <1>1, <1>2, <1>3, <1>5, WalkIsAt, WalksForward
  <1>6. CASE walk = "back"
    <2>1. PICK k \in 1..Len(nodes) : \E m \in 1..k : Back(k, m)
          BY <1>6, WalkIsAt
    <2>2. PICK m \in 1..k : Back(k, m)
          BY <2>1
    <2>3. Back(k + 1, m + 1)' /\ k + 1 \in 1..Len(nodes') /\ m + 1 \in 1..k + 1
          BY <1>3, <1>6, <2>2
    <2> QED BY <1>1, <1>6, <2>3, WalksBack
  <1> QED BY <1>4, <1>5, <1>6 DEF Core

LEMMA CutLetsWalk ==
    ASSUME Core, WalkInv, NEW i \in 1..Len(nodes), CutOut(i),
           walk = "back" => \A k \in 1..Len(nodes) : \A m \in 1..k :
              Back(k, m) => Moved(i, m) \in 1..Moved(i, k) /\ Back(Moved(i, k), Moved(i, m))'
    PROVE  WalkInv'
  <1>1. walk' = walk /\ cursor' = cursor /\ due' = due \ {nodes[i]}
        BY DEF CutOut, Unlinked
  <1>2. Len(nodes) \in Nat /\ Len(nodes') = Len(nodes) - 1
        /\ \A k \in 1..Len(nodes) : Forward(k) => k # i /\ Forward(Moved(i, k))'
        BY CutOutKeeps, CoreFacts
  <1>3. \A k \in 1..Len(nodes) : k # i => Moved(i, k) \in 1..Len(nodes')
        BY <1>2 DEF Moved
  <1>4. CASE walk = "none"
        BY <1>1, <1>4, WalkIsAt, NoWalk
  <1>5. CASE walk = "forward"
    <2>1. PICK k \in 1..Len(nodes) : Forward(k)
          BY <1>5, WalkIsAt
    <2>2. Moved(i, k) \in 1..Len(nodes') /\ Forward(Moved(i, k))'
          BY <1>2, <1>3, <2>1
    <2> QED BY <1>1, <1>5, <2>2, WalksForward
  <1>6. CASE walk = "back"
    <2>1. PICK k \in 1..Len(nodes) : \E m \in 1..k : Back(k, m)
          BY <1>6, WalkIsAt
    <2>2. PICK m \in 1..k : Back(k, m)
          BY <2>1
    <2>3. Moved(i, m) \in 1..Moved(i, k) /\ Back(Moved(i, k), Moved(i, m))'
          BY <1>6, <2>2
    <2>4. k # i
          BY <2>2 DEF Back, CutOut, MayUnlink
    <2> QED BY <1>1, <1>3, <1>6, <2>3, <2>4, WalksBack
  <1> QED BY <1>4, <1>5, <1>6 DEF Core

LEMMA LookedKeeps ==
    ASSUME UNCHANGED <<list, next, prev, data, alloc, preadded, foreach>>
    PROVE  (Core => Core') /\ (BackLinks => BackLinks') /\ (WalkInv => WalkInv')
  <1>1. nodes' = nodes
        BY NothingMoves
  <1>2. (Chain(nodes, list, next))' <=> Chain(nodes, list, next)
        BY <1>1 DEF Chain
  <1>3. Core => Core'
        BY <1>1, <1>2 DEF Core, foreach
  <1>4. BackLinks => BackLinks'
        BY <1>1 DEF BackLinks, PrevIsInverse
  <1>5. WalkInv => WalkInv'
        BY <1>1 DEF WalkInv, Forward, Back, foreach
  <1> QED BY <1>3, <1>4, <1>5

LEMMA WalkedKeeps ==
    ASSUME Core, BackLinks, UNCHANGED <<list, next, prev, data, alloc, preadded>>,
           due' \in SUBSET Addrs, walk' \in {"none", "forward", "back"}
    PROVE  Core' /\ BackLinks' /\ nodes' = nodes /\ Values' = Values
  <1>1. nodes' = nodes /\ Values' = Values
        BY NothingMoves
  <1>2. (Chain(nodes, list, next))' <=> Chain(nodes, list, next)
        BY <1>1 DEF Chain
  <1>3. Core'
        BY <1>1, <1>2 DEF Core
  <1>4. BackLinks'
        BY <1>1 DEF BackLinks, PrevIsInverse
  <1> QED BY <1>1, <1>3, <1>4

LEMMA ForeachKeeps ==
    ASSUME Core, BackLinks, WalkInv, Visit("forward", list),
           UNCHANGED <<list, next, prev, data, alloc, preadded>>
    PROVE  Core' /\ BackLinks' /\ WalkInv' /\ Values' = Values /\ walk' # "back"
  <1>1. CASE list = NULL
    <2>1. UNCHANGED foreach /\ walk = "none"
          BY <1>1 DEF Visit
    <2>2. walk' # "back"
          BY <2>1 DEF foreach
    <2> QED BY <2>1, <2>2, LookedKeeps, NothingMoves
  <1>2. CASE list # NULL
    <2>1. /\ walk' = "forward" /\ cursor' = list
          /\ due' = {nodes[i] : i \in 1..Len(nodes)} \ {list}
          BY <1>2 DEF Visit
    <2>2. /\ Len(nodes) \in Nat /\ 1 \in 1..Len(nodes) /\ list = nodes[1]
          /\ \A i \in 1..Len(nodes) : nodes[i] \in Addrs
          /\ \A i, j \in 1..Len(nodes) : nodes[i] = nodes[j] => i = j
      <3>1. Len(nodes) \in Nat /\ Len(nodes) # 0
            BY <1>2, CoreFacts
      <3> QED BY <1>2, <3>1, CoreFacts
    <2>3. Core' /\ BackLinks' /\ nodes' = nodes /\ Values' = Values
          BY <2>1, <2>2, WalkedKeeps
    <2>4. ASSUME NEW a PROVE a \in due' <=> \E i \in 1 + 1..Len(nodes) : a = nodes[i]
      <3>1. \A i \in 1..Len(nodes) : i # 1 => i \in 1 + 1..Len(nodes)
            BY <2>2
      <3>2. \A i \in 1 + 1..Len(nodes) : i # 1 /\ i \in 1..Len(nodes)
            BY <2>2
      <3> QED BY <2>1, <2>2, <3>1, <3>2
    <2>5. Forward(1)'
          BY <2>1, <2>2, <2>3, <2>4 DEF Forward
    <2> QED BY <2>1, <2>2, <2>3, <2>5, WalksForward
  <1> QED BY <1>1, <1>2

LEMMA ForeachNextKeeps ==
    ASSUME Core, BackLinks, WalkInv, walk = "forward", VisitNext(next),
           UNCHANGED <<list, next, prev, data, alloc, preadded>>
    PROVE  Core' /\ BackLinks' /\ WalkInv' /\ Values' = Values /\ walk' # "back"
  <1>1. PICK k \in 1..Len(nodes) : Forward(k)
        BY WalkIsAt
  <1>2. /\ cursor' = next[nodes[k]] /\ due' = due \ {cursor'}
        /\ walk' = IF cursor' = NULL THEN "none" ELSE "forward"
        BY <1>1 DEF VisitNext, Forward
  <1>3. /\ Len(nodes) \in Nat
        /\ \A i \in 1..Len(nodes) : /\ nodes[i] # NULL
              /\ next[nodes[i]] = IF i = Len(nodes) THEN NULL ELSE nodes[i + 1]
        /\ \A i, j \in 1..Len(nodes) : nodes[i] = nodes[j] => i = j
        BY CoreFacts
  <1>4. Core' /\ BackLinks' /\ nodes' = nodes /\ Values' = Values
    <2>1. due' \in SUBSET Addrs /\ walk' \in {"none", "forward", "back"}
          BY <1>2 DEF Core
    <2> QED BY <2>1, WalkedKeeps
  <1>5. \A a : a \in due <=> \E i \in k + 1..Len(nodes) : a = nodes[i]
        BY <1>1 DEF Forward
  <1>6. CASE k = Len(nodes)
    <2>1. cursor' = NULL /\ walk' = "none"
          BY <1>2, <1>3, <1>6
    <2>2. due = {}
          BY <1>3, <1>5, <1>6
    <2>3. due' = {}
          BY <1>2, <2>2
    <2> QED BY <1>4, <2>1, <2>3, NoWalk
  <1>7. CASE k # Len(nodes)
    <2>1. k + 1 \in 1..Len(nodes)
          BY <1>3, <1>7
    <2>2. cursor' = nodes[k + 1] /\ walk' = "forward"
          BY <1>2, <1>3, <1>7, <2>1
    <2>3. ASSUME NEW a PROVE a \in due' <=> \E i \in (k + 1) + 1..Len(nodes) : a = nodes[i]
      <3>1. \A i \in k + 1..Len(nodes) :
               i \in 1..Len(nodes) /\ (i # k + 1 => i \in (k + 1) + 1..Len(nodes))
            BY <1>3
      <3>2. \A i \in (k + 1) + 1..Len(nodes) :
               i # k + 1 /\ i \in k + 1..Len(nodes) /\ i \in 1..Len(nodes)
            BY <1>3
      <3>3. a \in due' <=> a # nodes[k + 1] /\ \E i \in k + 1..Len(nodes) : a = nodes[i]
            BY <1>2, <1>5, <2>2
      <3> QED BY <1>3, <2>1, <3>1, <3>2, <3>3
    <2>4. Forward(k + 1)'
          BY <1>4, <2>1, <2>2, <2>3 DEF Forward
    <2> QED BY <1>4, <2>1, <2>2, <2>4, WalksForward
  <1> QED BY <1>6, <1>7

(***************************************************************************)
(* As long as ac_list_preadd has been called for no list with nodes, every *)
(* `prev' leads to the node before.                                        *)
(***************************************************************************)
LEMMA RevForeachKeeps ==
    ASSUME Core, BackLinks, WalkInv, preadded = FALSE, Visit("back", final(nodes)),
           UNCHANGED <<list, next, prev, data, alloc, preadded>>
    PROVE  Core' /\ BackLinks' /\ WalkInv' /\ Values' = Values
  <1>1. CASE list = NULL
    <2>1. UNCHANGED foreach
          BY <1>1 DEF Visit
    <2> QED BY <2>1, LookedKeeps, NothingMoves
  <1>2. CASE list # NULL
    <2> DEFINE n == Len(nodes)
    <2>1. /\ walk' = "back" /\ cursor' = nodes[n]
          /\ due' = {nodes[i] : i \in 1..n} \ {nodes[n]}
          BY <1>2 DEF Visit, final
    <2>2. /\ n \in Nat /\ n # 0
          /\ \A i \in 1..n : nodes[i] \in Addrs
          /\ \A i, j \in 1..n : nodes[i] = nodes[j] => i = j
          BY <1>2, CoreFacts
    <2>3. Core' /\ BackLinks' /\ nodes' = nodes /\ Values' = Values
          BY <2>1, <2>2, WalkedKeeps
    <2>4. \A i \in 1..n : prev[nodes[i]] = IF i = 1 THEN NULL ELSE nodes[i - 1]
          BY PrevOf
    <2>5. n \in 1..n /\ 1 \in 1..n /\ \A i \in 1..n : i <= 1 <=> i = 1
          BY <2>2
    <2>6. ASSUME NEW a PROVE a \in due' <=> \E i \in 1..n - 1 : a = nodes[i]
      <3>1. \A i \in 1..n : i # n => i \in 1..n - 1
            BY <2>2
      <3>2. \A i \in 1..n - 1 : i # n /\ i \in 1..n
            BY <2>2
      <3> QED BY <2>1, <2>2, <2>5, <3>1, <3>2
    <2> HIDE DEF n
    <2>7. Back(n, 1)'
          BY <2>1, <2>3, <2>4, <2>5, <2>6 DEF Back, n
    <2> QED BY <2>1, <2>3, <2>5, <2>7, WalksBack DEF n
  <1> QED BY <1>1, <1>2

LEMMA RevForeachNextKeeps ==
    ASSUME Core, BackLinks, WalkInv, walk = "back", VisitNext(prev),
           UNCHANGED <<list, next, prev, data, alloc, preadded>>
    PROVE  Core' /\ BackLinks' /\ WalkInv' /\ Values' = Values
  <1>1. PICK k \in 1..Len(nodes) : \E m \in 1..k : Back(k, m)
        BY WalkIsAt
  <1>0. PICK m \in 1..k : Back(k, m)
        BY <1>1
  <1>2. /\ cursor' = prev[nodes[k]] /\ due' = due \ {cursor'}
        /\ walk' = IF cursor' = NULL THEN "none" ELSE "back"
        BY <1>0 DEF VisitNext, Back
  <1>3. /\ Len(nodes) \in Nat /\ k \in Nat /\ m \in Nat /\ m <= k /\ m >= 1 /\ k \in 1..k
        /\ k <= Len(nodes)
        /\ \A i \in 1..Len(nodes) : nodes[i] # NULL
        /\ \A i, j \in 1..Len(nodes) : nodes[i] = nodes[j] => i = j
        BY CoreFacts
  <1>4. Core' /\ BackLinks' /\ nodes' = nodes /\ Values' = Values
    <2>1. due' \in SUBSET Addrs /\ walk' \in {"none", "forward", "back"}
          BY <1>2 DEF Core
    <2> QED BY <2>1, WalkedKeeps
  <1>5. /\ \A a : a \in due <=> \E i \in m..k - 1 : a = nodes[i]
        /\ \A i \in 1..k : prev[nodes[i]] = IF i <= m THEN NULL ELSE nodes[i - 1]
        BY <1>0 DEF Back
  <1>6. CASE k = m
    <2>1. cursor' = NULL /\ walk' = "none"
          BY <1>2, <1>3, <1>5, <1>6
    <2>2. due = {}
          BY <1>3, <1>5, <1>6
    <2>3. due' = {}
          BY <1>2, <2>2
    <2> QED BY <1>4, <2>1, <2>3, NoWalk
  <1>7. CASE k # m
    <2>1. k - 1 \in 1..Len(nodes) /\ m \in 1..k - 1 /\ ~(k <= m)
          BY <1>3, <1>7
    <2>2. cursor' = nodes[k - 1] /\ walk' = "back"
          BY <1>2, <1>3, <1>5, <2>1
    <2>3. ASSUME NEW a PROVE a \in due' <=> \E i \in m..(k - 1) - 1 : a = nodes[i]
      <3>1. \A i \in m..k - 1 : i \in 1..Len(nodes) /\ (i # k - 1 => i \in m..(k - 1) - 1)
            BY <1>3
      <3>2. \A i \in m..(k - 1) - 1 : i # k - 1 /\ i \in m..k - 1 /\ i \in 1..Len(nodes)
            BY <1>3
      <3>3. a \in due' <=> a # nodes[k - 1] /\ \E i \in m..k - 1 : a = nodes[i]
            BY <1>2, <1>5, <2>2
      <3> QED BY <1>3, <2>1, <3>1, <3>2, <3>3
    <2>4. Back(k - 1, m)'
      <3>1. \A i \in 1..k - 1 : i \in 1..k
            BY <1>3
      <3> QED BY <1>4, <1>5, <2>1, <2>2, <2>3, <3>1 DEF Back
    <2> QED BY <1>4, <2>1, <2>2, <2>4, WalksBack
  <1> QED BY <1>6, <1>7
----------------------------------------------------------------------------
(***************************************************************************)
(* What they do to the sequence of items, as ItemList has it.              *)
(***************************************************************************)
LEMMA FindAtFirst ==
    ASSUME Core, NEW w \in Wanted
    PROVE  /\ w \in L!Wanted
           /\ FindAt(w) = 0 => ~L!Present(w)
           /\ FindAt(w) # 0 => /\ FindAt(w) \in 1..Len(nodes) /\ FindAt(w) \in 1..Len(Values)
                               /\ L!FirstAt(w, FindAt(w))
  <1>1. Values \in Seq(Items \cup {Junk}) /\ Len(Values) = Len(nodes) /\ Len(nodes) \in Nat
        BY CoreFacts
  <1> DEFINE v    == Values
             hits == {i \in 1..Len(v) : v[i] \in w}
  <1>2. FindAt(w) = IF hits = {} THEN 0 ELSE CHOOSE i \in hits : \A j \in hits : i <= j
        BY DEF FindAt
  <1> HIDE DEF v
  <1>3. w \in L!Wanted
        BY DEF Wanted, L!Wanted
  <1>4. CASE hits = {}
    <2>1. ~L!Present(w)
          BY <1>4 DEF L!Present, v
    <2> QED BY <1>2, <1>3, <1>4, <2>1
  <1>5. CASE hits # {}
    <2>1. hits \in SUBSET Nat
          OBVIOUS
    <2>2. \E i \in hits : \A j \in hits : i <= j
          BY <1>5, <2>1, Least
    <2> DEFINE f == FindAt(w)
    <2>3. f \in hits /\ \A j \in hits : f <= j
          BY <1>2, <1>5, <2>2
    <2> HIDE DEF f
    <2>4. f \in 1..Len(v) /\ v[f] \in w /\ f # 0
          BY <2>3
    <2>5. ASSUME NEW j \in 1..f - 1, v[j] \in w PROVE FALSE
      <3>1. j \in 1..Len(v) /\ ~(f <= j)
            BY <1>1, <2>4 DEF v
      <3> QED BY <2>3, <2>5, <3>1
    <2>6. L!FirstAt(w, f)
          BY <2>4, <2>5 DEF L!FirstAt, v
    <2> QED BY <1>1, <1>3, <2>4, <2>6 DEF v, f
  <1> QED BY <1>4, <1>5

LEMMA AddIsAdd ==
    ASSUME Core, NEW x \in Items, NEW new \in Addrs, PutLast(x, new)
    PROVE  L!Next
  <1>1. Values' = Append(Values, x) /\ ret' = "ok" /\ out' = << >>
        BY PutLastKeeps DEF PutLast, Return
  <1> QED BY <1>1 DEF L!Next, L!Add, L!Ok

LEMMA PreaddIsPreadd ==
    ASSUME Core, NEW x \in Items, NEW new \in Addrs, PutFront(x, new)
    PROVE  L!Next
  <1>1. Values' = <<x>> \o Values /\ ret' = "ok" /\ out' = << >>
        BY PutFrontKeeps DEF PutFront, Return
  <1> QED BY <1>1 DEF L!Next, L!Preadd, L!Ok

LEMMA CutOutTakes ==
    ASSUME Core, NEW i \in 1..Len(nodes), CutOut(i)
    PROVE  /\ Values' = L!RemoveAt(Values, i) /\ L!Ok(<<Values[i]>>)
           /\ i \in 1..Len(Values) /\ Len(Values) \in Nat
  <1>1. Values' = Without(Values, i)
        BY CutOutKeeps
  <1>2. Values[i] = data[nodes[i]] /\ Len(Values) = Len(nodes) /\ Len(nodes) \in Nat
        BY CoreFacts
  <1>3. ret' = "ok" /\ out' = <<data[nodes[i]]>>
        BY DEF CutOut, Return
  <1> QED BY <1>1, <1>2, <1>3 DEF Without, L!RemoveAt, L!Ok

LEMMA RemoveIsRemove ==
    ASSUME Core, NEW w \in Wanted, FindAt(w) # 0, CutOut(FindAt(w))
    PROVE  L!Next
  <1> DEFINE i == FindAt(w)
  <1>1. w \in L!Wanted /\ i \in 1..Len(nodes) /\ i \in 1..Len(Values) /\ L!FirstAt(w, i)
        BY FindAtFirst
  <1>2. Values' = L!RemoveAt(Values, i) /\ L!Ok(<<Values[i]>>)
        BY <1>1, CutOutTakes
  <1> HIDE DEF i
  <1>3. L!RemoveItem
        BY <1>1, <1>2 DEF L!RemoveItem
  <1> QED BY <1>3 DEF L!Next

LEMMA RemoveNthIsRemoveNth ==
    ASSUME Core, NEW n \in 0..MaxLen, ~(n >= Len(nodes)), CutOut(n + 1)
    PROVE  L!Next /\ n + 1 \in 1..Len(nodes)
  <1>1. n \in Nat /\ Len(nodes) \in Nat /\ Len(Values) = Len(nodes)
        BY CoreFacts
  <1>2. n + 1 \in 1..Len(nodes) /\ n < Len(Values)
        BY <1>1
  <1>3. Values' = L!RemoveAt(Values, n + 1) /\ L!Ok(<<Values[n + 1]>>)
        BY <1>2, CutOutTakes
  <1>4. L!RemoveNth
        BY <1>2, <1>3 DEF L!RemoveNth
  <1> QED BY <1>2, <1>4 DEF L!Next

LEMMA FindIsFind ==
    ASSUME Core, NEW w \in Wanted, Values' = Values,
           IF FindAt(w) = 0 THEN Return("refused", << >>)
           ELSE Return("ok", <<data[nodes[FindAt(w)]]>>)
    PROVE  L!Next
  <1>1. w \in L!Wanted
        BY FindAtFirst
  <1>2. CASE FindAt(w) = 0
    <2>1. ~L!Present(w)
          BY <1>2, FindAtFirst
    <2>2. L!Refuse
          BY <1>2 DEF L!Refuse, Return
    <2>3. L!Find
          BY <1>1, <2>1, <2>2 DEF L!Find
    <2> QED BY <2>3 DEF L!Next
  <1>3. CASE FindAt(w) # 0
    <2> DEFINE i == FindAt(w)
    <2>1. i \in 1..Len(nodes) /\ i \in 1..Len(Values) /\ L!FirstAt(w, i)
          BY <1>3, FindAtFirst
    <2>2. L!Ok(<<Values[i]>>)
      <3>1. Values[i] = data[nodes[i]]
            BY <2>1, CoreFacts
      <3> QED BY <1>3, <3>1 DEF L!Ok, Return
    <2> HIDE DEF i
    <2>3. L!Find
          BY <1>1, <2>1, <2>2 DEF L!Find
    <2> QED BY <2>3 DEF L!Next
  <1> QED BY <1>2, <1>3

LEMMA NotFoundIsRefused ==
    ASSUME Core, NEW w \in Wanted, FindAt(w) = 0, Values' = Values,
           Return("refused", << >>)
    PROVE  L!Next
  <1>1. w \in L!Wanted /\ ~L!Present(w)
        BY FindAtFirst
  <1>2. L!RemoveItem
        BY <1>1 DEF L!RemoveItem, L!Refuse, Return
  <1> QED BY <1>2 DEF L!Next

LEMMA NthIsNth ==
    ASSUME Core, NEW n \in 0..MaxLen, Values' = Values,
           IF n >= Len(nodes) THEN Return("refused", << >>)
           ELSE Return("ok", <<data[nodes[n + 1]]>>)
    PROVE  L!Next
  <1>1. n \in Nat /\ Len(nodes) \in Nat /\ Len(Values) = Len(nodes)
        BY CoreFacts
  <1>2. CASE n >= Len(nodes)
    <2>1. L!NthData
          BY <1>1, <1>2 DEF L!NthData, L!Refuse, Return
    <2> QED BY <2>1 DEF L!Next
  <1>3. CASE ~(n >= Len(nodes))
    <2>1. n + 1 \in 1..Len(nodes) /\ n < Len(Values)
          BY <1>1, <1>3
    <2>2. Values[n + 1] = data[nodes[n + 1]]
          BY <2>1, CoreFacts
    <2>3. L!Ok(<<Values[n + 1]>>)
          BY <1>3, <2>2 DEF L!Ok, Return
    <2>4. L!NthData
          BY <2>1, <2>3 DEF L!NthData
    <2> QED BY <2>4 DEF L!Next
  <1> QED BY <1>2, <1>3

LEMMA NthIsRefused ==
    ASSUME Core, NEW n \in 0..MaxLen, n >= Len(nodes), Values' = Values,
           Return("refused", << >>)
    PROVE  L!Next
  <1>1. Len(Values) = Len(nodes)
        BY CoreFacts
  <1>2. L!RemoveNth
        BY <1>1 DEF L!RemoveNth, L!Refuse, Return
  <1> QED BY <1>2 DEF L!Next

LEMMA TurnRoundIsReverse ==
    ASSUME Core, TurnRound
    PROVE  L!Next
  <1>1. Len(Values) \in Nat
        BY CoreFacts
  <1>2. Values' = [i \in 1..Len(Values) |-> Values[Len(Values) + 1 - i]]
        BY TurnRoundKeeps
  <1>3. \A i \in 1..Len(Values) : Len(Values) + 1 - i = (Len(Values) - i) + 1
        BY <1>1
  <1>4. Values' = L!Reverse(Values)
        BY <1>2, <1>3 DEF L!Reverse
  <1>5. L!ReverseList
        BY <1>4 DEF L!ReverseList, L!Ok, TurnRound, Return
  <1> QED BY <1>5 DEF L!Next

LEMMA FreeAllIsDestroy ==
    ASSUME Core, FreeAll
    PROVE  L!Next
  <1>1. Values' = << >> /\ ret' = "ok" /\ out' = Values
        BY FreeAllKeeps DEF FreeAll, Return
  <1> QED BY <1>1 DEF L!Next, L!Destroy, L!Ok
----------------------------------------------------------------------------
(***************************************************************************)
(* The steps of a doubly linked list.                                      *)
(***************************************************************************)
ListStep == ListsInv' /\ [L!Next]_(L!vars)

LEMMA ListStepIs ==
    ASSUME kind' # "slist", Core', BackLinks', WalkInv',
           L!Next \/ UNCHANGED <<Values, ret, out>>
    PROVE  ListStep
  BY DEF ListStep, ListsInv, OneWay, L!vars

LEMMA UnlinkKeeps ==
    ASSUME ListsInv, kind' # "slist", NEW i \in 1..Len(nodes), Unlink(i)
    PROVE  CutOut(i) /\ Core' /\ BackLinks' /\ WalkInv'
  <1>1. Core /\ BackLinks /\ WalkInv
        BY DEF ListsInv
  <1>2. CutOut(i) /\ preadded' = preadded /\ prev' = BackLink(nodes[i])
        BY DEF Unlink, CutOut, CutLinks
  <1>3. Core'
        BY <1>1, <1>2, CutOutKeeps
  <1>4. /\ BackLinks'
        /\ \A k \in 1..Len(nodes) : \A m \in 1..k :
              Back(k, m) => Moved(i, m) \in 1..Moved(i, k) /\ Back(Moved(i, k), Moved(i, m))'
        BY <1>1, <1>2, CutSetsPrev
  <1>5. WalkInv'
        BY <1>1, <1>2, <1>4, CutLetsWalk
  <1> QED BY <1>2, <1>3, <1>4, <1>5

LEMMA StaysKeeps ==
    ASSUME ListsInv, UNCHANGED <<list, heap, preadded, foreach>>
    PROVE  Core' /\ BackLinks' /\ WalkInv' /\ Values' = Values
  <1>1. UNCHANGED <<list, next, prev, data, alloc, preadded, foreach>>
        BY DEF heap
  <1> QED BY <1>1, LookedKeeps, NothingMoves DEF ListsInv

LEMMA DListStep ==
    ASSUME Mixed = FALSE, ListsInv, kind' # "slist", Next
    PROVE  ListStep
  <1>0. Core /\ BackLinks /\ WalkInv
        BY DEF ListsInv
  <1>1. ASSUME NEW x \in Items, NEW new \in Addrs, Add(x, new) PROVE ListStep
    <2>1. PutLast(x, new) /\ preadded' = preadded
          /\ prev' = [prev EXCEPT ![new] = IF list = NULL THEN NULL ELSE final(nodes)]
          BY <1>1 DEF Add, PutLast
    <2>2. /\ BackLinks'
          /\ \A k \in 1..Len(nodes) : \A m \in 1..k :
                walk = "back" /\ Back(k, m) => Back(k, m)'
          BY <1>0, <2>1, AddSetsPrev
    <2>3. Core' /\ WalkInv'
          BY <1>0, <2>1, <2>2, PutLastKeeps, AddLetsWalk
    <2>4. L!Next
          BY <1>0, <2>1, AddIsAdd
    <2> QED BY <2>2, <2>3, <2>4, ListStepIs
  <1>2. ASSUME NEW x \in Items, NEW new \in Addrs, Preadd(x, new) PROVE ListStep
    <2>1. PutFront(x, new) /\ preadded' = (preadded \/ list # NULL)
          /\ prev' = [prev EXCEPT ![new] = NULL]
          BY <1>2 DEF Preadd, PutFront
    <2>2. /\ BackLinks'
          /\ \A k \in 1..Len(nodes) : \A m \in 1..k : Back(k, m) => Back(k + 1, m + 1)'
          BY <1>0, <2>1, PreaddSetsPrev
    <2>3. Core' /\ WalkInv'
          BY <1>0, <2>1, <2>2, PutFrontKeeps, PreaddLetsWalk
    <2>4. L!Next
          BY <1>0, <2>1, PreaddIsPreadd
    <2> QED BY <2>2, <2>3, <2>4, ListStepIs
  <1>3. ASSUME NEW w \in Wanted, Remove(w) PROVE ListStep
    <2>1. CASE FindAt(w) = 0
      <3>1. Return("refused", << >>) /\ UNCHANGED <<list, heap, preadded, foreach>>
            BY <1>3, <2>1 DEF Remove, NotFound
      <3>2. Core' /\ BackLinks' /\ WalkInv' /\ Values' = Values
            BY <3>1, StaysKeeps
      <3> QED BY <1>0, <2>1, <3>1, <3>2, NotFoundIsRefused, ListStepIs
    <2>2. CASE FindAt(w) # 0
      <3>1. Unlink(FindAt(w))
            BY <1>3, <2>2 DEF Remove
      <3>2. FindAt(w) \in 1..Len(nodes)
            BY <1>0, <2>2, FindAtFirst
      <3>3. CutOut(FindAt(w)) /\ Core' /\ BackLinks' /\ WalkInv'
            BY <3>1, <3>2, UnlinkKeeps
      <3> QED BY <1>0, <2>2, <3>3, RemoveIsRemove, ListStepIs
    <2> QED BY <2>1, <2>2
  <1>4. ASSUME NEW n \in 0..MaxLen, RemoveNth(n) PROVE ListStep
    <2>1. CASE n >= Len(nodes)
      <3>1. Return("refused", << >>) /\ UNCHANGED <<list, heap, preadded, foreach>>
            BY <1>4, <2>1 DEF RemoveNth, NotFound
      <3>2. Core' /\ BackLinks' /\ WalkInv' /\ Values' = Values
            BY <3>1, StaysKeeps
      <3> QED BY <1>0, <2>1, <3>1, <3>2, NthIsRefused, ListStepIs
    <2>2. CASE ~(n >= Len(nodes))
      <3>1. Unlink(n + 1)
            BY <1>4, <2>2 DEF RemoveNth
      <3>2. n + 1 \in 1..Len(nodes)
            BY <1>0, <2>2, CoreFacts
      <3>3. CutOut(n + 1) /\ Core' /\ BackLinks' /\ WalkInv'
            BY <3>1, <3>2, UnlinkKeeps
      <3> QED BY <1>0, <2>2, <3>3, RemoveNthIsRemoveNth, ListStepIs
    <2> QED BY <2>1, <2>2
  <1>5. ASSUME NEW w \in Wanted, Find(w) PROVE ListStep
    <2>1. /\ UNCHANGED <<list, heap, preadded, foreach>>
          /\ IF FindAt(w) = 0 THEN Return("refused", << >>)
             ELSE Return("ok", <<data[nodes[FindAt(w)]]>>)
          BY <1>5 DEF Find, Found, NotFound
    <2>2. Core' /\ BackLinks' /\ WalkInv' /\ Values' = Values
          BY <2>1, StaysKeeps
    <2> QED BY <1>0, <2>1, <2>2, FindIsFind, ListStepIs
  <1>6. ASSUME NEW n \in 0..MaxLen, NthData(n) PROVE ListStep
    <2>1. /\ UNCHANGED <<list, heap, preadded, foreach>>
          /\ IF n >= Len(nodes) THEN Return("refused", << >>)
             ELSE Return("ok", <<data[nodes[n + 1]]>>)
          BY <1>6 DEF NthData, Found, NotFound
    <2>2. Core' /\ BackLinks' /\ WalkInv' /\ Values' = Values
          BY <2>1, StaysKeeps
    <2> QED BY <1>0, <2>1, <2>2, NthIsNth, ListStepIs
  <1>7. ASSUME ReverseList PROVE ListStep
    <2>1. preadded = FALSE
          BY <1>0, <1>7 DEF ReverseList, BackLinks
    <2>2. next' = [a \in Addrs |-> IF OnList(a) THEN prev[a] ELSE next[a]]
          BY <1>7 DEF ReverseList
    <2>3. /\ \A i \in 1..Len(nodes) : nodes[i] \in Addrs /\ OnList(nodes[i])
          /\ \A i \in 1..Len(nodes) : prev[nodes[i]] = IF i = 1 THEN NULL ELSE nodes[i - 1]
          BY <1>0, <2>1, CoreFacts, PrevOf DEF OnList
    <2>4. Links(next')
          BY <1>0, <2>2 DEF Links, Core, BackLinks
    <2>5. TurnRound
          BY <1>7, <2>2, <2>3, <2>4 DEF TurnRound, ReverseList
    <2>6. BackLinks'
          BY <1>0, <1>7, <2>5, TurnSetsPrev DEF ReverseList
    <2>7. WalkInv'
      <3>1. walk = "none" /\ UNCHANGED foreach
            BY <1>7 DEF ReverseList
      <3> QED BY <1>0, <3>1, NoWalk DEF WalkInv, foreach
    <2> QED BY <1>0, <2>5, <2>6, <2>7, TurnRoundKeeps, TurnRoundIsReverse, ListStepIs
  <1>8. ASSUME Destroy PROVE ListStep
    <2>1. FreeAll /\ preadded' = FALSE
          /\ prev' = Wiped(prev, {nodes[i] : i \in 1..Len(nodes)})
          BY <1>8 DEF Destroy, FreeAll
    <2>2. BackLinks'
          BY <1>0, <2>1, FreeSetsPrev
    <2>3. WalkInv'
      <3>1. walk = "none" /\ UNCHANGED foreach
            BY <1>8 DEF Destroy
      <3> QED BY <1>0, <3>1, NoWalk DEF WalkInv, foreach
    <2> QED BY <1>0, <2>1, <2>2, <2>3, FreeAllKeeps, FreeAllIsDestroy, ListStepIs
  <1>9. ASSUME Foreach \/ ForeachNext \/ RevForeach \/ RevForeachNext PROVE ListStep
    <2>0. UNCHANGED <<list, next, prev, data, alloc, preadded>> /\ UNCHANGED <<ret, out>>
          BY <1>9 DEF Foreach, ForeachNext, RevForeach, RevForeachNext, Elsewhere, heap
    <2>1. CASE Foreach
          BY <1>0, <2>0, <2>1, ForeachKeeps, ListStepIs DEF Foreach
    <2>2. CASE ForeachNext
          BY <1>0, <2>0, <2>2, ForeachNextKeeps, ListStepIs DEF ForeachNext
    <2>3. CASE RevForeach
      <3>1. preadded = FALSE
            BY <1>0, <2>3 DEF RevForeach, BackLinks
      <3> QED BY <1>0, <2>0, <2>3, <3>1, RevForeachKeeps, ListStepIs DEF RevForeach
    <2>4. CASE RevForeachNext
          BY <1>0, <2>0, <2>4, RevForeachNextKeeps, ListStepIs DEF RevForeachNext
    <2> QED BY <1>9, <2>1, <2>2, <2>3, <2>4
  <1> QED BY <1>1, <1>2, <1>3, <1>4, <1>5, <1>6, <1>7, <1>8, <1>9 DEF Next
----------------------------------------------------------------------------
(***************************************************************************)
(* The steps of a singly linked list.                                      *)
(***************************************************************************)
LEMMA SinglyIs ==
    /\ Singly!nodes = nodes /\ Singly!Values = Values /\ Singly!Wanted = Wanted
    /\ \A w : Singly!FindAt(w) = FindAt(w)
  <1>1. Singly!nodes = nodes
        BY DEF Singly!nodes, nodes, Singly!Walk, Walk
  <1>2. Singly!Values = Values
        BY <1>1 DEF Singly!Values, Values
  <1> QED BY <1>1, <1>2 DEF Singly!FindAt, FindAt, Singly!Wanted, Wanted

LEMMA NodesInHeap == Core => \A i \in 1..Len(nodes) : nodes[i] \in Addrs
  BY CoreFacts

LEMMA SinglyStepIs ==
    ASSUME kind = "slist", OneWay, UNCHANGED <<prev, preadded, kind>>,
           Core', WalkInv', walk' # "back", L!Next \/ UNCHANGED <<Values, ret, out>>
    PROVE  ListStep
  <1>1. OneWay' /\ preadded' = TRUE /\ prev' = [a \in Addrs |-> NULL]
        BY DEF OneWay
  <1>2. \A i \in 1..Len(nodes') : nodes'[i] \in Addrs
    <2>1. (Core => \A i \in 1..Len(nodes) : nodes[i] \in Addrs)'
          BY NodesInHeap, PTL
    <2> QED BY <2>1
  <1>3. BackLinks'
        BY <1>1, <1>2, BackLinksAre
  <1> QED BY <1>1, <1>3 DEF ListStep, ListsInv, L!vars

LEMMA SListStep ==
    ASSUME ListsInv, kind = "slist", UNCHANGED <<prev, preadded, kind>>, Singly!Next
    PROVE  ListStep
  <1>0. Core /\ BackLinks /\ WalkInv /\ OneWay /\ walk # "back"
        BY DEF ListsInv, OneWay
  <1>10. ASSUME NEW i \in 1..Len(nodes), Singly!Unlink(i)
         PROVE  CutOut(i) /\ Core' /\ WalkInv' /\ walk' # "back"
    <2>1. CutOut(i)
          BY <1>10, SinglyIs DEF Singly!Unlink, CutOut, CutLinks, Singly!MayUnlink, MayUnlink,
             Singly!Wiped, Wiped, Singly!Return, Return, Singly!Unlinked, Unlinked
    <2>2. walk' # "back"
          BY <1>0, <2>1 DEF CutOut, Unlinked
    <2> QED BY <1>0, <2>1, <2>2, CutOutKeeps, CutLetsWalk
  <1>11. ASSUME UNCHANGED <<list, next, data, alloc, foreach>>
         PROVE  Core' /\ WalkInv' /\ walk' # "back" /\ Values' = Values
    <2>1. UNCHANGED <<list, next, prev, data, alloc, preadded, foreach>>
          BY <1>11
    <2>2. walk' # "back"
          BY <1>0, <2>1 DEF foreach
    <2> QED BY <1>0, <2>1, <2>2, LookedKeeps, NothingMoves
  <1>1. ASSUME NEW x \in Items, NEW new \in Addrs, Singly!Add(x, new) PROVE ListStep
    <2>1. PutLast(x, new)
          BY <1>1, SinglyIs DEF Singly!Add, PutLast, Singly!malloc, Singly!final, final,
             Singly!Return, Return, Singly!Appended, Appended
    <2>2. walk' = walk
          BY <2>1 DEF PutLast, Appended
    <2>3. Core' /\ WalkInv'
          BY <1>0, <2>1, PutLastKeeps, AddLetsWalk
    <2>4. L!Next
          BY <1>0, <2>1, AddIsAdd
    <2> QED BY <1>0, <2>2, <2>3, <2>4, SinglyStepIs
  <1>2. ASSUME NEW x \in Items, NEW new \in Addrs, Singly!Preadd(x, new) PROVE ListStep
    <2>1. PutFront(x, new)
          BY <1>2 DEF Singly!Preadd, PutFront, Singly!malloc, Singly!Return, Return,
             Singly!foreach, foreach
    <2>2. walk' = walk
          BY <2>1 DEF PutFront, foreach
    <2>3. Core' /\ WalkInv'
          BY <1>0, <2>1, PutFrontKeeps, PreaddLetsWalk
    <2>4. L!Next
          BY <1>0, <2>1, PreaddIsPreadd
    <2> QED BY <1>0, <2>2, <2>3, <2>4, SinglyStepIs
  <1>3. ASSUME NEW w \in Wanted, Singly!Remove(w) PROVE ListStep
    <2>1. CASE FindAt(w) = 0
      <3>1. Return("refused", << >>) /\ UNCHANGED <<list, next, data, alloc, foreach>>
            BY <1>3, <2>1, SinglyIs DEF Singly!Remove, Singly!NotFound, Singly!Return, Return,
               Singly!heap, Singly!foreach, foreach
      <3>2. Core' /\ WalkInv' /\ walk' # "back" /\ Values' = Values
            BY <1>11, <3>1
      <3> QED BY <1>0, <2>1, <3>1, <3>2, NotFoundIsRefused, SinglyStepIs
    <2>2. CASE FindAt(w) # 0
      <3>1. Singly!Unlink(FindAt(w))
            BY <1>3, <2>2, SinglyIs DEF Singly!Remove
      <3>2. FindAt(w) \in 1..Len(nodes)
            BY <1>0, <2>2, FindAtFirst
      <3>3. CutOut(FindAt(w)) /\ Core' /\ WalkInv' /\ walk' # "back"
            BY <1>10, <3>1, <3>2
      <3> QED BY <1>0, <2>2, <3>3, RemoveIsRemove, SinglyStepIs
    <2> QED BY <2>1, <2>2
  <1>4. ASSUME NEW n \in 0..MaxLen, Singly!RemoveNth(n) PROVE ListStep
    <2>1. CASE n >= Len(nodes)
      <3>1. Return("refused", << >>) /\ UNCHANGED <<list, next, data, alloc, foreach>>
            BY <1>4, <2>1, SinglyIs DEF Singly!RemoveNth, Singly!NotFound, Singly!Return,
               Return, Singly!heap, Singly!foreach, foreach
      <3>2. Core' /\ WalkInv' /\ walk' # "back" /\ Values' = Values
            BY <1>11, <3>1
      <3> QED BY <1>0, <2>1, <3>1, <3>2, NthIsRefused, SinglyStepIs
    <2>2. CASE ~(n >= Len(nodes))
      <3>1. Singly!Unlink(n + 1)
            BY <1>4, <2>2, SinglyIs DEF Singly!RemoveNth
      <3>2. n + 1 \in 1..Len(nodes)
            BY <1>0, <2>2, CoreFacts
      <3>3. CutOut(n + 1) /\ Core' /\ WalkInv' /\ walk' # "back"
            BY <1>10, <3>1, <3>2
      <3> QED BY <1>0, <2>2, <3>3, RemoveNthIsRemoveNth, SinglyStepIs
    <2> QED BY <2>1, <2>2
  <1>5. ASSUME NEW w \in Wanted, Singly!Find(w) PROVE ListStep
    <2>1. /\ UNCHANGED <<list, next, data, alloc, foreach>>
          /\ IF FindAt(w) = 0 THEN Return("refused", << >>)
             ELSE Return("ok", <<data[nodes[FindAt(w)]]>>)
          BY <1>5, SinglyIs DEF Singly!Find, Singly!Found, Singly!NotFound, Singly!Return,
             Return, Singly!heap, Singly!foreach, foreach
    <2>2. Core' /\ WalkInv' /\ walk' # "back" /\ Values' = Values
          BY <1>11, <2>1
    <2> QED BY <1>0, <2>1, <2>2, FindIsFind, SinglyStepIs
  <1>6. ASSUME NEW n \in 0..MaxLen, Singly!NthData(n) PROVE ListStep
    <2>1. /\ UNCHANGED <<list, next, data, alloc, foreach>>
          /\ IF n >= Len(nodes) THEN Return("refused", << >>)
             ELSE Return("ok", <<data[nodes[n + 1]]>>)
          BY <1>6, SinglyIs DEF Singly!NthData, Singly!Found, Singly!NotFound,
             Singly!Return, Return, Singly!heap, Singly!foreach, foreach
    <2>2. Core' /\ WalkInv' /\ walk' # "back" /\ Values' = Values
          BY <1>11, <2>1
    <2> QED BY <1>0, <2>1, <2>2, NthIsNth, SinglyStepIs
  <1>7. ASSUME Singly!ReverseList PROVE ListStep
    <2> DEFINE before(i) == IF i = 1 THEN NULL ELSE nodes[i - 1]
               at(a)     == CHOOSE j \in 1..Len(nodes) : nodes[j] = a
    <2>1. next' = [a \in Addrs |-> IF \E i \in 1..Len(nodes) : nodes[i] = a
                                   THEN before(at(a)) ELSE next[a]]
          BY <1>7, SinglyIs DEF Singly!ReverseList
    <2>2. /\ Len(nodes) \in Nat /\ \A i \in 1..Len(nodes) : nodes[i] \in Addrs
          /\ \A i, j \in 1..Len(nodes) : nodes[i] = nodes[j] => i = j
          BY <1>0, CoreFacts
    <2>3. \A i \in 1..Len(nodes) : at(nodes[i]) = i
          BY <2>2
    <2>4. \A i \in 1..Len(nodes) : before(i) \in Addrs \cup {NULL}
      <3>1. \A i \in 1..Len(nodes) : i # 1 => i - 1 \in 1..Len(nodes)
            BY <2>2
      <3> QED BY <2>2, <3>1
    <2> HIDE DEF before, at
    <2>5. Links(next')
          BY <1>0, <2>1, <2>3, <2>4 DEF Links, Core
    <2>6. \A i \in 1..Len(nodes) : next'[nodes[i]] = before(i)
          BY <2>1, <2>2, <2>3
    <2>7. TurnRound
          BY <1>7, <2>5, <2>6, SinglyIs DEF TurnRound, Singly!ReverseList, Singly!final, final,
             Singly!Return, Return, Singly!foreach, foreach, before
    <2>8. WalkInv' /\ walk' # "back"
      <3>1. walk = "none" /\ UNCHANGED foreach
            BY <2>7 DEF TurnRound
      <3> QED BY <1>0, <3>1, NoWalk DEF WalkInv, foreach
    <2> QED BY <1>0, <2>7, <2>8, TurnRoundKeeps, TurnRoundIsReverse, SinglyStepIs
  <1>8. ASSUME Singly!Destroy PROVE ListStep
    <2>1. FreeAll
          BY <1>8, SinglyIs DEF Singly!Destroy, FreeAll, Singly!Wiped, Wiped, Singly!Return,
             Return, Singly!foreach, foreach
    <2>2. WalkInv' /\ walk' # "back"
      <3>1. walk = "none" /\ UNCHANGED foreach
            BY <2>1 DEF FreeAll
      <3> QED BY <1>0, <3>1, NoWalk DEF WalkInv, foreach
    <2> QED BY <1>0, <2>1, <2>2, FreeAllKeeps, FreeAllIsDestroy, SinglyStepIs
  <1>9. ASSUME Singly!Foreach \/ Singly!ForeachNext PROVE ListStep
    <2>0. UNCHANGED <<list, next, prev, data, alloc, preadded>> /\ UNCHANGED <<ret, out>>
          BY <1>9 DEF Singly!Foreach, Singly!ForeachNext, Singly!Elsewhere, Singly!heap
    <2>1. CASE Singly!Foreach
      <3>1. Visit("forward", list)
            BY <2>1, SinglyIs DEF Singly!Foreach, Singly!Visit, Visit, Singly!foreach, foreach
      <3> QED BY <1>0, <2>0, <3>1, ForeachKeeps, SinglyStepIs
    <2>2. CASE Singly!ForeachNext
      <3>1. walk = "forward" /\ VisitNext(next)
            BY <2>2 DEF Singly!ForeachNext, Singly!VisitNext, VisitNext
      <3> QED BY <1>0, <2>0, <3>1, ForeachNextKeeps, SinglyStepIs
    <2> QED BY <1>9, <2>1, <2>2
  <1> QED BY <1>1, <1>2, <1>3, <1>4, <1>5, <1>6, <1>7, <1>8, <1>9, SinglyIs DEF Singly!Next

LEMMA OtherStep ==
    ASSUME ListsInv, UNCHANGED <<listVars, kind>>
    PROVE  ListStep
  <1>1. UNCHANGED <<list, next, prev, data, alloc, preadded, foreach, ret, out>>
        BY DEF listVars
  <1>2. Core' /\ BackLinks' /\ WalkInv' /\ Values' = Values
        BY <1>1, LookedKeeps, NothingMoves DEF ListsInv
  <1>3. OneWay'
        BY <1>1 DEF ListsInv, OneWay, foreach
  <1> QED BY <1>1, <1>2, <1>3 DEF ListStep, ListsInv, L!vars
----------------------------------------------------------------------------
(***************************************************************************)
(* The initial states, and the theorems about the lists.                   *)
(***************************************************************************)
LEMMA StartsEmpty ==
    ASSUME ContainersInit
    PROVE  ListsInv /\ L!Init
  <1>1. /\ list = NULL /\ alloc = {} /\ next = [a \in Addrs |-> Junk]
        /\ data = [a \in Addrs |-> Junk] /\ ret = "ok" /\ out = << >>
        /\ walk = "none" /\ cursor = NULL /\ due = {}
    <2>1. CASE kind = "slist"
          BY <2>1 DEF ContainersInit, Singly!Init, Singly!NoForeach
    <2>2. CASE kind # "slist"
          BY <2>2 DEF ContainersInit, Init, NoForeach
    <2> QED BY <2>1, <2>2
  <1>2. /\ kind = "slist" => prev = [a \in Addrs |-> NULL] /\ preadded = TRUE
        /\ kind # "slist" => prev = [a \in Addrs |-> Junk] /\ preadded = FALSE
        BY DEF ContainersInit, Init
  <1>3. Chain(<< >>, list, next)
    <2>1. << >> \in Seq(Addrs) /\ Len(<< >>) = 0
          OBVIOUS
    <2> QED BY <1>1, <2>1 DEF Chain
  <1>4. nodes = << >>
        BY <1>3, NodesAre
  <1>5. Core
        BY <1>1, <1>3, <1>4 DEF Core
  <1>6. BackLinks
    <2>1. prev \in [Addrs -> Addrs \cup {NULL, Junk}] /\ preadded \in BOOLEAN
          BY <1>2
    <2>2. 1..Len(nodes) = {}
          BY <1>4
    <2> QED BY <2>1, <2>2 DEF BackLinks, PrevIsInverse
  <1>7. WalkInv /\ OneWay
        BY <1>1, <1>2 DEF WalkInv, OneWay
  <1>8. Values = << >>
        BY <1>4 DEF Values
  <1> QED BY <1>1, <1>5, <1>6, <1>7, <1>8 DEF ListsInv, L!Init

LEMMA IntactFollows ==
    ASSUME ListsInv
    PROVE  ListsIntact /\ ForeachVisits
  <1>0. Core /\ BackLinks /\ WalkInv
        BY DEF ListsInv
  <1> DEFINE n == Len(nodes)
  <1>1. /\ n \in Nat /\ n <= HeapSize /\ (list = NULL <=> n = 0)
        /\ list # NULL => list \in Addrs /\ nodes # << >>
        /\ \A i \in 1..n : /\ nodes[i] \in Addrs /\ nodes[i] \in alloc /\ nodes[i] # NULL
                           /\ next[nodes[i]] = IF i = n THEN NULL ELSE nodes[i + 1]
        /\ alloc \subseteq Addrs
        BY <1>0, CoreFacts
  <1>2. ASSUME walk = "none" PROVE ForeachVisits
    <2>1. cursor = NULL /\ due = {}
          BY <1>0, <1>2, WalkIsAt
    <2> QED BY <1>2, <2>1 DEF ForeachVisits, VisitsAll
  <1>3. ASSUME walk = "forward" PROVE ForeachVisits
    <2>1. PICK k \in 1..n : Forward(k)
          BY <1>0, <1>3, WalkIsAt
    <2>2. cursor = nodes[k] /\ \A a : a \in due <=> \E i \in k + 1..n : a = nodes[i]
          BY <2>1 DEF Forward
    <2>3. cursor \in alloc /\ cursor \in Addrs
          BY <1>1, <2>2
    <2>4. next[cursor] \in due \/ (next[cursor] = NULL /\ due = {})
      <3>1. CASE k = n
        <4>1. k + 1..n = {}
              BY <1>1, <3>1
        <4>2. due = {}
              BY <2>2, <4>1
        <4> QED BY <1>1, <2>2, <3>1, <4>2
      <3>2. CASE k # n
        <4>1. k + 1 \in k + 1..n
              BY <1>1, <3>2
        <4> QED BY <1>1, <2>2, <3>2, <4>1
      <3> QED BY <3>1, <3>2
    <2> QED BY <1>3, <2>3, <2>4 DEF ForeachVisits, VisitsAll
  <1>4. ASSUME walk = "back" PROVE ForeachVisits
    <2>1. PICK k \in 1..n : \E m \in 1..k : Back(k, m)
          BY <1>0, <1>4, WalkIsAt
    <2>2. PICK m \in 1..k : Back(k, m)
          BY <2>1
    <2>3. /\ cursor = nodes[k] /\ \A a : a \in due <=> \E i \in m..k - 1 : a = nodes[i]
          /\ prev[nodes[k]] = IF k <= m THEN NULL ELSE nodes[k - 1]
      <3>1. k \in 1..k
            BY <1>1
      <3> QED BY <2>2, <3>1 DEF Back
    <2>4. cursor \in alloc /\ cursor \in Addrs
          BY <1>1, <2>3
    <2>5. prev[cursor] \in due \/ (prev[cursor] = NULL /\ due = {})
      <3>1. CASE k <= m
        <4>1. m..k - 1 = {}
              BY <1>1, <3>1
        <4>2. due = {}
              BY <2>3, <4>1
        <4> QED BY <2>3, <3>1, <4>2
      <3>2. CASE ~(k <= m)
        <4>1. k - 1 \in m..k - 1
              BY <1>1, <3>2
        <4> QED BY <2>3, <3>2, <4>1
      <3> QED BY <3>1, <3>2
    <2> QED BY <1>4, <2>4, <2>5 DEF ForeachVisits, VisitsAll
  <1>5. cursor \in Addrs \cup {NULL}
    <2>1. walk = "forward" => cursor \in Addrs
          BY <1>0, <1>1, WalkIsAt DEF Forward
    <2>2. walk = "back" => cursor \in Addrs
          BY <1>0, <1>1, WalkIsAt DEF Back
    <2> QED BY <1>0, <2>1, <2>2, WalkIsAt DEF Core
  <1>6. TypeOK
        BY <1>0, <1>1, <1>5 DEF TypeOK, Core, BackLinks
  <1>7. NoneLost
    <2>1. list # NULL => next[nodes[n]] = NULL
      <3>1. n # 0 => n \in 1..n
            BY <1>1
      <3> QED BY <1>1, <3>1
    <2>2. alloc = {nodes[i] : i \in 1..n}
          BY <1>0 DEF Core
    <2> QED BY <1>1, <2>1, <2>2 DEF NoneLost, final
  <1>8. PrevIsInverse
        BY <1>0 DEF BackLinks
  <1> QED BY <1>0, <1>2, <1>3, <1>4, <1>6, <1>7, <1>8 DEF ListsIntact, Core

LEMMA ListsKept ==
    ASSUME Mixed = FALSE, ListsInv, [ContainersNext]_<<listVars, treeVars, kind>>
    PROVE  ListStep
  <1>1. CASE kind = "list" /\ Next /\ UNCHANGED <<treeVars, kind>>
        BY <1>1, DListStep
  <1>2. CASE kind = "slist" /\ Singly!Next /\ UNCHANGED <<prev, preadded, treeVars, kind>>
        BY <1>2, SListStep
  <1>3. CASE UNCHANGED <<listVars, kind>>
        BY <1>3, OtherStep
  <1> QED BY <1>1, <1>2, <1>3 DEF ContainersNext

(***************************************************************************)
(* No node of a list is lost and none is used after it was freed, through  *)
(* every function of ac_slist.c and ac_list.c, called from inside a        *)
(* foreach or not, if the program does not follow `prev' after preadd      *)
(* (ac_list.c:152).                                                        *)
(***************************************************************************)
THEOREM ListsStayIntact == Mixed = FALSE => (ContainersSpec => []ListsIntact)
  <1> SUFFICES ASSUME Mixed = FALSE PROVE ContainersSpec => []ListsIntact
      OBVIOUS
  <1>1. ContainersInit => ListsInv
        BY StartsEmpty
  <1>2. ListsInv /\ [ContainersNext]_<<listVars, treeVars, kind>> => ListsInv'
        BY ListsKept DEF ListStep
  <1>3. ListsInv => ListsIntact
        BY IntactFollows
  <1> QED BY <1>1, <1>2, <1>3, PTL DEF ContainersSpec

(***************************************************************************)
(* A foreach visits each node that stays once, in either direction,        *)
(* whatever its callback adds and removes (ac_slist.c:304-311,             *)
(* ac_list.c:318-349).                                                     *)
(***************************************************************************)
THEOREM ListsForeachVisits == Mixed = FALSE => (ContainersSpec => []ForeachVisits)
  <1> SUFFICES ASSUME Mixed = FALSE PROVE ContainersSpec => []ForeachVisits
      OBVIOUS
  <1>1. ContainersInit => ListsInv
        BY StartsEmpty
  <1>2. ListsInv /\ [ContainersNext]_<<listVars, treeVars, kind>> => ListsInv'
        BY ListsKept DEF ListStep
  <1>3. ListsInv => ForeachVisits
        BY IntactFollows
  <1> QED BY <1>1, <1>2, <1>3, PTL DEF ContainersSpec

(***************************************************************************)
(* Both lists implement a sequence of items: each call returns and leaves  *)
(* behind what the same call on a sequence does (ac_slist.c, ac_list.c).   *)
(***************************************************************************)
THEOREM ListsImplementItemList == Mixed = FALSE => (ContainersSpec => ImplementsList)
  <1> SUFFICES ASSUME Mixed = FALSE PROVE ContainersSpec => ImplementsList
      OBVIOUS
  <1>1. ContainersInit => ListsInv /\ L!Init
        BY StartsEmpty
  <1>2. ListsInv /\ [ContainersNext]_<<listVars, treeVars, kind>>
           => ListsInv' /\ [L!Next]_(L!vars)
        BY ListsKept DEF ListStep
  <1> QED BY <1>1, <1>2, PTL DEF ContainersSpec, ImplementsList, L!Spec
----------------------------------------------------------------------------
(***************************************************************************)
(* The binary tree and the quark.  TreeInv is what a tree of its own and   *)
(* that of a quark have in common.                                         *)
(***************************************************************************)
treeKey == [n \in OwnNodes \cup Quarks!Nodes |->
               IF n \in OwnNodes THEN NodeKey[n] ELSE n.string]

KeysDiffer == \A m, n \in qt : treeKey[m] = treeKey[n] => m = n

TreeInv ==
    /\ life \in {"none", "open"} /\ live = qt /\ KeysDiffer
    /\ life = "none" => qt = {}
    /\ kind = "btree" => qt \subseteq OwnNodes
    /\ kind = "quark" => qt \subseteq Quarks!Nodes

QuarkInv ==
    /\ lastId \in Int /\ lastId >= -1
    /\ kind = "quark" => Quarks!TreeIsArray
    /\ kind # "quark" => lastId = -1

QuarksInv == TreeInv /\ QuarkInv

QuarkStep == QuarksInv' /\ [Quarks!I!Next]_(Quarks!I!vars)

LEMMA KnownIsEmpty ==
    /\ lastId = -1 => Quarks!known = << >>
    /\ life = "none" => Quarks!known = << >>
  <1>1. ASSUME lastId = -1 PROVE [i \in 1..lastId + 1 |-> quarks[i - 1].string] = << >>
    <2>1. 1..lastId + 1 = {}
          BY <1>1
    <2> QED BY <2>1
  <1> QED BY <1>1 DEF Quarks!known

LEMMA BTreeStep ==
    ASSUME QuarksInv, kind = "btree", Tree!Next, UNCHANGED <<quarks, lastId, answer, kind>>
    PROVE  QuarkStep
  <1>0. /\ life \in {"none", "open"} /\ live = qt /\ KeysDiffer
        /\ life = "none" => qt = {}
        /\ qt \subseteq OwnNodes /\ lastId = -1
        BY DEF QuarksInv, TreeInv, QuarkInv
  <1>1. (lastId = -1 => Quarks!known = << >>)'
        BY KnownIsEmpty, PTL
  <1>2. UNCHANGED Quarks!I!vars
        BY <1>0, <1>1, KnownIsEmpty DEF Quarks!I!vars
  <1>3. QuarkInv'
        BY <1>0 DEF QuarkInv
  <1> SUFFICES life' \in {"none", "open"} /\ live' = qt' /\ KeysDiffer'
               /\ (life' = "none" => qt' = {}) /\ qt' \subseteq OwnNodes
      BY <1>2, <1>3 DEF QuarkStep, QuarksInv, TreeInv
  <1>4. CASE Tree!New
        BY <1>0, <1>4 DEF Tree!New, KeysDiffer
  <1>5. CASE Tree!Destroy
        BY <1>0, <1>5 DEF Tree!Destroy, KeysDiffer
  <1>6. CASE Tree!Foreach \/ Tree!IsEmpty \/ \E n \in OwnNodes : Tree!Lookup(n)
        BY <1>0, <1>6 DEF Tree!Foreach, Tree!IsEmpty, Tree!Lookup, KeysDiffer
  <1>7. ASSUME NEW n \in OwnNodes, Tree!Add(n)
        PROVE  life' \in {"none", "open"} /\ live' = qt' /\ KeysDiffer'
               /\ (life' = "none" => qt' = {}) /\ qt' \subseteq OwnNodes
    <2>1. life' = life /\ life = "open"
          BY <1>7 DEF Tree!Add
    <2>2. CASE Tree!tfind(n) # NULL
      <3>1. qt' = qt /\ live' = live
            BY <1>7, <2>2 DEF Tree!Add
      <3> QED BY <1>0, <2>1, <3>1 DEF KeysDiffer
    <2>3. CASE Tree!tfind(n) = NULL
      <3>1. qt' = qt \cup {n} /\ live' = live \cup {n}
            BY <1>7, <2>3 DEF Tree!Add
      <3>2. Tree!equal(n) = {}
        <4>1. Tree!equal(n) \subseteq OwnNodes
              BY <1>0 DEF Tree!equal
        <4>2. Tree!equal(n) # {} => Tree!tfind(n) \in Tree!equal(n)
              BY DEF Tree!tfind
        <4> QED BY <2>3, <4>1, <4>2, NodesAssumption
      <3>3. \A m \in qt : treeKey[m] # treeKey[n]
            BY <3>2 DEF Tree!equal, treeKey
      <3>4. KeysDiffer'
            BY <1>0, <3>1, <3>3 DEF KeysDiffer
      <3> QED BY <1>0, <2>1, <3>1, <3>4
    <2> QED BY <2>2, <2>3
  <1>8. ASSUME NEW n \in OwnNodes, Tree!Remove(n)
        PROVE  life' \in {"none", "open"} /\ live' = qt' /\ KeysDiffer'
               /\ (life' = "none" => qt' = {}) /\ qt' \subseteq OwnNodes
    <2>1. life' = life /\ life = "open"
          BY <1>8 DEF Tree!Remove
    <2>2. CASE Tree!tfind(n) = NULL
      <3>1. qt' = qt /\ live' = live
            BY <1>8, <2>2 DEF Tree!Remove
      <3> QED BY <1>0, <2>1, <3>1 DEF KeysDiffer
    <2>3. CASE Tree!tfind(n) # NULL
      <3>1. qt' = qt \ {Tree!tfind(n)} /\ live' = live \ {Tree!tfind(n)}
            BY <1>8, <2>3 DEF Tree!Remove, Tree!tdelete
      <3> QED BY <1>0, <2>1, <3>1 DEF KeysDiffer
    <2> QED BY <2>2, <2>3
  <1> QED BY <1>4, <1>5, <1>6, <1>7, <1>8 DEF Tree!Next

LEMMA QuarkKeys ==
    \A n \in Quarks!Nodes :
       /\ n # NULL /\ n.string \in Strings /\ treeKey[n] = n.string
       /\ Quarks!T!equal(n) = {m \in qt : m \in Quarks!Nodes => m.string = n.string}
          \/ ~(qt \subseteq Quarks!Nodes)
  <1>1. \A n \in Quarks!Nodes : n # NULL /\ n.string \in Strings /\ n \notin OwnNodes
        BY NodesAssumption DEF Quarks!Nodes
  <1>2. \A n \in Quarks!Nodes : treeKey[n] = n.string
        BY <1>1 DEF treeKey
  <1>3. ASSUME NEW n \in Quarks!Nodes, qt \subseteq Quarks!Nodes
        PROVE  Quarks!T!equal(n) = {m \in qt : m \in Quarks!Nodes => m.string = n.string}
        BY <1>3 DEF Quarks!T!equal
  <1> QED BY <1>1, <1>2, <1>3

LEMMA QuarkNode ==
    ASSUME NEW i \in Nat, i <= Cardinality(Strings), NEW s \in Strings
    PROVE  [id |-> i, string |-> s] \in Quarks!Nodes
  <1>1. Cardinality(Strings) \in Nat
        BY FS_CardinalityType, NodesAssumption
  <1> DEFINE ids == 0..Cardinality(Strings)
  <1>2. i \in ids
        BY <1>1
  <1>3. Quarks!Nodes = [id : ids, string : Strings]
        BY DEF Quarks!Nodes, Cardinality, Quarks!Cardinality
  <1> HIDE DEF ids
  <1>4. [id |-> i, string |-> s] \in [id : ids, string : Strings]
        BY <1>2
  <1> QED BY <1>3, <1>4

(***************************************************************************)
(* A quark that is open: an array of as many nodes as it knows strings.    *)
(***************************************************************************)
LEMMA KnownIs ==
    ASSUME QuarksInv, kind = "quark", life = "open"
    PROVE  /\ lastId \in Int /\ lastId + 1 \in Nat
           /\ DOMAIN quarks = 0..lastId
           /\ \A i \in 0..lastId : /\ quarks[i] \in qt /\ quarks[i] \in Quarks!Nodes
                                   /\ quarks[i].id = i /\ quarks[i].string \in Strings
           /\ \A m \in qt : m \in Quarks!Nodes /\ \E i \in 0..lastId : m = quarks[i]
           /\ \A m, n \in qt : m.string = n.string => m = n
           /\ Quarks!known \in Seq(Strings) /\ Len(Quarks!known) = lastId + 1
           /\ \A i \in 1..lastId + 1 : Quarks!known[i] = quarks[i - 1].string
           /\ lastId + 1 \in 0..Cardinality(Strings)
  <1>1. /\ lastId \in Int /\ lastId >= -1 /\ DOMAIN quarks = 0..lastId
        /\ qt = {quarks[i] : i \in 0..lastId} /\ \A i \in 0..lastId : quarks[i].id = i
        /\ qt \subseteq Quarks!Nodes
        BY DEF QuarksInv, QuarkInv, TreeInv, Quarks!TreeIsArray
  <1>2. \A i \in 0..lastId : quarks[i] \in qt /\ quarks[i] \in Quarks!Nodes
        BY <1>1
  <1>3. \A m, n \in qt : m.string = n.string => m = n
        BY <1>1, QuarkKeys DEF QuarksInv, TreeInv, KeysDiffer
  <1> DEFINE n == lastId + 1
             f == Quarks!known
  <1>4. n \in Nat
        BY <1>1
  <1>5. f = [i \in 1..n |-> quarks[i - 1].string]
        BY DEF Quarks!known
  <1> HIDE DEF f
  <1>6. \A i \in 1..n : i - 1 \in 0..lastId
        BY <1>1
  <1>7. \A i \in 1..n : quarks[i - 1].string \in Strings
        BY <1>2, <1>6, QuarkKeys
  <1>8. f \in [1..n -> Strings]
        BY <1>5, <1>7
  <1>9. ASSUME NEW i \in 1..n, NEW j \in 1..n, f[i] = f[j] PROVE i = j
    <2>1. quarks[i - 1].string = quarks[j - 1].string
          BY <1>5, <1>9
    <2>2. quarks[i - 1] = quarks[j - 1]
          BY <1>2, <1>3, <1>6, <2>1
    <2>3. i - 1 = j - 1
          BY <1>1, <1>6, <2>2
    <2> QED BY <2>3
  <1>10. n <= Cardinality(Strings) /\ Cardinality(Strings) \in Nat
    <2>1. f \in Injection(1..n, Strings)
          BY <1>8, <1>9 DEF Injection, IsInjective
    <2>2. Cardinality(1..n) = n
          BY <1>4, FS_Interval
    <2>3. Cardinality(1..n) <= Cardinality(Strings)
          BY <2>1, FS_Injection, NodesAssumption
    <2>4. Cardinality(Strings) \in Nat
          BY FS_CardinalityType, NodesAssumption
    <2> QED BY <2>2, <2>3, <2>4
  <1>11. f \in Seq(Strings) /\ Len(f) = n
         BY <1>4, <1>8
  <1>12. n \in 0..Cardinality(Strings)
         BY <1>4, <1>10
  <1>13. \A i \in 0..lastId : quarks[i].string \in Strings
         BY <1>2, QuarkKeys
  <1>14. \A i \in 1..n : f[i] = quarks[i - 1].string
         BY <1>5
  <1> QED BY <1>1, <1>2, <1>3, <1>4, <1>11, <1>12, <1>13, <1>14 DEF f

LEMMA QuarkIs ==
    ASSUME kind' = "quark", life' \in {"none", "open"}, live' = qt',
           life' = "none" => qt' = {}, qt' \subseteq Quarks!Nodes,
           \A m, n \in qt' : m.string = n.string => m = n,
           lastId' \in Int, lastId' >= -1, Quarks!TreeIsArray'
    PROVE  QuarksInv'
  <1>1. KeysDiffer'
    <2>1. \A m, n \in qt' : treeKey[m] = treeKey[n] => m = n
          BY QuarkKeys
    <2> QED BY <2>1 DEF KeysDiffer
  <1> QED BY <1>1 DEF QuarksInv, TreeInv, QuarkInv

LEMMA NewString ==
    ASSUME QuarksInv, kind = "quark", kind' = "quark", life = "open", NEW s \in Strings,
           Quarks!from_string(s), Quarks!T!tfind([id |-> 0, string |-> s]) = NULL
    PROVE  QuarkStep
  <1> DEFINE qnl == [id |-> 0, string |-> s]
             qn  == [id |-> lastId + 1, string |-> s]
             k   == lastId + 1
  <1>1. /\ lastId \in Int /\ k \in Nat /\ k \in 0..Cardinality(Strings)
        /\ DOMAIN quarks = 0..lastId
        /\ \A i \in 0..lastId : quarks[i] \in qt /\ quarks[i].id = i
        /\ \A m \in qt : m \in Quarks!Nodes /\ \E i \in 0..lastId : m = quarks[i]
        /\ \A m, n \in qt : m.string = n.string => m = n
        /\ Quarks!known \in Seq(Strings) /\ Len(Quarks!known) = k
        /\ \A i \in 1..k : Quarks!known[i] = quarks[i - 1].string
        BY KnownIs
  <1>2. qnl \in Quarks!Nodes /\ qn \in Quarks!Nodes
    <2>1. Cardinality(Strings) \in Nat
          BY FS_CardinalityType, NodesAssumption
    <2>2. 0 <= Cardinality(Strings) /\ k <= Cardinality(Strings)
          BY <1>1, <2>1
    <2> QED BY <1>1, <2>2, QuarkNode
  <1>3. qt \subseteq Quarks!Nodes
        BY <1>1
  <1>4. \A m \in qt : m.string # s
    <2>1. Quarks!T!equal(qnl) = {m \in qt : m \in Quarks!Nodes => m.string = s}
          BY <1>2, <1>3, QuarkKeys
    <2>2. Quarks!T!equal(qnl) = {}
      <3>1. Quarks!T!equal(qnl) # {} => Quarks!T!tfind(qnl) \in Quarks!T!equal(qnl)
            BY DEF Quarks!T!tfind
      <3> QED BY <1>3, <2>1, <3>1, QuarkKeys
    <2> QED BY <2>1, <2>2
  <1>5. Quarks!T!tfind(qn) = NULL
    <2>1. Quarks!T!equal(qn) = {m \in qt : m \in Quarks!Nodes => m.string = s}
          BY <1>2, <1>3, QuarkKeys
    <2>2. Quarks!T!equal(qn) = {}
          BY <1>1, <1>4, <2>1
    <2> QED BY <2>2 DEF Quarks!T!tfind
  <1>6. /\ lastId' = k /\ Quarks!T!Add(qn) /\ answer' = k
        /\ quarks' = [i \in DOMAIN quarks \cup {k} |-> IF i = k THEN qn ELSE quarks[i]]
        BY DEF Quarks!from_string, Quarks!NextId, Quarks!Grow
  <1>7. /\ life' = life /\ qt' = qt \cup {qn} /\ live' = live \cup {qn}
        BY <1>5, <1>6 DEF Quarks!T!Add
  <1>8. live = qt
        BY DEF QuarksInv, TreeInv
  <1>9. /\ DOMAIN quarks' = 0..k /\ quarks'[k] = qn
        /\ \A i \in 0..lastId : quarks'[i] = quarks[i] /\ i \in 0..k
        /\ \A i \in 0..k : i = k \/ i \in 0..lastId
    <2>1. 0..lastId \cup {k} = 0..k /\ k \notin 0..lastId
          BY <1>1
    <2>2. quarks' = [i \in 0..k |-> IF i = k THEN qn ELSE quarks[i]]
          BY <1>1, <1>6, <2>1
    <2>3. /\ \A i \in 0..lastId : i \in 0..k /\ i # k
          /\ \A i \in 0..k : i = k \/ i \in 0..lastId
          /\ k \in 0..k
          BY <1>1
    <2> HIDE DEF qn
    <2> QED BY <2>2, <2>3
  <1>10. qn.id = k /\ qn.string = s
         OBVIOUS
  <1> HIDE DEF qn, qnl
  <1>11. Quarks!TreeIsArray'
    <2>1. \A i \in 0..k : quarks'[i].id = i
          BY <1>1, <1>9, <1>10
    <2>2. ASSUME NEW m PROVE m \in qt' <=> \E i \in 0..k : m = quarks'[i]
      <3>1. k \in 0..k
            BY <1>1
      <3>2. m \in qt' <=> m = qn \/ \E i \in 0..lastId : m = quarks[i]
            BY <1>1, <1>7
      <3>3. ASSUME NEW i \in 0..lastId, m = quarks[i] PROVE \E j \in 0..k : m = quarks'[j]
            BY <1>9, <3>3
      <3>4. ASSUME NEW i \in 0..k, m = quarks'[i]
            PROVE  m = qn \/ \E j \in 0..lastId : m = quarks[j]
        <4>1. CASE i = k
              BY <1>9, <3>4, <4>1
        <4>2. CASE i \in 0..lastId
              BY <1>9, <3>4, <4>2
        <4> QED BY <1>9, <4>1, <4>2
      <3> HIDE DEF k
      <3> QED BY <1>9, <3>1, <3>2, <3>3, <3>4
    <2>3. qt' = {quarks'[i] : i \in 0..k}
          BY <2>2
    <2> HIDE DEF k
    <2> QED BY <1>6, <1>9, <2>1, <2>3 DEF Quarks!TreeIsArray
  <1>12. \A m, n \in qt' : m.string = n.string => m = n
         BY <1>1, <1>4, <1>7, <1>10
  <1>13. QuarksInv'
    <2>1. qt' \subseteq Quarks!Nodes /\ live' = qt'
          BY <1>2, <1>3, <1>7, <1>8
    <2>2. lastId' \in Int /\ lastId' >= -1
          BY <1>1, <1>6
    <2>3. life' = "open"
          BY <1>7
    <2> QED BY <1>11, <1>12, <2>1, <2>2, <2>3, QuarkIs
  <1>14. Quarks!known' = Append(Quarks!known, s)
    <2> DEFINE t == Append(Quarks!known, s)
    <2>1. /\ t \in Seq(Strings) /\ Len(t) = k + 1 /\ t[k + 1] = s
          /\ \A i \in 1..k : t[i] = Quarks!known[i]
          BY <1>1, AppendProperties
    <2>2. Quarks!known' = [i \in 1..k + 1 |-> quarks'[i - 1].string]
          BY <1>6, <1>7 DEF Quarks!known
    <2>3. ASSUME NEW i \in 1..k + 1 PROVE t[i] = quarks'[i - 1].string
      <3>1. CASE i = k + 1
        <4>1. i - 1 = k
              BY <1>1, <3>1
        <4> QED BY <1>9, <1>10, <2>1, <3>1, <4>1
      <3>2. CASE i # k + 1
        <4>1. i \in 1..k /\ i - 1 \in 0..lastId
              BY <1>1, <3>2
        <4> QED BY <1>1, <1>9, <2>1, <4>1
      <3> QED BY <3>1, <3>2
    <2> HIDE DEF t, k
    <2>4. t = [i \in 1..Len(t) |-> t[i]]
          BY <2>1
    <2>5. t = [i \in 1..k + 1 |-> quarks'[i - 1].string]
          BY <2>1, <2>3, <2>4
    <2> QED BY <2>2, <2>5 DEF t
  <1>15. \A i \in 1..Len(Quarks!known) : Quarks!known[i] # s
    <2>1. \A i \in 1..k : i - 1 \in 0..lastId
          BY <1>1
    <2>2. \A i \in 0..lastId : quarks[i].string # s
          BY <1>1, <1>4
    <2>3. ASSUME NEW i \in 1..k PROVE Quarks!known[i] # s
      <3>1. Quarks!known[i] = quarks[i - 1].string
            BY <1>1
      <3> QED BY <2>1, <2>2, <3>1
    <2> QED BY <1>1, <2>3
  <1>16. Quarks!I!FromString
         BY <1>1, <1>6, <1>14, <1>15 DEF Quarks!I!FromString
  <1> QED BY <1>13, <1>16 DEF QuarkStep, Quarks!I!Next

LEMMA OldString ==
    ASSUME QuarksInv, kind = "quark", kind' = "quark", life = "open", NEW s \in Strings,
           Quarks!from_string(s), Quarks!T!tfind([id |-> 0, string |-> s]) # NULL
    PROVE  QuarkStep
  <1> DEFINE qnl == [id |-> 0, string |-> s]
             f   == Quarks!T!tfind(qnl)
             e   == Quarks!T!equal(qnl)
  <1>1. /\ lastId \in Int /\ lastId + 1 \in Nat /\ Cardinality(Strings) \in Nat
        /\ \A i \in 0..lastId : quarks[i].id = i
        /\ \A m \in qt : m \in Quarks!Nodes /\ \E i \in 0..lastId : m = quarks[i]
        /\ Len(Quarks!known) = lastId + 1
        /\ \A i \in 1..lastId + 1 : Quarks!known[i] = quarks[i - 1].string
        BY KnownIs, FS_CardinalityType, NodesAssumption
  <1>2. qnl \in Quarks!Nodes
    <2>1. 0 <= Cardinality(Strings)
          BY <1>1
    <2> QED BY <2>1, QuarkNode
  <1>3. e = {m \in qt : m \in Quarks!Nodes => m.string = s}
        BY <1>1, <1>2, QuarkKeys
  <1>4. f \in e
        BY DEF Quarks!T!tfind
  <1>5. UNCHANGED <<life, qt, live, quarks, lastId>> /\ answer' = f.id
        BY DEF Quarks!from_string, Quarks!T!Lookup
  <1> HIDE DEF f, e
  <1>6. f \in qt /\ f.string = s
        BY <1>1, <1>3, <1>4
  <1>7. PICK i \in 0..lastId : f = quarks[i]
        BY <1>1, <1>6
  <1>8. Quarks!known' = Quarks!known
        BY <1>5 DEF Quarks!known
  <1>9. QuarksInv'
        BY <1>5 DEF QuarksInv, TreeInv, QuarkInv, KeysDiffer, Quarks!TreeIsArray
  <1>10. i + 1 \in 1..Len(Quarks!known) /\ Quarks!known[i + 1] = s /\ answer' = (i + 1) - 1
    <2>1. i + 1 \in 1..lastId + 1 /\ (i + 1) - 1 = i
          BY <1>1
    <2> QED BY <1>1, <1>5, <1>6, <1>7, <2>1
  <1>11. Quarks!I!FromString
         BY <1>8, <1>10 DEF Quarks!I!FromString
  <1> QED BY <1>9, <1>11 DEF QuarkStep, Quarks!I!Next

LEMMA StringOfNumber ==
    ASSUME QuarksInv, kind = "quark", kind' = "quark", NEW id \in 0..MaxId,
           Quarks!to_string(id)
    PROVE  QuarkStep
  <1>1. /\ life = "open" /\ UNCHANGED <<life, qt, live, quarks, lastId>>
        /\ answer' = IF id > lastId THEN NULL ELSE quarks[id].string
        BY DEF Quarks!to_string
  <1>2. /\ lastId \in Int /\ Len(Quarks!known) = lastId + 1
        /\ \A i \in 1..lastId + 1 : Quarks!known[i] = quarks[i - 1].string
        BY <1>1, KnownIs
  <1>3. Quarks!known' = Quarks!known
        BY <1>1 DEF Quarks!known
  <1>4. QuarksInv'
        BY <1>1 DEF QuarksInv, TreeInv, QuarkInv, KeysDiffer, Quarks!TreeIsArray
  <1>5. answer' = IF id < Len(Quarks!known) THEN Quarks!known[id + 1] ELSE NULL
    <2>1. CASE id > lastId
      <3>1. ~(id < Len(Quarks!known))
            BY <1>2, <2>1
      <3> QED BY <1>1, <2>1, <3>1
    <2>2. CASE ~(id > lastId)
      <3>1. id < Len(Quarks!known) /\ id + 1 \in 1..lastId + 1 /\ (id + 1) - 1 = id
            BY <1>2, <2>2
      <3> QED BY <1>1, <1>2, <2>2, <3>1
    <2> QED BY <2>1, <2>2
  <1>6. Quarks!I!ToString
        BY <1>3, <1>5 DEF Quarks!I!ToString
  <1> QED BY <1>4, <1>6 DEF QuarkStep, Quarks!I!Next

LEMMA QuarkNext ==
    ASSUME QuarksInv, kind = "quark", Quarks!Next, UNCHANGED kind
    PROVE  QuarkStep
  <1>0. /\ life \in {"none", "open"} /\ live = qt /\ (life = "none" => qt = {})
        /\ lastId \in Int /\ lastId >= -1
        BY DEF QuarksInv, TreeInv, QuarkInv
  <1>1. CASE Quarks!init
    <2>1. /\ life' = "open" /\ qt' = {} /\ live' = {} /\ lastId' = -1 /\ answer' = answer
          /\ quarks' = [i \in {} |-> NULL]
          BY <1>0, <1>1 DEF Quarks!init, Quarks!T!New
    <2>2. (lastId = -1 => Quarks!known = << >>)'
          BY KnownIsEmpty, PTL
    <2>3. Quarks!I!Clear
          BY <2>1, <2>2 DEF Quarks!I!Clear
    <2>4. Quarks!TreeIsArray'
      <3>1. 0..-1 = {}
            OBVIOUS
      <3> QED BY <2>1, <3>1 DEF Quarks!TreeIsArray
    <2>5. QuarksInv'
          BY <2>1, <2>4, QuarkIs
    <2> QED BY <2>3, <2>5 DEF QuarkStep, Quarks!I!Next
  <1>2. CASE Quarks!destroy
    <2>1. /\ life' = "none" /\ qt' = {} /\ live' = {} /\ UNCHANGED <<quarks, lastId, answer>>
          BY <1>0, <1>2 DEF Quarks!destroy, Quarks!T!Destroy
    <2>2. (life = "none" => Quarks!known = << >>)'
          BY KnownIsEmpty, PTL
    <2>3. Quarks!I!Clear
          BY <2>1, <2>2 DEF Quarks!I!Clear
    <2>4. Quarks!TreeIsArray'
          BY <2>1 DEF Quarks!TreeIsArray
    <2>5. QuarksInv'
          BY <1>0, <2>1, <2>4, QuarkIs
    <2> QED BY <2>3, <2>5 DEF QuarkStep, Quarks!I!Next
  <1>3. ASSUME life = "open", NEW s \in Strings, Quarks!from_string(s) PROVE QuarkStep
        BY <1>3, NewString, OldString
  <1>4. ASSUME NEW id \in 0..MaxId, Quarks!to_string(id) PROVE QuarkStep
        BY <1>4, StringOfNumber
  <1> QED BY <1>1, <1>2, <1>3, <1>4 DEF Quarks!Next

LEMMA QuarksKept ==
    ASSUME QuarksInv, [ContainersNext]_<<listVars, treeVars, kind>>
    PROVE  QuarkStep
  <1>1. CASE kind = "quark" /\ Quarks!Next /\ UNCHANGED <<listVars, kind>>
        BY <1>1, QuarkNext
  <1>2. CASE kind = "btree" /\ Tree!Next /\ UNCHANGED <<quarks, lastId, answer, listVars, kind>>
        BY <1>2, BTreeStep
  <1>3. CASE UNCHANGED <<treeVars, kind>>
    <2>1. UNCHANGED <<life, qt, live, quarks, lastId, answer, kind>>
          BY <1>3 DEF treeVars
    <2>2. Quarks!known' = Quarks!known
          BY <2>1 DEF Quarks!known
    <2>3. QuarksInv'
          BY <2>1 DEF QuarksInv, TreeInv, QuarkInv, KeysDiffer, Quarks!TreeIsArray
    <2> QED BY <2>1, <2>2, <2>3 DEF QuarkStep, Quarks!I!vars
  <1> QED BY <1>1, <1>2, <1>3 DEF ContainersNext

LEMMA QuarksStart ==
    ASSUME ContainersInit
    PROVE  QuarksInv /\ Quarks!I!Init
  <1>1. life = "none" /\ qt = {} /\ live = {} /\ lastId = -1 /\ answer = NULL
        BY DEF ContainersInit, Quarks!Init, Quarks!T!Init
  <1>2. Quarks!known = << >>
        BY <1>1, KnownIsEmpty
  <1> QED BY <1>1, <1>2 DEF QuarksInv, TreeInv, QuarkInv, KeysDiffer, Quarks!TreeIsArray,
             Quarks!I!Init

(***************************************************************************)
(* The nodes of a tree are those handed over and not freed, no two of them *)
(* are equal, and the array of a quark has each at its number              *)
(* (ac_btree.c:142, :149, ac_quark.c:84-88).                               *)
(***************************************************************************)
THEOREM TreesStayIntact == ContainersSpec => []TreesIntact
  <1>1. ContainersInit => QuarksInv
        BY QuarksStart
  <1>2. QuarksInv /\ [ContainersNext]_<<listVars, treeVars, kind>> => QuarksInv'
        BY QuarksKept DEF QuarkStep
  <1>3. QuarksInv => TreesIntact
        BY DEF QuarksInv, TreeInv, QuarkInv, TreesIntact, Tree!FreesWhatItHeld,
               Tree!OnePerKey, KeysDiffer, treeKey
  <1> QED BY <1>1, <1>2, <1>3, PTL DEF ContainersSpec

(***************************************************************************)
(* A quark gives out the numbers 0, 1, 2, ... in the order the strings are *)
(* first seen, and each leads back to its string (ac_quark.c:63-115).      *)
(***************************************************************************)
THEOREM QuarkImplementsIntern == ContainersSpec => ImplementsIntern
  <1>1. ContainersInit => QuarksInv /\ Quarks!I!Init
        BY QuarksStart
  <1>2. QuarksInv /\ [ContainersNext]_<<listVars, treeVars, kind>>
           => QuarksInv' /\ [Quarks!I!Next]_(Quarks!I!vars)
        BY QuarksKept DEF QuarkStep
  <1> QED BY <1>1, <1>2, PTL
          DEF ContainersSpec, ImplementsIntern, Quarks!ImplementsIntern, Quarks!I!Spec
=============================================================================
