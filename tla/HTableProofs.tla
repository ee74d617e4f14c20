---------------------------- MODULE HTableProofs ----------------------------
(***************************************************************************)
(* Proofs about HTable, for every set of keys, names and data, every hash  *)
(* function and every number of buckets.                                   *)
(***************************************************************************)
EXTENDS HTable, FiniteSetTheorems, Lemmas

AllIn(bs) == UNION {Seqs!ToSet(bs[b]) : b \in Indices}

Distinct(list) ==
    \A i, j \in 1..Len(list) : NameOf[list[i].key] = NameOf[list[j].key] => i = j

Good(bs) ==
    /\ bs \in [Indices -> Seq(Entries)]
    /\ \A b \in Indices : Distinct(bs[b])
    /\ \A b \in Indices : \A i \in 1..Len(bs[b]) : BucketOf(bs[b][i].key) = b

(***************************************************************************)
(* The order in which foreach meets names.                                 *)
(***************************************************************************)
InOrder(list, m, n) ==
    \E i, j \in 1..Len(list) :
       i <= j /\ NameOf[list[i].key] = m /\ NameOf[list[j].key] = n

AtOrBefore(bs, m, n) ==
    \/ \E b \in Indices : InOrder(bs[b], m, n)
    \/ \E b, c \in Indices : b < c /\ InOrder(bs[b], m, m) /\ InOrder(bs[c], n, n)

(***************************************************************************)
(* A foreach has visited the pinned names up to the cursor's, once, and    *)
(* none of those after it.                                                 *)
(***************************************************************************)
VisitedSoFar ==
    IF cursor = Missing
    THEN pinned = {} /\ visits = [n \in Names |-> 0]
    ELSE /\ life = "open" /\ NameOf[cursor] \in Present /\ pinned \subseteq Present
         /\ \A n \in pinned :
               visits[n] = IF AtOrBefore(buckets, n, NameOf[cursor]) THEN 1 ELSE 0

DataOnce ==
    freesData => \A e, f \in AllIn(buckets) : e.data = f.data => e = f

IInv ==
    /\ TypeOK
    /\ Good(buckets)
    /\ IsFiniteSet(Present) /\ count = Cardinality(Present)
    /\ OwnsItsEntries
    /\ DataOnce
    /\ life = "none" => \A b \in Indices : buckets[b] = << >>
    /\ VisitedSoFar
----------------------------------------------------------------------------
(***************************************************************************)
(* lookup returns the position of the first entry of the name, or 0.       *)
(***************************************************************************)
LEMMA LookupFinds ==
    ASSUME NEW list \in Seq(Entries), NEW k \in Keys
    PROVE  LET i == lookup(list, k)
           IN  \/ i = 0 /\ \A j \in 1..Len(list) : NameOf[list[j].key] # NameOf[k]
               \/ i \in 1..Len(list) /\ NameOf[list[i].key] = NameOf[k]
  <1> DEFINE I == {j \in 1..Len(list) : NameOf[list[j].key] = NameOf[k]}
             i == lookup(list, k)
  <1>1. i = IF I # {} THEN Seqs!Min(I) ELSE 0
        BY DEF lookup, Seqs!SelectInSeq
  <1>2. CASE I = {}
    <2>1. i = 0
          BY <1>1, <1>2
    <2> QED BY <1>2, <2>1
  <1>3. CASE I # {}
    <2>1. PICK x \in I : \A y \in I : x <= y
      <3>1. I \in SUBSET Nat
            OBVIOUS
      <3> HIDE DEF I
      <3> QED BY <1>3, <3>1, Least
    <2>2. i \in I
          BY <1>1, <1>3, <2>1 DEF Seqs!Min
    <2> QED BY <2>2
  <1> QED BY <1>2, <1>3

(***************************************************************************)
(* What taking the entry of a name out of its bucket does.                 *)
(***************************************************************************)
LEMMA DropEffect ==
    ASSUME NEW list \in Seq(Entries), Distinct(list), NEW k \in Keys
    PROVE  LET i == lookup(list, k)
               t == Drop(list, i)
           IN  /\ t \in Seq(Entries) /\ Distinct(t)
               /\ Seqs!ToSet(t) = {e \in Seqs!ToSet(list) : NameOf[e.key] # NameOf[k]}
               /\ Gone(list, i) = {e \in Seqs!ToSet(list) : NameOf[e.key] = NameOf[k]}
               /\ \A m, n \in Names \ {NameOf[k]} : InOrder(t, m, n) <=> InOrder(list, m, n)
  <1> DEFINE i == lookup(list, k)
             t == Drop(list, i)
             sh(j) == IF i # 0 /\ j >= i THEN j + 1 ELSE j
             back(j) == IF i # 0 /\ j > i THEN j - 1 ELSE j
  <1>1. \/ i = 0 /\ \A j \in 1..Len(list) : NameOf[list[j].key] # NameOf[k]
        \/ i \in 1..Len(list) /\ NameOf[list[i].key] = NameOf[k]
        BY LookupFinds
  <1> HIDE DEF i
  <1>2. CASE i = 0
    <2>1. t = list
          BY <1>2 DEF Drop
    <2>2. \A j \in 1..Len(list) : NameOf[list[j].key] # NameOf[k]
          BY <1>1, <1>2
    <2>3. Gone(list, i) = {}
          BY <1>2 DEF Gone
    <2>4. \A e \in Seqs!ToSet(list) : NameOf[e.key] # NameOf[k]
          BY <2>2 DEF Seqs!ToSet
    <2> QED BY <2>1, <2>3, <2>4 DEF i
  <1>3. CASE i # 0
    <2>1. i \in 1..Len(list) /\ NameOf[list[i].key] = NameOf[k] /\ Len(list) \in Nat
          BY <1>1, <1>3
    <2>2. /\ t \in Seq(Entries) /\ Len(t) = Len(list) - 1
          /\ \A j \in 1..Len(list) - 1 : t[j] = IF j < i THEN list[j] ELSE list[j + 1]
      <3>1. t = SubSeq(list, 1, i - 1) \o SubSeq(list, i + 1, Len(list))
            BY <1>3 DEF Drop, Seqs!RemoveAt
      <3> HIDE DEF t
      <3> QED BY <2>1, <3>1, TakenOut
    <2> HIDE DEF t
    <2>3. \A j \in 1..Len(t) : sh(j) \in 1..Len(list) /\ sh(j) # i /\ t[j] = list[sh(j)]
          BY <1>3, <2>1, <2>2
    <2>4. \A j \in 1..Len(list) : j # i =>
             back(j) \in 1..Len(t) /\ sh(back(j)) = j /\ list[j] = t[back(j)]
          BY <1>3, <2>1, <2>2
    <2>5. \A j, l \in 1..Len(t) : (j <= l <=> sh(j) <= sh(l)) /\ (sh(j) = sh(l) => j = l)
          BY <1>3, <2>1, <2>2
    <2>6. \A j, l \in 1..Len(list) : j # i /\ l # i /\ j <= l => back(j) <= back(l)
          BY <1>3, <2>1, <2>2
    <2> HIDE DEF sh, back
    <2>7. Distinct(t)
          BY <2>3, <2>5 DEF Distinct
    <2>8. \A j \in 1..Len(list) : j # i => NameOf[list[j].key] # NameOf[k]
          BY <2>1 DEF Distinct
    <2>9. Seqs!ToSet(t) = {e \in Seqs!ToSet(list) : NameOf[e.key] # NameOf[k]}
      <3>1. DOMAIN t = 1..Len(t) /\ DOMAIN list = 1..Len(list)
            BY <2>2
      <3>2. \A e \in Seqs!ToSet(t) : e \in Seqs!ToSet(list) /\ NameOf[e.key] # NameOf[k]
            BY <2>3, <2>8, <3>1 DEF Seqs!ToSet
      <3>3. \A e \in Seqs!ToSet(list) : NameOf[e.key] # NameOf[k] => e \in Seqs!ToSet(t)
            BY <2>1, <2>4, <3>1 DEF Seqs!ToSet
      <3> QED BY <3>2, <3>3
    <2>10. Gone(list, i) = {e \in Seqs!ToSet(list) : NameOf[e.key] = NameOf[k]}
      <3>1. DOMAIN list = 1..Len(list)
            OBVIOUS
      <3>2. \A e \in Seqs!ToSet(list) : NameOf[e.key] = NameOf[k] => e = list[i]
            BY <2>8, <3>1 DEF Seqs!ToSet
      <3>3. list[i] \in Seqs!ToSet(list)
            BY <2>1, <3>1 DEF Seqs!ToSet
      <3>4. Gone(list, i) = {list[i]}
            BY <1>3 DEF Gone
      <3> QED BY <2>1, <3>2, <3>3, <3>4
    <2>11. ASSUME NEW m \in Names \ {NameOf[k]}, NEW n \in Names \ {NameOf[k]}
           PROVE  InOrder(t, m, n) <=> InOrder(list, m, n)
      <3>1. ASSUME InOrder(t, m, n) PROVE InOrder(list, m, n)
        <4>1. PICK j, l \in 1..Len(t) :
                 j <= l /\ NameOf[t[j].key] = m /\ NameOf[t[l].key] = n
              BY <3>1 DEF InOrder
        <4>2. sh(j) <= sh(l)
              BY <2>5, <4>1
        <4> QED BY <2>3, <4>1, <4>2 DEF InOrder
      <3>2. ASSUME InOrder(list, m, n) PROVE InOrder(t, m, n)
        <4>1. PICK j, l \in 1..Len(list) :
                 j <= l /\ NameOf[list[j].key] = m /\ NameOf[list[l].key] = n
              BY <3>2 DEF InOrder
        <4>2. j # i /\ l # i
              BY <2>1, <4>1
        <4> QED BY <2>4, <2>6, <4>1, <4>2 DEF InOrder
      <3> QED BY <3>1, <3>2
    <2> QED BY <2>2, <2>7, <2>9, <2>10, <2>11 DEF i, t
  <1> QED BY <1>2, <1>3

(***************************************************************************)
(* What a new entry at the front of a bucket without its name does.        *)
(***************************************************************************)
LEMMA FrontEffect ==
    ASSUME NEW list \in Seq(Entries), Distinct(list), NEW e \in Entries,
           \A f \in Seqs!ToSet(list) : NameOf[f.key] # NameOf[e.key]
    PROVE  LET t == <<e>> \o list
           IN  /\ t \in Seq(Entries) /\ Distinct(t)
               /\ Seqs!ToSet(t) = Seqs!ToSet(list) \cup {e}
               /\ \A m, n \in Names \ {NameOf[e.key]} : InOrder(t, m, n) <=> InOrder(list, m, n)
  <1> DEFINE t == <<e>> \o list
  <1>1. /\ t \in Seq(Entries) /\ Len(t) = Len(list) + 1 /\ Len(list) \in Nat
        /\ \A j \in 1..Len(list) + 1 : t[j] = IF j = 1 THEN e ELSE list[j - 1]
        BY PutInFront
  <1>2. DOMAIN t = 1..Len(t) /\ DOMAIN list = 1..Len(list)
        BY <1>1
  <1> HIDE DEF t
  <1>3. t[1] = e /\ 1 \in 1..Len(t)
        BY <1>1
  <1>4. \A j \in 1..Len(t) : j # 1 => j - 1 \in 1..Len(list) /\ t[j] = list[j - 1]
        BY <1>1
  <1>5. \A j \in 1..Len(list) : j + 1 \in 1..Len(t) /\ j + 1 # 1 /\ t[j + 1] = list[j]
        BY <1>1
  <1>6. \A j \in 1..Len(list) : NameOf[list[j].key] # NameOf[e.key]
        BY <1>2 DEF Seqs!ToSet
  <1>7. Distinct(t)
    <2> SUFFICES ASSUME NEW j \in 1..Len(t), NEW l \in 1..Len(t),
                        NameOf[t[j].key] = NameOf[t[l].key]
                 PROVE  j = l
        BY DEF Distinct
    <2>1. CASE j = 1 \/ l = 1
          BY <1>3, <1>4, <1>6, <2>1
    <2>2. CASE j # 1 /\ l # 1
      <3>1. /\ j - 1 \in 1..Len(list) /\ l - 1 \in 1..Len(list)
            /\ NameOf[list[j - 1].key] = NameOf[list[l - 1].key]
            BY <1>4, <2>2
      <3>2. j - 1 = l - 1
            BY <3>1 DEF Distinct
      <3> QED BY <1>1, <3>2
    <2> QED BY <2>1, <2>2
  <1>8. Seqs!ToSet(t) = Seqs!ToSet(list) \cup {e}
    <2>1. \A f \in Seqs!ToSet(t) : f = e \/ f \in Seqs!ToSet(list)
          BY <1>2, <1>3, <1>4 DEF Seqs!ToSet
    <2>2. \A f \in Seqs!ToSet(list) : f \in Seqs!ToSet(t)
          BY <1>2, <1>5 DEF Seqs!ToSet
    <2>3. e \in Seqs!ToSet(t)
          BY <1>2, <1>3 DEF Seqs!ToSet
    <2> QED BY <2>1, <2>2, <2>3
  <1>9. ASSUME NEW m \in Names \ {NameOf[e.key]}, NEW n \in Names \ {NameOf[e.key]}
        PROVE  InOrder(t, m, n) <=> InOrder(list, m, n)
    <2>1. InOrder(t, m, n) => InOrder(list, m, n)
      <3> SUFFICES ASSUME InOrder(t, m, n) PROVE InOrder(list, m, n)
          OBVIOUS
      <3>1. PICK j, l \in 1..Len(t) :
               j <= l /\ NameOf[t[j].key] = m /\ NameOf[t[l].key] = n
            BY DEF InOrder
      <3>2. j # 1 /\ l # 1 /\ j - 1 <= l - 1
            BY <1>1, <1>3, <3>1
      <3> QED BY <1>4, <3>1, <3>2 DEF InOrder
    <2>2. InOrder(list, m, n) => InOrder(t, m, n)
      <3> SUFFICES ASSUME InOrder(list, m, n) PROVE InOrder(t, m, n)
          OBVIOUS
      <3>1. PICK j, l \in 1..Len(list) :
               j <= l /\ NameOf[list[j].key] = m /\ NameOf[list[l].key] = n
            BY DEF InOrder
      <3>2. j + 1 <= l + 1
            BY <1>1, <3>1
      <3> QED BY <1>5, <3>1, <3>2 DEF InOrder
    <2> QED BY <2>1, <2>2
  <1> QED BY <1>1, <1>7, <1>8, <1>9 DEF t

LEMMA Homes ==
    ASSUME NEW k \in Keys
    PROVE  NameOf[k] \in Names /\ BucketOf(k) \in Indices
  <1>1. HashOf[NameOf[k]] \in Nat
        BY CallerAssumption
  <1> QED BY <1>1, CallerAssumption, SizeAssumption DEF BucketOf, Indices

LEMMA InAll ==
    ASSUME NEW bs, Good(bs)
    PROVE  /\ AllIn(bs) \subseteq Entries
           /\ \A e \in AllIn(bs) : e \in Seqs!ToSet(bs[BucketOf(e.key)])
           /\ \A b \in Indices : \A i \in 1..Len(bs[b]) : bs[b][i] \in AllIn(bs)
           /\ \A e, f \in AllIn(bs) : NameOf[e.key] = NameOf[f.key] => e = f
  <1>1. \A b \in Indices : bs[b] \in Seq(Entries) /\ DOMAIN bs[b] = 1..Len(bs[b])
        BY DEF Good
  <1>2. \A b \in Indices : \A e \in Seqs!ToSet(bs[b]) : e \in Entries /\ BucketOf(e.key) = b
        BY <1>1 DEF Seqs!ToSet, Good
  <1>3. \A b \in Indices : \A i \in 1..Len(bs[b]) : bs[b][i] \in AllIn(bs)
        BY <1>1 DEF AllIn, Seqs!ToSet
  <1>4. \A e \in AllIn(bs) : e \in Entries /\ e \in Seqs!ToSet(bs[BucketOf(e.key)])
        BY <1>2 DEF AllIn
  <1>5. ASSUME NEW e \in AllIn(bs), NEW f \in AllIn(bs), NameOf[e.key] = NameOf[f.key]
        PROVE  e = f
    <2> DEFINE b == BucketOf(e.key)
    <2>1. b \in Indices /\ b = BucketOf(f.key)
          BY <1>4, <1>5, Homes DEF BucketOf, Entries
    <2>2. e \in Seqs!ToSet(bs[b]) /\ f \in Seqs!ToSet(bs[b])
          BY <1>4, <2>1
    <2> QED BY <1>1, <1>5, <2>1, <2>2 DEF Seqs!ToSet, Good, Distinct
  <1> QED BY <1>3, <1>4, <1>5

LEMMA PresentNames ==
    ASSUME Good(buckets)
    PROVE  /\ Present = {NameOf[e.key] : e \in AllIn(buckets)}
           /\ Present \subseteq Names
           /\ \A n \in Present : \E b \in Indices : InOrder(buckets[b], n, n)
  <1>1. Present = {NameOf[e.key] : e \in AllIn(buckets)}
        BY DEF Present, AllIn
  <1>2. Present \subseteq Names
        BY <1>1, InAll, Homes DEF Entries
  <1>3. \A b \in Indices : Len(buckets[b]) \in Nat /\ DOMAIN buckets[b] = 1..Len(buckets[b])
        BY DEF Good
  <1>4. ASSUME NEW n \in Present
        PROVE  \E b \in Indices : InOrder(buckets[b], n, n)
    <2>1. PICK b \in Indices : n \in {NameOf[e.key] : e \in Seqs!ToSet(buckets[b])}
          BY DEF Present
    <2>2. PICK i \in 1..Len(buckets[b]) : n = NameOf[buckets[b][i].key]
          BY <1>3, <2>1 DEF Seqs!ToSet
    <2>3. i <= i
          BY <1>3
    <2> QED BY <2>2, <2>3 DEF InOrder
  <1> QED BY <1>1, <1>2, <1>4

(***************************************************************************)
(* What a bucket that is changed for one of its names does to the table.   *)
(***************************************************************************)
LEMMA BucketEffect ==
    ASSUME NEW bs, Good(bs), NEW k \in Keys, NEW t \in Seq(Entries), Distinct(t),
           NEW X \in SUBSET Entries, \A e \in X : NameOf[e.key] = NameOf[k],
           \A e : e \in Seqs!ToSet(t) <=>
              \/ e \in Seqs!ToSet(bs[BucketOf(k)]) /\ NameOf[e.key] # NameOf[k]
              \/ e \in X,
           \A m, n \in Names \ {NameOf[k]} :
              InOrder(t, m, n) <=> InOrder(bs[BucketOf(k)], m, n)
    PROVE  LET cs == [bs EXCEPT ![BucketOf(k)] = t]
           IN  /\ Good(cs)
               /\ \A e : e \in AllIn(cs) <=>
                          (e \in AllIn(bs) /\ NameOf[e.key] # NameOf[k]) \/ e \in X
               /\ \A m, n \in Names \ {NameOf[k]} :
                     AtOrBefore(cs, m, n) <=> AtOrBefore(bs, m, n)
  <1> DEFINE h == BucketOf(k)
             cs == [bs EXCEPT ![h] = t]
  <1>1. h \in Indices
        BY Homes
  <1>2. cs \in [Indices -> Seq(Entries)] /\ cs[h] = t /\ \A b \in Indices \ {h} : cs[b] = bs[b]
        BY <1>1 DEF Good
  <1>3. \A b \in Indices : DOMAIN bs[b] = 1..Len(bs[b]) /\ DOMAIN cs[b] = 1..Len(cs[b])
        BY <1>2 DEF Good
  <1>4. \A e \in Entries : NameOf[e.key] = NameOf[k] => BucketOf(e.key) = h
        BY DEF BucketOf
  <1> HIDE DEF cs, h
  <1>5. \A b \in Indices : \A e \in Seqs!ToSet(bs[b]) : e \in Entries /\ BucketOf(e.key) = b
        BY <1>3 DEF Seqs!ToSet, Good
  <1>6. \A e \in Seqs!ToSet(t) : BucketOf(e.key) = h
        BY <1>1, <1>4, <1>5 DEF h
  <1>7. Good(cs)
    <2>1. \A b \in Indices : Distinct(cs[b])
          BY <1>2 DEF Good
    <2>2. ASSUME NEW b \in Indices, NEW i \in 1..Len(cs[b])
          PROVE  BucketOf(cs[b][i].key) = b
      <3>1. CASE b = h
            BY <1>2, <1>3, <1>6, <2>2, <3>1 DEF Seqs!ToSet
      <3>2. CASE b # h
            BY <1>2, <2>2, <3>2 DEF Good
      <3> QED BY <3>1, <3>2
    <2> QED BY <1>2, <2>1, <2>2 DEF Good
  <1>8. \A e : e \in AllIn(cs) <=>
               (e \in AllIn(bs) /\ NameOf[e.key] # NameOf[k]) \/ e \in X
    <2>1. \A b \in Indices \ {h} : \A e \in Seqs!ToSet(bs[b]) : NameOf[e.key] # NameOf[k]
          BY <1>4, <1>5
    <2>2. ASSUME NEW e \in AllIn(cs)
          PROVE  (e \in AllIn(bs) /\ NameOf[e.key] # NameOf[k]) \/ e \in X
      <3>1. PICK b \in Indices : e \in Seqs!ToSet(cs[b])
            BY <2>2 DEF AllIn
      <3>2. CASE b = h
            BY <1>1, <1>2, <3>1, <3>2 DEF AllIn, h
      <3>3. CASE b # h
            BY <1>2, <2>1, <3>1, <3>3 DEF AllIn
      <3> QED BY <3>2, <3>3
    <2>3. ASSUME NEW e \in AllIn(bs), NameOf[e.key] # NameOf[k]
          PROVE  e \in AllIn(cs)
      <3>1. PICK b \in Indices : e \in Seqs!ToSet(bs[b])
            BY <2>3 DEF AllIn
      <3>2. e \in Seqs!ToSet(cs[b])
            BY <1>2, <2>3, <3>1 DEF h
      <3> QED BY <3>2 DEF AllIn
    <2>4. X \subseteq AllIn(cs)
          BY <1>1, <1>2 DEF AllIn
    <2> QED BY <2>2, <2>3, <2>4
  <1>9. ASSUME NEW m \in Names \ {NameOf[k]}, NEW n \in Names \ {NameOf[k]}
        PROVE  AtOrBefore(cs, m, n) <=> AtOrBefore(bs, m, n)
    <2>1. \A b \in Indices : InOrder(cs[b], m, n) <=> InOrder(bs[b], m, n)
          BY <1>2, <1>9 DEF h
    <2>2. \A b \in Indices : InOrder(cs[b], m, m) <=> InOrder(bs[b], m, m)
          BY <1>2, <1>9 DEF h
    <2>3. \A b \in Indices : InOrder(cs[b], n, n) <=> InOrder(bs[b], n, n)
          BY <1>2, <1>9 DEF h
    <2> QED BY <2>1, <2>2, <2>3 DEF AtOrBefore
  <1> QED BY <1>7, <1>8, <1>9 DEF cs, h

(***************************************************************************)
(* The same, with the condition on the new list and its effect named.      *)
(***************************************************************************)
NewList(bs, k, t, X) ==
    /\ t \in Seq(Entries) /\ Distinct(t)
    /\ X \in SUBSET Entries /\ \A e \in X : NameOf[e.key] = NameOf[k]
    /\ \A e : e \in Seqs!ToSet(t) <=>
          \/ e \in Seqs!ToSet(bs[BucketOf(k)]) /\ NameOf[e.key] # NameOf[k]
          \/ e \in X
    /\ \A m, n \in Names \ {NameOf[k]} : InOrder(t, m, n) <=> InOrder(bs[BucketOf(k)], m, n)

Renewed(bs, k, X, cs) ==
    /\ Good(cs)
    /\ \A e : e \in AllIn(cs) <=> (e \in AllIn(bs) /\ NameOf[e.key] # NameOf[k]) \/ e \in X
    /\ \A m, n \in Names \ {NameOf[k]} : AtOrBefore(cs, m, n) <=> AtOrBefore(bs, m, n)

LEMMA BucketRenewed ==
    ASSUME NEW bs, Good(bs), NEW k \in Keys, NEW t, NEW X, NewList(bs, k, t, X)
    PROVE  Renewed(bs, k, X, [bs EXCEPT ![BucketOf(k)] = t])
  <1>1. /\ t \in Seq(Entries) /\ Distinct(t)
        /\ X \in SUBSET Entries /\ \A e \in X : NameOf[e.key] = NameOf[k]
        BY DEF NewList
  <1>2. \A e : e \in Seqs!ToSet(t) <=>
           \/ e \in Seqs!ToSet(bs[BucketOf(k)]) /\ NameOf[e.key] # NameOf[k]
           \/ e \in X
        BY DEF NewList
  <1>3. \A m, n \in Names \ {NameOf[k]} : InOrder(t, m, n) <=> InOrder(bs[BucketOf(k)], m, n)
        BY DEF NewList
  <1> DEFINE cs == [bs EXCEPT ![BucketOf(k)] = t]
  <1>4. /\ Good(cs)
        /\ \A e : e \in AllIn(cs) <=> (e \in AllIn(bs) /\ NameOf[e.key] # NameOf[k]) \/ e \in X
        /\ \A m, n \in Names \ {NameOf[k]} : AtOrBefore(cs, m, n) <=> AtOrBefore(bs, m, n)
        BY <1>1, <1>2, <1>3, BucketEffect
  <1> HIDE DEF cs
  <1>5. Renewed(bs, k, X, cs)
        BY <1>4 DEF Renewed
  <1> QED BY <1>5 DEF cs

(***************************************************************************)
(* The two calls that change a bucket.                                     *)
(***************************************************************************)
LEMMA RemoveEffect ==
    ASSUME NEW bs, Good(bs), NEW k \in Keys
    PROVE  LET b  == BucketOf(k)
               i  == lookup(bs[b], k)
               cs == [bs EXCEPT ![b] = Drop(@, i)]
           IN  /\ Good(cs)
               /\ AllIn(cs) = {e \in AllIn(bs) : NameOf[e.key] # NameOf[k]}
               /\ Gone(bs[b], i) = {e \in AllIn(bs) : NameOf[e.key] = NameOf[k]}
               /\ \A m, n \in Names \ {NameOf[k]} :
                     AtOrBefore(cs, m, n) <=> AtOrBefore(bs, m, n)
  <1> DEFINE b == BucketOf(k)
             i == lookup(bs[b], k)
             t == Drop(bs[b], i)
  <1>1. b \in Indices /\ bs[b] \in Seq(Entries) /\ Distinct(bs[b])
        BY Homes DEF Good
  <1>2. /\ t \in Seq(Entries) /\ Distinct(t)
        /\ Seqs!ToSet(t) = {e \in Seqs!ToSet(bs[b]) : NameOf[e.key] # NameOf[k]} \cup {}
        /\ Gone(bs[b], i) = {e \in Seqs!ToSet(bs[b]) : NameOf[e.key] = NameOf[k]}
        /\ \A m, n \in Names \ {NameOf[k]} : InOrder(t, m, n) <=> InOrder(bs[b], m, n)
        BY <1>1, DropEffect
  <1>3. [bs EXCEPT ![b] = Drop(@, i)] = [bs EXCEPT ![b] = t]
        OBVIOUS
  <1>4. Gone(bs[b], i) = {e \in AllIn(bs) : NameOf[e.key] = NameOf[k]}
    <2>1. \A e \in Seqs!ToSet(bs[b]) : e \in AllIn(bs)
          BY <1>1 DEF AllIn
    <2>2. \A e \in AllIn(bs) : NameOf[e.key] = NameOf[k] => e \in Seqs!ToSet(bs[b])
          BY InAll DEF BucketOf
    <2> QED BY <1>2, <2>1, <2>2
  <1> HIDE DEF t, i
  <1>5. /\ Good([bs EXCEPT ![b] = t])
        /\ \A e : e \in AllIn([bs EXCEPT ![b] = t]) <=>
                   (e \in AllIn(bs) /\ NameOf[e.key] # NameOf[k]) \/ e \in {}
        /\ \A m, n \in Names \ {NameOf[k]} :
              AtOrBefore([bs EXCEPT ![b] = t], m, n) <=> AtOrBefore(bs, m, n)
    <2>1. \A e : e \in Seqs!ToSet(t) <=>
             (e \in Seqs!ToSet(bs[b]) /\ NameOf[e.key] # NameOf[k]) \/ e \in {}
          BY <1>2
    <2> DEFINE E == {}
    <2>2. E \in SUBSET Entries /\ \A f \in E : NameOf[f.key] = NameOf[k]
          OBVIOUS
    <2>3. \A e : e \in Seqs!ToSet(t) <=>
             (e \in Seqs!ToSet(bs[b]) /\ NameOf[e.key] # NameOf[k]) \/ e \in E
          BY <2>1
    <2> HIDE DEF E
    <2>4. NewList(bs, k, t, E)
          BY <1>2, <2>2, <2>3 DEF NewList
    <2>5. Renewed(bs, k, E, [bs EXCEPT ![b] = t])
          BY <2>4, BucketRenewed
    <2> QED BY <2>5 DEF E, Renewed
  <1> QED BY <1>3, <1>4, <1>5 DEF i

LEMMA InsertEffect ==
    ASSUME NEW bs, Good(bs), NEW e \in Entries
    PROVE  LET b  == BucketOf(e.key)
               i  == lookup(bs[b], e.key)
               cs == [bs EXCEPT ![b] = <<e>> \o Drop(@, i)]
           IN  /\ Good(cs)
               /\ AllIn(cs) = {f \in AllIn(bs) : NameOf[f.key] # NameOf[e.key]} \cup {e}
               /\ \A m, n \in Names \ {NameOf[e.key]} :
                     AtOrBefore(cs, m, n) <=> AtOrBefore(bs, m, n)
  <1> DEFINE k == e.key
             b == BucketOf(k)
             i == lookup(bs[b], k)
             t == Drop(bs[b], i)
             u == <<e>> \o t
  <1>1. k \in Keys
        BY DEF Entries
  <1>2. b \in Indices /\ bs[b] \in Seq(Entries) /\ Distinct(bs[b])
        BY <1>1, Homes DEF Good
  <1> HIDE DEF k
  <1>3. /\ t \in Seq(Entries) /\ Distinct(t)
        /\ Seqs!ToSet(t) = {f \in Seqs!ToSet(bs[b]) : NameOf[f.key] # NameOf[k]}
        /\ \A m, n \in Names \ {NameOf[k]} : InOrder(t, m, n) <=> InOrder(bs[b], m, n)
        BY <1>1, <1>2, DropEffect
  <1> HIDE DEF t
  <1>4. /\ u \in Seq(Entries) /\ Distinct(u)
        /\ Seqs!ToSet(u) = Seqs!ToSet(t) \cup {e}
        /\ \A m, n \in Names \ {NameOf[k]} : InOrder(u, m, n) <=> InOrder(t, m, n)
    <2>1. \A f \in Seqs!ToSet(t) : NameOf[f.key] # NameOf[e.key]
          BY <1>3 DEF k
    <2> QED BY <1>3, <2>1, FrontEffect DEF k
  <1> HIDE DEF u
  <1>5. \A f \in {e} : NameOf[f.key] = NameOf[k]
        BY DEF k
  <1>6. [bs EXCEPT ![b] = <<e>> \o Drop(@, i)] = [bs EXCEPT ![b] = u]
        BY DEF u, t
  <1>7. /\ Good([bs EXCEPT ![b] = u])
        /\ \A f : f \in AllIn([bs EXCEPT ![b] = u]) <=>
                   (f \in AllIn(bs) /\ NameOf[f.key] # NameOf[k]) \/ f \in {e}
        /\ \A m, n \in Names \ {NameOf[k]} :
              AtOrBefore([bs EXCEPT ![b] = u], m, n) <=> AtOrBefore(bs, m, n)
    <2>1. \A f : f \in Seqs!ToSet(u) <=>
             (f \in Seqs!ToSet(bs[b]) /\ NameOf[f.key] # NameOf[k]) \/ f \in {e}
          BY <1>3, <1>4
    <2>2. \A m, n \in Names \ {NameOf[k]} : InOrder(u, m, n) <=> InOrder(bs[b], m, n)
          BY <1>3, <1>4
    <2> DEFINE E == {e}
    <2>3. E \in SUBSET Entries
          OBVIOUS
    <2>4. \A f : f \in Seqs!ToSet(u) <=>
             (f \in Seqs!ToSet(bs[b]) /\ NameOf[f.key] # NameOf[k]) \/ f \in E
          BY <2>1
    <2>5. \A f \in E : NameOf[f.key] = NameOf[k]
          BY <1>5
    <2> HIDE DEF E
    <2>6. NewList(bs, k, u, E)
          BY <1>4, <2>2, <2>3, <2>4, <2>5 DEF NewList
    <2>7. Renewed(bs, k, E, [bs EXCEPT ![b] = u])
          BY <1>1, <2>6, BucketRenewed
    <2> QED BY <2>7 DEF E, Renewed
  <1> QED BY <1>6, <1>7 DEF k
----------------------------------------------------------------------------
LEMMA EmptyTable ==
    ASSUME NEW bs, bs = [b \in Indices |-> << >>]
    PROVE  Good(bs) /\ AllIn(bs) = {}
  <1>1. \A b \in Indices : bs[b] = << >> /\ Len(bs[b]) = 0 /\ DOMAIN bs[b] = {}
        OBVIOUS
  <1>2. bs \in [Indices -> Seq(Entries)]
        OBVIOUS
  <1> HIDE DEF Indices
  <1>3. Good(bs)
        BY <1>1, <1>2 DEF Good, Distinct
  <1>4. AllIn(bs) = {}
        BY <1>1 DEF AllIn, Seqs!ToSet
  <1> QED BY <1>3, <1>4

(***************************************************************************)
(* What the table owns without the entry of a name.                        *)
(***************************************************************************)
LEMMA OwnedRest ==
    ASSUME Good(buckets), DataOnce, NEW n
    PROVE  Owned({e \in AllIn(buckets) : NameOf[e.key] # n}) =
              Owned(AllIn(buckets)) \ Owned({e \in AllIn(buckets) : NameOf[e.key] = n})
  <1> DEFINE A == AllIn(buckets)
  <1>1. \A e, f \in A : e.key = f.key => e = f
        BY InAll
  <1>2. freesData => \A e, f \in A : e.data = f.data => e = f
        BY DEF DataOnce
  <1>3. \A e \in A : e.key \in Keys /\ e.data \in Datas
        BY InAll DEF Entries
  <1> HIDE DEF A
  <1> QED BY <1>1, <1>2, <1>3, CallerAssumption DEF Owned, A

LEMMA OwnedJoin ==
    ASSUME NEW S, NEW T
    PROVE  Owned(S \cup T) = Owned(S) \cup Owned(T)
  BY DEF Owned

LEMMA InitIInv == Init => IInv
  <1> SUFFICES ASSUME Init PROVE IInv
      OBVIOUS
  <1>1. Good(buckets) /\ AllIn(buckets) = {}
        BY EmptyTable DEF Init
  <1>2. Present = {}
        BY <1>1, PresentNames
  <1>3. TypeOK
    <2>1. visits \in [Names -> 0..2] /\ pinned \subseteq Names
          BY DEF Init
    <2>2. buckets \in [Indices -> Seq(Entries)]
          BY <1>1 DEF Good
    <2> QED BY <2>1, <2>2 DEF Init, TypeOK
  <1>4. OwnsItsEntries
        BY <1>1 DEF OwnsItsEntries, Owned, Init, AllIn
  <1>5. DataOnce /\ VisitedSoFar /\ \A b \in Indices : buckets[b] = << >>
        BY DEF Init, DataOnce, VisitedSoFar
  <1>6. IsFiniteSet(Present) /\ count = Cardinality(Present)
        BY <1>2, FS_EmptySet DEF Init
  <1> QED BY <1>1, <1>3, <1>4, <1>5, <1>6 DEF IInv

(***************************************************************************)
(* What insert and remove of a key of name n keep, given what they do to   *)
(* the entries.                                                            *)
(***************************************************************************)
LEMMA ChangeKeepsVisits ==
    ASSUME IInv, NEW n \in Names, Good(buckets'), UNCHANGED <<life, cursor, visits>>,
           Present' \ {n} = Present \ {n},
           cursor # Missing => life = "open" /\ n # NameOf[cursor],
           pinned' = pinned \ {n},
           \A l, m \in Names \ {n} : AtOrBefore(buckets', l, m) <=> AtOrBefore(buckets, l, m)
    PROVE  VisitedSoFar'
  <1>1. CASE cursor = Missing
        BY <1>1 DEF IInv, VisitedSoFar
  <1>2. CASE cursor # Missing
    <2>1. /\ NameOf[cursor] \in Present /\ pinned \subseteq Present
          /\ \A m \in pinned :
                visits[m] = IF AtOrBefore(buckets, m, NameOf[cursor]) THEN 1 ELSE 0
          BY <1>2 DEF IInv, VisitedSoFar
    <2>2. Present \subseteq Names
          BY PresentNames DEF IInv
    <2>3. NameOf[cursor] \in Present' /\ pinned' \subseteq Present'
          BY <1>2, <2>1
    <2>4. \A m \in pinned' :
             visits[m] = IF AtOrBefore(buckets', m, NameOf[cursor]) THEN 1 ELSE 0
          BY <1>2, <2>1, <2>2
    <2> QED BY <1>2, <2>3, <2>4 DEF VisitedSoFar
  <1> QED BY <1>1, <1>2

LEMMA PinnedWithout ==
    ASSUME IInv, NEW n, NEW G, G = {e \in AllIn(buckets) : NameOf[e.key] = n}
    PROVE  /\ pinned \ {NameOf[e.key] : e \in G} = pinned \ {n}
           /\ G = {} <=> n \notin Present
  <1>1. Present = {NameOf[e.key] : e \in AllIn(buckets)}
        BY PresentNames DEF IInv
  <1>2. pinned \subseteq Present
        BY DEF IInv, VisitedSoFar
  <1> QED BY <1>1, <1>2

LEMMA RemoveKeeps ==
    ASSUME IInv, NEW k \in Keys, Remove(k)
    PROVE  IInv'
  <1> DEFINE b == BucketOf(k)
             i == lookup(buckets[b], k)
             n == NameOf[k]
             G == Gone(buckets[b], i)
  <1>1. /\ b \in Indices /\ n \in Names /\ Good(buckets)
        /\ i = 0 \/ i \in 1..Len(buckets[b])
    <2>1. b \in Indices /\ n \in Names /\ Good(buckets)
          BY Homes DEF IInv
    <2> QED BY <2>1, LookupFinds DEF Good
  <1>2. /\ buckets' = [buckets EXCEPT ![b] = Drop(@, i)]
        /\ count' = CountRemoved(i)
        /\ owned' = owned \ Owned(G)
        /\ pinned' = pinned \ {NameOf[e.key] : e \in G}
        /\ ret' \in {"absent", "removed"}
        /\ UNCHANGED <<life, freesKeys, freesData, cursor, visits>>
        BY DEF Remove, Released, Unpin
  <1>3. /\ Good(buckets')
        /\ AllIn(buckets') = {e \in AllIn(buckets) : NameOf[e.key] # n}
        /\ G = {e \in AllIn(buckets) : NameOf[e.key] = n}
        /\ \A l, m \in Names \ {n} : AtOrBefore(buckets', l, m) <=> AtOrBefore(buckets, l, m)
        BY <1>1, <1>2, RemoveEffect
  <1>4. pinned' = pinned \ {n} /\ (i = 0 <=> n \notin Present)
    <2>1. pinned \ {NameOf[e.key] : e \in G} = pinned \ {n} /\ (G = {} <=> n \notin Present)
          BY <1>3, PinnedWithout
    <2>2. G = {} <=> i = 0
          BY DEF Gone
    <2> QED BY <1>2, <2>1, <2>2
  <1> HIDE DEF b, i, n, G
  <1>5. Present' = Present \ {n}
    <2>1. Present = {NameOf[e.key] : e \in AllIn(buckets)}
          BY <1>1, PresentNames
    <2>2. Present' = {NameOf[e.key] : e \in AllIn(buckets')}
          BY DEF Present, AllIn
    <2> QED BY <1>3, <2>1, <2>2
  <1>6. IsFiniteSet(Present') /\ count' = Cardinality(Present') /\ count' \in Nat
    <2>1. IsFiniteSet(Present) /\ count = Cardinality(Present) /\ count \in Nat
          BY DEF IInv, TypeOK
    <2>2. /\ IsFiniteSet(Present')
          /\ Cardinality(Present') = IF n \in Present THEN count - 1 ELSE count
          BY <1>5, <2>1, FS_RemoveElement
    <2> QED BY <1>2, <1>4, <2>1, <2>2, FS_CardinalityType DEF CountRemoved
  <1>7. OwnsItsEntries'
    <2>1. owned = Owned(AllIn(buckets))
          BY DEF IInv, OwnsItsEntries, AllIn
    <2>2. owned' = Owned({e \in AllIn(buckets) : NameOf[e.key] # n})
          BY <1>1, <1>2, <1>3, <2>1, OwnedRest DEF IInv
    <2>3. owned' = Owned(AllIn(buckets))'
          BY <1>2, <1>3, <2>2 DEF Owned
    <2> QED BY <2>3 DEF OwnsItsEntries, AllIn
  <1>8. DataOnce'
        BY <1>2, <1>3 DEF IInv, DataOnce
  <1>9. life' = "open"
        BY <1>2 DEF Remove, MayTouch
  <1>10. VisitedSoFar'
    <2>1. cursor # Missing => life = "open" /\ n # NameOf[cursor]
          BY DEF Remove, MayTouch, n
    <2>2. Present' \ {n} = Present \ {n} /\ UNCHANGED <<life, cursor, visits>>
          BY <1>2, <1>5
    <2> QED BY <1>1, <1>3, <1>4, <2>1, <2>2, ChangeKeepsVisits
  <1>11. TypeOK'
    <2>1. pinned' \subseteq Names /\ owned' \subseteq Keys \cup Datas
          BY <1>2, <1>4 DEF IInv, TypeOK
    <2> QED BY <1>2, <1>3, <1>6, <2>1 DEF IInv, TypeOK, Good
  <1> QED BY <1>3, <1>6, <1>7, <1>8, <1>9, <1>10, <1>11 DEF IInv

LEMMA InsertKeeps ==
    ASSUME IInv, NEW k \in Keys, NEW d \in Datas, Insert(k, d)
    PROVE  IInv'
  <1> DEFINE b == BucketOf(k)
             i == lookup(buckets[b], k)
             n == NameOf[k]
             G == Gone(buckets[b], i)
             e == [key |-> k, data |-> d]
  <1>1. /\ b \in Indices /\ n \in Names /\ Good(buckets)
        /\ i = 0 \/ i \in 1..Len(buckets[b])
    <2>1. b \in Indices /\ n \in Names /\ Good(buckets)
          BY Homes DEF IInv
    <2> QED BY <2>1, LookupFinds DEF Good
  <1>2. /\ buckets' = [buckets EXCEPT ![b] = <<e>> \o Drop(@, i)]
        /\ count' = CountInserted(i)
        /\ owned' = (owned \ Owned(G)) \cup Owned({e})
        /\ pinned' = pinned \ {NameOf[f.key] : f \in G}
        /\ ret' = "ok"
        /\ UNCHANGED <<life, freesKeys, freesData, cursor, visits>>
        BY DEF Insert, Released, Unpin
  <1>3. /\ e \in Entries /\ e.key = k /\ e.data = d
        /\ Good(buckets')
        /\ AllIn(buckets') = {f \in AllIn(buckets) : NameOf[f.key] # n} \cup {e}
        /\ G = {f \in AllIn(buckets) : NameOf[f.key] = n}
        /\ \A l, m \in Names \ {n} : AtOrBefore(buckets', l, m) <=> AtOrBefore(buckets, l, m)
    <2>1. e \in Entries /\ e.key = k /\ e.data = d
          BY DEF Entries
    <2>2. G = {f \in AllIn(buckets) : NameOf[f.key] = n}
          BY <1>1, RemoveEffect
    <2> HIDE DEF e
    <2>3. buckets' = [buckets EXCEPT ![BucketOf(e.key)] =
                         <<e>> \o Drop(@, lookup(buckets[BucketOf(e.key)], e.key))]
          BY <1>2, <2>1
    <2>4. /\ Good(buckets')
          /\ AllIn(buckets') = {f \in AllIn(buckets) : NameOf[f.key] # NameOf[e.key]} \cup {e}
          /\ \A l, m \in Names \ {NameOf[e.key]} :
                AtOrBefore(buckets', l, m) <=> AtOrBefore(buckets, l, m)
          BY <1>1, <2>1, <2>3, InsertEffect
    <2> QED BY <2>1, <2>2, <2>4
  <1>4. pinned' = pinned \ {n} /\ (i = 0 <=> n \notin Present)
    <2>1. pinned \ {NameOf[f.key] : f \in G} = pinned \ {n} /\ (G = {} <=> n \notin Present)
      <3>1. G = {f \in AllIn(buckets) : NameOf[f.key] = n}
            BY <1>3
      <3> HIDE DEF G, n
      <3> QED BY <3>1, PinnedWithout
    <2>2. G = {} <=> i = 0
          BY DEF Gone
    <2> QED BY <1>2, <2>1, <2>2
  <1>0. NameOf[k] = n
        OBVIOUS
  <1> HIDE DEF b, i, n, G, e
  <1>5. Present' = Present \cup {n}
    <2>1. Present = {NameOf[f.key] : f \in AllIn(buckets)}
          BY <1>1, PresentNames
    <2>2. Present' = {NameOf[f.key] : f \in AllIn(buckets')}
          BY DEF Present, AllIn
    <2> QED BY <1>0, <1>3, <2>1, <2>2
  <1>6. IsFiniteSet(Present') /\ count' = Cardinality(Present') /\ count' \in Nat
    <2>1. IsFiniteSet(Present) /\ count = Cardinality(Present) /\ count \in Nat
          BY DEF IInv, TypeOK
    <2>2. /\ IsFiniteSet(Present')
          /\ Cardinality(Present') = IF n \in Present THEN count ELSE count + 1
          BY <1>5, <2>1, FS_AddElement
    <2> QED BY <1>2, <1>4, <2>1, <2>2 DEF CountInserted
  <1>7. OwnsItsEntries'
    <2>1. owned = Owned(AllIn(buckets))
          BY DEF IInv, OwnsItsEntries, AllIn
    <2>2. owned' = Owned({f \in AllIn(buckets) : NameOf[f.key] # n}) \cup Owned({e})
          BY <1>1, <1>2, <1>3, <2>1, OwnedRest DEF IInv
    <2>3. owned' = Owned(AllIn(buckets'))
          BY <1>3, <2>2, OwnedJoin
    <2>4. owned' = Owned(AllIn(buckets))'
          BY <1>2, <2>3 DEF Owned
    <2> QED BY <2>4 DEF OwnsItsEntries, AllIn
  <1>8. DataOnce'
    <2> SUFFICES ASSUME freesData
                 PROVE  \A f, g \in AllIn(buckets') : f.data = g.data => f = g
        BY <1>2 DEF DataOnce
    <2>1. d \notin owned
          BY DEF Insert
    <2>2. \A f \in AllIn(buckets) : f.data # d
          BY <2>1 DEF IInv, OwnsItsEntries, Owned, AllIn
    <2> QED BY <1>3, <2>2 DEF IInv, DataOnce
  <1>9. life' = "open"
        BY <1>2 DEF Insert, MayTouch
  <1>10. VisitedSoFar'
    <2>1. cursor # Missing => life = "open" /\ n # NameOf[cursor]
          BY <1>0 DEF Insert, MayTouch
    <2>2. Present' \ {n} = Present \ {n} /\ UNCHANGED <<life, cursor, visits>>
          BY <1>2, <1>5
    <2> QED BY <1>1, <1>3, <1>4, <2>1, <2>2, ChangeKeepsVisits
  <1>11. TypeOK'
    <2>1. pinned' \subseteq Names /\ owned' \subseteq Keys \cup Datas
      <3>1. Owned({e}) \subseteq {k, d}
            BY <1>3 DEF Owned
      <3> QED BY <1>2, <1>4, <3>1 DEF IInv, TypeOK
    <2> QED BY <1>2, <1>3, <1>6, <2>1 DEF IInv, TypeOK, Good
  <1> QED BY <1>3, <1>6, <1>7, <1>8, <1>9, <1>10, <1>11 DEF IInv

(***************************************************************************)
(* Starting and ending the table.                                          *)
(***************************************************************************)
LEMMA EmptyKeeps ==
    ASSUME IInv, buckets' = [b \in Indices |-> << >>], count' = 0, owned' = {},
           cursor = Missing, freesKeys' \in BOOLEAN, freesData' \in BOOLEAN,
           life' \in {"none", "open"}, UNCHANGED <<cursor, history>>
    PROVE  IInv'
  <1>1. Good(buckets') /\ AllIn(buckets') = {}
        BY EmptyTable
  <1>2. Present' = {}
        BY <1>1 DEF Present, AllIn
  <1>3. IsFiniteSet(Present') /\ count' = Cardinality(Present')
        BY <1>2, FS_EmptySet
  <1>4. OwnsItsEntries' /\ DataOnce'
        BY <1>1 DEF OwnsItsEntries, Owned, DataOnce, AllIn
  <1>5. VisitedSoFar'
        BY DEF IInv, VisitedSoFar, history
  <1>6. TypeOK'
        BY <1>1 DEF IInv, TypeOK, Good, history
  <1> QED BY <1>1, <1>3, <1>4, <1>5, <1>6 DEF IInv

LEMMA NewKeeps ==
    ASSUME IInv, NEW fk \in BOOLEAN, NEW fd \in BOOLEAN, New(fk, fd)
    PROVE  IInv'
  <1>1. \A b \in Indices : buckets[b] = << >>
        BY DEF IInv, New
  <1>2. buckets = [b \in Indices |-> << >>]
        BY <1>1 DEF IInv, Good
  <1>3. AllIn(buckets) = {}
        BY <1>2, EmptyTable
  <1>4. owned = {}
        BY <1>3 DEF IInv, OwnsItsEntries, Owned, AllIn
  <1>5. cursor = Missing
        BY DEF IInv, VisitedSoFar, New
  <1>6. /\ buckets' = [b \in Indices |-> << >>] /\ count' = 0 /\ owned' = {}
        /\ freesKeys' \in BOOLEAN /\ freesData' \in BOOLEAN /\ life' \in {"none", "open"}
        /\ UNCHANGED <<cursor, history>>
        BY <1>4 DEF New
  <1> QED BY <1>5, <1>6, EmptyKeeps

LEMMA DestroyKeeps ==
    ASSUME IInv, Destroy
    PROVE  IInv'
  <1>1. owned \ Owned(AllIn(buckets)) = {}
        BY DEF IInv, OwnsItsEntries, AllIn
  <1>2. /\ buckets' = [b \in Indices |-> << >>] /\ count' = 0 /\ owned' = {}
        /\ cursor = Missing
        /\ freesKeys' \in BOOLEAN /\ freesData' \in BOOLEAN /\ life' \in {"none", "open"}
        /\ UNCHANGED <<cursor, history>>
        BY <1>1 DEF Destroy, AllIn, IInv, TypeOK
  <1> QED BY <1>2, EmptyKeeps

----------------------------------------------------------------------------
LEMMA FirstKeyFinds ==
    ASSUME Good(buckets), NEW bs \in SUBSET Indices
    PROVE  \/ FirstKey(bs) = Missing /\ \A b \in bs : buckets[b] = << >>
           \/ \E b \in bs : /\ FirstKey(bs) = buckets[b][1].key
                            /\ 1 \in 1..Len(buckets[b])
                            /\ \A c \in bs : c < b => buckets[c] = << >>
  <1> DEFINE full == {b \in bs : buckets[b] # << >>}
             least == CHOOSE b \in full : \A c \in full : b <= c
  <1>1. FirstKey(bs) = IF full = {} THEN Missing ELSE buckets[least][1].key
        BY DEF FirstKey
  <1>2. full \in SUBSET Nat
    <2>1. Indices \subseteq Nat
          BY SizeAssumption DEF Indices
    <2> QED BY <2>1
  <1>3. CASE full = {}
        BY <1>1, <1>3
  <1>4. CASE full # {}
    <2> HIDE DEF full
    <2>1. \E b \in full : \A c \in full : b <= c
          BY <1>2, <1>4, Least
    <2>2. least \in full /\ \A c \in full : least <= c
          BY <2>1
    <2> HIDE DEF least
    <2>3. least \in bs /\ buckets[least] # << >>
          BY <2>2 DEF full
    <2>4. 1 \in 1..Len(buckets[least])
          BY <2>3 DEF Good
    <2>5. ASSUME NEW c \in bs, c < least PROVE buckets[c] = << >>
      <3>1. c \in Nat /\ least \in Nat
            BY <2>3, SizeAssumption DEF Indices
      <3>2. c \notin full
            BY <2>2, <2>5, <3>1
      <3> QED BY <3>2 DEF full
    <2> QED BY <1>1, <1>4, <2>3, <2>4, <2>5
  <1> QED BY <1>3, <1>4

(***************************************************************************)
(* A name has one place.                                                   *)
(***************************************************************************)
LEMMA Place ==
    ASSUME NEW bs, Good(bs), NEW b \in Indices, NEW i \in 1..Len(bs[b])
    PROVE  LET n == NameOf[bs[b][i].key]
           IN  /\ bs[b][i].key \in Keys /\ n \in Names
               /\ \A c \in Indices : \A j \in 1..Len(bs[c]) :
                     NameOf[bs[c][j].key] = n => c = b /\ j = i
  <1>1. bs[b][i] \in Entries
        BY DEF Good
  <1>2. bs[b][i].key \in Keys
        BY <1>1 DEF Entries
  <1>3. ASSUME NEW c \in Indices, NEW j \in 1..Len(bs[c]),
               NameOf[bs[c][j].key] = NameOf[bs[b][i].key]
        PROVE  c = b /\ j = i
    <2>1. c = b
          BY <1>3 DEF Good, BucketOf
    <2> QED BY <1>3, <2>1 DEF Good, Distinct
  <1> QED BY <1>2, <1>3, Homes

LEMMA PlaceOrder ==
    ASSUME NEW bs, Good(bs),
           NEW b \in Indices, NEW i \in 1..Len(bs[b]),
           NEW c \in Indices, NEW j \in 1..Len(bs[c])
    PROVE  AtOrBefore(bs, NameOf[bs[b][i].key], NameOf[bs[c][j].key])
              <=> b < c \/ (b = c /\ i <= j)
  <1> DEFINE m == NameOf[bs[b][i].key]
             n == NameOf[bs[c][j].key]
  <1>1. \A d \in Indices : \A l \in 1..Len(bs[d]) : NameOf[bs[d][l].key] = m => d = b /\ l = i
        BY Place
  <1>2. \A d \in Indices : \A l \in 1..Len(bs[d]) : NameOf[bs[d][l].key] = n => d = c /\ l = j
        BY Place
  <1>3. i <= i /\ j <= j
        BY DEF Good
  <1>4. NameOf[bs[b][i].key] = m /\ NameOf[bs[c][j].key] = n
        OBVIOUS
  <1> HIDE DEF m, n
  <1>5. InOrder(bs[b], m, m) /\ InOrder(bs[c], n, n)
        BY <1>3, <1>4 DEF InOrder
  <1>6. \A d \in Indices : InOrder(bs[d], m, n) <=> d = b /\ d = c /\ i <= j
        BY <1>1, <1>2, <1>4 DEF InOrder
  <1>7. \A d \in Indices : (InOrder(bs[d], m, m) <=> d = b) /\ (InOrder(bs[d], n, n) <=> d = c)
        BY <1>1, <1>2, <1>5 DEF InOrder
  <1>8. AtOrBefore(bs, m, n) <=> b < c \/ (b = c /\ i <= j)
        BY <1>6, <1>7 DEF AtOrBefore
  <1> QED BY <1>8 DEF m, n

(***************************************************************************)
(* Where the step of a foreach goes.  After the entry at i of bucket b it  *)
(* ends if there is no later one, else it comes to the next one; to have   *)
(* met that is to have met it or to have met what was met before.          *)
(***************************************************************************)
LEMMA NextEntry ==
    ASSUME Good(buckets), NEW b \in Indices, NEW i \in 1..Len(buckets[b])
    PROVE  LET k == IF i < Len(buckets[b]) THEN buckets[b][i + 1].key ELSE FirstKey(After(b))
           IN  \/ /\ k = Missing
                  /\ \A c \in Indices : \A j \in 1..Len(buckets[c]) :
                        c < b \/ (c = b /\ j <= i)
               \/ \E d \in Indices : \E l \in 1..Len(buckets[d]) :
                     /\ k = buckets[d][l].key
                     /\ ~ (d < b \/ (d = b /\ l <= i))
                     /\ \A c \in Indices : \A j \in 1..Len(buckets[c]) :
                           c < d \/ (c = d /\ j <= l) <=>
                              \/ c < b \/ (c = b /\ j <= i)
                              \/ c = d /\ j = l
  <1> DEFINE k == IF i < Len(buckets[b]) THEN buckets[b][i + 1].key ELSE FirstKey(After(b))
  <1>1. /\ Indices \subseteq Nat /\ b \in Nat /\ i \in Nat /\ i >= 1
        /\ \A c \in Indices : Len(buckets[c]) \in Nat
        BY SizeAssumption DEF Indices, Good
  <1>2. CASE i < Len(buckets[b])
    <2>1. k = buckets[b][i + 1].key /\ i + 1 \in 1..Len(buckets[b])
          BY <1>1, <1>2
    <2>2. ~ (b < b \/ (b = b /\ i + 1 <= i))
          BY <1>1
    <2>3. \A c \in Indices : \A j \in 1..Len(buckets[c]) :
             c < b \/ (c = b /\ j <= i + 1) <=>
                \/ c < b \/ (c = b /\ j <= i)
                \/ c = b /\ j = i + 1
          BY <1>1
    <2> QED BY <2>1, <2>2, <2>3
  <1>3. CASE ~ (i < Len(buckets[b]))
    <2>1. k = FirstKey(After(b)) /\ i = Len(buckets[b])
          BY <1>1, <1>3
    <2>2. After(b) \in SUBSET Indices
          BY DEF After
    <2> HIDE DEF k
    <2>3. CASE FirstKey(After(b)) = Missing /\ \A c \in After(b) : buckets[c] = << >>
      <3>1. ASSUME NEW c \in Indices, NEW j \in 1..Len(buckets[c])
            PROVE  c < b \/ (c = b /\ j <= i)
        <4>1. c \notin After(b)
              BY <2>3, <3>1
        <4>2. c <= b
              BY <1>1, <4>1 DEF After
        <4> QED BY <1>1, <2>1, <4>2
      <3> QED BY <2>1, <2>3, <3>1 DEF k
    <2>4. CASE \E d \in After(b) : /\ FirstKey(After(b)) = buckets[d][1].key
                                   /\ 1 \in 1..Len(buckets[d])
                                   /\ \A c \in After(b) : c < d => buckets[c] = << >>
      <3>1. PICK d \in After(b) : /\ FirstKey(After(b)) = buckets[d][1].key
                                  /\ 1 \in 1..Len(buckets[d])
                                  /\ \A c \in After(b) : c < d => buckets[c] = << >>
            BY <2>4
      <3>2. d \in Indices /\ d > b /\ ~ (d < b \/ (d = b /\ 1 <= i))
            BY <1>1 DEF After
      <3>3. ASSUME NEW c \in Indices, NEW j \in 1..Len(buckets[c])
            PROVE  c < d \/ (c = d /\ j <= 1) <=>
                      \/ c < b \/ (c = b /\ j <= i)
                      \/ c = d /\ j = 1
        <4>1. c < d => c <= b
          <5> SUFFICES ASSUME c < d, ~ (c <= b) PROVE FALSE
              OBVIOUS
          <5>1. c \in After(b)
                BY <1>1 DEF After
          <5> QED BY <3>1, <5>1
        <4>2. c \in Nat /\ j \in Nat /\ j >= 1 /\ j <= Len(buckets[c]) /\ d \in Nat
              BY <1>1, <3>2
        <4> QED BY <1>1, <2>1, <3>2, <4>1, <4>2
      <3> QED BY <2>1, <3>1, <3>2, <3>3 DEF k
    <2> QED BY <2>2, <2>3, <2>4, FirstKeyFinds
  <1> QED BY <1>2, <1>3

(***************************************************************************)
(* A name that is present has a place, and the order of two is that of     *)
(* their places.                                                           *)
(***************************************************************************)
LEMMA PlaceOf ==
    ASSUME Good(buckets), NEW n \in Present
    PROVE  \E b \in Indices : \E i \in 1..Len(buckets[b]) : NameOf[buckets[b][i].key] = n
  BY PresentNames DEF InOrder

LEMMA PresentAt ==
    ASSUME Good(buckets), NEW b \in Indices, NEW i \in 1..Len(buckets[b])
    PROVE  NameOf[buckets[b][i].key] \in Present
  BY PresentNames, InAll

(***************************************************************************)
(* The steps of foreach that do not end it: n is the name it comes to, and *)
(* it had not met it before.                                               *)
(***************************************************************************)
LEMMA VisitKeeps ==
    ASSUME IInv, life = "open", NEW k \in Keys, Visit(k), NameOf[k] \in Present,
           UNCHANGED <<table, ret>>, pinned' \subseteq Present,
           \A m \in pinned' :
              /\ visits[m] \in {0, 1}
              /\ m = NameOf[k] => visits[m] = 0
              /\ AtOrBefore(buckets, m, NameOf[k]) <=> m = NameOf[k] \/ visits[m] = 1
    PROVE  IInv'
  <1> DEFINE n == NameOf[k]
  <1>1. k # Missing /\ n \in Names
        BY CallerAssumption
  <1>2. cursor' = k /\ visits' = [visits EXCEPT ![n] = IF @ = 0 THEN 1 ELSE 2]
        BY <1>1 DEF Visit
  <1>3. UNCHANGED <<life, freesKeys, freesData, buckets, count, owned>>
        BY DEF table
  <1>4. visits \in [Names -> 0..2] /\ visits' \in [Names -> 0..2]
        BY <1>1, <1>2 DEF IInv, TypeOK
  <1>5. Present \subseteq Names
        BY PresentNames DEF IInv
  <1>6. Present' = Present
        BY <1>3 DEF Present
  <1>7. VisitedSoFar'
    <2>1. ASSUME NEW m \in pinned'
          PROVE  visits'[m] = IF AtOrBefore(buckets, m, n) THEN 1 ELSE 0
      <3>1. /\ visits[m] \in {0, 1} /\ m \in Names
            /\ m = n => visits[m] = 0
            /\ AtOrBefore(buckets, m, n) <=> m = n \/ visits[m] = 1
            BY <1>5, <2>1
      <3>2. visits'[m] = IF m = n THEN (IF visits[m] = 0 THEN 1 ELSE 2) ELSE visits[m]
            BY <1>2, <1>4, <3>1
      <3> HIDE DEF n
      <3> QED BY <3>1, <3>2
    <2> QED BY <1>1, <1>2, <1>3, <1>6, <2>1 DEF VisitedSoFar
  <1>8. TypeOK'
    <2>1. pinned' \subseteq Names
          BY <1>5
    <2> QED BY <1>2, <1>3, <1>4, <2>1 DEF IInv, TypeOK
  <1>9. OwnsItsEntries' /\ DataOnce'
        BY <1>3 DEF IInv, OwnsItsEntries, Owned, DataOnce
  <1> QED BY <1>3, <1>6, <1>7, <1>8, <1>9 DEF IInv

LEMMA ForeachKeeps ==
    ASSUME IInv, Foreach
    PROVE  IInv'
  <1> DEFINE k == FirstKey(Indices)
  <1>0. Good(buckets) /\ k # Missing
        BY DEF IInv, Foreach
  <1>1. PICK b \in Indices : /\ k = buckets[b][1].key
                             /\ 1 \in 1..Len(buckets[b])
                             /\ \A c \in Indices : c < b => buckets[c] = << >>
        BY <1>0, FirstKeyFinds
  <1>2. k \in Keys /\ NameOf[k] \in Present
        BY <1>0, <1>1, Place, PresentAt
  <1>3. Visit(k) /\ pinned' = Present /\ life = "open" /\ UNCHANGED <<table, ret>>
        BY DEF Foreach
  <1> HIDE DEF k
  <1>4. ASSUME NEW m \in Present
        PROVE  /\ visits[m] = 0
               /\ AtOrBefore(buckets, m, NameOf[k]) <=> m = NameOf[k]
    <2>1. visits[m] = 0
          BY <1>0, PresentNames DEF IInv, VisitedSoFar, Foreach
    <2>2. PICK c \in Indices : \E j \in 1..Len(buckets[c]) : NameOf[buckets[c][j].key] = m
          BY <1>0, <1>4, PlaceOf
    <2>3. PICK j \in 1..Len(buckets[c]) : NameOf[buckets[c][j].key] = m
          BY <2>2
    <2>4. AtOrBefore(buckets, m, NameOf[k]) <=> c < b \/ (c = b /\ j <= 1)
          BY <1>0, <1>1, <2>3, PlaceOrder
    <2>5. ~ (c < b)
      <3>1. c < b => Len(buckets[c]) = 0
            BY <1>1
      <3> QED BY <2>3, <3>1
    <2>6. m = NameOf[k] <=> c = b /\ j = 1
          BY <1>0, <1>1, <2>3, Place
    <2>7. j <= 1 <=> j = 1
          BY <1>0 DEF Good
    <2> QED BY <2>1, <2>4, <2>5, <2>6, <2>7
  <1>5. \A m \in pinned' :
           /\ visits[m] \in {0, 1}
           /\ m = NameOf[k] => visits[m] = 0
           /\ AtOrBefore(buckets, m, NameOf[k]) <=> m = NameOf[k] \/ visits[m] = 1
        BY <1>3, <1>4
  <1> QED BY <1>2, <1>3, <1>5, VisitKeeps

(***************************************************************************)
(* The step of a running foreach ends it when every pinned name has been   *)
(* visited once, and keeps the invariant.                                  *)
(***************************************************************************)
LEMMA StepKeeps ==
    ASSUME IInv, ForeachStep
    PROVE  IInv' /\ (cursor' = Missing => \A n \in pinned : visits[n] = 1)
  <1> DEFINE b == BucketOf(cursor)
             i == lookup(buckets[b], cursor)
             k == IF i < Len(buckets[b]) THEN buckets[b][i + 1].key ELSE FirstKey(After(b))
  <1>0. Good(buckets) /\ cursor # Missing /\ cursor \in Keys /\ life = "open"
        BY DEF IInv, TypeOK, VisitedSoFar, ForeachStep
  <1>1. b \in Indices /\ i \in 1..Len(buckets[b]) /\ NameOf[buckets[b][i].key] = NameOf[cursor]
    <2>1. b \in Indices /\ buckets[b] \in Seq(Entries)
          BY <1>0, Homes DEF Good
    <2>2. PICK c \in Indices : \E j \in 1..Len(buckets[c]) :
                                  NameOf[buckets[c][j].key] = NameOf[cursor]
          BY <1>0, PlaceOf DEF IInv, VisitedSoFar
    <2>3. c = b
          BY <1>0, <2>2 DEF Good, BucketOf
    <2> QED BY <1>0, <2>1, <2>2, <2>3, LookupFinds
  <1>2. /\ Visit(k) /\ UNCHANGED <<table, ret>>
        /\ cursor' # Missing => UNCHANGED pinned
        BY DEF ForeachStep
  <1> HIDE DEF b, i
  <1>3. \/ /\ k = Missing
           /\ \A c \in Indices : \A j \in 1..Len(buckets[c]) : c < b \/ (c = b /\ j <= i)
        \/ \E d \in Indices : \E l \in 1..Len(buckets[d]) :
              /\ k = buckets[d][l].key
              /\ ~ (d < b \/ (d = b /\ l <= i))
              /\ \A c \in Indices : \A j \in 1..Len(buckets[c]) :
                    c < d \/ (c = d /\ j <= l) <=>
                       \/ c < b \/ (c = b /\ j <= i)
                       \/ c = d /\ j = l
        BY <1>0, <1>1, NextEntry
  <1> HIDE DEF k
  <1>4. \A m \in pinned :
           /\ m \in Present
           /\ visits[m] = IF AtOrBefore(buckets, m, NameOf[cursor]) THEN 1 ELSE 0
        BY <1>0 DEF IInv, VisitedSoFar
  <1>5. ASSUME NEW c \in Indices, NEW j \in 1..Len(buckets[c])
        PROVE  AtOrBefore(buckets, NameOf[buckets[c][j].key], NameOf[cursor])
                  <=> c < b \/ (c = b /\ j <= i)
        BY <1>0, <1>1, PlaceOrder
  <1>6. CASE /\ k = Missing
             /\ \A c \in Indices : \A j \in 1..Len(buckets[c]) : c < b \/ (c = b /\ j <= i)
    <2>1. cursor' = Missing /\ visits' = [n \in Names |-> 0] /\ pinned' = {}
          BY <1>2, <1>6 DEF Visit
    <2>2. UNCHANGED <<life, freesKeys, freesData, buckets, count, owned>>
          BY <1>2 DEF table
    <2>3. ASSUME NEW m \in pinned PROVE visits[m] = 1
      <3>1. PICK c \in Indices : \E j \in 1..Len(buckets[c]) : NameOf[buckets[c][j].key] = m
            BY <1>0, <1>4, <2>3, PlaceOf
      <3>2. AtOrBefore(buckets, m, NameOf[cursor])
            BY <1>5, <1>6, <3>1
      <3> QED BY <1>4, <2>3, <3>2
    <2>4. TypeOK'
          BY <2>1, <2>2 DEF IInv, TypeOK
    <2>5. OwnsItsEntries' /\ DataOnce' /\ Present' = Present
          BY <2>2 DEF IInv, OwnsItsEntries, Owned, DataOnce, Present
    <2>6. VisitedSoFar'
          BY <2>1 DEF VisitedSoFar
    <2> QED BY <2>2, <2>3, <2>4, <2>5, <2>6 DEF IInv
  <1>7. ASSUME NEW d \in Indices, NEW l \in 1..Len(buckets[d]),
               k = buckets[d][l].key,
               ~ (d < b \/ (d = b /\ l <= i)),
               \A c \in Indices : \A j \in 1..Len(buckets[c]) :
                  c < d \/ (c = d /\ j <= l) <=>
                     \/ c < b \/ (c = b /\ j <= i)
                     \/ c = d /\ j = l
        PROVE  IInv' /\ cursor' # Missing
    <2>1. k \in Keys /\ NameOf[k] \in Present /\ k # Missing
          BY <1>0, <1>7, Place, PresentAt, CallerAssumption
    <2>2. cursor' # Missing /\ pinned' = pinned
          BY <1>2, <2>1 DEF Visit
    <2>3. ASSUME NEW m \in pinned
          PROVE  /\ visits[m] \in {0, 1}
                 /\ m = NameOf[k] => visits[m] = 0
                 /\ AtOrBefore(buckets, m, NameOf[k]) <=> m = NameOf[k] \/ visits[m] = 1
      <3>1. PICK c \in Indices : \E j \in 1..Len(buckets[c]) : NameOf[buckets[c][j].key] = m
            BY <1>0, <1>4, <2>3, PlaceOf
      <3>2. PICK j \in 1..Len(buckets[c]) : NameOf[buckets[c][j].key] = m
            BY <3>1
      <3>3. visits[m] = IF c < b \/ (c = b /\ j <= i) THEN 1 ELSE 0
            BY <1>4, <1>5, <2>3, <3>2
      <3>4. m = NameOf[k] <=> c = d /\ j = l
            BY <1>0, <1>7, <3>2, Place
      <3>5. AtOrBefore(buckets, m, NameOf[k]) <=> c < d \/ (c = d /\ j <= l)
            BY <1>0, <1>7, <3>2, PlaceOrder
      <3>6. c < d \/ (c = d /\ j <= l) <=>
               \/ c < b \/ (c = b /\ j <= i)
               \/ c = d /\ j = l
            BY <1>7
      <3> QED BY <1>7, <3>3, <3>4, <3>5, <3>6
    <2>4. pinned' \subseteq Present
          BY <1>4, <2>2
    <2>5. IInv'
          BY <1>0, <1>2, <2>1, <2>2, <2>3, <2>4, VisitKeeps
    <2> QED BY <2>2, <2>5
  <1> QED BY <1>3, <1>6, <1>7

----------------------------------------------------------------------------
LEMMA StutterKeeps ==
    ASSUME IInv, UNCHANGED vars
    PROVE  IInv'
  <1>1. UNCHANGED <<life, freesKeys, freesData, buckets, count, owned, cursor, visits, pinned>>
        BY DEF vars, table, history
  <1>2. TypeOK'
        BY <1>1 DEF IInv, TypeOK
  <1>3. OwnsItsEntries' /\ DataOnce' /\ Present' = Present
        BY <1>1 DEF IInv, OwnsItsEntries, Owned, DataOnce, Present
  <1>4. VisitedSoFar'
        BY <1>1, <1>3 DEF IInv, VisitedSoFar
  <1> QED BY <1>1, <1>2, <1>3, <1>4 DEF IInv

LEMMA LookupKeeps ==
    ASSUME IInv, NEW k \in Keys, Lookup(k)
    PROVE  IInv'
  <1>1. UNCHANGED <<life, freesKeys, freesData, buckets, count, owned, cursor, visits, pinned>>
        BY DEF Lookup, table, history
  <1>2. TypeOK'
        BY <1>1 DEF IInv, TypeOK
  <1>3. OwnsItsEntries' /\ DataOnce' /\ Present' = Present
        BY <1>1 DEF IInv, OwnsItsEntries, Owned, DataOnce, Present
  <1>4. VisitedSoFar'
        BY <1>1, <1>3 DEF IInv, VisitedSoFar
  <1> QED BY <1>1, <1>2, <1>3, <1>4 DEF IInv

LEMMA NextIInv == IInv /\ [Next]_vars => IInv'
  <1> SUFFICES ASSUME IInv, [Next]_vars PROVE IInv'
      OBVIOUS
  <1>1. CASE \E fk, fd \in BOOLEAN : New(fk, fd)
        BY <1>1, NewKeeps
  <1>2. CASE \E k \in Keys, d \in Datas : Insert(k, d)
        BY <1>2, InsertKeeps
  <1>3. CASE \E k \in Keys : Remove(k) \/ Lookup(k)
        BY <1>3, RemoveKeeps, LookupKeeps
  <1>4. CASE Foreach
        BY <1>4, ForeachKeeps
  <1>5. CASE ForeachStep
        BY <1>5, StepKeeps
  <1>6. CASE Destroy
        BY <1>6, DestroyKeeps
  <1>7. CASE UNCHANGED vars
        BY <1>7, StutterKeeps
  <1> QED BY <1>1, <1>2, <1>3, <1>4, <1>5, <1>6, <1>7 DEF Next

LEMMA SpecIInv == Spec => []IInv
  BY InitIInv, NextIInv, PTL DEF Spec

(***************************************************************************)
(* Whatever mix of inserts, replacements and removals there was, also by   *)
(* the callbacks of a foreach: no two entries have equal keys, each is in  *)
(* the bucket its key hashes to, and the count is their number.            *)
(***************************************************************************)
THEOREM TableOnePerName == Spec => []OnePerName
  <1>1. IInv => OnePerName
    <2> SUFFICES ASSUME IInv PROVE OnePerName
        OBVIOUS
    <2> QED BY DEF IInv, OnePerName, Good, Distinct
  <1> QED BY <1>1, SpecIInv, PTL

(***************************************************************************)
(* The objects handed over and not released are those of the entries: no   *)
(* leak, and nothing is released twice or while it is in the table.        *)
(***************************************************************************)
THEOREM TableOwnsItsEntries == Spec => []OwnsItsEntries
  <1>1. IInv => OwnsItsEntries
        BY DEF IInv
  <1> QED BY <1>1, SpecIInv, PTL

(***************************************************************************)
(* A foreach that ends has visited once each entry that stayed.            *)
(***************************************************************************)
THEOREM TableForeachVisitsOnce == Spec => ForeachVisitsOnce
  <1>1. ASSUME IInv, [Next]_vars, cursor # Missing, cursor' = Missing
        PROVE  \A n \in pinned : visits[n] = 1
    <2>1. CASE ForeachStep
          BY <1>1, <2>1, StepKeeps
    <2>2. CASE ~ ForeachStep
      <3>1. UNCHANGED cursor \/ Foreach \/ Destroy
            BY <1>1, <2>2 DEF Next, New, Insert, Remove, Lookup, vars
      <3> QED BY <1>1, <3>1 DEF Foreach, Destroy
    <2> QED BY <2>1, <2>2
  <1>2. IInv /\ [Next]_vars =>
           [cursor # Missing /\ cursor' = Missing => \A n \in pinned : visits[n] = 1]_vars
        BY <1>1
  <1> QED BY <1>2, SpecIInv, PTL DEF Spec, ForeachVisitsOnce

----------------------------------------------------------------------------
(***************************************************************************)
(* The map that a table is.                                                *)
(***************************************************************************)
MapOf(bs) ==
    [n \in {NameOf[e.key] : e \in AllIn(bs)} |->
        (CHOOSE e \in AllIn(bs) : NameOf[e.key] = n).data]

LEMMA MapIs ==
    ASSUME IInv
    PROVE  Map = MapOf(buckets) /\ Map' = MapOf(buckets') /\ DOMAIN Map = Present
  <1>1. Present = {NameOf[e.key] : e \in AllIn(buckets)}
        BY PresentNames DEF IInv
  <1>2. Present' = {NameOf[e.key] : e \in AllIn(buckets')}
        BY DEF Present, AllIn
  <1>3. Map = MapOf(buckets)
        BY <1>1 DEF Map, MapOf, AllIn
  <1>4. Map' = MapOf(buckets')
        BY <1>2 DEF Map, MapOf, AllIn
  <1>5. DOMAIN Map = Present
        BY DEF Map
  <1> QED BY <1>3, <1>4, <1>5

LEMMA MapAt ==
    ASSUME NEW bs, Good(bs), NEW e \in AllIn(bs)
    PROVE  MapOf(bs)[NameOf[e.key]] = e.data
  <1> DEFINE f == CHOOSE f \in AllIn(bs) : NameOf[f.key] = NameOf[e.key]
  <1>1. f \in AllIn(bs) /\ NameOf[f.key] = NameOf[e.key]
        OBVIOUS
  <1>2. f = e
        BY <1>1, InAll
  <1>3. MapOf(bs)[NameOf[e.key]] = f.data
        BY DEF MapOf
  <1> QED BY <1>2, <1>3

LEMMA EmptyMap ==
    ASSUME NEW bs, bs = [b \in Indices |-> << >>]
    PROVE  MapOf(bs) = D!empty
  BY EmptyTable DEF MapOf, D!empty

LEMMA MapStep ==
    ASSUME IInv, [Next]_vars
    PROVE  [D!Next]_(D!vars)
  <1>0. Good(buckets) /\ Map = MapOf(buckets) /\ Map' = MapOf(buckets') /\ DOMAIN Map = Present
        BY MapIs DEF IInv
  <1>1. ASSUME NEW fk \in BOOLEAN, NEW fd \in BOOLEAN, New(fk, fd)
        PROVE  D!Next
    <2>1. Map' = D!empty /\ ret' = "ok"
          BY <1>0, <1>1, EmptyMap DEF New
    <2> QED BY <2>1 DEF D!Next, D!New
  <1>2. ASSUME NEW k \in Keys, NEW d \in Datas, Insert(k, d)
        PROVE  D!Next
    <2> DEFINE n == NameOf[k]
               e == [key |-> k, data |-> d]
    <2>1. n \in Names /\ e \in Entries /\ NameOf[e.key] = n /\ e.data = d
          BY Homes DEF Entries
    <2>2. buckets' = [buckets EXCEPT ![BucketOf(e.key)] =
                         <<e>> \o Drop(@, lookup(buckets[BucketOf(e.key)], e.key))]
          BY <1>2 DEF Insert
    <2> HIDE DEF n, e
    <2>3. /\ Good(buckets')
          /\ AllIn(buckets') = {f \in AllIn(buckets) : NameOf[f.key] # n} \cup {e}
      <3>1. /\ Good(buckets')
            /\ AllIn(buckets') = {f \in AllIn(buckets) : NameOf[f.key] # NameOf[e.key]} \cup {e}
            BY <1>0, <2>1, <2>2, InsertEffect
      <3> QED BY <2>1, <3>1
    <2>4. DOMAIN Map' = DOMAIN Map \cup {n}
          BY <1>0, <2>1, <2>3 DEF MapOf
    <2>5. ASSUME NEW m \in DOMAIN Map'
          PROVE  Map'[m] = IF m = n THEN d ELSE Map[m]
      <3>1. CASE m = n
            BY <1>0, <2>1, <2>3, <3>1, MapAt
      <3>2. CASE m # n
        <4>1. PICK f \in AllIn(buckets) : NameOf[f.key] = m
              BY <1>0, <2>4, <2>5, <3>2 DEF MapOf
        <4>2. f \in AllIn(buckets')
              BY <2>3, <3>2, <4>1
        <4>3. Map[m] = f.data /\ Map'[m] = f.data
              BY <1>0, <2>3, <4>1, <4>2, MapAt
        <4> QED BY <3>2, <4>3
      <3> QED BY <3>1, <3>2
    <2>6. Map' = [m \in DOMAIN Map \cup {n} |-> IF m = n THEN d ELSE Map[m]]
      <3>1. Map' = [m \in DOMAIN Map' |-> Map'[m]]
            BY <1>0 DEF MapOf
      <3> QED BY <2>4, <2>5, <3>1
    <2>7. ret' = "ok"
          BY <1>2 DEF Insert
    <2> QED BY <2>1, <2>6, <2>7 DEF D!Next, D!Insert
  <1>3. ASSUME NEW k \in Keys, Remove(k)
        PROVE  D!Next
    <2> DEFINE n == NameOf[k]
               b == BucketOf(k)
               i == lookup(buckets[b], k)
    <2>1. n \in Names
          BY Homes
    <2>2. /\ Good(buckets')
          /\ AllIn(buckets') = {f \in AllIn(buckets) : NameOf[f.key] # n}
          /\ Gone(buckets[b], i) = {f \in AllIn(buckets) : NameOf[f.key] = n}
          BY <1>0, <1>3, RemoveEffect DEF Remove
    <2>3. i = 0 <=> n \notin DOMAIN Map
      <3>1. Gone(buckets[b], i) = {} <=> i = 0
            BY DEF Gone
      <3> HIDE DEF i, b, n
      <3> QED BY <1>0, <2>2, <3>1 DEF MapOf
    <2>4. ret' = IF i = 0 THEN "absent" ELSE "removed"
          BY <1>3 DEF Remove
    <2> HIDE DEF n, b, i
    <2>5. DOMAIN Map' = DOMAIN Map \ {n}
          BY <1>0, <2>2 DEF MapOf
    <2>6. ASSUME NEW m \in DOMAIN Map' PROVE Map'[m] = Map[m]
      <3>1. PICK f \in AllIn(buckets') : NameOf[f.key] = m
            BY <1>0, <2>6 DEF MapOf
      <3>2. f \in AllIn(buckets)
            BY <2>2
      <3> QED BY <1>0, <2>2, <3>1, <3>2, MapAt
    <2>7. Map' = [m \in DOMAIN Map \ {n} |-> Map[m]]
      <3>1. Map' = [m \in DOMAIN Map' |-> Map'[m]]
            BY <1>0 DEF MapOf
      <3> QED BY <2>5, <2>6, <3>1
    <2>8. ret' = IF n \in DOMAIN Map THEN "removed" ELSE "absent"
          BY <2>3, <2>4
    <2> QED BY <2>1, <2>7, <2>8 DEF D!Next, D!Remove
  <1>4. ASSUME NEW k \in Keys, Lookup(k)
        PROVE  D!Next
    <2> DEFINE n == NameOf[k]
               b == BucketOf(k)
               i == lookup(buckets[b], k)
    <2>1. n \in Names /\ b \in Indices /\ buckets[b] \in Seq(Entries)
          BY <1>0, Homes DEF Good
    <2>2. Map' = Map
          BY <1>0, <1>4 DEF Lookup, table
    <2>3. ret' = IF i = 0 THEN Missing ELSE buckets[b][i].data
          BY <1>4 DEF Lookup
    <2>4. \/ i = 0 /\ \A j \in 1..Len(buckets[b]) : NameOf[buckets[b][j].key] # n
          \/ i \in 1..Len(buckets[b]) /\ NameOf[buckets[b][i].key] = n
          BY <2>1, LookupFinds
    <2>5. CASE i = 0
      <3>1. ASSUME n \in DOMAIN Map PROVE FALSE
        <4>1. PICK c \in Indices : \E j \in 1..Len(buckets[c]) : NameOf[buckets[c][j].key] = n
              BY <1>0, <3>1, PlaceOf
        <4>2. c = b
              BY <1>0, <4>1 DEF Good, BucketOf
        <4> QED BY <2>4, <2>5, <4>1, <4>2
      <3> QED BY <2>1, <2>2, <2>3, <2>5, <3>1 DEF D!Next, D!Lookup
    <2>6. CASE i # 0
      <3>1. i \in 1..Len(buckets[b]) /\ NameOf[buckets[b][i].key] = n
            BY <2>4, <2>6
      <3> HIDE DEF b, i
      <3>2. n \in DOMAIN Map
            BY <1>0, <2>1, <3>1, PresentAt
      <3>3. buckets[b][i] \in AllIn(buckets)
            BY <1>0, <2>1, <3>1, InAll
      <3>4. Map[n] = buckets[b][i].data
            BY <1>0, <3>1, <3>3, MapAt
      <3> QED BY <2>1, <2>2, <2>3, <2>6, <3>2, <3>4 DEF D!Next, D!Lookup
    <2> QED BY <2>5, <2>6
  <1>5. CASE Foreach \/ ForeachStep \/ UNCHANGED vars
    <2>1. UNCHANGED <<buckets, ret>>
          BY <1>5 DEF Foreach, ForeachStep, table, vars
    <2> QED BY <1>0, <2>1 DEF D!vars
  <1>6. CASE Destroy
    <2>1. Map' = D!empty /\ ret' = "ok"
          BY <1>0, <1>6, EmptyMap DEF Destroy
    <2> QED BY <2>1 DEF D!Next, D!New
  <1> QED BY <1>1, <1>2, <1>3, <1>4, <1>5, <1>6 DEF Next

(***************************************************************************)
(* The hash table, whose buckets collide and whose entries are replaced,   *)
(* is a map from names to data.                                            *)
(***************************************************************************)
THEOREM TableImplementsDict == Spec => ImplementsDict
  <1>1. Init => D!Init
    <2> SUFFICES ASSUME Init PROVE D!Init
        OBVIOUS
    <2>1. Map = MapOf(buckets)
          BY InitIInv, MapIs
    <2> QED BY <2>1, EmptyMap DEF Init, D!Init
  <1> QED BY <1>1, MapStep, SpecIInv, PTL DEF Spec, ImplementsDict, D!Spec
=============================================================================
