------------------------------- MODULE HTable -------------------------------
(***************************************************************************)
(* The hash table of src/ac_htable.c.  A bucket is a sequence of entries,  *)
(* newest first; keys and data are objects of the caller, which the table  *)
(* releases when it was given the functions to do so.                      *)
(*                                                                         *)
(* The calls are one step each, except ac_htable_foreach: it takes one     *)
(* step per entry, because its callback may change the table.              *)
(***************************************************************************)
EXTENDS Naturals, Sequences, FiniteSets

Seqs == INSTANCE SequencesExt

CONSTANTS Keys, Datas,   \* the caller's objects
          Names, NameOf, \* key_cmp takes keys of one name for equal
          HashOf,        \* hash_func, of the key's name
          HTABLE_SZ, Missing

ASSUME CallerAssumption ==
    /\ NameOf \in [Keys -> Names] /\ HashOf \in [Names -> Nat]
    /\ Missing \notin Keys       \* foreach passes no NULL key
    /\ Keys \cap Datas = {}      \* no object is handed over in both places

ASSUME SizeAssumption == HTABLE_SZ \in Nat \ {0}

VARIABLES life,        \* of the table: "none" or "open"
          freesKeys, freesData,    \* the functions given to ac_htable_new
          buckets, count,
          owned,       \* the objects handed over to the table and not released
          cursor,      \* the key foreach's callback works on, or Missing
          ret,
          visits, pinned \* history: how often the running foreach has visited
                         \* a name (2: more than once), and the names present
                         \* since it began

table   == <<life, freesKeys, freesData, buckets, count, owned>>
history == <<visits, pinned>>
vars    == <<table, cursor, ret, history>>

Indices == 0..HTABLE_SZ - 1
BucketOf(k) == HashOf[NameOf[k]] % HTABLE_SZ

Owned(entries) ==
    {e.key : e \in {f \in entries : freesKeys}} \cup {e.data : e \in {f \in entries : freesData}}

lookupHead(list, k) ==       \* faulty: looks at the newest entry only
    IF list # << >> /\ NameOf[list[1].key] = NameOf[k] THEN 1 ELSE 0

(***************************************************************************)
(* The position of the first entry of a bucket whose key equals k, or 0.   *)
(***************************************************************************)
lookup(list, k) == Seqs!SelectInSeq(list, LAMBDA e : NameOf[e.key] = NameOf[k])

(***************************************************************************)
(* Called by the program, or by the callback of a running foreach, which   *)
(* must leave the entry it was called for alone.                           *)
(***************************************************************************)
MayTouch(k) == life = "open" /\ (cursor # Missing => NameOf[k] # NameOf[cursor])

Init ==
    /\ life = "none" /\ freesKeys = FALSE /\ freesData = FALSE
    /\ buckets = [b \in Indices |-> << >>] /\ count = 0 /\ owned = {}
    /\ cursor = Missing /\ ret = "ok" /\ visits = [n \in Names |-> 0] /\ pinned = {}

New(fk, fd) ==
    /\ life = "none"
    /\ life' = "open" /\ freesKeys' = fk /\ freesData' = fd
    /\ buckets' = [b \in Indices |-> << >>] /\ count' = 0
    /\ ret' = "ok"
    /\ UNCHANGED <<owned, cursor, history>>

(***************************************************************************)
(* What becomes of a bucket, of the count and of the released objects when *)
(* the entry at position i is taken out; 0 stands for no entry.            *)
(***************************************************************************)
DropNothing(list, i) == list                        \* faulty

Drop(list, i) == IF i = 0 THEN list ELSE Seqs!RemoveAt(list, i)

Gone(list, i) == IF i = 0 THEN {} ELSE {list[i]}

ReleasedKey(list, i) == {e.key : e \in Gone(list, i)} \* faulty: not the data

Released(list, i) == Owned(Gone(list, i))

CountInserted(i) == IF i = 0 THEN count + 1 ELSE count

CountRemoved(i) == IF i = 0 THEN count ELSE count - 1

Unpin(list, i) == pinned' = pinned \ {NameOf[e.key] : e \in Gone(list, i)}

(***************************************************************************)
(* The caller passes objects that the table does not hold already, where   *)
(* the table releases them.                                                *)
(***************************************************************************)
Insert(k, d) ==
    /\ MayTouch(k)
    /\ (freesKeys => k \notin owned) /\ (freesData => d \notin owned)
    /\ LET b == BucketOf(k)
           i == lookup(buckets[b], k)
           e == [key |-> k, data |-> d]
       IN  /\ buckets' = [buckets EXCEPT ![b] = <<e>> \o Drop(@, i)]
           /\ count' = CountInserted(i)
           /\ owned' = (owned \ Released(buckets[b], i)) \cup Owned({e})
           /\ Unpin(buckets[b], i)
    /\ ret' = "ok"
    /\ UNCHANGED <<life, freesKeys, freesData, cursor, visits>>

Remove(k) ==
    /\ MayTouch(k)
    /\ LET b == BucketOf(k)
           i == lookup(buckets[b], k)
       IN  /\ buckets' = [buckets EXCEPT ![b] = Drop(@, i)]
           /\ count' = CountRemoved(i)
           /\ owned' = owned \ Released(buckets[b], i)
           /\ ret' = IF i = 0 THEN "absent" ELSE "removed"
           /\ Unpin(buckets[b], i)
    /\ UNCHANGED <<life, freesKeys, freesData, cursor, visits>>

Lookup(k) ==
    /\ life = "open"
    /\ LET list == buckets[BucketOf(k)]
           i    == lookup(list, k)
       IN  ret' = IF i = 0 THEN Missing ELSE list[i].data
    /\ UNCHANGED <<table, cursor, history>>

FirstKeyShort(bs) ==         \* faulty: the last bucket is left out
    LET full == {b \in bs \ {HTABLE_SZ - 1} : buckets[b] # << >>}
    IN  IF full = {} THEN Missing
        ELSE buckets[CHOOSE b \in full : \A c \in full : b <= c][1].key

(***************************************************************************)
(* The first key of the lowest bucket in bs that has one.                  *)
(***************************************************************************)
FirstKey(bs) ==
    LET full == {b \in bs : buckets[b] # << >>}
    IN  IF full = {} THEN Missing
        ELSE buckets[CHOOSE b \in full : \A c \in full : b <= c][1].key

AfterOrSame(b) == {c \in Indices : c >= b}            \* faulty

After(b) == {c \in Indices : c > b}

Visit(k) ==
    /\ cursor' = k
    /\ IF k = Missing THEN visits' = [n \in Names |-> 0] /\ pinned' = {}
       ELSE visits' = [visits EXCEPT ![NameOf[k]] = IF @ = 0 THEN 1 ELSE 2]

Present == UNION {{NameOf[e.key] : e \in Seqs!ToSet(buckets[b])} : b \in Indices}

Foreach ==
    /\ life = "open" /\ cursor = Missing /\ FirstKey(Indices) # Missing
    /\ Visit(FirstKey(Indices))
    /\ pinned' = Present
    /\ UNCHANGED <<table, ret>>

(***************************************************************************)
(* The callback has returned; only now is the link of its entry read.      *)
(***************************************************************************)
ForeachStep ==
    /\ cursor # Missing
    /\ LET b == BucketOf(cursor)
           i == lookup(buckets[b], cursor)
       IN  Visit(IF i < Len(buckets[b])
                 THEN buckets[b][i + 1].key
                 ELSE FirstKey(After(b)))
    /\ (cursor' # Missing => UNCHANGED pinned)
    /\ UNCHANGED <<table, ret>>

Destroy ==
    /\ life = "open" /\ cursor = Missing
    /\ life' = "none"
    /\ owned' = owned \ Owned(UNION {Seqs!ToSet(buckets[b]) : b \in Indices})
    /\ buckets' = [b \in Indices |-> << >>] /\ count' = 0
    /\ ret' = "ok"
    /\ UNCHANGED <<freesKeys, freesData, cursor, history>>

Next ==
    \/ \E fk, fd \in BOOLEAN : New(fk, fd)
    \/ \E k \in Keys, d \in Datas : Insert(k, d)
    \/ \E k \in Keys : Remove(k) \/ Lookup(k)
    \/ Foreach \/ ForeachStep \/ Destroy

Spec == Init /\ [][Next]_vars

(***************************************************************************)
(* The callback that foreach calls returns.                                *)
(***************************************************************************)
FairSpec == Spec /\ WF_vars(ForeachStep)
----------------------------------------------------------------------------
Entries == [key : Keys, data : Datas]

TypeOK ==
    /\ life \in {"none", "open"} /\ freesKeys \in BOOLEAN /\ freesData \in BOOLEAN
    /\ buckets \in [Indices -> Seq(Entries)] /\ count \in Nat
    /\ owned \subseteq Keys \cup Datas /\ cursor \in Keys \cup {Missing}
    /\ pinned \subseteq Names /\ visits \in [Names -> 0..2]

(***************************************************************************)
(* An entry is in the bucket its key hashes to, and no two entries have    *)
(* equal keys: insert replaces (ac_htable.c:117-121).  The count that the  *)
(* caller reads is the number of entries, whatever mix of inserts,         *)
(* replacements and removals there was (120, 124, 144).                    *)
(***************************************************************************)
OnePerName ==
    /\ TypeOK
    /\ \A b \in Indices : \A i \in 1..Len(buckets[b]) : BucketOf(buckets[b][i].key) = b
    /\ \A b \in Indices : \A i, j \in 1..Len(buckets[b]) :
          NameOf[buckets[b][i].key] = NameOf[buckets[b][j].key] => i = j
    /\ count = Cardinality(Present)

(***************************************************************************)
(* The objects handed over and not released are exactly those of the       *)
(* entries: nothing leaks, nothing released is still in the table, and so  *)
(* nothing is released twice.                                              *)
(***************************************************************************)
OwnsItsEntries == owned = Owned(UNION {Seqs!ToSet(buckets[b]) : b \in Indices})

(***************************************************************************)
(* Whatever its callbacks insert and remove elsewhere, a foreach that ends *)
(* has visited each entry that stayed in the table all along exactly once. *)
(***************************************************************************)
ForeachVisitsOnce ==
    [][cursor # Missing /\ cursor' = Missing =>
          \A n \in pinned : visits[n] = 1]_vars

(***************************************************************************)
(* A foreach ends even if each of its callbacks inserts entries: an insert *)
(* goes to the front of a bucket (ac_htable.c:123), behind the entry whose *)
(* callback makes it or into a bucket whose turn is still to come.         *)
(***************************************************************************)
ForeachEnds == cursor # Missing ~> cursor = Missing

(***************************************************************************)
(* The hash table is a map from names to data.                             *)
(***************************************************************************)
Map == [n \in Present |->
          (CHOOSE e \in UNION {Seqs!ToSet(buckets[b]) : b \in Indices} : NameOf[e.key] = n).data]

D == INSTANCE Dict WITH map <- Map

ImplementsDict == D!Spec
=============================================================================
