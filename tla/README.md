# A TLA+ model of libac

libac is a small C library of containers, a JSON writer and system helpers.
This directory models its containers, its writer, its helpers and its plain
functions in TLA+, checks them with TLC on small instances and proves with TLAPS,
for every value of the constants, all that the runs check of safety but for
one property (see the end of section 4). Paths
below are relative to `src/src/` of the repository; `PROJECT.json` maps every
definition to its lines.

    tlc -workers 2 -config MCQueue.cfg MCQueue      # one run
    tlapm QueueProofs.tla                           # one file of proofs

## 1. The system

The library has no threads, no global state and no locks. "libac is intended to
be thread-safe", says `README.rst:1299`, and no more. The code has no lock and no
atomic access, so that this can be read of threads that work on objects of their
own, which have nothing in common then, or that keep apart by locks of the
program. An object without a lock is shared in one place by design: one thread
that pushes to a circular buffer and one that pops, as is usual for buffers of
its kind. `SharedBuf` shows how far that goes, without a lock, with one around
each call, and with one kept longer (section 5). Some functions of the library call the
program back (foreach, the free functions, the comparison and hash functions),
and from there the program may call the library again. Its components are
layered thinly: the queue walks and destroys its
nodes with functions of the singly linked list, quarks are built from the
binary tree, the tree from the C library's `tsearch` family. The file system
helpers are the part that meets other processes; the JSON loader, the sleep and
the lookups meet the kernel and the resolver, and what they may answer.

| component | state | operations | what is hard | what makes it correct |
|---|---|---|---|---|
| circular buffer, `ac_circ_buf.c` | storage, two u32 offsets, size, item size, storage type | new, push, pushm, pop, popm, the counts, foreach, reset, destroy | offsets that wrap at the mask and at 2^32; the place kept free; the rewind of an empty buffer in pushm; pop's pointer into the buffer; two threads, each with the other's offset as it was when its call began | a FIFO of `size - 1` items; no copy leaves the storage; two threads never use one place, but for an item still in use that a rewind overruns |
| queue, `ac_queue.c` | head, tail and count of a linked list | new, push, pop, nr_items, foreach, destroy | a tail that dangles once the queue is empty while malloc reuses addresses; callbacks that push | an unbounded FIFO; no leak; callbacks see each item once |
| singly and doubly linked list, `ac_slist.c`, `ac_list.c` | linked nodes | add, preadd, remove (by data, by position, by comparison), reverse, find, nth, foreach both ways, destroy | unlinking at every place, the upkeep of `prev`, equal items, callbacks that change the list being walked | a sequence of items, in both directions; a foreach visits every node that stays, once |
| hash table, `ac_htable.c` | `HTABLE_SZ`, 2048, buckets of entries, a count, what the table must release | new, insert, remove, lookup, foreach, destroy | replacement and its count, ownership, callbacks that change the table being walked | a map from names to data that owns exactly its entries |
| binary tree, `ac_btree.c` | the root pointer of `tsearch`, a free function | new, lookup, add, remove, foreach, destroy | what `tdelete` returns; whose node is freed | a set of nodes with one per key |
| quarks, `ac_quark.c` | a tree and an array of the same nodes, the last number | init, from_string, to_string, destroy | two structures that must agree | strings numbered in order of appearance |
| JSON writer, `ac_jsonw.c` | text, its length and allocation, depth, indenter, a flag | init, indenters, add_*, end_*, end, free | growth of the buffer once per line, the comma taken back before a closer, a u8 depth | JSON, as asked for, laid out by its nesting, inside its buffer |
| mkdir_p and copy, `ac_fs.c`, `platform/*` | none of their own; the file system's | one call each, many system calls | other processes between two system calls, short counts, failures half-way | success means done; failure has a cause and is reported |
| JSON loader, `ac_json.c` | none | load from a descriptor or a file | short reads, failing reads, NULs, a file that grows | the file from its offset on |
| sleep, `ac_time.c` | none | nsleep, tspec_diff, secs_to_hms | signals at any moment | sleeps as long as asked |
| lookups and prefixes, `ac_net.c` | none | lookup by host and by address, isin for IPv4 and IPv6, the port of an address, an address to text and back | the resolver's error numbers, a callback that stops, masks at prefix lengths 0, 8k and all | callbacks get what was found, in order; the first bits decide |
| strings, `ac_str.c`, POSIX names, `ac_fs.c` | none | split, freev, chomp, substr, levenshtein; is_posix_name | empty strings, empty fields, strings of white space, what is behind a NUL | a reference definition for each |
| miscellaneous, `ac_misc.c` | none | shuffle, Luhn check, units of amounts, password salts, hash and comparison functions | biased draws, doubles above 9, ends of the table of units, signed chars | what each is for: fairness, the mistakes it detects, that equal keys hash alike |
| angles, `ac_geo.c` | none | degrees to minutes and seconds and back; distances and grids | signs; minutes and seconds rounded apart | there and back is where it began, as near as the rounding allows |
| for other platforms, `platform/*` | random_r: arrays of numbers, places in them | srandom_r, initstate_r, setstate_r, random_r; twalk_r, tdestroy; gen_uuid | switching between arrays; a walk that frees; short reads | each array is a stream of its own; in order, and each node once; a whole UUID or none |
| test program `test.c` | | | | not modelled, see section 6 |

A call is one step where nothing can come in between, because a library
without locks leaves it to its callers to keep threads apart. It is several
where something can: a foreach of the lists, the queue and the hash table and
the queue's destroy are one step per item; a call on a circular buffer that two
threads share is one step per access to what they share; the file system
helpers, the loader and the sleep are one step per system call; a lookup is one
step per callback.

## 2. The modules

| module | models | role |
|---|---|---|
| `Fifo`, `ItemList`, `Dict`, `Intern` | | abstract specifications: a bounded or unbounded FIFO with outcomes, a sequence of items, a map, a numbering of strings |
| `CircBuf` | `ac_circ_buf.c` | implements `Fifo` |
| `SharedBuf` | `ac_circ_buf.c`, between two threads | extends `CircBuf` |
| `Lemmas` | | what the proofs have in common: arithmetic of offsets, least numbers, induction, that recursive functions exist, items taken out of a sequence or put in front |
| `CircBufProofs` | | proofs about `CircBuf` and `SharedBuf` |
| `Queue` | `ac_queue.c` and the two functions of `ac_slist.c` it calls | implements `Fifo` |
| `QueueProofs` | | proofs about `Queue` |
| `ListHeap` | reading a linked list | shared by the two below |
| `SList`, `DList` | `ac_slist.c`, `ac_list.c` | implement `ItemList` |
| `HTable`, `HTableProofs` | `ac_htable.c`, and the proofs about it | implements `Dict` |
| `BTree` | `ac_btree.c` over an external `tsearch` | used by `Quark` |
| `Quark` | `ac_quark.c` | composes `BTree` with an array, implements `Intern` |
| `ContainerProofs` | | proofs about both lists, the tree and quarks, as `MCContainers` puts them beside each other |
| `JsonWriter`, `JsonWriterProofs` | `ac_jsonw.c`, and the proofs about it | |
| `MkdirP`, `Copy` | `ac_fs.c`, `platform/*/file_copy.c`, `platform/freebsd/fallocate.c` | |
| `JsonLoad`, `Sleep`, `Resolver` | `ac_json.c`, nsleep of `ac_time.c`, the lookups of `ac_net.c` | a call each, over an external kernel or resolver |
| `Strings`, `Prefix`, `Escape`, `Shuffle` | `ac_str.c` and the POSIX names of `ac_fs.c`, the prefix tests of `ac_net.c`, the escaping of `ac_jsonw.c`, the shuffle of `ac_misc.c` | functions, each beside its reference definition |
| `Convert` | the conversions of `ac_time.c`, `ac_misc.c`, `ac_geo.c`, `ac_net.c` | functions, likewise |
| `Misc` | Luhn check, hashes, comparisons and salts of `ac_misc.c`, `platform/linux/gen_uuid.c` | functions, likewise |
| `TreeWalk` | `platform/common/twalk_r.c`, `platform/freebsd/tdestroy.c` | functions on trees, likewise |
| `PureCalls` | | a program that calls one of those functions, with what it may hand over as assumptions |
| `Random` | `platform/common/random_r.c` | a program with several arrays of state |
| `HelperProofs` | | proofs about `PureCalls` with all functions it calls, and about `Random` |
| `MC*` | | constants for TLC. `MCCircBuf` has a buffer of one thread or of two; `MCContainers` (lists, tree and quark), `MCSystem` (`MkdirP` to `Resolver`) and `MCHelpers` (these, `PureCalls` and `Random`) put modules of the same kind beside each other in one state space: `kind` says which one a behaviour is about |
| `SystemProofs` | | proofs about `MkdirP`, `Copy`, `JsonLoad`, `Sleep` and `Resolver`, as `MCSystem` puts them beside each other |

Names follow the code: an action has the name of the function it stands for,
a variable that of the field or the local variable. Operators marked `faulty`
are mutants of the definition that follows them: each property is violated
when one of them takes its definition's place.

### How the code maps to each model

**CircBuf.** `head`, `tail`, `size`, `elem_sz` and `type` are the struct's
fields. `mem` holds an item at the offset of its first byte; writing an item
spoils what overlaps it. All arithmetic is modulo `2^WordBits`, subtractions
that go below 0 and the masks included, and the masks are computed bit by bit
(`BitAnd`). `New` to `Destroy` are the functions; `Contents` is what foreach
visits. `call` says which call was made last, of how many items, and which it
took, `ret` and `out` what it answered, so that a push that answers 0 and keeps
nothing is no step of `Fifo`. `popped` remembers the item under the pointer that pop returned.
pushm with `size` items is a call the code accepts although it loses them
(finding 1), and `FullBatch` says whether callers make it. Items of a size
that is no power of two are in the run of finding 5 only.

**SharedBuf.** The variables of `CircBuf`, and what each thread is doing.
`SharedPush`, `SharedPushM`, `SharedPop` and `SharedPopM` are the reading of
both offsets and the decision; `EndCopy` and `EndRead` the copying, from whose
beginning the places are spoilt; `Publish` and `Release` the write of the
thread's own offset, the last thing a call does. `Done` ends the use of the
item that pop returned a pointer to. A pushm that finds no room for its batch
goes on to a second test (`testing`), which reads the consumer's offset anew:
`NoRoom` is its -1, `Rewind` the two stores of 0. `lock` is what the program
locks: `"nothing"`; `"calls"`, which ends when pop returns, so that its pointer is
used outside the lock; or `"items"`, which is kept until `Done`. A rewind takes
the place of an item whose pointer is in use, and the consumer is in `overrun`
then (`UsedOverrun`): with a lock around each call too, in a buffer of 4 with
both offsets at 3 and a batch of 3. Without a lock the two stores of a rewind
can be seen apart by a pop, which then counts items that nobody pushed. That is
`Tear`, and the model follows the program no further (`Torn`); the other rewinds
without a lock, those that nothing of the consumer falls between, go on. The
model takes each thread's accesses in program order and whole, which C promises
for neither.

**Queue.** Nodes have addresses; `free` makes a node's fields `Junk`, and any
free address may come back from malloc, so a pointer that dangles is a pointer
to whatever is there now. `Push` is enabled while a foreach's callback runs.
`ForeachStep` reads the link after the callback returned, as `ac_slist_foreach`
does. `call` is as in `CircBuf`; `order`, `seen`, `released` and `doomed` are
histories.

**SList, DList.** The same heap. `Walk` follows the links of a list from its
head, and for one node more than there are (`HeapSize`), so that a circle shows
as a list that is too long. `Remove` is `ac_*list_remove_custom` (and,
with the identity for comparison, `ac_*list_remove`);
`RemoveNth`, `Find`, `NthData`, `ReverseList`, `Destroy`, `Foreach` and, for
the doubly linked list, `RevForeach` are the others. A foreach is a step per
node: `walk` is its direction, `cursor` the node whose callback runs, `due` a
history of the nodes it owes a visit. In between the callback may call
whatever leaves its own node alone (`MayUnlink`), but not reverse or destroy.
`Mixed` says whether callers reverse or walk backwards after preadd; `preadded`
records that preadd has put a node in front of another.

**HTable.** A bucket is a sequence, newest first. `NameOf` makes different key
objects equal, `HashOf` makes names collide. `owned` is what the table has to
release. A foreach's callback may insert and remove anything but the entry it
was called for (`MayTouch`).

**BTree, Quark.** `tsearch` and its relatives are external: a set of nodes and
a root, which a change of the tree may move to any other node (`Rebalance`).
What `tdelete` returns for the root is left unspecified by its manual page; the
model returns any value (`ReadParent`). `Quark` keeps its nodes in a tree and
in an array and calls the tree's actions.

**JsonWriter.** Text is a sequence of tokens with sizes; punctuation is one
byte, names and values have any size of a small set. `json_build_str` contains
the growth for the indentation (once), the indenters, and the growth for the
text (as often as needed); `__json_end` the removal of the last comma and the
two ways to write a closer. `nest` is the caller's: it closes what it opened
and opens at most 255 containers.

**MkdirP.** `fs` gives what there is at each place: nothing, a directory, a
file or a link to nowhere. A call goes through its tokens with a `Stat` and, if
that finds nothing, a `Mkdir` each; `met` records what came in its way.
Other programs remove things and create files. The directory behind `dirfd` is
taken for the root of every path.

**Copy.** A file is a sequence of distinct blocks. `Call`, `Open` (with the
fstat behind it), `Allocate`, then `SendFile` on Linux or `Read` and `Write` on
FreeBSD, each of which may count short; any of them may be refused. Files are
not removed or renamed during a copy, so that a name stands for its open file.

**JsonLoad.** A byte is its place in the file, so that a loss or a change of
order shows, or a NUL. `Read` gives any count up to what was asked for and is
left; what "%s" prints ends at the first NUL (`Printed`). `ReadFails` ends the
loop as the end of the file does. `Appended` is another program.

**Sleep.** `call.req` is the timespec, `slept` the time that passed. A signal
comes after any time (`Interrupted`) and any number of times.

**Resolver.** `res` is `Junk` until getaddrinfo has set it and again once it
is given back. `Unresolved` is a failure: with `EAI_BADFLAGS`, -1, the code
returns; with any other number it goes on with `Junk`, which ends the program,
or, if the memory happened to hold NULL, the call.

**Strings, Prefix, Escape, Shuffle, Convert, Misc, TreeWalk.** Each function of
the code is an operator of the same name on sequences, numbers, words or bytes,
loops as recursive functions of the places they go through. Memory that the code reads though
nothing wrote it is a parameter (`cell` of `ac_str_levenshtein`), as are the
signedness of char and the numbers that `random_r` draws. C's division rounds
towards zero (`Quot`, `Rem`). Numbers that only set a scale are constants, and
small: 4 nanoseconds to a second, units of 3 and of 4, hash values of 8 bits,
an int of 3 bits for the hours (`Narrow`). An angle is a number of grains, the
steps that the rounding of doubles is made of, of which the code has very many
to a second of arc and the instance 4. The minutes and the seconds come from two
products, `degrees * 60` and `fabs(degrees) * 3600`, each of which may be rounded
to a grain less or more than the angle (`Nearby`), each by itself; exact are
those of sixteenths of a degree, the only doubles that are whole seconds, and no
double is near enough to a whole degree to be rounded to it. An amount is the
quotient it is printed from. `Mask4` takes `~0UL` for wider than an address of 32
bits, as it is on 64-bit Linux; where a long has 32 bits, a prefix of length 0 is
a shift that C leaves undefined (`ac_net.c:178`). The reference definitions are of another shape than the code: the
edit distance is the cheapest of all alignments, a network the comparison of
single bits, the escaping what a reader of JSON makes of it, fairness of the
shuffle a bijection between draws and orders, the Luhn check the mistakes it
detects. `PureCalls` makes one call of one of them, frees what split returned, and
parses again what ntop wrote; what callers may hand over is stated there, as an
assumption for each kind of call. A tree is its nodes, and `Height` a measure of
it that TLC and the proofs are given with the trees.

**Random.** `mem` holds the arrays of numbers, with the word at -1 that tells
an array's kind and place; `buf` is the `random_data`, of which `fptr` and
`rptr` are kept as indices. `Number` is the reference: the n-th number of a
seed and a kind, by the recurrence. The tables of the five kinds are constants,
and three kinds of 0, 3 and 5 numbers of 8 bits take their place, with 2 rounds
of warming up for 10.

## 3. The runs

| run | question | instance |
|---|---|---|
| `circ_buf` | Is the buffer a FIFO that stays in its storage, also between two threads, and do these keep apart? | sizes 1, 2 and 4 (3 is refused), pointers and items of 2 bytes, batches up to 3, 5-bit words; one thread, or two with each kind of lock and none, which copy their items |
| `circ_buf_full_batch` | Is what an accepted call pushed in the buffer? No: finding 1 | size 4, batches up to 4 |
| `circ_buf_item_size` | Is an item that was pushed counted, whatever its size? No: finding 5 | size 4, items of 3 bytes |
| `queue` | Is the queue a FIFO that leaks nothing and walks in order? | 4 addresses, 2 items |
| `containers` | Do both lists behave as sequences, also when a foreach's callback changes them? Does the tree free and answer correctly; do quarks number strings? | 4 addresses, 3 items of which two compare equal; 5 nodes, two of them equal; 4 strings |
| `list_preadd_reverse` | Does reverse keep what preadd put in? No: finding 2 | the same |
| `htable` | Is the table a map that owns its entries, and does foreach end? | 2 buckets, 4 keys: two equal, one colliding, one elsewhere; 2 data objects |
| `jsonw` | Is the text JSON, as asked for, indented, in its buffer? | 7-byte allocations, up to 7 calls, names of 1 byte, values of 2 and 15, indenters of 1 and 2 bytes |
| `helpers` | Do mkdir_p and copy succeed, fail and end as they should among others? Do loads, sleeps, lookups, random numbers and the functions do what they say? | 2 callers, paths of up to 3 tokens with and without empty ones, PATH_MAX 5; 2 files of up to 2 blocks, calls of up to 2 blocks; 1 step of other programs; files to load of up to 4 bytes, reads of 2; sleeps of up to 11 ns of 4 to a second; up to 3 addresses per host; strings of up to 4 characters, 4-bit words and 2 bytes of 2 bits, bytes from both sides of every boundary, arrays of up to 4 with draws up to 4; names of up to 3 characters of 7 kinds; times, totals and amounts around every boundary, ints from -4 to 3; angles around whole minutes and degrees, 4 grains to a second; numbers of up to 5 digits; keys of up to 2 characters or 9 bits; trees of up to 4 nodes; 2 arrays of random numbers, of two or three sizes each, and 4 draws from each start |
| `copy_empty` | Can an empty file be copied? No: finding 3 | the same, of copies and the like (`MCSystem`) alone |
| `lookup_failure` | Is a failed lookup reported? No: finding 4 | the same |
| `escape_bytes` | Do all bytes survive the escaping? No: finding 6 | that of `helpers` |

Why the bounds are enough. The circular buffer's state space is complete for
each size: its offsets wrap at every size, and 5-bit words are the smallest in
which products of size and item size fit with a bit to spare; sizes 1 (no
room), 2 (room for one) and 4 have every relation of head, tail and end, and a
batch of 3 is refused by all but an empty one of 4, which it makes rewind. Two
threads interleave at every access to what they share, in buffers as small as
that; items are only moved about, so that the run takes them for symmetric. The
run has 378,539 distinct states, `queue` 6,323 and `helpers` 571,158. Four addresses hold a list with a first, a last and middle nodes, also
with one address left for reuse while a foreach is in the middle. A hash table needs equal, colliding and unrelated
keys, and one bucket after another. In the JSON writer 7 bytes are less than a
line, so that growth happens at every kind of write, none, one or several
times, and the 7 calls nest to the depth the u8 (scaled to 4 values) allows.
Two callers, 2 components and one disturbance are enough for each
pair of system calls to have something in between; the longest path that is
accepted fills `mdir` to its last byte, the next longer one is refused. Loads
take several reads, with the file's end inside, at the end of and behind a
buffer; sleeps start below, at and above a second and are interrupted on both
sides of one. The functions are checked for every input of their sizes: all
words of 4 bits with all prefix lengths, all addresses of two bytes (so that a
prefix ends in the first, between them, in the second, and at the end), all
strings over two characters and the delimiter, all trees of up to four nodes.
Four draws take each generator past the end of the shorter array and round it.
Bounds
that are not in the code are named in the modules (`MaxBatch`, `Addrs`,
`MaxCalls`, `MaxMeddle`, `MaxSize`, `Places`, `MaxId`,
`MaxDraws`).

Fairness. Two runs need it. In `htable` the callback of a foreach eventually
returns, weak fairness of `ForeachStep`: it is the program's code on the
library's stack, and nothing else can run the table meanwhile but that
callback. In `helpers` every caller takes its next system call eventually, weak
fairness of each caller's steps, which the scheduler provides and no lock can
prevent; and a single call that loads, sleeps or looks up goes on (`SingleStep`):
the kernel answers, callbacks return, and between two signals a sleep makes some
progress, so that it is not interrupted for ever (the time left is a number of
nanoseconds, and goes down). Nothing is assumed of other programs.

Deadlock is checked everywhere except in `circ_buf_full_batch` and
`circ_buf_item_size`, which stop at a lost item. Calls of `helpers`
are made once each, and the end of all is a step of its own.

## 4. The proofs

| theorem | says, for every value of the constants |
|---|---|
| `CircBufProofs!TypeCorrect`, `RunsInside`, `PoppedSafe`, `FifoRefinement` | the offsets are item places; no copy leaves the storage; pop's pointer stays good until the tail moves again; the buffer is a FIFO of `size - 1` items: a call that answers 0 has put in all it was given, or taken out as many as it was asked for, and one is refused only for lack of contiguous room or items |
| `CircBufProofs!NeverShared`, `SharedTypes`, `SharedPoppedSafe`, `SharedFifo` | two threads, one that pushes and one that pops, with any of the locks or none: they never use a place of the buffer at the same time, but that a rewind overruns an item in use, unless the lock is kept until it is done with; offsets and runs fit; pop's pointer stays good until the tail moves, by the next pop or a rewind; the buffer is still that FIFO. Without a lock this is up to a rewind that is seen half done |
| `QueueProofs!TypeCorrect`, `ListCorrect`, `TailSafe`, `ForeachVisits`, `DestroyComplete`, `FifoRefinement` | each invariant of the queue, and that it is an unbounded FIFO |
| `HTableProofs!TableOnePerName`, `TableOwnsItsEntries`, `TableForeachVisitsOnce`, `TableImplementsDict` | one entry per name, in the bucket of its hash, and counted; what is owned is what the entries hold; a foreach visits what stays once; the table is a map |
| `ContainerProofs!ListsStayIntact`, `ListsForeachVisits`, `ListsImplementItemList` | for both kinds of list: nothing is lost and no link in use leads to a freed node; a foreach visits what stays once; the list is a sequence |
| `ContainerProofs!TreesStayIntact`, `QuarkImplementsIntern` | one node per key, and no freed one in the tree; a quark's tree and array agree, and number the strings |
| `SystemProofs!CopiesAreWhole`, `CopiesFailForAReason` | copies, many at once and among other programs: one that nothing came in the way of is whole; of those that do not overwrite one file one succeeds; one that fails has a reason; no file stays open |
| `SystemProofs!LoadsAreWhole`, `SleepLasts`, `LookupsDeliver` | what is loaded is the file; signals do not shorten a sleep; a lookup's callback gets what was found, in order, while it is there |
| `SystemProofs!DirectoriesMade` | callers that make the same directories at once do not disturb each other: a call that no other program came in the way of leaves its directory there, or has a reason to fail; the path it builds fits its buffer |
| `JsonWriterProofs!TypeCorrect`, `BufferSuffices`, `TextIsJson`, `TextIsIndented` | the struct's types; that everything written fits its buffer with its NUL; that what is written is the beginning of a JSON document, all of one at the end, says what was asked for and is `len` long; that each line is indented by the containers it is in |
| `HelperProofs!PrefixesDecide` | an address is in a network exactly if it begins with the network's prefix, for every width of addresses and length of prefix |
| `HelperProofs!ConversionsKeep` | the parts of times, amounts, ports and addresses are in range and add up to what was given, those of a time if its hours fit an int; an angle comes back but for its rounding, or, if it is within a rounding below a whole minute, up to a minute of arc off |
| `HelperProofs!EscapesAreRead` | what is written of a string of any length is read as that string, and fits the memory set aside for it |
| `HelperProofs!StringsAreKept`, `DistancesAreLeast` | strings of any length are split, trimmed, cut and released as callers are told; the edit distance is that of the cheapest alignment |
| `HelperProofs!MiscIsRight`, `ShufflesAreFair` | the shuffle makes each order for one choice of residues; the Luhn check finds a digit mistaken and neighbours exchanged, in numbers of any length; keys that differ in one place hash differently; salts and UUIDs are whole |
| `HelperProofs!WalksAreInOrder` | walks of trees of any shape are in order, and destroying one frees each node once and after all below it |
| `HelperProofs!StreamsGoOn` | whichever arrays of random numbers are initialised, switched to and drawn from, the number drawn is the next one of the array's seed by the recurrence |

*CircBuf.* The assumptions: the word has room for the storage
(`ConstantsAssumption`), no batch is of exactly `size` items, which pushm loses
(`BatchAssumption`, for the FIFO and the two threads only), and `MaskAssumption`, what `&` computes for a power of two
minus one times an item size that is a power of two. The last is a statement
about bit arithmetic on the constants; TLC evaluates it for the instance of the
run. The argument: head and tail are places `h * elem_sz` and `t * elem_sz`;
`Lemmas` reduces every masked expression to arithmetic of `h` and `t`
modulo `size`. The inductive invariant says that both are below `size`, that
the items between them are intact (no write overlaps them, as writes go to
whole places in the free run), and that the place behind the tail, which is
never written, keeps the item popped last. Every action then maps to a step of
`Fifo` on the sequence of items from tail to head, with what the call took.

*SharedBuf.* The assumptions of *CircBuf*, and its inductive invariant, which
holds between any two accesses of the threads. Each thread decides by the other's
offset as it was when the call began. `SharedInv` adds what makes that safe: the
room the producer chose starts at head and is still there (`RoomKept`), the
items the consumer takes start at tail and are still counted (`ItemsKept`), and
the item whose pointer it follows is behind tail (`PoppedOne`). An old offset
errs on the safe side only, because the other thread makes room, or items, and
never takes any back. The rewind of pushm is the exception, as it moves the
consumer's offset. Its second test is taken in one step with its stores: the
buffer is empty then, so that a call of the consumer in between its own accesses
has taken no item, and can only be a popm of none. Such a call, and any other that
comes between the two stores, is left to `Tear`; with a lock there is none. An
item whose pointer is in use is in no call and does not hold the
rewind up; the consumer is `overrun`, which the lock of items excludes
(`LockHeld`). In all other cases the three sets of places are disjoint, as
`size - 1` items leave the place behind tail alone (`Apart`). That the buffer is
a FIFO needs more, because a push takes effect only when its call ends and what
it copied must be there still: `HeldInv` adds that the batch copied is in the
room (`Copied`), that the items read are those the buffer still holds (`Taken`),
and `PoppedIntact`. A write to the room changes nothing the buffer holds
(`RoomWrite`), and every step maps to a push, a pop or a stutter of `Fifo`.

*Queue.* The assumption (`HeapAssumption`): NULL and Junk are no addresses or
items. The invariant is the conjunction of the checked invariants and the
places of the histories; `TailIsLast` is what makes push safe although nothing
resets the tail, and needs `Linked` with its absence of duplicates: only then
does freeing the first node leave all others alone.

*HTable.* The assumptions: keys have names and names hash values, whatever they
are, no object is handed over both as a key and as data, and NULL is not a key
(`CallerAssumption`); there is a bucket at least (`SizeAssumption`). The
invariant `IInv` says of every bucket that it holds no name twice and only names
that hash to it, which makes the table a function from names (`PresentNames`),
and the count the number of its domain. That a foreach visits each entry once
needs to know how far it is: `VisitedSoFar` says that of the entries that have
stayed, it has visited those up to its cursor in the order of buckets and of
places in a bucket, once, and no other. An insert at the front of a bucket and a
removal elsewhere keep that order (`AtOrBefore`). The table must also not hold
one piece of data twice where it frees it (`DataOnce`), which the guard of
`Insert` asks of the caller. Where loops look for the first entry or bucket,
`Lemmas` has least numbers (`Least`).

*Lists.* The assumption (`HeapAssumption`): NULL and Junk are no addresses, and
there are `HeapSize` addresses. `Chain` says that a sequence of different
addresses is linked in its order, and `NodesAre` that this sequence is what a
walk from the head finds; the addresses being finite is what makes a walk end.
What the functions of both kinds of list do to links is then five facts about
chains, proved once: a node is put at the end, put in front, or cut out, the
links are turned, all nodes are freed. `Forward` says of a foreach that it owes a
visit to the nodes behind its cursor. `Back` says of a rev_foreach that it owes
one to those before its cursor as far as prev leads: nodes that its callbacks
put in front are not reached, because preadd leaves their successor's prev alone.
These theorems are about programs that do not follow prev after preadd otherwise
(`Mixed = FALSE`); of those that do, the code does not have the property
(finding 2). Freed nodes have their fields set to Junk, so that a walk that used
one would not find the list.

*Tree and quarks.* The assumption (`NodesAssumption`): NULL is no node and the
strings are finitely many; nodes and what a comparison sees of them are
arbitrary, and `tdelete` may return anything for the root. No two nodes of the
tree have one key, and the nodes not freed are those in the tree (`TreeInv`). A
quark's array holds the nodes of its tree at their numbers (`TreeIsArray`); the
next number is in range because different nodes have different strings, and
that step, of cardinalities, is why the strings are finite.

*Copies.* The assumptions: sizes are natural numbers (`SizesAssumption`), what is
asked for names files (`RequestsAssumption`), and NONE is no content
(`NoneAssumption`). The invariant follows three strengths of what a call may say
of its files. Whatever came in its way, the source it has open is there and it
has read at least what it has written (`CallInv`). If nobody changed its
destination, shortened its source or cut a write short, the destination is as
long as the space set aside or the blocks written, whichever is more, and the
source is at least as long as that (`SizesInv`). If nothing came in its way at
all, the source is what it was at the call, and the destination begins with it
(`ContentsInv`). At the end of the source these meet, and leave one content.
What a step of another can do to a call is one definition (`Undisturbed`): a
change to a file of its leaves a mark in `met`, so that the weaker statements go on
(`Stays`), and each action has to be proved for the caller that takes it only.
That one copy wins is about two: the second to open a destination finds a file
(`OneEach`).

*Loads, sleeps, lookups.* The assumptions (`NumbersAssumption`,
`UnsetAssumption`): bounds are numbers, a second has a nanosecond at least, and
a pointer that was never set is no list. Loads keep that what was put out is the
file from the offset to what has been read, if the file has no NUL, and increases
if it has; an append changes neither. Sleeps keep that what was slept and what is
in `req` add up, and that `req` is normalised, which division makes it. Lookups
keep where in the list found the rest to be given begins.

*Directories.* The assumption (`PathsAssumption`): `Places` holds the place of each
path and the parent of each place, and `PATH_MAX` is 1 at least. What is proved
about the tokens of a path is by induction on them (`PlacesAre`): a named token
leads to a child of the place before it, an empty one stays where it is. The
invariant `WayInv` speaks of a call that is `Calm`, that is, that nothing came
in the way of and whose path has no link to nowhere: it stands in a directory,
and what it is about to make is no file. Other callers can do one thing only to
its way without leaving a mark, which is to make directories on it
(`MadeOnWay`); so a call that is calm was calm before (`CalmBefore`), and what
it knows of its way stays true (`WayStays`), among it that the directory it saw
missing is missing still or has been made by another.

*JsonWriter.* The assumption (`SizesAssumption`): the deepest indentation,
`(DepthMod - 1)` indenters of the widest kind, is narrower than the allocation
unit. For the code's own numbers, `255 * 16 = 4080 < 4096`, it holds for what
`ac_jsonw_indent_sz` accepts; `ac_jsonw_set_indenter` does not check it, which
makes it the caller's duty. The invariant: the text has two tokens at least
while open, `len` is below the allocation, and each indenter fits. `Grown` is
proved to exceed what is asked for, `json_build_str` to keep the invariant, and
the actions are compositions of it.

What the text says is told by a reader (`Reading`), a recursive function of the
prefixes of the text; a lemma for each kind of token says what the reader makes
of it, and `Reads` that a token more is one reading more. `TextInv` is the
invariant. `IsJson` alone is not inductive, because the end of a container takes
back tokens, and a state of the reader does not tell what it was before them. So
`Ready` names the token before the last newline: it is a comma, and the reader
without it has read a whole value, or it opens a container, which is empty then.
In both cases what is left after the cut is text the reader accepts a closer
behind (`CutBack`, `CloserRead`). `TextInv` also ties the three counts of nesting
to one another, which are the caller's, the reader's and the `depth` of the
struct, that the indenters of each line follow (`TabsRead`), and keeps that the
outermost container is an object, because `ac_jsonw_end` writes its closer
without looking. An indenter's width changes between lines only, and only `len`
has it.

*Functions without state.* Their state machine is small: what is asked stays,
and what is replied is what the function returns for it (`AskInv`). All else is
about the functions, for arguments of any size, and a function that is given by
recursion has first to be shown to exist and to satisfy its equation, because
TLA+ takes any value that does. `Lemmas` does that three times: for functions on
`0..N`, from a step (`Recursion`); on numbers (`Iterated`); and on any set with
a measure that goes down (`Measured`), which is that of trees by their height
and of numbers that are halved or lose their last digit (`DivRecursion`).
Induction is then on sets of numbers or trees for which a statement holds, each
set named where it is used.

The assumptions are what callers have to keep to (`CharsAssumption`: a string
ends in its first NUL, a part of it begins in it and has room where it is copied
to; a nanosecond part is below a second; a bit string has a bit), that a tree's
keys increase from left to right, and, of the hashes, that `GOLDEN_MUL` is odd,
no shift is by 0 and a word is no narrower than a char (`HashAssumption`): the
proof shows that nothing else of those constants matters.

A *prefix* decides because the masks, which are made by shifts in the code, are
ones up to its length and zeros from there on (`Mask4Is`), for an address of
bytes by what the bytes in front have left of it (`LeftIs`, `Mask6Is`). *Escapes* are
read one by one: what is written for a byte is read as that byte and ends where
the next one begins. *Split* keeps that the fields so far, joined by the
delimiter, are the string so far. The *edit distance* is by induction on both
strings: an alignment of two prefixes either pairs their last characters or
leaves one of them out, and what is left is an alignment of shorter ones
(`Ends`, `LeastStep`). The *shuffle* is a sequence of exchanges after each of
which one more place keeps what it has (`RunSettles`), so that the draws can be
told from the order. In the *Luhn check* what the digits below a place add does
not depend on those from there on (`TailsAdd`), so that two numbers that differ
at a place differ in what one or two digits add, of which there are few. A
*hash* mixes by steps that can each be undone: a product with an odd number, of
which `h + (h << s)` is one (`OddProduct`, `PlusUndone`), and an exclusive or with
its own upper bits, which can be halved until nothing is left (`MixUndone`); so
two keys differ from the character they differ in on, to the end
(`StringsApart`). A *walk* of a tree is the walks of both its sides with the
node's visits around and between (`WalkStep`, `DestroyStep`).

*Random.* What is assumed of the tables (`TablesAssumption`): they are
of one length, the terms of each polynomial differ, the smallest array taken for
it has room for its words and the one at -1, and the modulus leaves less than
its quotient by the multiplier, which for 16807 is 2836 and 127773. The theorem
is about a program that draws numbers (`DrawSpec`). The proof begins with
arithmetic: neither term of the multiplication in `srandom_r` reaches the
modulus, whatever the sign of the word, and their difference is the product
modulo it (`TermsFit`, `LehmerIs`). A seed's numbers are then one infinite
sequence (`IsStream`), and the rounds of the reference `Number` stretches of it
(`AllRoundsAre`). A generator that has been turned k times holds the next numbers
of the sequence, the oldest of them where `fptr` will put the sum (`At`), and
turning it once more keeps that, though one pointer at most is wrapped
(`TurnedAt`). `StreamInv` says this of the words of every array in use, says for
the current one where `fptr` and `rptr` are and for all others what the word at
-1 tells, which can be taken apart again (`InfoIs`). Every switch goes by way of
`KeepPlace`, after which all arrays tell their place, the current one too
(`PlacesKept`); that is why setting the array that is set already is harmless.

Each inductive invariant was a run's invariant before it was proved, except
`AskInv`, which says of a reply what the actions say, and
`StreamInv`, which speaks of infinite sequences and is out of TLC's reach.

What is model-checked only: liveness (`ForeachEnds`, `AllAnswered`), which is out
of the prover's reach, and `RemoveAnswersNode`, which follows from the action it
speaks of alone: a theorem would say no more than the run.

## 5. What came out

1. **A full batch is lost** (`ac_circ_buf.c:143`): pushm accepts `size` items
   in an empty buffer and the buffer then counts as empty.
2. **preadd breaks reverse** (`ac_list.c:93`): the old head's `prev` is not set,
   so the reverse that preadd's own documentation advises loses items.
3. **An empty file cannot be copied on Linux** (`ac_fs.c:171`): fallocate
   refuses length 0 and the fallback is for another error.
4. **Failed lookups are not noticed** (`ac_net.c:120`, `:158`): of
   getaddrinfo's error numbers only -1 is handled; after any other the code
   uses a pointer that was never set.
5. **Items of other sizes than powers of two are lost** (`ac_circ_buf.c:182`):
   the mask is none for them, and nothing checks the size: after one push of an
   item of 3 bytes none is counted.
6. **Text beyond ASCII is lost in JSON** where char is signed (`ac_jsonw.c:132`):
   every such byte is written as `\uffff`.

Others are stated in the modules, or left out of a property by name, and have
no run of their own. Removing the root of a tree of several nodes reads through
a pointer that `tdelete` leaves unspecified (`ac_btree.c:153`,
`BTree!RemoveReturnsNode`); `RemoveAnswersNode`, which holds, leaves that out.
mkdir_p answers 0 without a directory where the path ends in a link to nowhere,
or where a file appears between its stat and its mkdir (`ac_fs.c:116`,
`MkdirP!SuccessIsDirectory`); `MkdirMakes` leaves that out. The edit distance
from an empty string is read from a row that nothing has written
(`ac_str.c:200`); `DistanceIsLeast` leaves that out. Of an angle below zero the
degrees and seconds lose their sign but the minutes keep it (`ac_geo.c:48-50`,
`Convert!SideIsDropped`); `AngleReturns` is about the others. And an angle just
below a whole minute may come back a minute of arc wrong: for 8.7 degrees
`degrees * 60` is rounded to 522, hence 42 minutes, `degrees * 3600` to less than
31320, hence 59.99... seconds, where it should be 41 or 0 (`ac_geo.c:49-50`);
`AngleReturns` allows for this and bounds it. Hours are narrowed to an int
(`ac_time.c:55`); `HmsAddsUp` is about those that fit.

Of "thread-safe" (`README.rst:1299`) the runs and proofs say this, for a circular
buffer between a thread that pushes and one that pops. A lock around each call
keeps the buffer a FIFO, but not the item under pop's pointer: a pushm that
rewinds overwrites it (`ac_circ_buf.c:144`). A lock that is kept until the item is done with
keeps both. Without a lock, and on a machine that keeps accesses in order, all
holds as with one around each call, as long as no rewind is seen between its two
stores; a program that must not depend on that never passes a batch for which
the contiguous room may be short.

Seen while reading, and not shown by a run:

* Containers: storages above 4 GiB break the masks of the circular buffer, and
  size 0 passes as a power of two; a backward walk after preadd stops early, for
  the reason of finding 2; a negative quark passes the test of its number and is
  used as an index (`ac_quark.c:107`).
* JSON: the documentation of `ac_jsonw_set_indenter` names a default the code
  does not have, and setting an indenter twice leaks the first; the 256th open
  container wraps the depth to 0 (`ac_jsonw.c:308`); names are not escaped.
* Files: a file copied onto itself with AC_FS_COPY_OVERWRITE is emptied, and a
  copy that fails leaves its destination truncated or padded; a read that fails
  is taken for the end of the file (`ac_json.c:43`).
* Strings and hosts: chomp reads, and may write, in front of a string that is
  empty or all white space; split hands strsep the address of an int for a
  string, which is one on little-endian machines only; a host without a name is
  given to the callback as whatever was in the buffer (`ac_net.c:161`); a network
  with bits set behind its prefix contains no address.
* Numbers: `ac_hash_func_ptr` multiplies signed longs, which may overflow;
  passcrypt refuses SHA-1, which is among its types; Vincenty's formula takes
  `1 - sin_alpha` where it should take `1 - sin2_alpha` (`ac_geo.c:141`); the
  loops that iterate a latitude until two values are within `1e-16` can only
  end when they are equal, as that is less than the spacing of doubles there;
  `platform.h` declares setstate_r, and `random_r.c` defines `__setstate_r`.
  Nothing in the library calls it, nor can its users: the switches between
  arrays in `Random` are those of the file's own interface.

## 6. What is not modelled

* Failing allocations: the code does not check them, and the models assume that
  malloc succeeds.
* Threads: two that push, or two that pop, or any that share another structure,
  need a lock of their own. What a program without a lock does once it has seen a
  rewind of pushm half done is left out (`SharedBuf!Torn`), as are compilers and machines that reorder or split memory
  accesses.
* Callbacks that free the very node or entry they are called for: the code
  would read freed memory, and promises nothing.
* The formatting of numbers in JSON; `JsonWriter` keeps the size of a value, and
  the escaping is checked apart from it, in `Escape`.
* The parsing of addresses (`inet_pton`), whose failure the prefix tests ignore.
* Geodesy but for degrees, minutes and seconds: distances, end points and grids
  are floating-point trigonometry without state, and TLC has neither.
* The difference of two times as a double; the hints to the page cache; FreeBSD's UUIDs, two calls of its C library; `test.c`.

## 7. Plan

The order is by how much can go wrong unnoticed. Done: the circular buffer, of
one thread and of two, the queue and its proofs, the lists and their callbacks,
the hash table, tree and quarks, the JSON writer and its buffer's proof, the
file system helpers, the loader, sleep, lookups, random numbers, tree walks, and
the functions without state.

Proved: every invariant the runs check and every refinement.

Left of the models: the escaping composed with the writer, so that the sizes it
writes are those of the escaped text. Left of the proofs: liveness, by a measure
of what a foreach or a call has yet to do, should a prover for it come.
