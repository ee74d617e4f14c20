-------------------------------- MODULE Random --------------------------------
(***************************************************************************)
(* The random numbers that the library brings along for platforms without  *)
(* glibc (src/platform/common/random_r.c): a program with one random_data  *)
(* and several arrays of state, which it switches between.                 *)
(*                                                                         *)
(* An array holds words: the one at -1 tells the kind of generator and the *)
(* place of its rear pointer, the others are the state.                    *)
(***************************************************************************)
EXTENDS Integers, Sequences

CONSTANTS Break,       \* <<8, 32, 64, 128, 256>>, of the kinds 0 to 4: the bytes they
                       \* need,
          Degrees,     \* <<0, 7, 15, 31, 63>>, the degrees of their polynomials,
          Seps,        \* <<0, 3, 1, 3, 1>>, and what is between its two lower terms
          SizesOf,     \* the sizes in bytes that each array is initialised with
          Seeds,
          WordBits,    \* 32, of int32_t
          Multiplier,  \* 16807, for the modulus 2^31 - 1
          Scale, Increment,  \* 1103515245 and 12345
          Rounds,      \* 10: how often a new generator is turned all the way round
          MaxDraws,    \* bound: numbers drawn from a generator
          NULL

VARIABLES buf,      \* the random_data: state is an array, fptr and rptr places in it
          mem,      \* the arrays, NULL before their first use
          drawn,    \* history: each array's seed and size, and the numbers drawn since
          result    \* the last call and its answer

drawVars == <<buf, mem, drawn, result>>

Arrays == DOMAIN SizesOf

MAX_TYPES == Len(Degrees)

(***************************************************************************)
(* The generator for an array of n bytes, that is enough for one at least. *)
(***************************************************************************)
TypeFor(n) == CHOOSE t \in 0..MAX_TYPES - 1 :
                 n >= Break[t + 1] /\ (t + 1 < MAX_TYPES => n < Break[t + 2])

Degree(t)  == Degrees[t + 1]
Sep(t)     == Seps[t + 1]

Word      == 2^WordBits
Signed(w) == IF w >= Word \div 2 THEN w - Word ELSE w
----------------------------------------------------------------------------
(***************************************************************************)
(* 16807 * word modulo 2^31 - 1, of the quotient and the remainder of word *)
(* that keep the product below 2^31; / and % round towards zero.           *)
(***************************************************************************)
Modulus == (Word \div 2) - 1

Lehmer(w) ==
    LET word   == Signed(w)
        most   == Modulus \div Multiplier
        hi     == IF word < 0 THEN -((-word) \div most) ELSE word \div most
        lo     == word - most * hi
        next   == Multiplier * lo - (Modulus % Multiplier) * hi
    IN  IF next < 0 THEN next + Modulus ELSE next

(***************************************************************************)
(* One step of a trinomial generator: at fptr, the sum of the two numbers. *)
(* Only one of the pointers can wrap.                                      *)
(***************************************************************************)
Turned(gen, deg) ==
    LET sum  == (gen.words[gen.fptr] + gen.words[gen.rptr]) % Word
        over == gen.fptr + 1 >= deg
    IN  [words |-> [gen.words EXCEPT ![gen.fptr] = sum],
         fptr  |-> IF over THEN 0 ELSE gen.fptr + 1,
         rptr  |-> IF ~over /\ gen.rptr + 1 >= deg THEN 0 ELSE gen.rptr + 1,
         last  |-> sum]

(***************************************************************************)
(* Seed 0 counts as 1.                                                     *)
(***************************************************************************)
First(seed) == IF seed = 0 THEN 1 ELSE seed

Filled(seed, t) ==
    LET words[i \in 0..Degree(t) - 1] == IF i = 0 THEN First(seed) ELSE Lehmer(words[i - 1])
    IN  [words |-> words, fptr |-> Sep(t), rptr |-> 0, last |-> 0]

srandom_r(seed, t) ==
    LET turns[k \in 0..Rounds * Degree(t)] ==
            IF k = 0 THEN Filled(seed, t) ELSE Turned(turns[k - 1], Degree(t))
    IN  IF t = 0 THEN [words |-> [i \in {0} |-> First(seed)], rptr |-> 0]
        ELSE turns[Rounds * Degree(t)]
----------------------------------------------------------------------------
(***************************************************************************)
(* The tables are of one length.  The terms of a polynomial are different, *)
(* and its words fit the smallest array that is taken for it, with the one *)
(* at -1.  Words are of an even number of values, and the modulus leaves   *)
(* less than its quotient by the multiplier (2836 and 127773).             *)
(***************************************************************************)
GoodTables ==
    /\ \A table \in {Break, Degrees, Seps} : table \in Seq(Nat) /\ Len(table) = MAX_TYPES
    /\ MAX_TYPES > 0 /\ Break[1] >= 8
    /\ \A t \in 1..MAX_TYPES - 1 :
          Sep(t) \in 1..Degree(t) - 1 /\ Break[t + 1] >= 4 * (Degree(t) + 1)
    /\ Word \in Nat /\ Word % 2 = 0
    /\ Multiplier \in Nat \ {0} /\ Modulus % Multiplier < Modulus \div Multiplier
    /\ {Scale, Increment, Rounds} \subseteq Nat
    /\ Seeds \subseteq 0..Word - 1 /\ \A a \in Arrays : SizesOf[a] \subseteq Nat
    /\ NULL \notin Arrays

ASSUME TablesAssumption == GoodTables
----------------------------------------------------------------------------
Return(fn, answer) == result' = [fn |-> fn, answer |-> answer]

DrawInit ==
    /\ buf = [state |-> NULL, type |-> 0, fptr |-> 0, rptr |-> 0]
    /\ mem = [a \in Arrays |-> NULL]
    /\ drawn = [a \in Arrays |-> NULL]
    /\ result = [fn |-> "none", answer |-> 0]

SavedPlain(rear, t) == t                      \* faulty: the rear pointer is lost

Saved(rear, t) == MAX_TYPES * rear + t

(***************************************************************************)
(* The arrays once the place in the current one is saved in its word -1.   *)
(***************************************************************************)
KeepPlace ==
    IF buf.state = NULL THEN mem
    ELSE [mem EXCEPT ![buf.state][-1] =
             IF buf.type = 0 THEN 0 ELSE Saved(buf.rptr, buf.type)]

(***************************************************************************)
(* An array too small for any generator is refused; it is when the place   *)
(* in the current one has been saved.                                      *)
(***************************************************************************)
initstate_r(seed, a, n) ==
    IF n < Break[1]
    THEN mem' = KeepPlace /\ Return("initstate_r", -1) /\ UNCHANGED <<buf, drawn>>
    ELSE LET t == TypeFor(n)
             gen == srandom_r(seed, t)
             words == [i \in -1..(n \div 4) - 2 |->
                          IF i = -1 THEN (IF t = 0 THEN 0 ELSE Saved(gen.rptr, t))
                          ELSE IF i \in DOMAIN gen.words THEN gen.words[i] ELSE 0]
         IN  /\ mem' = [KeepPlace EXCEPT ![a] = words]
             /\ buf' = [state |-> a, type |-> t,
                        fptr |-> IF t = 0 THEN buf.fptr ELSE gen.fptr,
                        rptr |-> IF t = 0 THEN buf.rptr ELSE gen.rptr]
             /\ drawn' = [drawn EXCEPT ![a] = [seed |-> seed, type |-> t, count |-> 0]]
             /\ Return("initstate_r", 0)

(***************************************************************************)
(* The place in the current array is saved before the new one's is read:   *)
(* they may be the same.                                                   *)
(***************************************************************************)
setstate_r(a) ==
    LET info == KeepPlace[a][-1]
        t    == info % MAX_TYPES
        rear == info \div MAX_TYPES
    IN  /\ buf.state # NULL /\ mem[a] # NULL
        /\ mem' = KeepPlace
        /\ buf' = [state |-> a, type |-> t,
                   fptr |-> IF t = 0 THEN buf.fptr ELSE (rear + Sep(t)) % Degree(t),
                   rptr |-> IF t = 0 THEN buf.rptr ELSE rear]
        /\ Return("setstate_r", 0) /\ UNCHANGED drawn

random_r ==
    LET words == mem[buf.state]
        val == (words[0] * Scale + Increment) % (Word \div 2)
        gen   == Turned([words |-> words, fptr |-> buf.fptr, rptr |-> buf.rptr], Degree(buf.type))
    IN  /\ buf.state # NULL /\ drawn[buf.state].count < MaxDraws
        /\ IF buf.type = 0
           THEN /\ mem' = [mem EXCEPT ![buf.state][0] = val]
                /\ Return("random_r", val) /\ UNCHANGED buf
           ELSE /\ mem' = [mem EXCEPT ![buf.state] = gen.words]
                /\ buf' = [buf EXCEPT !.fptr = gen.fptr, !.rptr = gen.rptr]
                /\ Return("random_r", gen.last \div 2)
        /\ drawn' = [drawn EXCEPT ![buf.state].count = @ + 1]

DrawNext ==
    \/ \E seed \in Seeds, a \in Arrays : \E n \in SizesOf[a] : initstate_r(seed, a, n)
    \/ \E a \in Arrays : setstate_r(a)
    \/ random_r

DrawSpec == DrawInit /\ [][DrawNext]_drawVars
----------------------------------------------------------------------------
(***************************************************************************)
(* The numbers by their definition.  Of a generator of degree deg each     *)
(* number is the sum of those deg and sep before it, the oldest of the     *)
(* first deg being the one that fptr starts at; they come in rounds of     *)
(* deg, the first Rounds of which are left out.                            *)
(***************************************************************************)
Lehmers(seed) ==
    LET lehmer[i \in Nat] == IF i = 0 THEN First(seed)
                             ELSE (Multiplier * Signed(lehmer[i - 1])) % Modulus
    IN  lehmer

FirstRound(seed, t) == [i \in 1..Degree(t) |-> Lehmers(seed)[(i - 1 + Sep(t)) % Degree(t)]]

NextRound(before, t) ==
    LET round[i \in 1..Degree(t)] ==
            (before[i] + (IF i > Sep(t) THEN round[i - Sep(t)]
                          ELSE before[Degree(t) + i - Sep(t)])) % Word
    IN  round

AllRounds(seed, t) ==
    LET round[m \in Nat] == IF m = 0 THEN FirstRound(seed, t) ELSE NextRound(round[m - 1], t)
    IN  round

Simples(seed) ==
    LET simple[i \in Nat] == IF i = 0 THEN First(seed)
                             ELSE (simple[i - 1] * Scale + Increment) % (Word \div 2)
    IN  simple

Number(seed, t, k) ==
    IF t = 0 THEN Simples(seed)[k]
    ELSE AllRounds(seed, t)[Rounds + 1 + ((k - 1) \div Degree(t))]
                           [((k - 1) % Degree(t)) + 1] \div 2

(***************************************************************************)
(* Each array is a stream of its own: whatever is done with others, and    *)
(* however often the program switches, the next number drawn from it is    *)
(* the next one of its seed (random_r.c:165-218, :231-283, :293-335,       *)
(* :348-393).                                                              *)
(***************************************************************************)
StreamsResume ==
    result.fn = "random_r" =>
        LET d == drawn[buf.state] IN result.answer = Number(d.seed, d.type, d.count)
=============================================================================
