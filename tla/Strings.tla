------------------------------- MODULE Strings -------------------------------
(***************************************************************************)
(* The string helpers of src/ac_str.c as functions on sequences of         *)
(* characters.                                                             *)
(***************************************************************************)
EXTENDS Integers, Sequences, FiniteSets

Texts  == INSTANCE SequencesExt
Minima == INSTANCE FiniteSetsExt

CONSTANT NoAnswer     \* NULL

NUL == "NUL"

White == {" ", "\t", "\n", "\r"}
----------------------------------------------------------------------------
(***************************************************************************)
(* The tokens that strsep takes off a string one after the other.          *)
(***************************************************************************)
TakenOnce(fields, c, delim) ==      \* faulty: delimiters in a row count as one
    IF c # delim THEN [fields EXCEPT ![Len(fields)] = Append(@, c)]
    ELSE IF fields[Len(fields)] = << >> THEN fields ELSE Append(fields, << >>)

Taken(fields, c, delim) ==
    IF c = delim THEN Append(fields, << >>)
    ELSE [fields EXCEPT ![Len(fields)] = Append(@, c)]

Tokens(string, delim) ==
    LET fields[n \in 0..Len(string)] ==
            IF n = 0 THEN << << >> >> ELSE Taken(fields[n - 1], string[n], delim)
    IN  fields[Len(string)]

ac_str_split(string, delim, flags) ==
    IF flags = "unknown" THEN NoAnswer
    ELSE IF string = << >> \/ (flags = "strict" /\ delim \notin Texts!ToSet(string)) THEN << >>
    ELSE Tokens(string, delim)

(***************************************************************************)
(* The fields hold no delimiter, and joined by it they are the string: no  *)
(* empty field is lost at either end or in between.  A string is split     *)
(* into no fields if it is empty, or has no delimiter and the flags say so *)
(* (ac_str.c:61-85).                                                       *)
(***************************************************************************)
Join(fields, delim) ==
    LET joined[n \in 1..Len(fields)] ==
            IF n = 1 THEN fields[1] ELSE (joined[n - 1] \o <<delim>>) \o fields[n]
    IN  joined[Len(fields)]

SplitJoins(string, delim, flags, fields) ==
    IF flags = "unknown" THEN fields = NoAnswer
    ELSE IF fields = << >>
    THEN string = << >> \/ (flags = "strict" /\ \A i \in 1..Len(string) : string[i] # delim)
    ELSE /\ Join(fields, delim) = string
         /\ \A i \in 1..Len(fields) : delim \notin Texts!ToSet(fields[i])

(***************************************************************************)
(* Each field and the vector are allocations of their own; freev gives     *)
(* back as many as there are up to the NULL, and the vector.               *)
(***************************************************************************)
ac_str_freev(fields) == IF fields = NoAnswer THEN 0 ELSE Len(fields) + 1

(***************************************************************************)
(* Every allocation of split is given back (ac_str.c:24-34): the vector,   *)
(* and a field more than there are delimiters, if there are fields.        *)
(***************************************************************************)
FreevReleasesAll(string, delim, flags, freed) ==
    LET delims == Cardinality({i \in 1..Len(string) : string[i] = delim})
    IN  freed = IF flags = "unknown" THEN 0
                ELSE IF string = << >> \/ (flags = "strict" /\ delims = 0) THEN 1
                ELSE delims + 2
----------------------------------------------------------------------------
(***************************************************************************)
(* A destination of more than len bytes after ac_str_substr: the string is *)
(* read from start on, its NUL and what is behind it included.             *)
(***************************************************************************)
ac_str_substr(src, dest, start, len) ==
    [i \in DOMAIN dest |-> IF i <= len THEN src[start + i]
                           ELSE IF i = len + 1 THEN NUL ELSE dest[i]]

StringAt(memory) ==
    SubSeq(memory, 1, (CHOOSE n \in 1..Len(memory) :
        memory[n] = NUL /\ \A i \in 1..n - 1 : memory[i] # NUL) - 1)

(***************************************************************************)
(* The string at the destination is what is left of the source behind      *)
(* start, or its first len characters, and no byte behind its NUL is       *)
(* touched (ac_str.c:132-138).                                             *)
(***************************************************************************)
SubstrIsPart(src, dest, start, len, after) ==
    LET rest == SubSeq(src, start + 1, Len(StringAt(src)))
    IN  /\ StringAt(after) = IF len < Len(rest) THEN SubSeq(rest, 1, len) ELSE rest
        /\ \A i \in len + 2..Len(dest) : after[i] = dest[i]
----------------------------------------------------------------------------
(***************************************************************************)
(* The memory after ac_str_chomp, of which the string is the part behind   *)
(* the first `before' bytes, up to the NUL at its end.  Going backwards    *)
(* from the end, the loop stops at the first byte that is not white space. *)
(***************************************************************************)
Stop(memory) ==
    CHOOSE n \in 0..Len(memory) - 1 :
        /\ n > 0 => memory[n] \notin White
        /\ \A i \in n + 1..Len(memory) - 1 : memory[i] \in White

ac_str_chomp(memory) == [i \in 1..Len(memory) |-> IF i > Stop(memory) THEN NUL ELSE memory[i]]

(***************************************************************************)
(* The string loses the white space at its end and nothing else.  Nothing  *)
(* in front of it changes - provided that there is something in it that is *)
(* not white space: the loop does not know where the string begins         *)
(* (ac_str.c:107-116).                                                     *)
(***************************************************************************)
ChompTrims(before, memory, after) ==
    LET end == IF \E i \in before + 1..Len(memory) : after[i] = NUL
               THEN (CHOOSE i \in before + 1..Len(memory) :
                        after[i] = NUL /\ \A j \in before + 1..i - 1 : after[j] # NUL) - 1
               ELSE Len(memory)
    IN  /\ \A i \in before + 1..end : after[i] = memory[i]
        /\ \A i \in end + 1..Len(memory) - 1 : memory[i] \in White
        /\ end > before => memory[end] \notin White /\ SubSeq(after, 1, before) = SubSeq(memory, 1, before)
----------------------------------------------------------------------------
minimum(a, b, c) == Minima!Min({a, b, c})

(***************************************************************************)
(* v1 from v0, for character i of s (from 0).                              *)
(***************************************************************************)
NextRow(v0, i, s, t) ==
    LET cost(j) == IF s[i + 1] = t[j] THEN 0 ELSE 1
        v1[j \in 0..Len(t)] ==
            IF j = 0 THEN i + 1 ELSE minimum(v1[j - 1] + 1, v0[j] + 1, v0[j - 1] + cost(j))
    IN  v1

(***************************************************************************)
(* The answer is read from v1, which the loop over s has filled - unless s *)
(* is empty: then it is the `cell' that malloc gave.                       *)
(***************************************************************************)
ac_str_levenshtein(s, t, cell) ==
    LET first   == [j \in 0..Len(t) |-> j]
        rows[n \in 0..Len(s)] == IF n = 0 THEN first ELSE NextRow(rows[n - 1], n - 1, s, t)
    IN  IF s = t THEN 0
        ELSE IF s = << >> THEN cell
        ELSE rows[Len(s)][Len(t)]

(***************************************************************************)
(* The edit distance by its definition: an alignment pairs characters of s *)
(* and t in order; what is not paired is deleted or inserted, and a pair   *)
(* of unequal characters is substituted.  The cheapest one counts.         *)
(***************************************************************************)
Alignments(s, t) ==
    {a \in SUBSET ((1..Len(s)) \X (1..Len(t))) :
        \A p, q \in a : p # q => (p[1] < q[1] /\ p[2] < q[2]) \/ (q[1] < p[1] /\ q[2] < p[2])}

Cost(s, t, a) ==
    Cardinality({i \in 1..Len(s) : \A p \in a : p[1] # i})
    + Cardinality({j \in 1..Len(t) : \A p \in a : p[2] # j})
    + Cardinality({p \in a : s[p[1]] # t[p[2]]})

EditDistance(s, t) == Minima!Min({Cost(s, t, a) : a \in Alignments(s, t)})

(***************************************************************************)
(* The two rows compute the edit distance, of strings of any lengths, the  *)
(* second of which may be empty (ac_str.c:167-206).                        *)
(***************************************************************************)
DistanceIsLeast(s, t, d) == s # << >> => d = EditDistance(s, t)

----------------------------------------------------------------------------
(***************************************************************************)
(* ac_fs_is_posix_name of src/ac_fs.c, for names of which only the kind of *)
(* each character is known.                                                *)
(***************************************************************************)
Portable == {"letter", "digit", ".", "_", "-"}

ac_fs_is_posix_name(name) ==
    /\ name # << >> /\ Head(name) # "-"
    /\ name # <<".">> /\ name # <<".", ".">>
    /\ Texts!ToSet(name) \subseteq Portable

(***************************************************************************)
(* A name that passes can be put after any other behind a separator that   *)
(* is not in it, and means a file of its own; one that fails has a part    *)
(* that fails: what may not be at the front, or a character that may not   *)
(* be anywhere (ac_fs.c:34-60).                                            *)
(***************************************************************************)
NameIsOrdinary(name, passes) ==
    IF passes
    THEN /\ \A c \in Portable : ac_fs_is_posix_name(Append(name, c))
         /\ "/" \notin Texts!ToSet(name) /\ Head(name) # "-"
    ELSE \/ Len(name) < 3 /\ Texts!ToSet(name) \subseteq {"."}
         \/ \E i \in 1..Len(name) : name[i] \notin Portable \/ (i = 1 /\ name[i] = "-")
=============================================================================
