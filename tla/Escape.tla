------------------------------- MODULE Escape -------------------------------
(***************************************************************************)
(* make_escaped_string of src/ac_jsonw.c, for a string of bytes from 1 to  *)
(* 255.  Whether a char is signed is up to the compiler.                   *)
(***************************************************************************)
EXTENDS Integers, Sequences

Quote     == 34
Backslash == 92
Letter(c) == CASE c = 8  -> 98    \* \b
               [] c = 9  -> 116   \* \t
               [] c = 10 -> 110   \* \n
               [] c = 12 -> 102   \* \f
               [] c = 13 -> 114   \* \r
               [] OTHER  -> c

char(byte, signed) == IF signed /\ byte >= 128 THEN byte - 256 ELSE byte

Digit(d) == IF d < 10 THEN 48 + d ELSE 87 + d

(***************************************************************************)
(* What snprintf writes of "\u%04x" into its 7 bytes: of the eight digits  *)
(* of a negative number, the first four.                                   *)
(***************************************************************************)
Unicode(c) ==
    LET n == IF c < 0 THEN 65535 ELSE c
    IN  <<Backslash, 117>> \o
        [i \in 1..4 |-> Digit((n \div (IF i = 1 THEN 4096 ELSE IF i = 2 THEN 256
                                       ELSE IF i = 3 THEN 16 ELSE 1)) % 16)]

EscapedLate(c) ==            \* faulty: a backslash is copied
    IF c < 32 /\ Letter(c) = c THEN Unicode(c)
    ELSE IF c = Quote \/ Letter(c) # c THEN <<Backslash, Letter(c)>>
    ELSE <<c>>

Escaped(c) ==
    IF c < 32 /\ Letter(c) = c THEN Unicode(c)
    ELSE IF c \in {Quote, Backslash} \/ Letter(c) # c THEN <<Backslash, Letter(c)>>
    ELSE <<c>>

make_escaped_string(str, signed) ==
    LET out[n \in 0..Len(str)] ==
            IF n = 0 THEN << >> ELSE out[n - 1] \o Escaped(char(str[n], signed))
    IN  out[Len(str)]
----------------------------------------------------------------------------
Value(d) == IF d < 58 THEN d - 48 ELSE d - 87

(***************************************************************************)
(* What a reader of JSON knows of what is between the quotes: the text so  *)
(* far, in which -1 stands for what must not be there, and the bytes of an *)
(* escape that is not over.                                                *)
(***************************************************************************)
Meaning(c) == CASE c = 98  -> 8
                [] c = 116 -> 9
                [] c = 110 -> 10
                [] c = 102 -> 12
                [] c = 114 -> 13
                [] c \in {Quote, Backslash} -> c
                [] OTHER   -> -1

Lexed(seen, c) ==
    LET text == seen.text   escape == seen.escape
        found(x) == [text |-> Append(text, x), escape |-> << >>]
    IN  IF escape = << >>
        THEN IF c = Backslash THEN [seen EXCEPT !.escape = <<c>>]
             ELSE found(IF c < 32 \/ c = Quote THEN -1 ELSE c)
        ELSE IF Len(escape) = 1 /\ c # 117 THEN found(Meaning(c))
        ELSE IF Len(escape) < 5 THEN [seen EXCEPT !.escape = Append(@, c)]
        ELSE found(4096 * Value(escape[3]) + 256 * Value(escape[4]) + 16 * Value(escape[5]) + Value(c))

Unescape(out) ==
    LET seen[n \in 0..Len(out)] ==
            IF n = 0 THEN [text |-> << >>, escape |-> << >>] ELSE Lexed(seen[n - 1], out[n])
        end == seen[Len(out)]
    IN  IF end.escape = << >> THEN end.text ELSE Append(end.text, -1)

(***************************************************************************)
(* A reader of JSON gets back the string, whatever characters of ASCII it  *)
(* has; and everything if chars are unsigned.  The result fits the memory  *)
(* set aside for it (ac_jsonw.c:130, :132-156).                            *)
(***************************************************************************)
EscapeDecodes(str, signed, out) ==
    /\ (~signed \/ \A i \in 1..Len(str) : str[i] < 128) => Unescape(out) = str
    /\ Len(out) + 1 <= Len(str) * 6 + 1

(***************************************************************************)
(* ac_jsonw.c:163: "adds a string to the JSON", with any bytes in it.      *)
(***************************************************************************)
EscapeKeepsAll(str, out) == Unescape(out) = str
=============================================================================
