----------------------------- MODULE JsonWriter -----------------------------
(***************************************************************************)
(* The JSON writer of src/ac_jsonw.c: text that grows at its end, in a     *)
(* buffer that grows in steps of ALLOC_SZ.                                 *)
(*                                                                         *)
(* The text is a sequence of tokens.  Punctuation is a token of one byte;  *)
(* a name with its quotes and colon, a value in whatever notation, and an  *)
(* indenter are tokens of some number of bytes.                            *)
(***************************************************************************)
EXTENDS Integers, Sequences

CONSTANTS ALLOC_SZ,
          Indents,     \* widths of the indenters given to ac_jsonw_set_indenter
          Spaces,      \* the sizes given to ac_jsonw_indent_sz
          MaxSpaces,   \* the largest size it takes, 16
          JSON_INDENT, \* width of the default indenter, 4
          DepthMod,    \* 2^8, the number of values of the u8 depth
          Names, Values, \* sizes of the names and values that are written
          MaxCalls     \* bound: calls that write, per document

VARIABLES json,    \* the struct; cut: an indenter did not fit the buffer
          nest,    \* of the caller: the containers it has yet to end
          calls    \* history: what the caller has asked to be written

vars == <<json, nest, calls>>

Tok(kind, size) == [kind |-> kind, size |-> size]
Ch(c)           == Tok(c, 1)
Openers         == {"{", "["}
Tabs(j, n)      == [i \in 1..n |-> Tok("tab", j.indent)]

Closed == [text |-> << >>, len |-> 0, allocated |-> 0, depth |-> 0,
           skip_tabs |-> FALSE, indent |-> JSON_INDENT, cut |-> FALSE]

(***************************************************************************)
(* The allocation after `while (json->len + len >= json->allocated)'.      *)
(***************************************************************************)
GrownNoNul(a, len) ==      \* faulty: no byte for the NUL
    IF len <= a THEN a ELSE a + ALLOC_SZ * ((len - a) \div ALLOC_SZ + 1)

Grown(a, len) == IF len < a THEN a ELSE a + ALLOC_SZ * ((len - a) \div ALLOC_SZ + 1)

(***************************************************************************)
(* Writes the tokens toks of n bytes behind the indentation.  The buffer   *)
(* grows once, at most, for the indentation, which snprintf cuts short     *)
(* where that is not enough.                                               *)
(***************************************************************************)
json_build_str(j, toks, n) ==
    LET tabs == IF j.skip_tabs THEN 0 ELSE j.depth
        len  == j.len + tabs * j.indent
        room == IF ~j.skip_tabs /\ len >= j.allocated THEN j.allocated + ALLOC_SZ
                ELSE j.allocated
    IN  [j EXCEPT !.text = (@ \o Tabs(j, tabs)) \o toks,
                  !.len = len + n,
                  !.allocated = Grown(room, len + n),
                  !.cut = @ \/ len >= room]

Init == json = Closed /\ nest = << >> /\ calls = << >>

ac_jsonw_init ==
    /\ json = Closed
    /\ json' = [Closed EXCEPT !.text = <<Ch("{"), Ch("nl")>>, !.len = 2,
                              !.allocated = ALLOC_SZ, !.depth = 1]
    /\ nest' = <<"{">> /\ calls' = <<"{">>

ac_jsonw_indent_sz(size) ==
    /\ json # Closed
    /\ json' = IF size < 1 \/ size > MaxSpaces THEN json ELSE [json EXCEPT !.indent = size]
    /\ UNCHANGED <<nest, calls>>

ac_jsonw_set_indenter(width) ==
    /\ json # Closed
    /\ json' = [json EXCEPT !.indent = width]
    /\ UNCHANGED <<nest, calls>>

(***************************************************************************)
(* How a caller makes sense: names inside objects and only there, and no   *)
(* call after the root object is ended.                                    *)
(***************************************************************************)
MayAdd(name) ==
    /\ nest # << >> /\ Len(calls) < MaxCalls
    /\ (name = 0) <=> (nest[Len(nest)] = "[")

Key(name) == IF name = 0 THEN << >> ELSE <<Tok("name", name)>>
Asked(name, c) == IF name = 0 THEN <<c>> ELSE <<"name", c>>

(***************************************************************************)
(* ac_jsonw_add_str, _int, _real, _bool, _null and _str_or_null.           *)
(***************************************************************************)
AddValue(name, value) ==
    /\ MayAdd(name)
    /\ json' = json_build_str(json, Key(name) \o <<Tok("value", value), Ch(","), Ch("nl")>>,
                              name + value + 2)
    /\ calls' = calls \o Asked(name, "value")
    /\ UNCHANGED nest

OpenEarly(name, c) ==      \* faulty: depth is raised before the line is written
    [json_build_str([json EXCEPT !.depth = (@ + 1) % DepthMod],
                    Key(name) \o <<Ch(c), Ch("nl")>>, name + 2) EXCEPT !.depth = @]

Open(name, c) ==
    [json_build_str(json, Key(name) \o <<Ch(c), Ch("nl")>>, name + 2)
        EXCEPT !.depth = (@ + 1) % DepthMod]

(***************************************************************************)
(* ac_jsonw_add_array, which writes a name in every case, and              *)
(* ac_jsonw_add_object.  With more than DepthMod - 1 containers the depth  *)
(* would wrap to 0.                                                        *)
(***************************************************************************)
AddContainer(name, c) ==
    /\ MayAdd(name) /\ Len(nest) < DepthMod - 1
    /\ c = "[" => name # 0
    /\ json' = Open(name, c)
    /\ nest' = Append(nest, c)
    /\ calls' = calls \o Asked(name, c)

LastIs(j, chars) == j.text[Len(j.text) - 1].kind \in chars

Strip(j, n) == [j EXCEPT !.text = SubSeq(@, 1, Len(@) - n), !.len = @ - n]

EmptyIfObject(j) == LastIs(j, {"{"})      \* faulty: does not cater for arrays

Empty(j) == LastIs(j, Openers)

SkipKept(j) == j      \* faulty: later lines are not indented

SkipEnds(j) == [j EXCEPT !.skip_tabs = FALSE]

(***************************************************************************)
(* The comma and newline after the last entry go, or the newline after the *)
(* opening bracket of an empty container, whose closer stays on its line.  *)
(***************************************************************************)
__json_end(j, closer) ==
    LET empty == Empty(j)
        ended == [Strip(j, IF empty THEN 1 ELSE 2) EXCEPT !.depth = (@ - 1) % DepthMod,
                                                         !.skip_tabs = TRUE]
        line  == IF empty THEN json_build_str(ended, << >>, 0)
                 ELSE SkipEnds(json_build_str(ended, <<Ch("nl")>>, 1))
    IN  SkipEnds(IF line.depth > 0
                 THEN json_build_str(line, <<Ch(closer), Ch(","), Ch("nl")>>, 3)
                 ELSE json_build_str(line, <<Ch(closer)>>, 1))

EndContainer(c, closer) ==
    /\ Len(nest) > 1 /\ nest[Len(nest)] = c
    /\ json' = __json_end(json, closer)
    /\ nest' = SubSeq(nest, 1, Len(nest) - 1)
    /\ calls' = Append(calls, closer)

ac_jsonw_end ==
    /\ Len(nest) = 1
    /\ json' = __json_end([json EXCEPT !.depth = 1], "}")
    /\ nest' = << >>
    /\ calls' = Append(calls, "}")

ac_jsonw_free ==
    /\ json # Closed
    /\ json' = Closed /\ nest' = << >> /\ calls' = << >>

Next ==
    \/ ac_jsonw_init \/ ac_jsonw_end \/ ac_jsonw_free
    \/ \E size \in Spaces : ac_jsonw_indent_sz(size)
    \/ \E width \in Indents : ac_jsonw_set_indenter(width)
    \/ \E name \in Names \cup {0} :
          \/ \E value \in Values : AddValue(name, value)
          \/ \E c \in Openers : AddContainer(name, c)
    \/ EndContainer("[", "]") \/ EndContainer("{", "}")

Spec == Init /\ [][Next]_vars
----------------------------------------------------------------------------
Brackets == Openers \cup {"}", "]"}

Tokens   == [kind : Brackets \cup {",", "nl", "tab", "name", "value"}, size : Nat]

Struct == [text : Seq(Tokens), len : Nat, allocated : Nat, depth : 0..DepthMod - 1,
           skip_tabs : BOOLEAN, indent : Nat, cut : BOOLEAN]

TypeOK == json \in Struct /\ ~json.skip_tabs

(***************************************************************************)
(* What is written, indenters included, ends inside the buffer with a byte *)
(* left for the NUL, although the buffer is grown once at most for all the *)
(* indenters of a line (ac_jsonw.c:34-42): depth is at most 255 and an     *)
(* indenter of 16 bytes at most takes 4080 of the 4096 bytes that adds.    *)
(***************************************************************************)
BufferHolds == json # Closed => json.len < json.allocated /\ ~json.cut

(***************************************************************************)
(* A reader of JSON: the containers that are open (in), what may come next *)
(* (want: the "first" entry of a container, the "next" entry, the "value"  *)
(* of a name, what "follows" a value, or the "end"), the calls it has read *)
(* (said), their length (len), the indenters behind the last newline       *)
(* (tabs, -1 within a line), and whether every line began with one for     *)
(* each container it is in (indented).                                     *)
(***************************************************************************)
Start == [in |-> << >>, want |-> "next", said |-> << >>, len |-> 0, tabs |-> -1,
          indented |-> TRUE]

Outer(in) == SubSeq(in, 1, Len(in) - 1)

Understood(r, t) ==
    LET inner == IF r.in = << >> THEN "none" ELSE r.in[Len(r.in)]
        entry == r.want \in {"first", "next"}
        value == r.want = "value" \/ (entry /\ inner # "{")
        ends  == /\ r.want \in {"first", "follows"}
                 /\ <<inner, t.kind>> \in {<<"{", "}">>, <<"[", "]">>}
        is(in, want) == [r EXCEPT !.in = in, !.want = want]
    IN  CASE t.kind \in {"tab", "nl"}                     -> r
          [] t.kind = "name" /\ entry /\ inner = "{"      -> is(r.in, "value")
          [] t.kind = "value" /\ value                    -> is(r.in, "follows")
          [] t.kind \in Openers /\ value                  -> is(Append(r.in, t.kind), "first")
          [] t.kind = "," /\ r.want = "follows" /\ inner # "none" -> is(r.in, "next")
          [] ends /\ Outer(r.in) # << >>                  -> is(Outer(r.in), "follows")
          [] ends /\ Outer(r.in) = << >>                  -> is(Outer(r.in), "end")
          [] OTHER                                        -> is(r.in, "error")

Repeated(said, t) ==
    IF t.kind \in Brackets \cup {"name", "value"} THEN Append(said, t.kind) ELSE said

Tabbed(tabs, t) ==
    IF t.kind = "nl" THEN 0 ELSE IF t.kind = "tab" THEN tabs + 1 ELSE -1

InPlace(r, t) ==
    LET depth == Len(IF t.kind \in {"}", "]"} THEN Outer(r.in) ELSE r.in)
    IN  /\ t.kind = "tab" => r.tabs # -1
        /\ t.kind \notin {"nl", "tab"} => r.tabs \in {-1, depth}

Read(r, t) ==
    [Understood(r, t) EXCEPT !.said = Repeated(r.said, t), !.len = @ + t.size,
                             !.tabs = Tabbed(@, t), !.indented = @ /\ InPlace(r, t)]

Reading(text) ==
    LET read[n \in 0..Len(text)] == IF n = 0 THEN Start ELSE Read(read[n - 1], text[n])
    IN  read[Len(text)]

(***************************************************************************)
(* The text is the beginning of a JSON document, with the containers open  *)
(* that the caller has not ended, and all of one after ac_jsonw_end: no    *)
(* comma is missing, doubled or left before a closer, in containers with   *)
(* and without entries (ac_jsonw.c:316-321).  It says what the caller      *)
(* asked for, in that order, and len is its length, through every cut at   *)
(* its end.                                                                *)
(***************************************************************************)
IsJson ==
    LET r == Reading(json.text)
    IN  /\ json # Closed =>
              r.in = nest /\ r.want \in (IF nest = << >> THEN {"end"} ELSE {"first", "next"})
        /\ r.said = calls
        /\ r.len = json.len

(***************************************************************************)
(* Every line is indented once per container that it is in, whatever       *)
(* indenters were chosen on the way (ac_jsonw.c:39-42, :324, :358).        *)
(***************************************************************************)
LinesIndented == Reading(json.text).indented
=============================================================================
