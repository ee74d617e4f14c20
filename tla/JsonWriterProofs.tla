--------------------------- MODULE JsonWriterProofs ---------------------------
(***************************************************************************)
(* Proofs about JsonWriter, for any sizes of names and values, documents   *)
(* of any length and every allocation unit that has room for the indenters *)
(* of the deepest line.                                                    *)
(***************************************************************************)
EXTENDS JsonWriter, Lemmas

(***************************************************************************)
(* In the code ALLOC_SZ is 4096, DepthMod is 256, and the widest indenter  *)
(* that ac_jsonw_indent_sz makes takes 16 bytes.  ac_jsonw_set_indenter    *)
(* does not check the width of its own, so that is assumed here.           *)
(***************************************************************************)
Fits(w) == w \in Nat /\ \A d \in 0..DepthMod - 1 : d * w <= ALLOC_SZ

ASSUME SizesAssumption ==
    /\ ALLOC_SZ \in Nat /\ ALLOC_SZ > 2
    /\ DepthMod \in Nat /\ DepthMod > 1
    /\ MaxSpaces \in Nat /\ Spaces \subseteq Int
    /\ \A w \in Indents \cup {JSON_INDENT} \cup 1..MaxSpaces : Fits(w)
    /\ Names \subseteq Nat /\ Values \subseteq Nat

(***************************************************************************)
(* What every function of the file relies on and restores.                 *)
(***************************************************************************)
Writable(j) ==
    /\ j \in Struct
    /\ Fits(j.indent)
    /\ j.len < j.allocated
    /\ ~j.cut

Sound(j) == Writable(j) /\ j.len >= 2

Inv ==
    \/ json = Closed /\ nest = << >>
    \/ Sound(json) /\ ~json.skip_tabs

----------------------------------------------------------------------------
LEMMA GrownIs ==
    ASSUME NEW a \in Nat, NEW len \in Nat
    PROVE  Grown(a, len) \in Nat /\ len < Grown(a, len)
  <1>1. CASE len < a
        BY <1>1 DEF Grown
  <1>2. CASE ~(len < a)
    <2> DEFINE q == (len - a) \div ALLOC_SZ
               r == (len - a) % ALLOC_SZ
    <2>1. len - a \in Nat /\ ALLOC_SZ \in Nat \ {0}
          BY <1>2, SizesAssumption
    <2>2. len - a = ALLOC_SZ * q + r /\ r \in 0..ALLOC_SZ - 1 /\ q \in Nat
          BY <2>1
    <2>3. Grown(a, len) = a + ALLOC_SZ * (q + 1)
          BY <1>2 DEF Grown
    <2> HIDE DEF q, r
    <2>4. ALLOC_SZ * (q + 1) = ALLOC_SZ * q + ALLOC_SZ /\ ALLOC_SZ * q \in Nat
          BY <2>1, <2>2
    <2> QED BY <2>1, <2>2, <2>3, <2>4
  <1> QED BY <1>1, <1>2

LEMMA TabsAre ==
    ASSUME NEW j, Fits(j.indent), NEW n \in Nat
    PROVE  Tabs(j, n) \in Seq(Tokens)
  BY DEF Tabs, Tok, Tokens, Fits

(***************************************************************************)
(* One growth is enough for the indentation of a line.                     *)
(***************************************************************************)
LEMMA Built ==
    ASSUME NEW j, Writable(j), NEW n \in Nat, NEW toks \in Seq(Tokens)
    PROVE  LET b == json_build_str(j, toks, n)
           IN  /\ Writable(b) /\ b.len >= j.len + n
               /\ b.indent = j.indent /\ b.depth = j.depth /\ b.skip_tabs = j.skip_tabs
  <1> DEFINE tabs == IF j.skip_tabs THEN 0 ELSE j.depth
             pad  == tabs * j.indent
             len  == j.len + pad
             room == IF ~j.skip_tabs /\ len >= j.allocated THEN j.allocated + ALLOC_SZ
                     ELSE j.allocated
             text == (j.text \o Tabs(j, tabs)) \o toks
             b    == json_build_str(j, toks, n)
  <1>1. /\ j \in Struct /\ j.len \in Nat /\ j.allocated \in Nat /\ j.text \in Seq(Tokens)
        /\ j.depth \in 0..DepthMod - 1 /\ j.skip_tabs \in BOOLEAN /\ j.cut = FALSE
        /\ j.len < j.allocated
        BY DEF Writable, Struct
  <1>2. tabs \in 0..DepthMod - 1 /\ tabs \in Nat /\ (j.skip_tabs => tabs = 0)
        BY <1>1, SizesAssumption
  <1>3. pad \in Nat /\ pad <= ALLOC_SZ /\ (j.skip_tabs => pad = 0)
    <2>1. j.indent \in Nat /\ \A d \in 0..DepthMod - 1 : d * j.indent <= ALLOC_SZ
          BY DEF Writable, Fits
    <2> QED BY <1>2, <2>1
  <1>4. text \in Seq(Tokens)
    <2>1. Tabs(j, tabs) \in Seq(Tokens)
          BY <1>2, TabsAre DEF Writable
    <2> QED BY <1>1, <2>1
  <1>5. b = [j EXCEPT !.text = text, !.len = len + n, !.allocated = Grown(room, len + n),
                      !.cut = (j.cut \/ len >= room)]
        BY DEF json_build_str
  <1> HIDE DEF tabs, pad, text, b
  <1>6. room \in Nat /\ len \in Nat /\ len < room /\ len >= j.len
        BY <1>1, <1>3, SizesAssumption
  <1> HIDE DEF len, room
  <1>7. Grown(room, len + n) \in Nat /\ len + n < Grown(room, len + n)
    <2> DEFINE w == len + n
    <2>1. w \in Nat
          BY <1>6
    <2> HIDE DEF w
    <2>2. Grown(room, w) \in Nat /\ w < Grown(room, w)
          BY <1>6, <2>1, GrownIs
    <2> QED BY <2>2 DEF w
  <1>8. (j.cut \/ len >= room) = FALSE
        BY <1>1, <1>6
  <1>9. b = [j EXCEPT !.text = text, !.len = len + n, !.allocated = Grown(room, len + n),
                      !.cut = FALSE]
        BY <1>5, <1>8
  <1>10. /\ b \in Struct /\ b.cut = FALSE /\ b.len = len + n
         /\ b.allocated = Grown(room, len + n)
         /\ b.indent = j.indent /\ b.depth = j.depth /\ b.skip_tabs = j.skip_tabs
    <2> DEFINE g == Grown(room, len + n)
               l == len + n
    <2>1. g \in Nat /\ l \in Nat
          BY <1>6, <1>7
    <2>2. b = [j EXCEPT !.text = text, !.len = l, !.allocated = g, !.cut = FALSE]
          BY <1>9
    <2> HIDE DEF g, l
    <2>3. b \in Struct
          BY <1>1, <1>4, <2>1, <2>2 DEF Struct
    <2>4. /\ b.cut = FALSE /\ b.len = l /\ b.allocated = g
          /\ b.indent = j.indent /\ b.depth = j.depth /\ b.skip_tabs = j.skip_tabs
          BY <1>1, <2>2 DEF Struct
    <2> QED BY <2>3, <2>4 DEF g, l
  <1>11. b.len >= j.len + n /\ b.len < b.allocated
         BY <1>1, <1>6, <1>7, <1>10
  <1> QED BY <1>10, <1>11 DEF Writable, b

----------------------------------------------------------------------------
LEMMA Punctuation ==
    /\ \A c \in Brackets \cup {",", "nl"} : Ch(c) \in Tokens
    /\ \A c \in Openers : Ch(c) \in Tokens
    /\ \A n \in Nat : Tok("name", n) \in Tokens /\ Tok("value", n) \in Tokens
  BY DEF Ch, Tok, Tokens, Brackets, Openers

LEMMA ShortLines ==
    ASSUME NEW S, NEW a \in S, NEW b \in S, NEW c \in S
    PROVE  /\ << >> \in Seq(S) /\ <<a>> \in Seq(S)
           /\ <<a, b>> \in Seq(S) /\ <<a, b, c>> \in Seq(S)
  OBVIOUS

LEMMA JoinedLine ==
    ASSUME NEW S, NEW s \in Seq(S), NEW t \in Seq(S)
    PROVE  s \o t \in Seq(S)
  OBVIOUS

LEMMA Wrapped ==
    ASSUME NEW n \in Nat \ {0}, NEW a \in Int
    PROVE  a % n \in 0..n - 1
  OBVIOUS

LEMMA ClosedStruct == Closed \in Struct /\ Fits(JSON_INDENT)
  BY SizesAssumption, EmptySeq DEF Closed, Struct, Fits

LEMMA KeyIs ==
    ASSUME NEW name \in Names \cup {0}
    PROVE  Key(name) \in Seq(Tokens) /\ name \in Nat
  <1>1. name \in Nat
        BY SizesAssumption
  <1>2. Tok("name", name) \in Tokens
        BY <1>1, Punctuation
  <1> QED BY <1>1, <1>2, ShortLines, EmptySeq DEF Key

LEMMA Stripped ==
    ASSUME NEW j, Sound(j), NEW cut \in 1..2
    PROVE  LET e == [Strip(j, cut) EXCEPT !.depth = (@ - 1) % DepthMod, !.skip_tabs = TRUE]
           IN  /\ Writable(e) /\ e.len = j.len - cut /\ e.depth = (j.depth - 1) % DepthMod
               /\ e.skip_tabs = TRUE /\ e.indent = j.indent
               /\ e.text = SubSeq(j.text, 1, Len(j.text) - cut)
  <1> DEFINE text  == SubSeq(j.text, 1, Len(j.text) - cut)
             len   == j.len - cut
             depth == (j.depth - 1) % DepthMod
             e     == [Strip(j, cut) EXCEPT !.depth = (@ - 1) % DepthMod, !.skip_tabs = TRUE]
  <1>1. /\ j \in Struct /\ j.len \in Nat /\ j.len >= 2 /\ j.text \in Seq(Tokens)
        /\ j.len < j.allocated /\ j.allocated \in Nat /\ j.depth \in 0..DepthMod - 1
        /\ ~j.cut /\ Fits(j.indent) /\ j.cut = FALSE
        BY DEF Sound, Writable, Struct
  <1>2. len \in Nat /\ len < j.allocated /\ depth \in 0..DepthMod - 1
    <2>1. len \in Nat /\ len < j.allocated
          BY <1>1
    <2>2. DepthMod \in Nat \ {0} /\ j.depth - 1 \in Int
          BY <1>1, SizesAssumption
    <2>3. depth \in 0..DepthMod - 1
          BY <2>2, ModBounds
    <2> QED BY <2>1, <2>3
  <1>3. text \in Seq(Tokens)
        BY <1>1
  <1>4. e = [j EXCEPT !.text = text, !.len = len, !.depth = depth, !.skip_tabs = TRUE]
        BY <1>1 DEF Strip, Struct
  <1> HIDE DEF e, text, len, depth
  <1>5. e \in Struct
        BY <1>1, <1>2, <1>3, <1>4 DEF Struct
  <1>6. /\ e.len = len /\ e.allocated = j.allocated /\ e.cut = FALSE /\ e.indent = j.indent
        /\ e.text = text /\ e.depth = depth /\ e.skip_tabs = TRUE
        BY <1>1, <1>4 DEF Struct
  <1> QED BY <1>1, <1>2, <1>5, <1>6 DEF Writable, e, text, len, depth

(***************************************************************************)
(* Cutting off at most two bytes and writing a closer leaves the text no   *)
(* shorter than it was.                                                    *)
(***************************************************************************)
LEMMA EndSound ==
    ASSUME NEW j, Sound(j), NEW closer \in Brackets
    PROVE  Sound(__json_end(j, closer)) /\ ~__json_end(j, closer).skip_tabs
  <1> DEFINE empty == Empty(j)
             cut   == IF empty THEN 1 ELSE 2
             ended == [Strip(j, cut) EXCEPT !.depth = (@ - 1) % DepthMod, !.skip_tabs = TRUE]
             one   == json_build_str(ended, << >>, 0)
             two   == json_build_str(ended, <<Ch("nl")>>, 1)
             line  == IF empty THEN one ELSE SkipEnds(two)
             more  == json_build_str(line, <<Ch(closer), Ch(","), Ch("nl")>>, 3)
             last  == json_build_str(line, <<Ch(closer)>>, 1)
             done  == IF line.depth > 0 THEN more ELSE last
  <1>1. /\ j \in Struct /\ j.len \in Nat /\ j.len >= 2 /\ j.text \in Seq(Tokens)
        /\ j.len < j.allocated /\ j.allocated \in Nat /\ j.depth \in 0..DepthMod - 1
        /\ ~j.cut /\ Fits(j.indent) /\ j.cut = FALSE
        BY DEF Sound, Writable, Struct
  <1>2. Writable(ended) /\ ended.len = j.len - cut
    <2>1. cut \in 1..2
          OBVIOUS
    <2> HIDE DEF cut
    <2> QED BY <2>1, Stripped
  <1> HIDE DEF ended
  <1>3. /\ Writable(one) /\ one.len >= j.len - cut
        /\ Writable(two) /\ two.len >= (j.len - cut) + 1
    <2>1. << >> \in Seq(Tokens) /\ <<Ch("nl")>> \in Seq(Tokens)
      <3>1. Ch("nl") \in Tokens
            BY Punctuation
      <3> QED BY <3>1, ShortLines
    <2>2. ended.len \in Nat
          BY <1>2 DEF Writable, Struct
    <2>3. Writable(one) /\ one.len >= ended.len + 0
          BY <1>2, <2>1, Built
    <2>4. Writable(two) /\ two.len >= ended.len + 1
          BY <1>2, <2>1, Built
    <2> QED BY <1>2, <2>2, <2>3, <2>4
  <1> HIDE DEF one, two
  <1>4. ASSUME NEW b, Writable(b)
        PROVE  Writable(SkipEnds(b)) /\ SkipEnds(b).len = b.len /\ SkipEnds(b).skip_tabs = FALSE
        BY <1>4 DEF Writable, Struct, SkipEnds
  <1>5. Writable(line) /\ line.len >= j.len - 1
    <2>1. CASE empty
          BY <1>3, <2>1
    <2>2. CASE ~empty
      <3>1. Writable(SkipEnds(two)) /\ SkipEnds(two).len = two.len
            BY <1>3, <1>4
      <3>2. (j.len - 2) + 1 = j.len - 1
            BY <1>1
      <3> QED BY <1>3, <2>2, <3>1, <3>2
    <2> QED BY <2>1, <2>2
  <1> HIDE DEF line
  <1>6. Writable(done) /\ done.len >= j.len
    <2>1. <<Ch(closer)>> \in Seq(Tokens) /\ <<Ch(closer), Ch(","), Ch("nl")>> \in Seq(Tokens)
      <3>1. Ch("nl") \in Tokens /\ Ch(",") \in Tokens /\ Ch(closer) \in Tokens
            BY Punctuation
      <3> QED BY <3>1, ShortLines
    <2>2. line.len \in Nat
          BY <1>5 DEF Writable, Struct
    <2>3. Writable(more) /\ more.len >= line.len + 3
          BY <1>5, <2>1, Built
    <2>4. Writable(last) /\ last.len >= line.len + 1
          BY <1>5, <2>1, Built
    <2>5. more.len \in Nat /\ last.len \in Nat
          BY <2>3, <2>4 DEF Writable, Struct
    <2> HIDE DEF more, last
    <2>6. more.len >= j.len /\ last.len >= j.len
          BY <1>1, <1>5, <2>2, <2>3, <2>4, <2>5
    <2> QED BY <2>3, <2>4, <2>6
  <1> HIDE DEF more, last
  <1>7. __json_end(j, closer) = SkipEnds(done)
        BY DEF __json_end, line, ended, one, two, more, last
  <1>8. done.len \in Nat
        BY <1>6 DEF Writable, Struct
  <1> HIDE DEF done
  <1>9. /\ Writable(SkipEnds(done)) /\ SkipEnds(done).len = done.len
        /\ SkipEnds(done).skip_tabs = FALSE
        BY <1>4, <1>6
  <1> QED BY <1>1, <1>6, <1>7, <1>8, <1>9 DEF Sound

LEMMA AddSound ==
    ASSUME Sound(json), NEW name \in Names \cup {0}
    PROVE  /\ \A value \in Values :
                LET b == json_build_str(json,
                            Key(name) \o <<Tok("value", value), Ch(","), Ch("nl")>>,
                            name + value + 2)
                IN  Sound(b) /\ b.skip_tabs = json.skip_tabs
           /\ \A c \in Openers :
                Sound(Open(name, c)) /\ Open(name, c).skip_tabs = json.skip_tabs
  <1>1. json.len \in Nat /\ json.len >= 2 /\ Writable(json)
        BY DEF Sound, Writable, Struct
  <1>2. Key(name) \in Seq(Tokens) /\ name \in Nat /\ Ch(",") \in Tokens /\ Ch("nl") \in Tokens
        BY KeyIs, Punctuation
  <1>3. ASSUME NEW n \in Nat, NEW toks \in Seq(Tokens)
        PROVE  LET b == json_build_str(json, toks, n)
               IN  Sound(b) /\ b.skip_tabs = json.skip_tabs
    <2> DEFINE b == json_build_str(json, toks, n)
    <2>1. Writable(b) /\ b.len >= json.len + n /\ b.skip_tabs = json.skip_tabs
          BY <1>1, <1>3, Built
    <2>2. b.len \in Nat
          BY <2>1 DEF Writable, Struct
    <2> HIDE DEF b
    <2>3. b.len >= 2
          BY <1>1, <2>1, <2>2
    <2>4. Sound(b) /\ b.skip_tabs = json.skip_tabs
          BY <2>1, <2>3 DEF Sound
    <2> QED BY <2>4 DEF b
  <1>4. ASSUME NEW value \in Values
        PROVE  LET b == json_build_str(json,
                            Key(name) \o <<Tok("value", value), Ch(","), Ch("nl")>>,
                            name + value + 2)
               IN  Sound(b) /\ b.skip_tabs = json.skip_tabs
    <2> DEFINE toks == Key(name) \o <<Tok("value", value), Ch(","), Ch("nl")>>
               n    == name + value + 2
    <2>1. value \in Nat /\ Tok("value", value) \in Tokens
          BY SizesAssumption, Punctuation
    <2>2. <<Tok("value", value), Ch(","), Ch("nl")>> \in Seq(Tokens)
          BY <1>2, <2>1, ShortLines
    <2>3. toks \in Seq(Tokens)
          BY <1>2, <2>2, JoinedLine
    <2>4. n \in Nat
      <3>1. name \in Nat /\ value \in Nat
            BY <1>2, <2>1
      <3> QED BY <3>1
    <2> HIDE DEF toks, n
    <2>5. LET b == json_build_str(json, toks, n)
          IN  Sound(b) /\ b.skip_tabs = json.skip_tabs
          BY <1>3, <2>3, <2>4
    <2> QED BY <2>5 DEF toks, n
  <1>5. ASSUME NEW c \in Openers
        PROVE  Sound(Open(name, c)) /\ Open(name, c).skip_tabs = json.skip_tabs
    <2> DEFINE toks == Key(name) \o <<Ch(c), Ch("nl")>>
               n    == name + 2
               b    == json_build_str(json, toks, n)
               up   == (b.depth + 1) % DepthMod
    <2>1. Ch(c) \in Tokens
          BY Punctuation
    <2>2. <<Ch(c), Ch("nl")>> \in Seq(Tokens)
          BY <1>2, <2>1, ShortLines
    <2>3. toks \in Seq(Tokens) /\ n \in Nat
      <3>1. toks \in Seq(Tokens)
            BY <1>2, <2>2, JoinedLine
      <3>2. name \in Nat
            BY <1>2
      <3>3. n \in Nat
            BY <3>2
      <3> HIDE DEF toks, n
      <3> QED BY <3>1, <3>3
    <2>4. Open(name, c) = [b EXCEPT !.depth = up]
          BY DEF Open
    <2> HIDE DEF toks, n
    <2>5. Sound(b) /\ b.skip_tabs = json.skip_tabs
          BY <1>3, <2>3
    <2> HIDE DEF b
    <2>6. up \in 0..DepthMod - 1
      <3>1. b.depth \in 0..DepthMod - 1
            BY <2>5 DEF Sound, Writable, Struct
      <3>2. DepthMod \in Nat \ {0}
            BY SizesAssumption
      <3> DEFINE d == b.depth + 1
      <3>3. d \in Int
            BY <3>1, <3>2
      <3> HIDE DEF d
      <3>4. d % DepthMod \in 0..DepthMod - 1
            BY <3>2, <3>3, Wrapped
      <3> QED BY <3>4 DEF d, up
    <2> HIDE DEF up
    <2>7. [b EXCEPT !.depth = up] \in Struct
          BY <2>5, <2>6 DEF Sound, Writable, Struct
    <2>8. LET u == [b EXCEPT !.depth = up]
          IN  /\ u.indent = b.indent /\ u.len = b.len /\ u.allocated = b.allocated
              /\ u.cut = b.cut /\ u.skip_tabs = b.skip_tabs
          BY <2>5 DEF Sound, Writable, Struct
    <2> QED BY <2>4, <2>5, <2>7, <2>8 DEF Sound, Writable
  <1> QED BY <1>4, <1>5

----------------------------------------------------------------------------
LEMMA InvInductive == Inv /\ [Next]_vars => Inv'
  <1> SUFFICES ASSUME Inv, [Next]_vars PROVE Inv'
      OBVIOUS
  <1> DEFINE Keeps == Sound(json) => Sound(json') /\ json'.skip_tabs = json.skip_tabs
  <1>1. CASE ac_jsonw_init
    <2> DEFINE text == <<Ch("{"), Ch("nl")>>
    <2>1. json' = [Closed EXCEPT !.text = text, !.len = 2, !.allocated = ALLOC_SZ, !.depth = 1]
          BY <1>1 DEF ac_jsonw_init
    <2>2. text \in Seq(Tokens)
      <3>1. Ch("{") \in Tokens /\ Ch("nl") \in Tokens
            BY Punctuation DEF Openers
      <3> QED BY <3>1, ShortLines
    <2> HIDE DEF text
    <2>3. /\ json' \in Struct /\ json'.indent = JSON_INDENT /\ json'.len = 2
          /\ json'.allocated = ALLOC_SZ /\ json'.cut = FALSE /\ json'.skip_tabs = FALSE
      <3>1. 1 \in 0..DepthMod - 1 /\ ALLOC_SZ \in Nat /\ JSON_INDENT \in Nat
            BY SizesAssumption DEF Fits
      <3>2. json' = [text |-> text, len |-> 2, allocated |-> ALLOC_SZ, depth |-> 1,
                     skip_tabs |-> FALSE, indent |-> JSON_INDENT, cut |-> FALSE]
            BY <2>1 DEF Closed
      <3> QED BY <2>2, <3>1, <3>2 DEF Struct
    <2> QED BY <2>3, ClosedStruct, SizesAssumption DEF Inv, Sound, Writable
  <1>2. CASE json # Closed
    <2>1. Sound(json) /\ json.skip_tabs = FALSE /\ json \in Struct
          BY <1>2 DEF Inv, Sound, Writable, Struct
    <2>2. ASSUME NEW w, json' = [json EXCEPT !.indent = w], Fits(w) PROVE Keeps
      <3>1. /\ json' \in Struct /\ json'.indent = w /\ json'.len = json.len
            /\ json'.allocated = json.allocated /\ json'.cut = json.cut
            /\ json'.skip_tabs = json.skip_tabs
            BY <2>1, <2>2 DEF Struct, Fits
      <3> QED BY <2>2, <3>1 DEF Sound, Writable
    <2>3. ASSUME NEW size \in Spaces, ac_jsonw_indent_sz(size) PROVE Keeps
      <3>1. CASE size < 1 \/ size > MaxSpaces
            BY <2>3, <3>1 DEF ac_jsonw_indent_sz
      <3>2. CASE ~(size < 1 \/ size > MaxSpaces)
        <4>1. size \in 1..MaxSpaces
              BY <3>2, SizesAssumption
        <4>2. json' = [json EXCEPT !.indent = size] /\ Fits(size)
              BY <2>3, <3>2, <4>1, SizesAssumption DEF ac_jsonw_indent_sz
        <4> QED BY <2>2, <4>2
      <3> QED BY <3>1, <3>2
    <2>4. ASSUME NEW width \in Indents, ac_jsonw_set_indenter(width) PROVE Keeps
      <3>1. json' = [json EXCEPT !.indent = width] /\ Fits(width)
            BY <2>4, SizesAssumption DEF ac_jsonw_set_indenter
      <3> QED BY <2>2, <3>1
    <2>5. ASSUME NEW name \in Names \cup {0}, NEW value \in Values, AddValue(name, value)
          PROVE  Keeps
          BY <2>5, <2>1, AddSound DEF AddValue
    <2>6. ASSUME NEW name \in Names \cup {0}, NEW c \in Openers, AddContainer(name, c)
          PROVE  Keeps
          BY <2>6, <2>1, AddSound DEF AddContainer
    <2>7. ASSUME EndContainer("[", "]") \/ EndContainer("{", "}")
          PROVE  Sound(json') /\ ~json'.skip_tabs
      <3>1. PICK closer \in Brackets : json' = __json_end(json, closer)
            BY <2>7 DEF EndContainer, Brackets, Openers
      <3> QED BY <2>1, <3>1, EndSound
    <2>8. ASSUME ac_jsonw_end PROVE Sound(json') /\ ~json'.skip_tabs
      <3> DEFINE j == [json EXCEPT !.depth = 1]
      <3>1. json' = __json_end(j, "}") /\ "}" \in Brackets
            BY <2>8 DEF ac_jsonw_end, Brackets, Openers
      <3>2. 1 \in 0..DepthMod - 1
            BY SizesAssumption
      <3>3. /\ j \in Struct /\ j.indent = json.indent /\ j.len = json.len
            /\ j.allocated = json.allocated /\ j.cut = json.cut
            BY <2>1, <3>2 DEF Struct
      <3> HIDE DEF j
      <3>4. Sound(j)
            BY <2>1, <3>3 DEF Sound, Writable
      <3> QED BY <3>1, <3>4, EndSound
    <2>9. ASSUME UNCHANGED vars PROVE Keeps
          BY <2>9 DEF vars
    <2>10. ~ac_jsonw_init /\ (ac_jsonw_free => Inv')
          BY <1>2 DEF ac_jsonw_init, ac_jsonw_free, Inv
    <2>11. (Keeps \/ (Sound(json') /\ ~json'.skip_tabs)) => Inv'
          BY <2>1 DEF Inv
    <2> HIDE DEF Keeps
    <2> QED BY <2>3, <2>4, <2>5, <2>6, <2>7, <2>8, <2>9, <2>10, <2>11 DEF Next
  <1>3. CASE json = Closed /\ ~ac_jsonw_init
    <2>1. nest = << >> /\ Len(nest) = 0
          BY <1>3 DEF Inv, Sound, Closed
    <2>2. /\ ~ac_jsonw_init /\ ~ac_jsonw_free
          /\ \A size : ~ac_jsonw_indent_sz(size)
          /\ \A width : ~ac_jsonw_set_indenter(width)
          BY <1>3 DEF ac_jsonw_free, ac_jsonw_indent_sz, ac_jsonw_set_indenter
    <2>3. \A name, x : ~AddValue(name, x) /\ ~AddContainer(name, x)
          BY <2>1 DEF AddValue, AddContainer, MayAdd
    <2>4. ~ac_jsonw_end
          BY <2>1 DEF ac_jsonw_end
    <2>5. \A c, closer : ~EndContainer(c, closer)
          BY <2>1 DEF EndContainer
    <2>6. ~Next
          BY <2>2, <2>3, <2>4, <2>5, Zenon DEF Next
    <2> QED BY <1>3, <2>1, <2>6 DEF Inv, vars
  <1> QED BY <1>1, <1>2, <1>3

----------------------------------------------------------------------------
(***************************************************************************)
(* What a reader makes of a text, token by token.                          *)
(***************************************************************************)
LEMMA Reads ==
    ASSUME NEW S, NEW s \in Seq(S)
    PROVE  \E read : /\ Reading(s) = read[Len(s)]
                     /\ read[0] = Start
                     /\ \A j \in 1..Len(s) : read[j] = Read(read[j - 1], s[j])
  <1> DEFINE n == Len(s)
             E(h, j) == IF j = 0 THEN Start ELSE Read(h[j - 1], s[j])
             Fun(h, m) == h = [j \in 0..m |-> E(h, j)]
             Some == {m \in Nat : \E h : Fun(h, m)}
             read == CHOOSE h : Fun(h, n)
  <1>1. Reading(s) = read[n]
        BY DEF Reading
  <1>2. 0 \in Some
    <2> DEFINE h == [j \in 0..0 |-> Start]
    <2>1. Fun(h, 0)
          OBVIOUS
    <2> HIDE DEF Fun
    <2> QED BY <2>1
  <1>3. ASSUME NEW m \in Nat, m \in Some PROVE m + 1 \in Some
    <2>1. PICK h : Fun(h, m)
          BY <1>3
    <2> DEFINE d == [j \in 0..m + 1 |-> IF j = m + 1 THEN E(h, m + 1) ELSE h[j]]
    <2>2. \A j \in 0..m : h[j] = E(h, j)
          BY <2>1
    <2>3. ASSUME NEW j \in 0..m + 1 PROVE d[j] = E(d, j)
      <3>1. CASE j = 0
            BY <2>2, <3>1
      <3>2. CASE j # 0
        <4>1. j - 1 \in 0..m /\ j - 1 # m + 1
              BY <3>2
        <4>2. d[j - 1] = h[j - 1]
              BY <4>1
        <4>3. E(d, j) = E(h, j)
          <5> HIDE DEF d
          <5> QED BY <3>2, <4>2
        <4>4. d[j] = E(h, j)
          <5> HIDE DEF E
          <5>1. CASE j = m + 1
                BY <5>1
          <5>2. CASE j # m + 1
            <6>1. j \in 0..m
                  BY <5>2
            <6> QED BY <2>2, <5>2, <6>1
          <5> QED BY <5>1, <5>2
        <4> HIDE DEF d, E
        <4> QED BY <4>3, <4>4
      <3> QED BY <3>1, <3>2
    <2>4. Fun(d, m + 1)
      <3>1. d = [j \in 0..m + 1 |-> d[j]]
            OBVIOUS
      <3> HIDE DEF d, E
      <3> QED BY <2>3, <3>1
    <2> HIDE DEF d, Fun
    <2> QED BY <2>4
  <1> HIDE DEF Some
  <1>4. Nat \subseteq Some
        BY <1>2, <1>3, Induct
  <1>5. n \in Nat
        OBVIOUS
  <1>6. \E h : Fun(h, n)
        BY <1>4, <1>5 DEF Some
  <1> HIDE DEF Fun
  <1>7. Fun(read, n)
        BY <1>6
  <1> HIDE DEF read, n
  <1>8. \A j \in 0..n : read[j] = E(read, j)
    <2> HIDE DEF E
    <2> QED BY <1>7 DEF Fun
  <1>9. 0 \in 0..n /\ \A k \in 1..n : k \in 0..n /\ k # 0
        BY <1>5
  <1> QED BY <1>1, <1>8, <1>9 DEF n

LEMMA ReadingOne ==
    ASSUME NEW S, NEW s \in Seq(S), NEW t \in S
    PROVE  Reading(Append(s, t)) = Read(Reading(s), t)
  <1> DEFINE u == Append(s, t)
             n == Len(s)
  <1>1. /\ u \in Seq(S) /\ Len(u) = n + 1 /\ n \in Nat /\ u[n + 1] = t
        /\ \A j \in 1..n : u[j] = s[j]
        OBVIOUS
  <1>2. PICK a : Reading(s) = a[n] /\ a[0] = Start /\ \A j \in 1..n : a[j] = Read(a[j - 1], s[j])
        BY Reads
  <1> HIDE DEF u
  <1>3. PICK b : /\ Reading(u) = b[n + 1] /\ b[0] = Start
                 /\ \A j \in 1..n + 1 : b[j] = Read(b[j - 1], u[j])
    <2>1. Len(u) = n + 1 /\ u \in Seq(S)
          BY <1>1
    <2> HIDE DEF n
    <2> QED BY <2>1, Reads
  <1> HIDE DEF n
  <1> DEFINE Same == {j \in Nat : j <= n => a[j] = b[j]}
  <1>4. 0 \in Same
        BY <1>2, <1>3
  <1>5. ASSUME NEW j \in Nat, j \in Same PROVE j + 1 \in Same
    <2> SUFFICES ASSUME j + 1 <= n PROVE a[j + 1] = b[j + 1]
        OBVIOUS
    <2>1. j + 1 \in 1..n /\ j + 1 \in 1..n + 1 /\ (j + 1) - 1 = j /\ j <= n
          BY <1>1
    <2>2. a[j] = b[j]
          BY <1>5, <2>1
    <2> QED BY <1>1, <1>2, <1>3, <2>1, <2>2
  <1> HIDE DEF Same
  <1>6. n \in Same
        BY <1>1, <1>4, <1>5, Induct
  <1>7. a[n] = b[n]
        BY <1>1, <1>6 DEF Same
  <1>8. n + 1 \in 1..n + 1 /\ (n + 1) - 1 = n
        BY <1>1
  <1> QED BY <1>1, <1>2, <1>3, <1>7, <1>8 DEF u

LEMMA ReadingNone == Reading(<< >>) = Start
  <1> DEFINE s == << >>
  <1>1. s \in Seq(Nat) /\ Len(s) = 0
        OBVIOUS
  <1> HIDE DEF s
  <1>2. Reading(s) = Start
        BY <1>1, Reads
  <1> QED BY <1>2 DEF s

(***************************************************************************)
(* A reader that has found every line indented so far, and what it makes   *)
(* of each kind of token where that may come.                              *)
(***************************************************************************)
Rd(in, want, said, len, tabs) ==
    [in |-> in, want |-> want, said |-> said, len |-> len, tabs |-> tabs, indented |-> TRUE]

LEMMA NewlineRead ==
    ASSUME NEW in, NEW want, NEW said, NEW len, NEW tabs
    PROVE  Read(Rd(in, want, said, len, tabs), Ch("nl")) = Rd(in, want, said, len + 1, 0)
  <1> DEFINE t == Ch("nl")
             r == Rd(in, want, said, len, tabs)
  <1>1. t.kind = "nl" /\ t.size = 1
        BY DEF Ch, Tok
  <1> HIDE DEF t, r
  <1>2. Understood(r, t) = r
        BY <1>1 DEF Understood, Openers
  <1>3. Repeated(r.said, t) = said /\ Tabbed(r.tabs, t) = 0 /\ InPlace(r, t)
        BY <1>1 DEF Repeated, Tabbed, InPlace, r, Rd, Brackets, Openers
  <1>4. Read(r, t) = [r EXCEPT !.said = said, !.len = r.len + 1, !.tabs = 0,
                               !.indented = r.indented /\ InPlace(r, t)]
        BY <1>1, <1>2, <1>3 DEF Read
  <1>5. (r.indented /\ InPlace(r, t)) = TRUE
        BY <1>3 DEF r, Rd
  <1>6. Read(r, t) = Rd(in, want, said, len + 1, 0)
        BY <1>4, <1>5 DEF r, Rd
  <1> QED BY <1>6 DEF r, t

LEMMA TabRead ==
    ASSUME NEW in, NEW want, NEW said, NEW len, NEW tabs \in Nat, NEW w
    PROVE  Read(Rd(in, want, said, len, tabs), Tok("tab", w))
             = Rd(in, want, said, len + w, tabs + 1)
  <1> DEFINE t == Tok("tab", w)
             r == Rd(in, want, said, len, tabs)
  <1>1. t.kind = "tab" /\ t.size = w
        BY DEF Tok
  <1> HIDE DEF t, r
  <1>2. Understood(r, t) = r
        BY <1>1 DEF Understood, Openers
  <1>3. Repeated(r.said, t) = said /\ Tabbed(r.tabs, t) = tabs + 1 /\ InPlace(r, t)
        BY <1>1 DEF Repeated, Tabbed, InPlace, r, Rd, Brackets, Openers
  <1>4. Read(r, t) = [r EXCEPT !.said = said, !.len = r.len + w, !.tabs = tabs + 1,
                               !.indented = r.indented /\ InPlace(r, t)]
        BY <1>1, <1>2, <1>3 DEF Read
  <1>5. (r.indented /\ InPlace(r, t)) = TRUE
        BY <1>3 DEF r, Rd
  <1>6. Read(r, t) = Rd(in, want, said, len + w, tabs + 1)
        BY <1>4, <1>5 DEF r, Rd
  <1> QED BY <1>6 DEF r, t

(***************************************************************************)
(* Any other token is behind another on its line, or behind as many        *)
(* indenters as there are containers.                                      *)
(***************************************************************************)
Lined(in, tabs, t) ==
    /\ t.kind \notin {"nl", "tab"}
    /\ tabs = -1 \/ tabs = Len(IF t.kind \in {"}", "]"} THEN Outer(in) ELSE in)

Takes(in, want, said, len, tabs, t, in2, want2) ==
    /\ Lined(in, tabs, t)
    /\ Understood(Rd(in, want, said, len, tabs), t) = Rd(in2, want2, said, len, tabs)

LEMMA OtherRead ==
    ASSUME NEW in, NEW want, NEW said, NEW len, NEW tabs, NEW t, NEW in2, NEW want2,
           Takes(in, want, said, len, tabs, t, in2, want2)
    PROVE  Read(Rd(in, want, said, len, tabs), t)
             = Rd(in2, want2, Repeated(said, t), len + t.size, -1)
  <1> DEFINE r == Rd(in, want, said, len, tabs)
             u == Understood(r, t)
             more == Repeated(said, t)
  <1>1. r.in = in /\ r.tabs = tabs /\ r.said = said /\ t.kind # "nl" /\ t.kind # "tab"
        BY DEF Rd, Takes, Lined
  <1>2. u = Rd(in2, want2, said, len, tabs)
        BY DEF Takes
  <1> HIDE DEF r, u
  <1>3. Tabbed(u.tabs, t) = -1 /\ InPlace(r, t)
        BY <1>1 DEF Tabbed, InPlace, Takes, Lined
  <1>4. Read(r, t) = [u EXCEPT !.said = more, !.len = u.len + t.size, !.tabs = -1,
                               !.indented = u.indented /\ InPlace(r, t)]
        BY <1>1, <1>3 DEF Read, u
  <1> HIDE DEF more
  <1>5. u.indented = TRUE /\ u.len = len
        BY <1>2 DEF Rd
  <1>6. Read(r, t) = [u EXCEPT !.said = more, !.len = len + t.size, !.tabs = -1, !.indented = TRUE]
        BY <1>3, <1>4, <1>5
  <1>7. Read(r, t) = Rd(in2, want2, more, len + t.size, -1)
        BY <1>2, <1>6 DEF Rd
  <1> QED BY <1>7 DEF r, more

LEMMA CommaRead ==
    ASSUME NEW in \in Seq(Openers), in # << >>, NEW said, NEW len
    PROVE  Read(Rd(in, "follows", said, len, -1), Ch(",")) = Rd(in, "next", said, len + 1, -1)
  <1> DEFINE t == Ch(",")
             inner == in[Len(in)]
             r == Rd(in, "follows", said, len, -1)
  <1>1. t.kind = "," /\ t.size = 1
        BY DEF Ch, Tok
  <1>2. inner # "none"
    <2>1. Len(in) \in 1..Len(in)
          OBVIOUS
    <2>2. inner \in Openers
          BY <2>1
    <2> QED BY <2>2 DEF Openers
  <1> HIDE DEF t, inner
  <1>3. r.in = in /\ r.want = "follows"
        BY DEF Rd
  <1> HIDE DEF r
  <1>4. Understood(r, t) = [r EXCEPT !.in = in, !.want = "next"]
        BY <1>1, <1>2, <1>3 DEF Understood, Openers, inner
  <1>5. Understood(r, t) = Rd(in, "next", said, len, -1)
        BY <1>4 DEF r, Rd
  <1>6. Read(r, t) = Rd(in, "next", said, len + 1, -1)
    <2>1. Lined(in, -1, t) /\ Repeated(said, t) = said
          BY <1>1 DEF Repeated, Lined, Brackets, Openers
    <2>2. Takes(in, "follows", said, len, -1, t, in, "next")
          BY <1>5, <2>1 DEF Takes, r
    <2>3. Read(Rd(in, "follows", said, len, -1), t)
            = Rd(in, "next", Repeated(said, t), len + t.size, -1)
          BY <2>2, OtherRead
    <2>4. Read(r, t) = Rd(in, "next", Repeated(said, t), len + t.size, -1)
          BY <2>3 DEF r
    <2> QED BY <1>1, <2>1, <2>4
  <1> QED BY <1>6 DEF r, t

(***************************************************************************)
(* Where an entry may be: at the start of a container or behind a comma,   *)
(* on a line of its own.                                                   *)
(***************************************************************************)
InObject(in) == in # << >> /\ in[Len(in)] = "{"

LEMMA NameRead ==
    ASSUME NEW in, InObject(in),
           NEW want \in {"first", "next"}, NEW said, NEW len, NEW size
    PROVE  Read(Rd(in, want, said, len, Len(in)), Tok("name", size))
             = Rd(in, "value", Append(said, "name"), len + size, -1)
  <1> DEFINE t == Tok("name", size)
             r == Rd(in, want, said, len, Len(in))
  <1>1. t.kind = "name" /\ t.size = size
        BY DEF Tok
  <1> HIDE DEF t
  <1>2. r.in = in /\ r.want = want
        BY DEF Rd
  <1> HIDE DEF r
  <1>3. Understood(r, t) = [r EXCEPT !.in = in, !.want = "value"]
        BY <1>1, <1>2 DEF InObject, Understood, Openers
  <1>4. Understood(r, t) = Rd(in, "value", said, len, Len(in))
        BY <1>3 DEF r, Rd
  <1>5. Read(r, t) = Rd(in, "value", Append(said, "name"), len + size, -1)
    <2>1. Lined(in, Len(in), t) /\ Repeated(said, t) = Append(said, "name")
          BY <1>1 DEF Repeated, Lined
    <2> DEFINE n == Len(in)
    <2>2. Takes(in, want, said, len, n, t, in, "value")
          BY <1>4, <2>1 DEF Takes, r
    <2> HIDE DEF n
    <2>3. Read(Rd(in, want, said, len, n), t) = Rd(in, "value", Repeated(said, t), len + t.size, -1)
          BY <2>2, OtherRead
    <2> QED BY <1>1, <2>1, <2>3 DEF r, n
  <1> QED BY <1>5 DEF r, t

(***************************************************************************)
(* Where a value may be: behind a name, where an entry of an array is, and *)
(* at the start of the text.                                               *)
(***************************************************************************)
TakesValue(in, want, tabs) ==
    \/ want = "value" /\ tabs = -1
    \/ want \in {"first", "next"} /\ in # << >> /\ in[Len(in)] = "[" /\ tabs = Len(in)
    \/ want = "next" /\ in = << >> /\ tabs = -1

LEMMA ValueRead ==
    ASSUME NEW in, NEW want, NEW said, NEW len, NEW tabs,
           TakesValue(in, want, tabs)
    PROVE  /\ \A size :
                Read(Rd(in, want, said, len, tabs), Tok("value", size))
                  = Rd(in, "follows", Append(said, "value"), len + size, -1)
           /\ \A c \in Openers :
                Read(Rd(in, want, said, len, tabs), Ch(c))
                  = Rd(Append(in, c), "first", Append(said, c), len + 1, -1)
  <1> DEFINE r == Rd(in, want, said, len, tabs)
  <1>1. r.in = in /\ r.want = want
        BY DEF Rd
  <1>2. /\ want = "value" \/ (want \in {"first", "next"} /\ (in # << >> => in[Len(in)] = "["))
        /\ tabs = -1 \/ tabs = Len(in)
        BY DEF TakesValue
  <1>3. ASSUME NEW size
        PROVE  Read(r, Tok("value", size)) = Rd(in, "follows", Append(said, "value"), len + size, -1)
    <2> DEFINE t == Tok("value", size)
    <2>1. t.kind = "value" /\ t.size = size
          BY DEF Tok
    <2> HIDE DEF t, r
    <2>2. Understood(r, t) = [r EXCEPT !.in = in, !.want = "follows"]
          BY <1>1, <1>2, <2>1 DEF Understood, Openers
    <2>3. Understood(r, t) = Rd(in, "follows", said, len, tabs)
          BY <2>2 DEF r, Rd
    <2>4. Read(r, t) = Rd(in, "follows", Append(said, "value"), len + size, -1)
      <3>1. Lined(in, tabs, t) /\ Repeated(said, t) = Append(said, "value")
            BY <1>2, <2>1 DEF Repeated, Lined
      <3>2. Takes(in, want, said, len, tabs, t, in, "follows")
            BY <2>3, <3>1 DEF Takes, r
      <3>3. Read(Rd(in, want, said, len, tabs), t)
              = Rd(in, "follows", Repeated(said, t), len + t.size, -1)
            BY <3>2, OtherRead
      <3>4. Read(r, t) = Rd(in, "follows", Repeated(said, t), len + t.size, -1)
            BY <3>3 DEF r
      <3> QED BY <2>1, <3>1, <3>4
    <2> QED BY <2>4 DEF t
  <1>4. ASSUME NEW c \in Openers
        PROVE  Read(r, Ch(c)) = Rd(Append(in, c), "first", Append(said, c), len + 1, -1)
    <2> DEFINE t == Ch(c)
    <2>1. t.kind = c /\ t.size = 1
          BY DEF Tok, Ch
    <2>2. c \in Brackets /\ c \notin {"nl", "tab", "}", "]", ",", "name", "value"}
          BY DEF Brackets, Openers
    <2> HIDE DEF t, r
    <2>3. Understood(r, t) = [r EXCEPT !.in = Append(in, c), !.want = "first"]
          BY <1>1, <1>2, <2>1, <2>2 DEF Understood
    <2>4. Understood(r, t) = Rd(Append(in, c), "first", said, len, tabs)
          BY <2>3 DEF r, Rd
    <2>5. Read(r, t) = Rd(Append(in, c), "first", Append(said, c), len + 1, -1)
      <3>1. Lined(in, tabs, t) /\ Repeated(said, t) = Append(said, c)
            BY <1>2, <2>1, <2>2 DEF Repeated, Lined
      <3>2. Takes(in, want, said, len, tabs, t, Append(in, c), "first")
            BY <2>4, <3>1 DEF Takes, r
      <3>3. Read(Rd(in, want, said, len, tabs), t)
              = Rd(Append(in, c), "first", Repeated(said, t), len + t.size, -1)
            BY <3>2, OtherRead
      <3>4. Read(r, t) = Rd(Append(in, c), "first", Repeated(said, t), len + t.size, -1)
            BY <3>3 DEF r
      <3> QED BY <2>1, <3>1, <3>4
    <2> QED BY <2>5 DEF t
  <1> QED BY <1>3, <1>4

Matches(c, closer) == <<c, closer>> \in {<<"{", "}">>, <<"[", "]">>}

LEMMA CloserRead ==
    ASSUME NEW in \in Seq(Openers), in # << >>, NEW closer, Matches(in[Len(in)], closer),
           NEW want \in {"first", "follows"}, NEW said, NEW len,
           NEW tabs, tabs = -1 \/ tabs = Len(in) - 1
    PROVE  Read(Rd(in, want, said, len, tabs), Ch(closer))
             = Rd(Outer(in), IF Outer(in) = << >> THEN "end" ELSE "follows",
                  Append(said, closer), len + 1, -1)
  <1> DEFINE r == Rd(in, want, said, len, tabs)
             t == Ch(closer)
             after == IF Outer(in) = << >> THEN "end" ELSE "follows"
  <1>1. r.in = in /\ r.want = want
        BY DEF Rd
  <1>2. t.kind = closer /\ t.size = 1
        BY DEF Tok, Ch
  <1>3. closer \in {"}", "]"} /\ in[Len(in)] # "none"
        BY DEF Matches
  <1>4. Len(Outer(in)) = Len(in) - 1
        BY DEF Outer
  <1> HIDE DEF r, t
  <1>5. Understood(r, t) = [r EXCEPT !.in = Outer(in), !.want = after]
        BY <1>1, <1>2, <1>3 DEF Understood, Openers, Matches
  <1>6. Understood(r, t) = Rd(Outer(in), after, said, len, tabs)
    <2> HIDE DEF after
    <2> QED BY <1>5 DEF r, Rd
  <1> HIDE DEF after
  <1>7. Read(r, t) = Rd(Outer(in), after, Append(said, closer), len + 1, -1)
    <2>1. Lined(in, tabs, t) /\ Repeated(said, t) = Append(said, closer)
          BY <1>2, <1>3, <1>4 DEF Repeated, Lined, Brackets
    <2>2. Takes(in, want, said, len, tabs, t, Outer(in), after)
          BY <1>6, <2>1 DEF Takes, r
    <2>3. Read(Rd(in, want, said, len, tabs), t)
            = Rd(Outer(in), after, Repeated(said, t), len + t.size, -1)
          BY <2>2, OtherRead
    <2>4. Read(r, t) = Rd(Outer(in), after, Repeated(said, t), len + t.size, -1)
          BY <2>3 DEF r
    <2> QED BY <1>2, <2>1, <2>4
  <1> QED BY <1>7 DEF r, t, after

(***************************************************************************)
(* A line that is complete: its last token but the newline is a comma,     *)
(* which can be taken back, or opens a container.                          *)
(***************************************************************************)
Ready(text, in, said, len) ==
    \E p \in Seq(Tokens) : \E u \in Tokens :
        /\ text = Append(Append(p, u), Ch("nl"))
        /\ \/ u.kind \in Openers /\ Reading(Append(p, u)) = Rd(in, "first", said, len - 1, -1)
           \/ u = Ch(",") /\ Reading(p) = Rd(in, "follows", said, len - 2, -1)

LEMMA ReadyRead ==
    ASSUME NEW in \in Seq(Openers), in # << >>, NEW said, NEW len \in Nat, NEW text,
           Ready(text, in, said, len)
    PROVE  text \in Seq(Tokens) /\ \E want \in {"first", "next"} : Reading(text) = Rd(in, want, said, len, 0)
  <1> DEFINE nl == Ch("nl")
  <1>1. PICK p \in Seq(Tokens), u \in Tokens :
           /\ text = Append(Append(p, u), nl)
           /\ \/ u.kind \in Openers /\ Reading(Append(p, u)) = Rd(in, "first", said, len - 1, -1)
              \/ u = Ch(",") /\ Reading(p) = Rd(in, "follows", said, len - 2, -1)
        BY DEF Ready
  <1> DEFINE q == Append(p, u)
  <1>2. nl \in Tokens /\ q \in Seq(Tokens) /\ Append(q, nl) \in Seq(Tokens)
    <2>1. nl \in Tokens
          BY Punctuation
    <2>2. q \in Seq(Tokens)
          OBVIOUS
    <2> HIDE DEF nl, q
    <2> QED BY <2>1, <2>2
  <1>3. Reading(text) = Read(Reading(q), nl)
        BY <1>1, <1>2, ReadingOne
  <1>4. \E want \in {"first", "next"} : Reading(q) = Rd(in, want, said, len - 1, -1)
    <2>1. CASE u = Ch(",") /\ Reading(p) = Rd(in, "follows", said, len - 2, -1)
      <3>1. Reading(q) = Read(Reading(p), u)
            BY <1>1, ReadingOne
      <3>2. (len - 2) + 1 = len - 1
            OBVIOUS
      <3>3. Read(Rd(in, "follows", said, len - 2, -1), Ch(",")) = Rd(in, "next", said, len - 1, -1)
            BY <3>2, CommaRead
      <3> QED BY <2>1, <3>1, <3>3
    <2> QED BY <1>1, <2>1
  <1> HIDE DEF q, nl
  <1>5. PICK want \in {"first", "next"} : Reading(q) = Rd(in, want, said, len - 1, -1)
        BY <1>4
  <1>6. Reading(text) = Rd(in, want, said, len, 0)
    <2>1. (len - 1) + 1 = len
          OBVIOUS
    <2>2. Read(Rd(in, want, said, len - 1, -1), Ch("nl")) = Rd(in, want, said, len, 0)
          BY <2>1, NewlineRead
    <2> QED BY <1>3, <1>5, <2>2 DEF nl
  <1> QED BY <1>1, <1>2, <1>6 DEF q

LEMMA TabsRead ==
    ASSUME NEW s \in Seq(Tokens), NEW in, NEW want, NEW said, NEW len \in Nat,
           Reading(s) = Rd(in, want, said, len, 0), NEW j, Fits(j.indent), NEW n \in Nat
    PROVE  s \o Tabs(j, n) \in Seq(Tokens)
           /\ Reading(s \o Tabs(j, n)) = Rd(in, want, said, len + n * j.indent, n)
  <1> DEFINE w    == j.indent
             t    == Tok("tab", w)
             T(m) == [i \in 1..m |-> t]
             S    == {m \in Nat : Reading(s \o T(m)) = Rd(in, want, said, len + m * w, m)}
  <1>1. w \in Nat
        BY DEF Fits
  <1>2. t \in Tokens
        BY <1>1 DEF Tok, Tokens
  <1>3. \A m \in Nat : Tabs(j, m) = T(m)
        BY DEF Tabs
  <1> HIDE DEF t, w
  <1>4. \A m \in Nat : T(m) \in Seq(Tokens) /\ s \o T(m) \in Seq(Tokens)
        BY <1>2
  <1>5. 0 \in S
    <2>1. s \o T(0) = s
      <3>1. T(0) = << >>
            OBVIOUS
      <3> QED BY <3>1
    <2>2. len + 0 * w = len
          BY <1>1
    <2> QED BY <2>1, <2>2
  <1>6. ASSUME NEW m \in Nat, m \in S PROVE m + 1 \in S
    <2> DEFINE a == s \o T(m)
    <2>1. s \o T(m + 1) = Append(a, t)
          BY <1>2
    <2>2. a \in Seq(Tokens) /\ Reading(a) = Rd(in, want, said, len + m * w, m)
          BY <1>4, <1>6
    <2> HIDE DEF a, T
    <2>3. Reading(Append(a, t)) = Read(Rd(in, want, said, len + m * w, m), t)
          BY <1>2, <2>2, ReadingOne
    <2>4. Read(Rd(in, want, said, len + m * w, m), t) = Rd(in, want, said, (len + m * w) + w, m + 1)
          BY TabRead DEF t
    <2>5. (len + m * w) + w = len + (m + 1) * w
      <3>1. (m + 1) * w = m * w + w /\ m * w \in Nat
            BY <1>1
      <3> QED BY <1>1, <3>1
    <2>6. Reading(s \o T(m + 1)) = Rd(in, want, said, len + (m + 1) * w, m + 1)
          BY <2>1, <2>3, <2>4, <2>5
    <2>7. m + 1 \in Nat
          OBVIOUS
    <2> HIDE DEF T
    <2> QED BY <2>6, <2>7
  <1> HIDE DEF S, T
  <1>7. n \in S
        BY <1>5, <1>6, Induct
  <1> QED BY <1>3, <1>4, <1>7 DEF S, w

LEMMA Joined ==
    ASSUME NEW S, NEW s \in Seq(S), NEW a \in S, NEW b \in S, NEW c \in S
    PROVE  /\ s \o << >> = s
           /\ s \o <<a>> = Append(s, a)
           /\ s \o <<a, b>> = Append(Append(s, a), b)
           /\ s \o <<a, b, c>> = Append(Append(Append(s, a), b), c)
  OBVIOUS

(***************************************************************************)
(* What the functions add to a text, as it is read.                        *)
(***************************************************************************)
Kinds == Brackets \cup {"name", "value"}

Before(name) == IF name = 0 THEN << >> ELSE <<"name">>

LEMMA AskedIs ==
    ASSUME NEW said \in Seq(Kinds), NEW name, NEW c \in Kinds
    PROVE  /\ said \o Before(name) \in Seq(Kinds)
           /\ said \o Asked(name, c) = Append(said \o Before(name), c)
           /\ said \o Asked(name, c) \in Seq(Kinds)
  <1> DEFINE n == "name"
  <1>1. n \in Kinds
        BY DEF Kinds
  <1>2. Before(name) = (IF name = 0 THEN << >> ELSE <<n>>)
        /\ Asked(name, c) = (IF name = 0 THEN <<c>> ELSE <<n, c>>)
        BY DEF Before, Asked
  <1> HIDE DEF n
  <1>3. CASE name = 0
        BY <1>2, <1>3
  <1>4. CASE name # 0
        BY <1>1, <1>2, <1>4
  <1> QED BY <1>3, <1>4

InArray(in) == in # << >> /\ in[Len(in)] = "["

LEMMA Inner ==
    ASSUME NEW in \in Seq(Openers), in # << >>
    PROVE  InObject(in) \/ InArray(in)
  <1>1. Len(in) \in 1..Len(in)
        OBVIOUS
  <1>2. in[Len(in)] \in Openers
        BY <1>1
  <1> QED BY <1>2 DEF Openers, InObject, InArray

Begun(text, j, in, said, len, name) ==
    LET s == (text \o Tabs(j, Len(in))) \o Key(name)
    IN  /\ s \in Seq(Tokens)
        /\ \E want, tabs :
             /\ TakesValue(in, want, tabs)
             /\ Reading(s) = Rd(in, want, said \o Before(name),
                                (len + Len(in) * j.indent) + name, tabs)

LEMMA EntryRead ==
    ASSUME NEW in \in Seq(Openers), in # << >>, NEW said \in Seq(Kinds), NEW len \in Nat, NEW text,
           Ready(text, in, said, len), NEW j, Fits(j.indent),
           NEW name \in Names \cup {0}, name = 0 <=> InArray(in)
    PROVE  Begun(text, j, in, said, len, name)
  <1> DEFINE n == Len(in)
             l == len + n * j.indent
             a == text \o Tabs(j, n)
             s == a \o Key(name)
  <1>1. n \in Nat /\ name \in Nat /\ j.indent \in Nat
        BY KeyIs DEF Fits
  <1>2. PICK want \in {"first", "next"} : text \in Seq(Tokens) /\ Reading(text) = Rd(in, want, said, len, 0)
        BY ReadyRead
  <1>3. a \in Seq(Tokens) /\ Reading(a) = Rd(in, want, said, l, n)
    <2>1. n \in Nat /\ text \in Seq(Tokens) /\ Reading(text) = Rd(in, want, said, len, 0)
          BY <1>1, <1>2
    <2> HIDE DEF n
    <2>2. /\ text \o Tabs(j, n) \in Seq(Tokens)
          /\ Reading(text \o Tabs(j, n)) = Rd(in, want, said, len + n * j.indent, n)
          BY <2>1, TabsRead
    <2> QED BY <2>2
  <1>4. l \in Nat
        BY <1>1
  <1> HIDE DEF a, l
  <1>5. CASE name = 0
    <2>1. s = a /\ said \o Before(name) = said /\ l + name = l
      <3>1. Key(name) = << >> /\ Before(name) = << >>
            BY <1>5 DEF Key, Before
      <3>2. a \o << >> = a
            BY <1>3
      <3>3. said \o << >> = said
            OBVIOUS
      <3>4. l + name = l
            BY <1>4, <1>5
      <3> QED BY <3>1, <3>2, <3>3, <3>4
    <2>2. TakesValue(in, want, n)
          BY <1>5 DEF TakesValue, InArray
    <2>3. Reading(s) = Rd(in, want, said \o Before(name), l + name, n)
          BY <1>3, <2>1
    <2>4. s \in Seq(Tokens)
          BY <1>3, <2>1
    <2> HIDE DEF n, s
    <2>5. s \in Seq(Tokens) /\ \E w, tabs : TakesValue(in, w, tabs)
             /\ Reading(s) = Rd(in, w, said \o Before(name), l + name, tabs)
          BY <2>2, <2>3, <2>4
    <2> QED BY <2>5 DEF Begun, s, a, l, n
  <1>6. CASE name # 0
    <2> DEFINE t == Tok("name", name)
    <2>1. s = Append(a, t) /\ said \o Before(name) = Append(said, "name") /\ t \in Tokens
      <3>1. Key(name) = <<t>> /\ Before(name) = <<"name">> /\ t \in Tokens
            BY <1>1, <1>6, Punctuation DEF Key, Before
      <3>2. a \o <<t>> = Append(a, t)
        <4> HIDE DEF t
        <4> QED BY <1>3, <3>1, Joined
      <3>3. said \o <<"name">> = Append(said, "name")
        <4> DEFINE k == "name"
        <4>1. k \in Kinds
              BY DEF Kinds
        <4> HIDE DEF k
        <4>2. said \o <<k>> = Append(said, k)
              BY <4>1, Joined
        <4> QED BY <4>2 DEF k
      <3> QED BY <3>1, <3>2, <3>3
    <2>2. Reading(s) = Read(Rd(in, want, said, l, n), t)
      <3> HIDE DEF s, t, n
      <3> QED BY <1>3, <2>1, ReadingOne
    <2>3. InObject(in)
          BY <1>6, Inner
    <2>4. Read(Rd(in, want, said, l, n), t) = Rd(in, "value", Append(said, "name"), l + name, -1)
          BY <2>3, NameRead
    <2>5. s \in Seq(Tokens)
      <3> HIDE DEF s, t
      <3> QED BY <1>3, <2>1
    <2>6. TakesValue(in, "value", -1)
          BY DEF TakesValue
    <2>7. Reading(s) = Rd(in, "value", said \o Before(name), l + name, -1)
          BY <2>1, <2>2, <2>4
    <2> HIDE DEF s
    <2>8. s \in Seq(Tokens) /\ \E w, tabs : TakesValue(in, w, tabs)
             /\ Reading(s) = Rd(in, w, said \o Before(name), l + name, tabs)
          BY <2>5, <2>6, <2>7
    <2> QED BY <2>8 DEF Begun, s, a, l, n
  <1> QED BY <1>5, <1>6

LEMMA ValueLine ==
    ASSUME NEW in \in Seq(Openers), in # << >>, NEW want, NEW said, NEW l \in Nat, NEW tabs,
           NEW s \in Seq(Tokens), Reading(s) = Rd(in, want, said, l, tabs),
           TakesValue(in, want, tabs), NEW value \in Nat
    PROVE  Ready(s \o <<Tok("value", value), Ch(","), Ch("nl")>>, in, Append(said, "value"),
                 l + value + 2)
  <1> DEFINE v == Tok("value", value)
             u == Ch(",")
             nl == Ch("nl")
             p == Append(s, v)
  <1>1. v \in Tokens /\ u \in Tokens /\ nl \in Tokens
        BY Punctuation
  <1>2. Read(Rd(in, want, said, l, tabs), v) = Rd(in, "follows", Append(said, "value"), l + value, -1)
        BY ValueRead
  <1>3. u = Ch(",") /\ nl = Ch("nl") /\ l + value = (l + value + 2) - 2
        OBVIOUS
  <1>4. s \o <<v, u, nl>> = Append(Append(p, u), nl)
    <2> HIDE DEF v, u, nl
    <2> QED BY <1>1, Joined
  <1> HIDE DEF v, u, nl
  <1>5. p \in Seq(Tokens) /\ Reading(p) = Rd(in, "follows", Append(said, "value"), l + value, -1)
        BY <1>1, <1>2, ReadingOne
  <1> HIDE DEF p
  <1>6. Ready(Append(Append(p, u), nl), in, Append(said, "value"), l + value + 2)
        BY <1>1, <1>3, <1>5 DEF Ready
  <1>7. Ready(s \o <<v, u, nl>>, in, Append(said, "value"), l + value + 2)
        BY <1>4, <1>6
  <1> QED BY <1>7 DEF v, u, nl

LEMMA OpenLine ==
    ASSUME NEW in, NEW want, NEW said, NEW l \in Int, NEW tabs,
           NEW s \in Seq(Tokens), Reading(s) = Rd(in, want, said, l, tabs),
           TakesValue(in, want, tabs), NEW c \in Openers
    PROVE  Ready(s \o <<Ch(c), Ch("nl")>>, Append(in, c), Append(said, c), l + 2)
  <1> DEFINE u == Ch(c)
             nl == Ch("nl")
             p == Append(s, u)
             in2 == Append(in, c)
  <1>1. u \in Tokens /\ nl \in Tokens /\ u.kind \in Openers
        BY Punctuation DEF Ch, Tok
  <1>2. Read(Rd(in, want, said, l, tabs), u) = Rd(in2, "first", Append(said, c), l + 1, -1)
        BY ValueRead
  <1>3. nl = Ch("nl") /\ l + 1 = (l + 2) - 1
        OBVIOUS
  <1>4. s \o <<u, nl>> = Append(Append(s, u), nl)
    <2> HIDE DEF u, nl
    <2> QED BY <1>1, Joined
  <1> HIDE DEF u, nl, in2
  <1>5. Reading(p) = Rd(in2, "first", Append(said, c), (l + 2) - 1, -1)
        BY <1>1, <1>2, <1>3, ReadingOne
  <1>6. Ready(Append(Append(s, u), nl), in2, Append(said, c), l + 2)
        BY <1>1, <1>3, <1>5 DEF Ready
  <1>7. Ready(s \o <<u, nl>>, in2, Append(said, c), l + 2)
        BY <1>4, <1>6
  <1> QED BY <1>7 DEF u, nl, in2

Ends(in, closer, want, tabs) ==
    /\ in # << >> /\ Matches(in[Len(in)], closer)
    /\ want \in {"first", "follows"}
    /\ tabs = -1 \/ tabs = Len(in) - 1

ClosedBy(closer, in, said, s, l) ==
    /\ Outer(in) # << >> =>
         Ready(s \o <<Ch(closer), Ch(","), Ch("nl")>>, Outer(in), Append(said, closer), l + 3)
    /\ Outer(in) = << >> =>
         Reading(s \o <<Ch(closer)>>) = Rd(<< >>, "end", Append(said, closer), l + 1, -1)

LEMMA CloseLine ==
    ASSUME NEW in \in Seq(Openers), NEW closer \in Brackets, NEW want, NEW said, NEW l \in Nat,
           NEW tabs, Ends(in, closer, want, tabs),
           NEW s \in Seq(Tokens), Reading(s) = Rd(in, want, said, l, tabs)
    PROVE  ClosedBy(closer, in, said, s, l)
  <1> DEFINE v == Ch(closer)
             u == Ch(",")
             nl == Ch("nl")
             p == Append(s, v)
             out == Outer(in)
             end == IF out = << >> THEN "end" ELSE "follows"
  <1>1. v \in Tokens /\ u \in Tokens /\ nl \in Tokens
        BY Punctuation
  <1>2. Read(Rd(in, want, said, l, tabs), v) = Rd(out, end, Append(said, closer), l + 1, -1)
        BY CloserRead DEF Ends
  <1>3. u = Ch(",") /\ nl = Ch("nl") /\ l + 1 = (l + 3) - 2
        OBVIOUS
  <1>4. s \o <<v, u, nl>> = Append(Append(p, u), nl) /\ s \o <<v>> = p
    <2> HIDE DEF v, u, nl
    <2> QED BY <1>1, Joined
  <1>5. (out # << >> => end = "follows") /\ (out = << >> => end = "end")
        OBVIOUS
  <1> HIDE DEF v, u, nl, out, end
  <1>6. p \in Seq(Tokens) /\ Reading(p) = Rd(out, end, Append(said, closer), l + 1, -1)
        BY <1>1, <1>2, ReadingOne
  <1> HIDE DEF p
  <1>7. out # << >> => Ready(Append(Append(p, u), nl), out, Append(said, closer), l + 3)
        BY <1>1, <1>3, <1>5, <1>6 DEF Ready
  <1>8. out # << >> => Ready(s \o <<v, u, nl>>, out, Append(said, closer), l + 3)
        BY <1>4, <1>7
  <1>9. out = << >> => Reading(s \o <<v>>) = Rd(<< >>, "end", Append(said, closer), l + 1, -1)
        BY <1>4, <1>5, <1>6
  <1> QED BY <1>8, <1>9 DEF ClosedBy, v, u, nl, out

(***************************************************************************)
(* __json_end: what it takes back is the comma and newline behind an       *)
(* entry, or the newline behind an opening bracket.                        *)
(***************************************************************************)
LEMMA NoTabs == ASSUME NEW j PROVE Tabs(j, 0) = << >>
  BY DEF Tabs

LEMMA BuiltText ==
    ASSUME NEW j \in Struct, NEW toks \in Seq(Tokens), NEW n \in Nat
    PROVE  LET b == json_build_str(j, toks, n)
               s == IF j.skip_tabs THEN j.text ELSE j.text \o Tabs(j, j.depth)
               l == IF j.skip_tabs THEN j.len ELSE j.len + j.depth * j.indent
           IN  /\ b.text = s \o toks /\ b.len = l + n
               /\ b.indent = j.indent /\ b.depth = j.depth /\ b.skip_tabs = j.skip_tabs
  <1> DEFINE tabs == IF j.skip_tabs THEN 0 ELSE j.depth
             text == (j.text \o Tabs(j, tabs)) \o toks
             len  == (j.len + tabs * j.indent) + n
             b    == json_build_str(j, toks, n)
  <1>1. /\ b.text = text /\ b.len = len
        /\ b.indent = j.indent /\ b.depth = j.depth /\ b.skip_tabs = j.skip_tabs
    <2> HIDE DEF text, len
    <2> QED BY DEF Struct, json_build_str, text, len
  <1>2. j.text \in Seq(Tokens) /\ j.len \in Nat /\ j.indent \in Nat /\ j.skip_tabs \in BOOLEAN
        BY DEF Struct
  <1>3. CASE j.skip_tabs = TRUE
    <2>1. j.text \o Tabs(j, 0) = j.text
      <3>1. Tabs(j, 0) = << >>
            BY NoTabs
      <3> QED BY <1>2, <3>1
    <2>2. j.len + 0 * j.indent = j.len
          BY <1>2
    <2>3. text = j.text \o toks /\ len = j.len + n
          BY <1>3, <2>1, <2>2
    <2> HIDE DEF b, text, len
    <2> QED BY <1>1, <1>3, <2>3 DEF b
  <1>4. CASE j.skip_tabs = FALSE
    <2>1. text = (j.text \o Tabs(j, j.depth)) \o toks /\ len = (j.len + j.depth * j.indent) + n
          BY <1>4
    <2> HIDE DEF b, text, len
    <2> QED BY <1>1, <1>4, <2>1 DEF b
  <1> QED BY <1>2, <1>3, <1>4

LEMMA BuiltPlain ==
    ASSUME NEW j \in Struct, j.skip_tabs = TRUE, NEW toks \in Seq(Tokens), NEW n \in Nat
    PROVE  LET b == json_build_str(j, toks, n)
           IN  /\ b.text = j.text \o toks /\ b.len = j.len + n
               /\ b.indent = j.indent /\ b.depth = j.depth /\ b.skip_tabs = TRUE
  <1> DEFINE b == json_build_str(j, toks, n)
             s == IF j.skip_tabs THEN j.text ELSE j.text \o Tabs(j, j.depth)
             l == IF j.skip_tabs THEN j.len ELSE j.len + j.depth * j.indent
  <1>1. /\ b.text = s \o toks /\ b.len = l + n
        /\ b.indent = j.indent /\ b.depth = j.depth /\ b.skip_tabs = j.skip_tabs
        BY BuiltText
  <1>2. s = j.text /\ l = j.len
        OBVIOUS
  <1> HIDE DEF b, s, l
  <1>3. /\ b.text = j.text \o toks /\ b.len = j.len + n
        /\ b.indent = j.indent /\ b.depth = j.depth /\ b.skip_tabs = TRUE
        BY <1>1, <1>2
  <1> QED BY <1>3 DEF b

LEMMA BuiltLine ==
    ASSUME NEW j \in Struct, j.skip_tabs = FALSE, NEW toks \in Seq(Tokens), NEW n \in Nat
    PROVE  LET b == json_build_str(j, toks, n)
           IN  /\ b.text = (j.text \o Tabs(j, j.depth)) \o toks
               /\ b.len = (j.len + j.depth * j.indent) + n
               /\ b.indent = j.indent /\ b.depth = j.depth /\ b.skip_tabs = FALSE
  <1> DEFINE b == json_build_str(j, toks, n)
             s == IF j.skip_tabs THEN j.text ELSE j.text \o Tabs(j, j.depth)
             l == IF j.skip_tabs THEN j.len ELSE j.len + j.depth * j.indent
  <1>1. /\ b.text = s \o toks /\ b.len = l + n
        /\ b.indent = j.indent /\ b.depth = j.depth /\ b.skip_tabs = j.skip_tabs
        BY BuiltText
  <1>2. s = j.text \o Tabs(j, j.depth) /\ l = j.len + j.depth * j.indent
        OBVIOUS
  <1> HIDE DEF b, s, l
  <1>3. /\ b.text = (j.text \o Tabs(j, j.depth)) \o toks /\ b.len = (j.len + j.depth * j.indent) + n
        /\ b.indent = j.indent /\ b.depth = j.depth /\ b.skip_tabs = FALSE
        BY <1>1, <1>2
  <1> QED BY <1>3 DEF b

LEMMA CutBack ==
    ASSUME NEW S, NEW p \in Seq(S), NEW u \in S, NEW v \in S
    PROVE  LET text == Append(Append(p, u), v)
           IN  /\ Len(text) - 1 \in Nat /\ text[Len(text) - 1] = u
               /\ SubSeq(text, 1, Len(text) - 1) = Append(p, u)
               /\ SubSeq(text, 1, Len(text) - 2) = p
  <1> DEFINE q == Append(p, u)
             text == Append(q, v)
  <1>1. p \in Seq(S) /\ q \in Seq(S) /\ text \in Seq(S)
        OBVIOUS
  <1>2. /\ Len(p) \in Nat /\ Len(q) = Len(p) + 1 /\ Len(text) = Len(p) + 2
        /\ \A i \in 1..Len(p) : text[i] = p[i] /\ q[i] = p[i]
        /\ text[Len(p) + 1] = u /\ q[Len(p) + 1] = u
        OBVIOUS
  <1> HIDE DEF q, text
  <1>3. SubSeq(text, 1, Len(text) - 1) = q
    <2> DEFINE s == SubSeq(text, 1, Len(text) - 1)
    <2>1. /\ s \in Seq(S) /\ Len(s) = Len(p) + 1
          /\ \A i \in 1..Len(p) + 1 : s[i] = text[i]
          BY <1>1, <1>2
    <2> HIDE DEF s
    <2>2. \A i \in 1..Len(p) + 1 : s[i] = q[i]
      <3>1. \A i \in 1..Len(p) + 1 : i \in 1..Len(p) \/ i = Len(p) + 1
            BY <1>2
      <3> QED BY <1>2, <2>1, <3>1
    <2> QED BY <1>1, <1>2, <2>1, <2>2, SeqEqual DEF s
  <1>4. SubSeq(text, 1, Len(text) - 2) = p
    <2> DEFINE s == SubSeq(text, 1, Len(text) - 2)
    <2>1. /\ s \in Seq(S) /\ Len(s) = Len(p)
          /\ \A i \in 1..Len(p) : s[i] = text[i]
          BY <1>1, <1>2
    <2> HIDE DEF s
    <2> QED BY <1>1, <1>2, <2>1, SeqEqual DEF s
  <1>5. Len(text) - 1 \in Nat /\ text[Len(text) - 1] = u
        BY <1>2
  <1> QED BY <1>3, <1>4, <1>5 DEF q, text

LEMMA OuterIs ==
    ASSUME NEW in \in Seq(Openers), in # << >>
    PROVE  /\ Outer(in) \in Seq(Openers) /\ Len(Outer(in)) = Len(in) - 1
           /\ Outer(in) = << >> <=> Len(in) = 1
           /\ Len(in) \in Nat \ {0}
  <1>1. Len(in) \in Nat \ {0}
        OBVIOUS
  <1>2. Outer(in) \in Seq(Openers) /\ Len(Outer(in)) = Len(in) - 1
    <2> DEFINE n == Len(in) - 1
    <2>1. n \in Nat /\ n <= Len(in)
          BY <1>1
    <2>2. SubSeq(in, 1, n) \in Seq(Openers) /\ Len(SubSeq(in, 1, n)) = n
      <3> HIDE DEF n
      <3> QED BY <2>1
    <2> QED BY <2>2 DEF Outer
  <1>3. Outer(in) = << >> <=> Len(Outer(in)) = 0
        BY <1>2
  <1> QED BY <1>1, <1>2, <1>3

LEMMA EndReads ==
    ASSUME NEW j, Sound(j), ~j.skip_tabs, NEW in \in Seq(Openers), in # << >>, j.depth = Len(in),
           NEW said, Ready(j.text, in, said, j.len),
           NEW closer \in Brackets, Matches(in[Len(in)], closer)
    PROVE  LET e == __json_end(j, closer)
           IN  /\ e.depth = Len(in) - 1
               /\ Outer(in) # << >> => Ready(e.text, Outer(in), Append(said, closer), e.len)
               /\ Outer(in) = << >> => Reading(e.text) = Rd(<< >>, "end", Append(said, closer), e.len, -1)
  <1> DEFINE empty == Empty(j)
             cut   == IF empty THEN 1 ELSE 2
             ended == [Strip(j, cut) EXCEPT !.depth = (@ - 1) % DepthMod, !.skip_tabs = TRUE]
             one   == json_build_str(ended, << >>, 0)
             two   == json_build_str(ended, <<Ch("nl")>>, 1)
             line  == IF empty THEN one ELSE SkipEnds(two)
             toks  == <<Ch(closer), Ch(","), Ch("nl")>>
             more  == json_build_str(line, toks, 3)
             last  == json_build_str(line, <<Ch(closer)>>, 1)
             done  == IF line.depth > 0 THEN more ELSE last
             d     == Len(in) - 1
  <1>1. /\ j.len \in Nat /\ j.depth \in 0..DepthMod - 1 /\ Fits(j.indent) /\ j.text \in Seq(Tokens)
        /\ j.len >= 2
        BY DEF Sound, Writable, Struct
  <1>2. d \in Nat /\ (j.depth - 1) % DepthMod = d
    <2>1. Len(in) \in Nat \ {0}
          OBVIOUS
    <2>2. d \in 0..DepthMod - 1 /\ j.depth - 1 = d /\ DepthMod \in Nat \ {0}
          BY <1>1, <2>1, SizesAssumption
    <2> HIDE DEF d
    <2> QED BY <2>2
  <1>3. /\ Writable(ended) /\ ended.len = j.len - cut /\ ended.depth = d /\ ended.skip_tabs = TRUE
        /\ ended.indent = j.indent /\ ended.text = SubSeq(j.text, 1, Len(j.text) - cut)
    <2>1. cut \in 1..2
          OBVIOUS
    <2> HIDE DEF cut, d
    <2> QED BY <1>2, <2>1, Stripped
  <1>4. ended \in Struct /\ ended.len \in Nat /\ ended.text \in Seq(Tokens)
        BY <1>3 DEF Writable, Struct
  <1>5. PICK p \in Seq(Tokens), u \in Tokens :
           /\ j.text = Append(Append(p, u), Ch("nl"))
           /\ \/ u.kind \in Openers /\ Reading(Append(p, u)) = Rd(in, "first", said, j.len - 1, -1)
              \/ u = Ch(",") /\ Reading(p) = Rd(in, "follows", said, j.len - 2, -1)
        BY DEF Ready
  <1>6. Ch("nl") \in Tokens /\ Ch(",") \in Tokens /\ Ch(",").kind = "," /\ "," \notin Openers
        BY Punctuation DEF Ch, Tok, Openers
  <1>7. /\ j.text[Len(j.text) - 1] = u
        /\ SubSeq(j.text, 1, Len(j.text) - 1) = Append(p, u)
        /\ SubSeq(j.text, 1, Len(j.text) - 2) = p
    <2> DEFINE nl == Ch("nl")
    <2>1. nl \in Tokens /\ j.text = Append(Append(p, u), nl)
          BY <1>5, <1>6
    <2> HIDE DEF nl
    <2> QED BY <2>1, CutBack
  <1>8. << >> \in Seq(Tokens) /\ <<Ch("nl")>> \in Seq(Tokens) /\ toks \in Seq(Tokens)
        /\ <<Ch(closer)>> \in Seq(Tokens)
    <2>1. Ch("nl") \in Tokens /\ Ch(",") \in Tokens /\ Ch(closer) \in Tokens
          BY Punctuation
    <2> QED BY <2>1, ShortLines
  <1>9. empty <=> u.kind \in Openers
        BY <1>7 DEF Empty, LastIs
  <1> HIDE DEF d, ended, empty
  <1>10. ASSUME NEW t \in Seq(Tokens), NEW k \in Nat
         PROVE  LET b == json_build_str(ended, t, k)
                IN  /\ b.text = ended.text \o t /\ b.len = ended.len + k
                    /\ b.indent = j.indent /\ b.depth = d /\ b.skip_tabs = TRUE
         BY <1>3, <1>4, BuiltPlain
  <1>11. /\ line \in Struct /\ line.depth = d /\ line.len \in Nat /\ line.text \in Seq(Tokens)
        /\ line.indent = j.indent
        /\ \E want \in {"first", "follows"} :
              \/ line.skip_tabs = TRUE /\ Reading(line.text) = Rd(in, want, said, line.len, -1)
              \/ line.skip_tabs = FALSE /\ Reading(line.text) = Rd(in, want, said, line.len, 0)
    <2>1. ended.indent \in Nat
          BY <1>4 DEF Struct
    <2>2. CASE empty
      <3>1. /\ Reading(ended.text) = Rd(in, "first", said, ended.len, -1)
            BY <1>3, <1>5, <1>6, <1>7, <1>9, <2>2
      <3>2. one.text = ended.text \o << >> /\ one.len = ended.len + 0
            /\ one.depth = d /\ one.skip_tabs = TRUE /\ one.indent = j.indent
            BY <1>8, <1>10
      <3>3. one.text = ended.text /\ one.len = ended.len
        <4> HIDE DEF one
        <4>1. ended.text \o << >> = ended.text
              BY <1>4
        <4> QED BY <1>4, <3>2, <4>1
      <3>4. one \in Struct
            BY <1>8, <1>3, Built DEF Writable
      <3> HIDE DEF one
      <3> QED BY <1>4, <2>2, <3>1, <3>2, <3>3, <3>4
    <2>3. CASE ~empty
      <3> DEFINE nl == Ch("nl")
                 line2 == SkipEnds(two)
      <3>1. /\ Reading(ended.text) = Rd(in, "follows", said, ended.len, -1)
            BY <1>3, <1>5, <1>7, <1>9, <2>3
      <3>2. two.text = ended.text \o <<nl>> /\ two.len = ended.len + 1
            /\ two.depth = d /\ two.indent = j.indent
            BY <1>8, <1>10
      <3>3. ended.text \o <<nl>> = Append(ended.text, nl)
        <4>1. nl \in Tokens
              BY <1>6
        <4> HIDE DEF nl
        <4> QED BY <1>4, <4>1, Joined
      <3>4. two \in Struct
        <4> QED BY <1>8, <1>3, Built DEF Writable
      <3>5. Reading(two.text) = Rd(in, "follows", said, ended.len + 1, 0)
        <4>1. Reading(Append(ended.text, nl)) = Read(Reading(ended.text), nl)
          <5>1. nl \in Tokens
                BY <1>6
          <5> HIDE DEF nl
          <5> QED BY <1>4, <5>1, ReadingOne
        <4>2. two.text = Append(ended.text, nl)
              BY <3>2, <3>3
        <4>3. Read(Rd(in, "follows", said, ended.len, -1), Ch("nl")) = Rd(in, "follows", said, ended.len + 1, 0)
              BY NewlineRead
        <4> HIDE DEF two, nl
        <4> QED BY <3>1, <4>1, <4>2, <4>3 DEF nl
      <3> HIDE DEF two
      <3>6. /\ line2.text = two.text /\ line2.len = two.len /\ line2.depth = two.depth
            /\ line2.indent = two.indent /\ line2.skip_tabs = FALSE /\ line2 \in Struct
            BY <3>4 DEF SkipEnds, Struct
      <3>7. line = line2
            BY <2>3
      <3>8. line2.len \in Nat /\ line2.text \in Seq(Tokens)
            BY <3>6 DEF Struct
      <3>9. Reading(line2.text) = Rd(in, "follows", said, line2.len, 0)
            BY <3>2, <3>5, <3>6
      <3> HIDE DEF line2, line
      <3> QED BY <3>2, <3>6, <3>7, <3>8, <3>9
    <2> QED BY <2>2, <2>3
  <1> HIDE DEF line
  <1> DEFINE Adds(s, l) ==
                 \A t \in Seq(Tokens), k \in Nat :
                    LET b == json_build_str(line, t, k) IN b.text = s \o t /\ b.len = l + k /\ b.depth = d
  <1>12. \E s \in Seq(Tokens), l \in Nat, want \in {"first", "follows"} : \E n :
            /\ n = -1 \/ n = Len(in) - 1
            /\ Reading(s) = Rd(in, want, said, l, n)
            /\ Adds(s, l)
    <2>1. PICK want \in {"first", "follows"} :
              \/ line.skip_tabs = TRUE /\ Reading(line.text) = Rd(in, want, said, line.len, -1)
              \/ line.skip_tabs = FALSE /\ Reading(line.text) = Rd(in, want, said, line.len, 0)
          BY <1>11
    <2>2. Fits(line.indent) /\ line.indent \in Nat
          BY <1>1, <1>11 DEF Fits
    <2>3. CASE line.skip_tabs = TRUE
      <3>1. Adds(line.text, line.len)
            BY <1>11, <2>3, BuiltPlain
      <3>2. Reading(line.text) = Rd(in, want, said, line.len, -1)
            BY <2>1, <2>3
      <3> HIDE DEF Adds
      <3> QED BY <1>11, <3>1, <3>2
    <2>4. CASE line.skip_tabs = FALSE
      <3> DEFINE s == line.text \o Tabs(line, d)
                 l == line.len + d * line.indent
      <3>1. Adds(s, l)
            BY <1>11, <2>4, BuiltLine
      <3>2. s \in Seq(Tokens) /\ Reading(s) = Rd(in, want, said, l, d)
        <4>1. Reading(line.text) = Rd(in, want, said, line.len, 0)
              BY <2>1, <2>4
        <4>2. line.text \in Seq(Tokens) /\ line.len \in Nat
              BY <1>11
        <4>3. /\ line.text \o Tabs(line, d) \in Seq(Tokens)
              /\ Reading(line.text \o Tabs(line, d)) = Rd(in, want, said, line.len + d * line.indent, d)
              BY <1>2, <4>2, <2>2, <4>1, TabsRead
        <4> QED BY <4>3
      <3>3. l \in Nat
        <4>1. d * line.indent \in Nat
              BY <1>2, <2>2
        <4> QED BY <1>11, <4>1
      <3>4. d = -1 \/ d = Len(in) - 1
            BY DEF d
      <3> HIDE DEF s, l, Adds
      <3> QED BY <3>1, <3>2, <3>3, <3>4
    <2> QED BY <2>1, <2>3, <2>4
  <1>13. PICK s \in Seq(Tokens), l \in Nat, want \in {"first", "follows"} : \E n :
            /\ n = -1 \/ n = Len(in) - 1
            /\ Reading(s) = Rd(in, want, said, l, n)
            /\ Adds(s, l)
         BY <1>12
  <1>13a. PICK n :
            /\ n = -1 \/ n = Len(in) - 1
            /\ Reading(s) = Rd(in, want, said, l, n)
            /\ Adds(s, l)
         BY <1>13
  <1>14. /\ more.text = s \o toks /\ more.len = l + 3 /\ more.depth = d
         /\ last.text = s \o <<Ch(closer)>> /\ last.len = l + 1 /\ last.depth = d
    <2>1. 3 \in Nat /\ 1 \in Nat
          OBVIOUS
    <2> QED BY <1>8, <1>13, <1>13a, <2>1
  <1>15. /\ more \in Struct /\ last \in Struct
    <2>1. Writable(line)
      <3>1. Writable(one) /\ Writable(two)
            BY <1>8, <1>3, Built
      <3> HIDE DEF one, two
      <3>2. Writable(SkipEnds(two))
            BY <3>1 DEF Writable, Struct, SkipEnds
      <3> QED BY <3>1, <3>2 DEF line
    <2> HIDE DEF toks
    <2> QED BY <1>8, <2>1, Built DEF Writable
  <1> HIDE DEF more, last, Adds
  <1>16. __json_end(j, closer) = SkipEnds(done)
         BY DEF __json_end, line, ended, empty, one, two, more, last
  <1>17. done \in Struct /\ done.depth = d
         BY <1>14, <1>15
  <1>18. SkipEnds(done).text = done.text /\ SkipEnds(done).len = done.len /\ SkipEnds(done).depth = d
         BY <1>17 DEF SkipEnds, Struct
  <1>19. Outer(in) # << >> <=> line.depth > 0
         BY <1>2, <1>11, OuterIs DEF d
  <1>20. /\ Outer(in) # << >> => Ready(s \o toks, Outer(in), Append(said, closer), l + 3)
         /\ Outer(in) = << >> =>
              Reading(s \o <<Ch(closer)>>) = Rd(<< >>, "end", Append(said, closer), l + 1, -1)
    <2>1. Ends(in, closer, want, n)
          BY <1>13, <1>13a DEF Ends
    <2>2. Reading(s) = Rd(in, want, said, l, n)
          BY <1>13, <1>13a
    <2>3. ClosedBy(closer, in, said, s, l)
          BY <2>1, <2>2, CloseLine
    <2> QED BY <2>3 DEF ClosedBy
  <1> HIDE DEF toks
  <1>21. /\ Outer(in) # << >> => Ready(done.text, Outer(in), Append(said, closer), done.len)
         /\ Outer(in) = << >> => Reading(done.text) = Rd(<< >>, "end", Append(said, closer), done.len, -1)
         BY <1>14, <1>19, <1>20
  <1> HIDE DEF done
  <1> QED BY <1>16, <1>18, <1>21 DEF d

----------------------------------------------------------------------------
(***************************************************************************)
(* The text between two calls: every line is complete, and the depth is    *)
(* the number of containers that are open, until the last one, which is an *)
(* object, is ended.                                                       *)
(***************************************************************************)
RootIsObject == nest # << >> => nest[1] = "{"

TextInv ==
    /\ Inv
    /\ nest \in Seq(Openers) /\ calls \in Seq(Kinds)
    /\ RootIsObject
    /\ json = Closed => calls = << >>
    /\ json # Closed /\ nest # << >> =>
          json.depth = Len(nest) /\ Ready(json.text, nest, calls, json.len)
    /\ json # Closed /\ nest = << >> =>
          Reading(json.text) = Rd(<< >>, "end", calls, json.len, -1)

LEMMA OpenJson ==
    ASSUME TextInv, json # Closed
    PROVE  /\ Sound(json) /\ json.skip_tabs = FALSE /\ json \in Struct /\ json.text \in Seq(Tokens)
           /\ json.len \in Nat /\ Fits(json.indent) /\ json.indent \in Nat
           /\ json.depth \in 0..DepthMod - 1
  BY DEF TextInv, Inv, Sound, Writable, Struct, Fits

LEMMA SoundIsOpen == ASSUME NEW j, Sound(j) PROVE j # Closed
  BY DEF Sound, Closed

LEMMA StartIsRead == Start = Rd(<< >>, "next", << >>, 0, -1)
  BY DEF Start, Rd

LEMMA InitReads ==
    ASSUME TextInv, ac_jsonw_init
    PROVE  TextInv'
  <1> DEFINE c == "{"
             text == <<Ch(c), Ch("nl")>>
  <1>1. /\ json'.text = text /\ json'.len = 2 /\ json'.depth = 1
        /\ nest' = <<c>> /\ calls' = <<c>> /\ json = Closed
        BY DEF ac_jsonw_init, Closed
  <1>2. Inv'
        BY InvInductive DEF TextInv, Next
  <1>3. c \in Openers /\ c \in Kinds
        BY DEF Openers, Kinds, Brackets
  <1>4. TakesValue(<< >>, "next", -1)
        BY DEF TakesValue
  <1>5. Ready(<< >> \o text, Append(<< >>, c), Append(<< >>, c), 0 + 2)
    <2>1. << >> \in Seq(Tokens) /\ 0 \in Int
          OBVIOUS
    <2>2. Reading(<< >>) = Rd(<< >>, "next", << >>, 0, -1)
          BY ReadingNone, StartIsRead
    <2> HIDE DEF c
    <2> QED BY <1>3, <1>4, <2>1, <2>2, OpenLine
  <1>6. << >> \o text = text /\ Append(<< >>, c) = <<c>> /\ 0 + 2 = 2 /\ Len(<<c>>) = 1
        /\ <<c>> # << >>
    <2>1. text \in Seq(Tokens)
      <3>1. Ch(c) \in Tokens /\ Ch("nl") \in Tokens
            BY <1>3, Punctuation
      <3> QED BY <3>1, ShortLines
    <2> HIDE DEF text, c
    <2> QED BY <2>1
  <1>7. <<c>> \in Seq(Openers) /\ <<c>> \in Seq(Kinds)
    <2> HIDE DEF c
    <2> QED BY <1>3
  <1>8. json' # Closed
    <2>1. Closed.len = 0
          BY DEF Closed
    <2> HIDE DEF text, c
    <2> QED BY <1>1, <2>1
  <1>9. nest'[1] = "{"
        BY <1>1
  <1> HIDE DEF text, c
  <1>10. Ready(json'.text, nest', calls', json'.len) /\ json'.depth = Len(nest') /\ nest' # << >>
        BY <1>1, <1>5, <1>6
  <1> QED BY <1>1, <1>2, <1>7, <1>8, <1>9, <1>10 DEF TextInv, RootIsObject

(***************************************************************************)
(* Another indenter changes what is written later only.                    *)
(***************************************************************************)
LEMMA IndenterReads ==
    ASSUME TextInv, Inv', json # Closed, NEW w, json' = [json EXCEPT !.indent = w],
           UNCHANGED <<nest, calls>>
    PROVE  TextInv'
  <1>1. /\ json'.text = json.text /\ json'.len = json.len /\ json'.depth = json.depth
        BY OpenJson DEF Struct
  <1>2. json' # Closed
    <2>1. json'.len >= 2
          BY <1>1, OpenJson DEF Sound
    <2> QED BY <2>1 DEF Closed
  <1> QED BY <1>1, <1>2 DEF TextInv, RootIsObject

LEMMA MayAddIs ==
    ASSUME TextInv, NEW name, MayAdd(name)
    PROVE  nest # << >> /\ json # Closed /\ (name = 0 <=> InArray(nest))
           /\ json.depth = Len(nest) /\ Ready(json.text, nest, calls, json.len)
  <1>1. nest # << >> /\ (name = 0 <=> nest[Len(nest)] = "[")
        BY DEF MayAdd
  <1>2. json # Closed
        BY <1>1, SoundIsOpen DEF TextInv, Inv
  <1> QED BY <1>1, <1>2 DEF TextInv, InArray

(***************************************************************************)
(* A line of an entry: what is written before its value, and the value.    *)
(***************************************************************************)
EntryIs(b, rest, n, said) ==
    /\ b \in Struct /\ b.depth = Len(nest)
    /\ \E s \in Seq(Tokens), l \in Nat : \E want, tabs :
          /\ b.text = s \o rest /\ b.len = l + n
          /\ TakesValue(nest, want, tabs)
          /\ Reading(s) = Rd(nest, want, said, l, tabs)

LEMMA EntryText ==
    ASSUME TextInv, NEW name \in Names \cup {0}, MayAdd(name),
           NEW rest \in Seq(Tokens), NEW n \in Nat
    PROVE  EntryIs(json_build_str(json, Key(name) \o rest, name + n), rest, n, calls \o Before(name))
  <1> DEFINE toks == Key(name) \o rest
             k    == name + n
             b    == json_build_str(json, toks, k)
             a    == json.text \o Tabs(json, Len(nest))
             s    == a \o Key(name)
             m    == json.len + Len(nest) * json.indent
             l    == m + name
  <1>1. /\ nest # << >> /\ json # Closed /\ (name = 0 <=> InArray(nest))
        /\ json.depth = Len(nest) /\ Ready(json.text, nest, calls, json.len)
        BY MayAddIs
  <1>2. /\ Sound(json) /\ json.skip_tabs = FALSE /\ json \in Struct /\ json.text \in Seq(Tokens)
        /\ json.len \in Nat /\ Fits(json.indent) /\ json.indent \in Nat
        BY <1>1, OpenJson
  <1>3. Key(name) \in Seq(Tokens) /\ name \in Nat
        BY KeyIs
  <1>4. toks \in Seq(Tokens) /\ k \in Nat
        BY <1>3
  <1>5. nest \in Seq(Openers) /\ calls \in Seq(Kinds) /\ Len(nest) \in Nat
        BY DEF TextInv
  <1>6. /\ b.text = a \o toks /\ b.len = m + k /\ b.depth = Len(nest)
    <2> HIDE DEF toks, k
    <2>1. /\ b.text = (json.text \o Tabs(json, json.depth)) \o toks
          /\ b.len = (json.len + json.depth * json.indent) + k
          /\ b.depth = json.depth
          BY <1>2, <1>4, BuiltLine
    <2> QED BY <1>1, <2>1
  <1>7. b \in Struct
    <2> HIDE DEF toks, k
    <2> QED BY <1>2, <1>4, Built DEF Sound, Writable
  <1>8. /\ s \in Seq(Tokens)
        /\ \E want, tabs : TakesValue(nest, want, tabs)
              /\ Reading(s) = Rd(nest, want, calls \o Before(name), l, tabs)
    <2>1. Begun(json.text, json, nest, calls, json.len, name)
          BY <1>1, <1>2, <1>5, EntryRead
    <2> QED BY <2>1 DEF Begun
  <1>9. m \in Nat /\ l \in Nat /\ m + k = l + n
    <2>1. Len(nest) * json.indent \in Nat
          BY <1>2, <1>5
    <2>2. m \in Nat
          BY <1>2, <2>1
    <2> HIDE DEF m
    <2> QED BY <1>3, <2>2
  <1>10. a \o toks = s \o rest
    <2>1. a \in Seq(Tokens)
          BY <1>2, <1>5, TabsAre
    <2> HIDE DEF a
    <2> DEFINE T == Tokens
    <2> HIDE DEF T
    <2>2. \A x \in Seq(T), y \in Seq(T), z \in Seq(T) : x \o (y \o z) = (x \o y) \o z
          BY ConcatAssociative
    <2> QED BY <1>3, <2>1, <2>2 DEF T
  <1> HIDE DEF s, l, m, a, b
  <1>11. b.text = s \o rest /\ b.len = l + n
    <2> HIDE DEF toks, k
    <2> QED BY <1>6, <1>9, <1>10
  <1>12. EntryIs(b, rest, n, calls \o Before(name))
    <2>1. PICK want, tabs : TakesValue(nest, want, tabs)
              /\ Reading(s) = Rd(nest, want, calls \o Before(name), l, tabs)
          BY <1>8
    <2> QED BY <1>6, <1>7, <1>8, <1>9, <1>11, <2>1 DEF EntryIs
  <1> QED BY <1>12 DEF b

LEMMA ValueReads ==
    ASSUME TextInv, Inv', NEW name \in Names \cup {0}, NEW value \in Values, AddValue(name, value)
    PROVE  TextInv'
  <1> DEFINE rest == <<Tok("value", value), Ch(","), Ch("nl")>>
             n    == value + 2
             said == calls \o Before(name)
  <1>1. /\ MayAdd(name) /\ nest' = nest /\ calls' = calls \o Asked(name, "value")
        /\ json' = json_build_str(json, Key(name) \o rest, name + value + 2)
        BY DEF AddValue
  <1>2. value \in Nat /\ name \in Nat /\ name + value + 2 = name + n /\ n \in Nat
        BY SizesAssumption
  <1>3. rest \in Seq(Tokens)
    <2>1. Tok("value", value) \in Tokens /\ Ch(",") \in Tokens /\ Ch("nl") \in Tokens
          BY <1>2, Punctuation
    <2> QED BY <2>1, ShortLines
  <1>4. calls' = Append(said, "value") /\ calls' \in Seq(Kinds)
    <2> DEFINE v == "value"
    <2>1. v \in Kinds /\ calls \in Seq(Kinds)
          BY DEF Kinds, TextInv
    <2> HIDE DEF v
    <2>2. /\ calls \o Asked(name, v) = Append(calls \o Before(name), v)
          /\ calls \o Asked(name, v) \in Seq(Kinds)
          BY <2>1, AskedIs
    <2> QED BY <1>1, <2>2 DEF v
  <1>5. nest # << >> /\ nest \in Seq(Openers)
        BY <1>1, MayAddIs DEF TextInv
  <1>6. /\ json' \in Struct /\ json'.depth = Len(nest)
        /\ \E s \in Seq(Tokens), l \in Nat : \E want, tabs :
              /\ json'.text = s \o rest /\ json'.len = l + n
              /\ TakesValue(nest, want, tabs)
              /\ Reading(s) = Rd(nest, want, said, l, tabs)
    <2> HIDE DEF rest, n
    <2>1. json' = json_build_str(json, Key(name) \o rest, name + n)
          BY <1>1, <1>2
    <2>2. EntryIs(json', rest, n, said)
          BY <1>1, <1>2, <1>3, <2>1, EntryText
    <2> QED BY <2>2 DEF EntryIs
  <1>7. PICK s \in Seq(Tokens), l \in Nat : \E want, tabs :
              /\ json'.text = s \o rest /\ json'.len = l + n
              /\ TakesValue(nest, want, tabs)
              /\ Reading(s) = Rd(nest, want, said, l, tabs)
        BY <1>6
  <1>7a. PICK want, tabs :
              /\ json'.text = s \o rest /\ json'.len = l + n
              /\ TakesValue(nest, want, tabs)
              /\ Reading(s) = Rd(nest, want, said, l, tabs)
         BY <1>7
  <1> HIDE DEF said
  <1>8. Ready(s \o rest, nest, Append(said, "value"), l + value + 2)
        BY <1>2, <1>5, <1>7, <1>7a, ValueLine
  <1>9. l + value + 2 = l + n
        BY <1>2
  <1>10. json' # Closed
    <2>1. nest' # << >>
          BY <1>1, <1>5
    <2> QED BY <2>1, SoundIsOpen DEF Inv
  <1> HIDE DEF rest, n
  <1>11. Ready(json'.text, nest', calls', json'.len)
         BY <1>1, <1>4, <1>7, <1>7a, <1>8, <1>9
  <1> QED BY <1>1, <1>4, <1>5, <1>6, <1>10, <1>11 DEF TextInv, RootIsObject

LEMMA ContainerReads ==
    ASSUME TextInv, Inv', NEW name \in Names \cup {0}, NEW c \in Openers, AddContainer(name, c)
    PROVE  TextInv'
  <1> DEFINE rest == <<Ch(c), Ch("nl")>>
             said == calls \o Before(name)
             b    == json_build_str(json, Key(name) \o rest, name + 2)
  <1>1. /\ MayAdd(name) /\ nest' = Append(nest, c) /\ calls' = calls \o Asked(name, c)
        /\ Len(nest) < DepthMod - 1 /\ json' = Open(name, c)
        BY DEF AddContainer
  <1>2. rest \in Seq(Tokens)
    <2>1. Ch(c) \in Tokens /\ Ch("nl") \in Tokens
          BY Punctuation
    <2> QED BY <2>1, ShortLines
  <1>3. calls' = Append(said, c) /\ calls' \in Seq(Kinds)
    <2>1. c \in Kinds /\ calls \in Seq(Kinds)
          BY DEF Kinds, Brackets, TextInv
    <2> QED BY <1>1, <2>1, AskedIs
  <1>4. nest # << >> /\ nest \in Seq(Openers) /\ Len(nest) \in Nat
        BY <1>1, MayAddIs DEF TextInv
  <1>5. /\ b \in Struct /\ b.depth = Len(nest)
        /\ \E s \in Seq(Tokens), l \in Nat : \E want, tabs :
              /\ b.text = s \o rest /\ b.len = l + 2
              /\ TakesValue(nest, want, tabs)
              /\ Reading(s) = Rd(nest, want, said, l, tabs)
    <2> HIDE DEF rest
    <2>1. 2 \in Nat
          OBVIOUS
    <2>2. EntryIs(b, rest, 2, said)
          BY <1>1, <1>2, <2>1, EntryText
    <2> QED BY <2>2 DEF EntryIs
  <1>6. json' = [b EXCEPT !.depth = (b.depth + 1) % DepthMod]
        BY <1>1 DEF Open
  <1> HIDE DEF b, said
  <1>7. /\ json'.text = b.text /\ json'.len = b.len /\ json'.depth = Len(nest) + 1
    <2>1. (Len(nest) + 1) % DepthMod = Len(nest) + 1
      <3> DEFINE k == Len(nest) + 1
      <3>1. k \in 0..DepthMod - 1 /\ DepthMod \in Nat \ {0}
            BY <1>1, <1>4, SizesAssumption
      <3> HIDE DEF k
      <3>2. k % DepthMod = k
            BY <3>1
      <3> QED BY <3>2 DEF k
    <2> DEFINE d == (b.depth + 1) % DepthMod
    <2>2. d = Len(nest) + 1
          BY <1>5, <2>1
    <2> HIDE DEF d
    <2> QED BY <1>5, <1>6, <2>2 DEF Struct, d
  <1>8. PICK s \in Seq(Tokens), l \in Nat : \E want, tabs :
              /\ b.text = s \o rest /\ b.len = l + 2
              /\ TakesValue(nest, want, tabs)
              /\ Reading(s) = Rd(nest, want, said, l, tabs)
        BY <1>5
  <1>8a. PICK want, tabs :
              /\ b.text = s \o rest /\ b.len = l + 2
              /\ TakesValue(nest, want, tabs)
              /\ Reading(s) = Rd(nest, want, said, l, tabs)
         BY <1>8
  <1>9. Ready(s \o rest, Append(nest, c), Append(said, c), l + 2)
        BY <1>8, <1>8a, OpenLine
  <1> HIDE DEF rest
  <1>10. nest' # << >> /\ nest' \in Seq(Openers) /\ Len(nest') = Len(nest) + 1 /\ nest'[1] = nest[1]
         BY <1>1, <1>4
  <1>11. nest[1] = "{"
         BY <1>4 DEF TextInv, RootIsObject
  <1>12. json' # Closed
         BY <1>10, SoundIsOpen DEF Inv
  <1>13. Ready(json'.text, nest', calls', json'.len) /\ json'.depth = Len(nest')
         BY <1>1, <1>3, <1>7, <1>8, <1>8a, <1>9, <1>10
  <1> QED BY <1>3, <1>10, <1>12, <1>13, <1>11 DEF TextInv, RootIsObject

LEMMA EndKeeps ==
    ASSUME TextInv, Inv', nest # << >>, NEW closer \in Brackets, Matches(nest[Len(nest)], closer),
           json' = __json_end(json, closer), nest' = Outer(nest), calls' = Append(calls, closer)
    PROVE  TextInv'
  <1>1. json # Closed
        BY SoundIsOpen DEF TextInv, Inv
  <1>2. /\ Sound(json) /\ json.skip_tabs = FALSE /\ nest \in Seq(Openers) /\ calls \in Seq(Kinds)
        /\ json.depth = Len(nest) /\ Ready(json.text, nest, calls, json.len)
        BY <1>1, OpenJson DEF TextInv
  <1>3. /\ json'.depth = Len(nest) - 1
        /\ Outer(nest) # << >> => Ready(json'.text, nest', calls', json'.len)
        /\ Outer(nest) = << >> => Reading(json'.text) = Rd(<< >>, "end", calls', json'.len, -1)
        BY <1>2, EndReads
  <1>4. Sound(json')
        BY <1>2, EndSound
  <1>5. json' # Closed
        BY <1>4, SoundIsOpen
  <1>6. nest' \in Seq(Openers) /\ Len(nest') = Len(nest) - 1
        BY <1>2, OuterIs
  <1>7. nest' # << >> => nest'[1] = "{"
    <2>1. nest[1] = "{"
          BY DEF TextInv, RootIsObject
    <2>2. nest' # << >> => Len(nest) - 1 >= 1
          BY <1>2, OuterIs
    <2>3. nest' # << >> => nest'[1] = nest[1]
          BY <1>2, <2>2 DEF Outer
    <2> QED BY <2>1, <2>3
  <1>8. calls' \in Seq(Kinds)
    <2>1. closer \in Kinds
          BY DEF Kinds
    <2> QED BY <1>2, <2>1
  <1> QED BY <1>3, <1>5, <1>6, <1>8, <1>7 DEF TextInv, RootIsObject

LEMMA TextInductive == TextInv /\ [Next]_vars => TextInv'
  <1> SUFFICES ASSUME TextInv, [Next]_vars PROVE TextInv'
      OBVIOUS
  <1>1. Inv'
        BY InvInductive DEF TextInv
  <1>2. CASE ac_jsonw_init
        BY <1>2, InitReads
  <1>3. CASE ac_jsonw_free
    <2>1. json' = Closed /\ nest' = << >> /\ calls' = << >>
          BY <1>3 DEF ac_jsonw_free
    <2>2. << >> \in Seq(Openers) /\ << >> \in Seq(Kinds)
          OBVIOUS
    <2> QED BY <1>1, <2>1, <2>2 DEF TextInv, RootIsObject
  <1>4. CASE UNCHANGED vars
        BY <1>1, <1>4 DEF TextInv, RootIsObject, vars
  <1>5. ASSUME NEW size \in Spaces, ac_jsonw_indent_sz(size) PROVE TextInv'
    <2>1. CASE json' = json
      <3>1. UNCHANGED vars
            BY <1>5, <2>1 DEF ac_jsonw_indent_sz, vars
      <3> QED BY <1>4, <3>1
    <2>2. CASE json' = [json EXCEPT !.indent = size]
          BY <1>1, <1>5, <2>2, IndenterReads DEF ac_jsonw_indent_sz
    <2> QED BY <1>5, <2>1, <2>2 DEF ac_jsonw_indent_sz
  <1>6. ASSUME NEW width \in Indents, ac_jsonw_set_indenter(width) PROVE TextInv'
        BY <1>1, <1>6, IndenterReads DEF ac_jsonw_set_indenter
  <1>7. ASSUME NEW name \in Names \cup {0}, NEW value \in Values, AddValue(name, value) PROVE TextInv'
        BY <1>1, <1>7, ValueReads
  <1>8. ASSUME NEW name \in Names \cup {0}, NEW c \in Openers, AddContainer(name, c) PROVE TextInv'
        BY <1>1, <1>8, ContainerReads
  <1>9. ASSUME NEW c, NEW closer \in Brackets, Matches(c, closer), EndContainer(c, closer)
        PROVE  TextInv'
    <2>1. /\ Len(nest) > 1 /\ nest[Len(nest)] = c /\ json' = __json_end(json, closer)
          /\ nest' = Outer(nest) /\ calls' = Append(calls, closer)
          BY <1>9 DEF EndContainer, Outer
    <2>2. nest # << >>
          BY <2>1
    <2> QED BY <1>1, <1>9, <2>1, <2>2, EndKeeps
  <1>10. CASE ac_jsonw_end
    <2> DEFINE closer == "}"
    <2>1. /\ Len(nest) = 1 /\ json' = __json_end([json EXCEPT !.depth = 1], closer)
          /\ nest' = << >> /\ calls' = Append(calls, closer)
          BY <1>10 DEF ac_jsonw_end
    <2>2. nest \in Seq(Openers)
          BY DEF TextInv
    <2>3. nest # << >> /\ nest \in Seq(Openers)
      <3>1. Len(nest) = 1
            BY <2>1
      <3> QED BY <2>2, <3>1
    <2>4. json # Closed /\ json.depth = 1 /\ json \in Struct
      <3>1. json # Closed
            BY <2>3, SoundIsOpen DEF TextInv, Inv
      <3> QED BY <2>1, <2>3, <3>1, OpenJson DEF TextInv
    <2>5. [json EXCEPT !.depth = 1] = json
          BY <2>4 DEF Struct
    <2>6. nest' = Outer(nest)
          BY <2>1, <2>3, OuterIs
    <2>7. closer \in Brackets /\ Matches(nest[Len(nest)], closer)
      <3>1. nest[1] = "{" /\ Len(nest) = 1
            BY <2>1, <2>3 DEF TextInv, RootIsObject
      <3> QED BY <3>1 DEF Matches, Brackets
    <2> HIDE DEF closer
    <2> QED BY <1>1, <2>1, <2>3, <2>5, <2>6, <2>7, EndKeeps
  <1>11. Matches("[", "]") /\ Matches("{", "}") /\ "]" \in Brackets /\ "}" \in Brackets
         BY DEF Matches, Brackets
  <1> QED BY <1>2, <1>3, <1>4, <1>5, <1>6, <1>7, <1>8, <1>9, <1>10, <1>11 DEF Next

LEMMA TextInit == Init => TextInv
  <1>1. Init => Inv
        BY DEF Init, Inv
  <1>2. << >> \in Seq(Openers) /\ << >> \in Seq(Kinds)
        OBVIOUS
  <1> QED BY <1>1, <1>2 DEF TextInv, RootIsObject, Init

LEMMA TextRight == TextInv => IsJson /\ LinesIndented
  <1> SUFFICES ASSUME TextInv PROVE IsJson /\ LinesIndented
      OBVIOUS
  <1>1. CASE json = Closed
    <2>1. json.text = << >> /\ json.len = 0 /\ calls = << >>
          BY <1>1 DEF Closed, TextInv
    <2>2. Reading(json.text) = Start
          BY <2>1, ReadingNone
    <2> QED BY <1>1, <2>1, <2>2 DEF IsJson, LinesIndented, Start
  <1>2. CASE json # Closed /\ nest = << >>
    <2>1. Reading(json.text) = Rd(<< >>, "end", calls, json.len, -1)
          BY <1>2 DEF TextInv
    <2> QED BY <1>2, <2>1 DEF IsJson, LinesIndented, Rd
  <1>3. CASE json # Closed /\ nest # << >>
    <2>1. nest \in Seq(Openers) /\ Ready(json.text, nest, calls, json.len) /\ json.len \in Nat
          BY <1>3, OpenJson DEF TextInv
    <2>2. PICK want \in {"first", "next"} : Reading(json.text) = Rd(nest, want, calls, json.len, 0)
          BY <1>3, <2>1, ReadyRead
    <2> QED BY <1>3, <2>2 DEF IsJson, LinesIndented, Rd
  <1> QED BY <1>1, <1>2, <1>3

----------------------------------------------------------------------------
(***************************************************************************)
(* The struct always has the type of its fields: the u8 depth included.    *)
(***************************************************************************)
THEOREM TypeCorrect == Spec => []TypeOK
  <1>1. Init => Inv
        BY DEF Init, Inv
  <1>2. Inv => TypeOK
    <2>1. json = Closed => TypeOK
      <3>1. Closed.skip_tabs = FALSE
            BY DEF Closed
      <3> QED BY <3>1, ClosedStruct DEF TypeOK
    <2>2. Sound(json) /\ ~json.skip_tabs => TypeOK
          BY DEF TypeOK, Sound, Writable
    <2> QED BY <2>1, <2>2 DEF Inv
  <1> QED BY <1>1, <1>2, InvInductive, PTL DEF Spec

(***************************************************************************)
(* The buffer always holds what is written and its NUL, and no indentation *)
(* is ever cut short (ac_jsonw.c:34-51), however long the document and     *)
(* however deep it nests.                                                  *)
(***************************************************************************)
THEOREM BufferSuffices == Spec => []BufferHolds
  <1>1. Init => Inv
        BY DEF Init, Inv
  <1>2. Inv => BufferHolds
        BY DEF Inv, BufferHolds, Sound, Writable
  <1> QED BY <1>1, <1>2, InvInductive, PTL DEF Spec

(***************************************************************************)
(* The text is JSON, as far as it goes, and all of a document after        *)
(* ac_jsonw_end; it says what was asked for, and len is its length         *)
(* (ac_jsonw.c:316-332), for documents of any length and depth up to the   *)
(* 255 of the u8.                                                          *)
(***************************************************************************)
THEOREM TextIsJson == Spec => []IsJson
  BY TextInit, TextInductive, TextRight, PTL DEF Spec

(***************************************************************************)
(* Each line is indented once for each container it is in, with the        *)
(* indenter of the moment (ac_jsonw.c:39-42, :324, :358).                  *)
(***************************************************************************)
THEOREM TextIsIndented == Spec => []LinesIndented
  BY TextInit, TextInductive, TextRight, PTL DEF Spec
=============================================================================

