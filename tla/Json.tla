-------------------------------- MODULE Json --------------------------------
(***************************************************************************)
(* The JSON tokenizer (json.c).  A document is a sequence of bytes; struct *)
(* json_state is a record: cur and end are positions in the document (end  *)
(* is behind its last byte) and err is the error message or None.  An      *)
(* operator named for a function of json.c returns the state the function  *)
(* leaves; the value the function returns is its field ok.                 *)
(*                                                                         *)
(* Messages are short names, and is_null_terminated is always true, as it  *)
(* is in main.c.  Loops and recursion are functions of the place they have *)
(* come to, each defined by an operator for what happens at one place.     *)
(***************************************************************************)
EXTENDS Integers, Sequences, SequencesExt, FiniteSetsExt

None == "none"

Quote == 34
Plus == 43
Comma == 44
Minus == 45
Dot == 46
Zero == 48
Colon == 58
OpenList == 91
Backslash == 92
CloseList == 93
LetterU == 117
OpenObject == 123
CloseObject == 125

Byte == 0..255
Blank == {32, 9, 10, 13}
Digit == 48..57
Hex == Digit \union 65..70 \union 97..102
Exponent == {69, 101}
Closing == {CloseObject, CloseList}
Continuation == 128..191

\* What stands for \" \\ \/ \b \f \n \r \t.
Escape ==
    [b \in {34, 92, 47, 98, 102, 110, 114, 116} |->
        IF b = 98 THEN 8 ELSE IF b = 102 THEN 12 ELSE IF b = 110 THEN 10
        ELSE IF b = 114 THEN 13 ELSE IF b = 116 THEN 9 ELSE b]

TrueText == <<116, 114, 117, 101>>
FalseText == <<102, 97, 108, 115, 101>>
NullText == <<110, 117, 108, 108>>

HexValue(b) == IF b <= 57 THEN b - 48 ELSE IF b <= 70 THEN b - 55 ELSE b - 87

-----------------------------------------------------------------------------
(***************************************************************************)
(* Errors, whitespace, and what follows a value.                           *)
(***************************************************************************)
AtEnd(s) == s.cur = s.end
Is(d, s, bytes) == s.cur < s.end /\ d[s.cur] \in bytes

Yes(s) == [s EXCEPT !.ok = TRUE]
No(s) == [s EXCEPT !.ok = FALSE]
To(s, p) == [s EXCEPT !.cur = p]
Step(s) == To(s, s.cur + 1)

\* An error ends the document where it was found: no token is left to match.
\* Mutant: the document goes on.
ErrGoingOn(s, p, msg) == [s EXCEPT !.cur = p, !.err = msg, !.ok = FALSE]

Err(s, p, msg) == [cur |-> p, end |-> p, err |-> msg, ok |-> FALSE]

\* A byte that should be there is not, or is another.
Fault(s, p, msg) == IF p >= s.end THEN Err(s, s.end, "end") ELSE Err(s, p, msg)

Refuse(s) == IF s.err # None THEN No(s) ELSE Fault(s, s.cur, "character")

SkipWhile(d, s, bytes) ==
    To(s, CHOOSE p \in s.cur..s.end :
            /\ p = s.end \/ d[p] \notin bytes
            /\ \A q \in s.cur..(p - 1) : d[q] \in bytes)

SkipWhitespace(d, s) == SkipWhile(d, s, Blank)

\* Mutant: a comma may be the last thing in a list or an object.
SkipAnyPostValue(d, s) ==
    LET t == SkipWhitespace(d, s)
    IN  IF AtEnd(t) \/ Is(d, t, Closing) THEN Yes(t)
        ELSE IF d[t.cur] = Comma THEN Yes(SkipWhitespace(d, Step(t)))
        ELSE Err(t, t.cur, "character")

NotClosing(d, s) == IF Is(d, s, Closing) THEN Err(s, s.cur, "value") ELSE Yes(s)

AfterValue(d, s) ==
    IF AtEnd(s) \/ Is(d, s, Closing) THEN Yes(s)
    ELSE IF d[s.cur] # Comma THEN Err(s, s.cur, "character")
    ELSE NotClosing(d, SkipWhitespace(d, Step(s)))

SkipPostValue(d, s) == AfterValue(d, SkipWhitespace(d, s))

SkipPostKey(d, s) ==
    LET t == SkipWhitespace(d, s)
    IN  IF Is(d, t, {Colon}) THEN Yes(SkipWhitespace(d, Step(t)))
        ELSE Fault(t, t.cur, "key")

JsonInit(d) ==
    LET marked == Len(d) >= 3 /\ SubSeq(d, 1, 3) = <<239, 187, 191>>
    IN  SkipWhitespace(d, [cur |-> IF marked THEN 4 ELSE 1,
                           end |-> Len(d) + 1, err |-> None, ok |-> TRUE])

Begin(d, s, bracket) ==
    IF Is(d, s, {bracket}) THEN Yes(SkipWhitespace(d, Step(s))) ELSE No(s)

\* At the end of the document every bracket is closed, which is an error.
\* Mutant: which is none.
EndQuietly(d, s, bracket) ==
    CASE AtEnd(s) -> Yes(s)
      [] Is(d, s, {bracket}) -> Yes(SkipPostValue(d, Step(s)))
      [] OTHER -> No(s)

End(d, s, bracket) ==
    CASE AtEnd(s) -> Yes(IF s.err = None THEN Err(s, s.end, "end") ELSE s)
      [] Is(d, s, {bracket}) -> Yes(SkipPostValue(d, Step(s)))
      [] OTHER -> No(s)

-----------------------------------------------------------------------------
(***************************************************************************)
(* Strings.                                                                *)
(***************************************************************************)
Utf8(c) ==
    IF c < 128 THEN <<c>>
    ELSE IF c < 2048 THEN <<192 + (c \div 64), 128 + (c % 64)>>
    ELSE IF c < 65536
    THEN <<224 + (c \div 4096), 128 + ((c \div 64) % 64), 128 + (c % 64)>>
    ELSE <<240 + (c \div 262144), 128 + ((c \div 4096) % 64),
           128 + ((c \div 64) % 64), 128 + (c % 64)>>

HexPair(d, p) == 16 * HexValue(d[p]) + HexValue(d[p + 1])

\* The first of the bytes from p on that is not of its class, or 0.
FirstWrong(d, s, p, classes) ==
    LET wrong == {k \in DOMAIN classes : ~Is(d, To(s, p + k - 1), classes[k])}
    IN  IF wrong = {} THEN 0 ELSE Min(wrong)

\* What may follow the first half of a surrogate pair.
SecondHalf == <<{Backslash}, {LetterU}, {68, 100}, 67..70 \union 99..102, Hex, Hex>>

\* The escape whose letter u is at p: its bytes, and the place of its last
\* digit; or no bytes and the error.  A second half on its own is taken.
UnescapeUnicode(d, s, p) ==
    LET high == 256 * HexPair(d, p + 1) + HexPair(d, p + 3)
        digit == FirstWrong(d, s, p + 1, <<Hex, Hex, Hex, Hex>>)
        half == FirstWrong(d, s, p + 5, SecondHalf)
        pair == (high - 55296 + 64) * 1024
                + (HexValue(d[p + 8]) - 12) * 256 + HexPair(d, p + 9)
        Wrong(e) == [bytes |-> <<>>, at |-> e.cur, err |-> e.err]
    IN  IF digit > 0 THEN Wrong(Fault(s, p + digit, "escape"))
        ELSE IF high < 55296 \/ high >= 56320
        THEN [bytes |-> Utf8(high), at |-> p + 4, err |-> None]
        ELSE IF half = 0
        THEN [bytes |-> Utf8(pair), at |-> p + 10, err |-> None]
        ELSE IF p + 4 + half >= s.end \/ half > 4
        THEN Wrong(Fault(s, p + 4 + half, "escape"))
        ELSE Wrong(Err(s, p, "utf16"))

\* json__string: at p, k bytes of the text have been matched; does the string
\* continue with the others?  Behind \u the comparison goes on at the last
\* digit, not behind it.
CompareAt(d, s, text, p, k, compare) ==
    LET Goes(byte, next) ==
            IF text[k + 1] = byte THEN compare[<<next, k + 1>>] ELSE No(s)
        u == UnescapeUnicode(d, s, p + 1)
    IN  IF p >= s.end THEN Err(s, s.end, "end")
        ELSE IF d[p] = Quote
        THEN IF k = Len(text) THEN Yes(To(s, p + 1)) ELSE No(s)
        ELSE IF k = Len(text) THEN No(s)
        ELSE IF d[p] # Backslash THEN Goes(d[p], p + 1)
        ELSE IF Is(d, To(s, p + 1), DOMAIN Escape) THEN Goes(Escape[d[p + 1]], p + 2)
        ELSE IF ~Is(d, To(s, p + 1), {LetterU}) THEN Fault(s, p + 1, "escape")
        ELSE IF u.err # None THEN Err(s, u.at, u.err)
        ELSE IF ~IsPrefix(u.bytes, SubSeq(text, k + 1, Len(text))) THEN No(s)
        ELSE compare[<<u.at, k + Len(u.bytes)>>]

Compare(d, s, start, text) ==
    LET compare[r \in (1..s.end) \X (0..Len(text))] ==
            CompareAt(d, s, text, r[1], r[2], compare)
    IN  compare[<<start, 0>>]

\* What follows a key or a value, if that was there.
After(d, s, is_key) ==
    IF ~s.ok THEN s ELSE IF is_key THEN SkipPostKey(d, s) ELSE SkipPostValue(d, s)

String(d, s, text, is_key) ==
    IF Is(d, s, {Quote}) THEN After(d, Compare(d, s, s.cur + 1, text), is_key) ELSE No(s)

\* What may follow the first byte of a character.
Following(lead) ==
    IF lead < 128 THEN <<>>
    ELSE IF lead \in 194..223 THEN <<Continuation>>
    ELSE IF lead \in 224..239
    THEN <<IF lead = 224 THEN 160..191 ELSE IF lead = 237 THEN 128..159
           ELSE Continuation, Continuation>>
    ELSE IF lead \in 240..244
    THEN <<IF lead = 240 THEN 144..191 ELSE IF lead = 244 THEN 128..143
           ELSE Continuation, Continuation, Continuation>>
    ELSE <<{}>>

Put(d, p, bytes) ==
    [q \in DOMAIN d |-> IF q \in p..(p + Len(bytes) - 1) THEN bytes[q - p + 1] ELSE d[q]]

\* json_get_string: the string at s, decoded, replaces what is in the document
\* from `at` on; size is what has been written of it.  (A character that turns
\* out to be invalid has been written in part; nothing reads that.)
DecodeAt(d, s, at, size, decode) ==
    LET Result(t) == [s |-> t, d |-> d, size |-> size]
        Write(bytes, next) ==
            decode[<<Put(d, at + size, bytes), next, size + Len(bytes)>>]
        b == d[s.cur]
        u == UnescapeUnicode(d, s, s.cur + 1)
        wrong == FirstWrong(d, s, s.cur + 1, Following(b))
    IN  IF AtEnd(s) THEN Result(Err(s, s.end, "end"))
        ELSE IF b = Quote
        THEN LET e == Put(d, at + size, <<0>>)
             IN  [s |-> SkipPostValue(e, Step(s)), d |-> e, size |-> size + 1]
        ELSE IF b = Backslash
        THEN IF Is(d, Step(s), DOMAIN Escape)
             THEN Write(<<Escape[d[s.cur + 1]]>>, s.cur + 2)
             ELSE IF ~Is(d, Step(s), {LetterU}) THEN Result(Fault(s, s.cur + 1, "escape"))
             ELSE IF u.err # None THEN Result(Err(s, u.at, u.err))
             ELSE IF u.bytes = <<0>> THEN Result(Err(s, u.at, "character"))
             ELSE Write(u.bytes, u.at + 1)
        ELSE IF b < 32 THEN Result(Err(s, s.cur, "character"))
        ELSE IF Following(b) = <<{}>> THEN Result(Err(s, s.cur, "utf8"))
        ELSE IF wrong > 0 THEN Result(Fault(s, s.cur + wrong, "utf8"))
        ELSE LET n == Len(Following(b))
             IN  Write(SubSeq(d, s.cur, s.cur + n), s.cur + n + 1)

Decode(d, s, at, size) ==
    LET decode[r \in [DOMAIN d -> Byte] \X (1..s.end) \X Nat] ==
            DecodeAt(r[1], To(s, r[2]), at, r[3], decode)
    IN  decode[<<d, s.cur, size>>]

\* Mutant: *size is not reset, and is the size of the document at first.
GetStringUnreset(d, s, at) ==
    IF Is(d, s, {Quote}) THEN Decode(d, Step(s), at, Len(d))
    ELSE [s |-> No(s), d |-> d, size |-> 0]

GetString(d, s, at) ==
    IF Is(d, s, {Quote}) THEN Decode(d, Step(s), at, 0)
    ELSE [s |-> No(s), d |-> d, size |-> 0]

-----------------------------------------------------------------------------
(***************************************************************************)
(* Values that are skipped.                                                *)
(***************************************************************************)
Match(d, s, token) ==
    LET wrong == FirstWrong(d, s, s.cur, [k \in DOMAIN token |-> {token[k]}])
    IN  IF wrong = 0 THEN SkipPostValue(d, To(s, s.cur + Len(token)))
        ELSE IF wrong = 1 THEN No(s)
        ELSE Fault(s, s.cur + wrong - 1, "character")

\* From behind the opening quote to behind the closing one.
SkipCharacter(d, s, skip) ==
    LET digit == FirstWrong(d, s, s.cur + 2, <<Hex, Hex, Hex, Hex>>)
    IN  IF AtEnd(s) THEN Err(s, s.end, "end")
        ELSE IF d[s.cur] = Quote THEN Yes(Step(s))
        ELSE IF d[s.cur] < 32 THEN Err(s, s.cur, "character")
        ELSE IF d[s.cur] # Backslash THEN skip[s.cur + 1]
        ELSE IF Is(d, Step(s), DOMAIN Escape) THEN skip[s.cur + 2]
        ELSE IF ~Is(d, Step(s), {LetterU}) THEN Fault(s, s.cur + 1, "escape")
        ELSE IF digit > 0 THEN Fault(s, s.cur + 1 + digit, "escape")
        ELSE skip[s.cur + 6]

SkipCharacters(d, s) ==
    LET skip[p \in 1..s.end] == SkipCharacter(d, To(s, p), skip)
    IN  skip[s.cur]

SkipString(d, s) == IF Is(d, s, {Quote}) THEN SkipCharacters(d, Step(s)) ELSE No(s)

\* Something must follow a number: its end is found by the byte behind it.
More(s) == IF AtEnd(s) THEN Err(s, s.end, "end") ELSE Yes(s)

Expect(d, s, bytes) == IF Is(d, s, bytes) THEN Yes(s) ELSE Fault(s, s.cur, "character")

SkipDigits(d, s) == IF s.ok THEN More(SkipWhile(d, s, Digit)) ELSE s

\* The parts of a number; an exponent must have its sign.
SkipInteger(d, s) ==
    LET t == IF Is(d, s, {Minus}) THEN Expect(d, Step(s), Digit) ELSE Yes(s)
    IN  IF t.ok /\ Is(d, t, {Zero}) THEN More(Step(t)) ELSE SkipDigits(d, t)

SkipFraction(d, s) ==
    IF s.ok /\ Is(d, s, {Dot}) THEN SkipDigits(d, Expect(d, Step(s), Digit)) ELSE s

SkipExponent(d, s) ==
    LET sign == Expect(d, Step(s), {Minus, Plus})
    IN  IF ~s.ok \/ ~Is(d, s, Exponent) THEN s
        ELSE IF sign.ok THEN SkipDigits(d, Expect(d, Step(sign), Digit))
        ELSE sign

SkipNumber(d, s) ==
    After(d, SkipExponent(d, SkipFraction(d, SkipInteger(d, s))), FALSE)

\* json_skip_key; an error that has been found stays.
SkipKey(d, s) ==
    IF Is(d, s, {Quote}) THEN After(d, SkipString(d, s), TRUE) ELSE Refuse(s)

\* json_skip_value: each kind of value is known by its first byte, and the
\* others are not tried to any effect, even after an error.  What is skipped is
\* a value, or the rest of an object or a list, named by its closing bracket.
AnyValue == 0

SkipContentsAt(d, s, bracket, skip) ==
    LET key == IF bracket = CloseObject THEN SkipKey(d, s) ELSE Yes(s)
        item == IF key.ok THEN skip[<<key.cur, AnyValue>>] ELSE key
    IN  IF AtEnd(s) THEN Err(s, s.end, "end")
        ELSE IF d[s.cur] = bracket THEN SkipPostValue(d, Step(s))
        ELSE IF item.ok THEN skip[<<item.cur, bracket>>] ELSE item

SkipValueAt(d, s, skip) ==
    IF Is(d, s, {OpenObject}) THEN skip[<<Begin(d, s, OpenObject).cur, CloseObject>>]
    ELSE IF Is(d, s, {OpenList}) THEN skip[<<Begin(d, s, OpenList).cur, CloseList>>]
    ELSE IF Is(d, s, {Quote}) THEN After(d, SkipString(d, s), FALSE)
    ELSE IF Is(d, s, {Minus} \union Digit) THEN SkipNumber(d, s)
    ELSE IF Is(d, s, {TrueText[1]}) THEN Match(d, s, TrueText)
    ELSE IF Is(d, s, {FalseText[1]}) THEN Match(d, s, FalseText)
    ELSE IF Is(d, s, {NullText[1]}) THEN Match(d, s, NullText)
    ELSE Refuse(s)

SkipValue(d, s) ==
    LET skip[r \in (s.cur..s.end) \X {AnyValue, CloseObject, CloseList}] ==
            IF r[2] = AnyValue THEN SkipValueAt(d, To(s, r[1]), skip)
            ELSE SkipContentsAt(d, To(s, r[1]), r[2], skip)
    IN  skip[<<s.cur, AnyValue>>]

SkipKeyValuePair(d, s) ==
    LET t == SkipKey(d, s) IN IF t.ok THEN SkipValue(d, t) ELSE t
=============================================================================
