---------------------------- MODULE JsonGrammar ----------------------------
(***************************************************************************)
(* What a JSON text is (RFC 8259, which json.c refers to), as a reference  *)
(* for the tokenizer.  A nonterminal is an operator from the set of the    *)
(* positions where it may start to the set of those where it may have      *)
(* ended.  Characters are bytes; that bytes above 127 form UTF-8 is not    *)
(* looked at.                                                              *)
(***************************************************************************)
EXTENDS Integers, Sequences

LOCAL One(d, P, bytes) == {p + 1 : p \in {q \in P : q <= Len(d) /\ d[q] \in bytes}}

RECURSIVE Many(_, _, _)
LOCAL Many(d, P, bytes) ==
    IF P = {} THEN {} ELSE P \union Many(d, One(d, P, bytes), bytes)

RECURSIVE Word(_, _, _)
LOCAL Word(d, P, word) ==
    IF word = <<>> THEN P ELSE Word(d, One(d, P, {Head(word)}), Tail(word))

LOCAL Digits == 48..57
LOCAL HexDigits == Digits \union 65..70 \union 97..102
LOCAL Space(d, P) == Many(d, P, {32, 9, 10, 13})
LOCAL Token(d, P, byte) == Space(d, One(d, Space(d, P), {byte}))

\* A sign is demanded of exponents here, which the RFC does not.
LOCAL Number(d, P) ==
    LET signed == P \union One(d, P, {45})
        int == One(d, signed, {48}) \union Many(d, One(d, signed, 49..57), Digits)
        frac == int \union Many(d, One(d, One(d, int, {46}), Digits), Digits)
        sign == One(d, One(d, frac, {69, 101}), {43, 45})
    IN  frac \union Many(d, One(d, sign, Digits), Digits)

RECURSIVE Characters(_, _)
LOCAL Characters(d, P) ==
    LET escaped == One(d, P, {92})
        hex == One(d, One(d, One(d, One(d, One(d, escaped, {117}),
                   HexDigits), HexDigits), HexDigits), HexDigits)
        next == One(d, P, (32..255) \ {34, 92})
                \union One(d, escaped, {34, 92, 47, 98, 102, 110, 114, 116})
                \union hex
    IN  IF P = {} THEN {} ELSE P \union Characters(d, next)

LOCAL Str(d, P) == One(d, Characters(d, One(d, P, {34})), {34})

RECURSIVE Value(_, _)
RECURSIVE Elements(_, _)
RECURSIVE Members(_, _)

LOCAL Member(d, P) == Value(d, Token(d, Str(d, P), 58))

LOCAL Elements(d, P) ==
    LET first == Value(d, P)
    IN  IF P = {} THEN {} ELSE first \union Elements(d, Token(d, first, 44))

LOCAL Members(d, P) ==
    LET first == Member(d, P)
    IN  IF P = {} THEN {} ELSE first \union Members(d, Token(d, first, 44))

Value(d, P) ==
    LET list == Token(d, P, 91)
        object == Token(d, P, 123)
    IN  IF P = {} THEN {}
        ELSE UNION {
            One(d, list \union Space(d, Elements(d, list)), {93}),
            One(d, object \union Space(d, Members(d, object)), {125}),
            Str(d, P), Number(d, P),
            Word(d, P, <<116, 114, 117, 101>>),
            Word(d, P, <<102, 97, 108, 115, 101>>),
            Word(d, P, <<110, 117, 108, 108>>)}

\* The document is a JSON text, or begins with one.
IsJson(d) == Len(d) + 1 \in Space(d, Value(d, Space(d, {1})))
BeginsWithJson(d) == Value(d, Space(d, {1})) # {}
=============================================================================
