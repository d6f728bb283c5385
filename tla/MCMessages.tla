----------------------------- MODULE MCMessages -----------------------------
(***************************************************************************)
(* Messages for model-checking Messages: replies of up to two workspaces   *)
(* and events of every kind, with escaped names, nested names that are not *)
(* the workspace's, and members in several orders; all of them cut at      *)
(* every place, some with one byte changed at every place; and every short *)
(* text in a member that is skipped.                                       *)
(***************************************************************************)
EXTENDS Messages

Grammar == INSTANCE JsonGrammar

Str(t) == <<34>> \o t \o <<34>>
Pair(key, value) == Str(Text[key]) \o <<58>> \o value

Join(texts) ==
    FoldLeft(LAMBDA a, b : IF a = <<>> THEN b ELSE a \o <<44>> \o b, <<>>, texts)
Object(members) == <<123>> \o Join(members) \o <<125>>
List(elements) == <<91, 32>> \o Join(elements) \o <<32, 93, 10>>

\* A name and how it is written: 1, as it is; a quote and an e with an acute
\* accent, as \" and \u00e9; a character outside of the first plane, as \ud83d\uDE00;
\* two characters of UTF-8.
One == [name |-> <<49>>, text |-> Str(<<49>>)]
Accent == [name |-> <<34, 195, 169>>,
           text |-> Str(<<92, 34, 92, 117, 48, 48, 101, 57>>)]
Emoji == [name |-> <<240, 159, 152, 128>>,
          text |-> Str(<<92, 117, 100, 56, 51, 100, 92, 117, 68, 69, 48, 48>>)]
Raw == [name |-> <<226, 130, 172, 240, 144, 128, 128>>,
        text |-> Str(<<226, 130, 172, 240, 144, 128, 128>>)]
A == [name |-> <<65>>, text |-> Str(<<65>>)]
B == [name |-> <<66>>, text |-> Str(<<66>>)]

Other == Str(<<120>>) \o <<58>>
\* {"x":"q","name":"q","output":[]}
Nested == Object(<<Other \o Str(<<113>>), Pair("name", Str(<<113>>)), Pair("output", <<91, 93>>)>>)
Minus10 == <<45, 49, 48, 46, 53, 69, 43, 48>>

Name(n) == Pair("name", n.text)
Output(o) == Pair("output", o.text)
Call(n, o) == <<[name |-> n.name, output |-> o.name]>>

\* Workspaces of a reply, and the calls they ask for.
Elements == {
    [text |-> Object(<<Name(One), Output(A), Pair("visible", TrueText)>>),
     calls |-> Call(One, A)],
    [text |-> Object(<<Pair("visible", TrueText), Other \o Nested, Output(B), Name(Accent)>>),
     calls |-> Call(Accent, B)],
    [text |-> Object(<<Other \o Minus10, Output(B), Pair("visible", TrueText), Name(Emoji)>>),
     calls |-> Call(Emoji, B)],
    [text |-> Object(<<Name(Raw), Pair("visible", FalseText), Output(A)>>),
     calls |-> <<>>]}

Reply(elements) ==
    [type |-> "workspaces", kind |-> "intact",
     payload |-> List([k \in DOMAIN elements |-> elements[k].text]),
     calls |-> FlattenSeq([k \in DOMAIN elements |-> elements[k].calls]),
     exit |-> FALSE]

Replies == {Reply(elements) : elements \in UNION {[1..n -> Elements] : n \in 0..2}}

Currents == {
    [text |-> Object(<<Name(One), Other \o Nested, Output(A)>>), calls |-> Call(One, A)],
    [text |-> Object(<<Output(B), Name(Emoji)>>), calls |-> Call(Emoji, B)],
    [text |-> Object(<<Name(Raw)>>), calls |-> <<>>]}

Kinds == {"init", "focus", "move", "rename"}

Event(members, asked, exits) ==
    [type |-> "event", kind |-> "intact", payload |-> Object(members),
     calls |-> asked, exit |-> exits]

Empty == <<101, 109, 112, 116, 121>>

Events ==
    {Event(<<Pair("change", Str(Text[k])), Other \o Nested, Pair("current", c.text)>>,
           c.calls, FALSE) : k \in Kinds, c \in Currents}
    \union
    {Event(<<Pair("current", c.text), Pair("change", Str(Text["move"]))>>, c.calls, FALSE) :
        c \in Currents}
    \union
    {Event(<<Pair("change", Str(Text["reload"])), Pair("current", NullText)>>, <<>>, ExitOnReload),
     Event(<<Pair("change", Str(Empty)), Pair("current", Nested)>>, <<>>, FALSE)}

Intact == Replies \union Events

\* Places are taken modulo the length, of which MaxLength is a bound.  The last
\* byte of a reply, a line feed, is not missed.
MaxLength == 200

Cut(i, n) ==
    LET needed == IF i.type = "workspaces" THEN Len(i.payload) - 1 ELSE Len(i.payload)
    IN  [i EXCEPT !.kind = "cut", !.payload = SubSeq(@, 1, n % needed)]

Changed(i, n, byte) ==
    [i EXCEPT !.kind = "changed", !.payload[1 + (n % Len(i.payload))] = byte]

\* Pieces of text: brackets and separators, of numbers, of strings.
Structure == {<<123>>, <<125>>, <<91>>, <<93>>, <<44>>, <<58, 32>>, Str(<<97>>)}
Numeric == {<<48>>, <<49>>, <<45>>, <<46>>, <<101, 43>>}
Quoted == {<<34>>, <<92>>, <<117>>, <<48, 48>>}
Fragments == Structure \union Numeric \union Quoted \union {TrueText}

UpTo(n, pieces) == UNION {[1..k -> pieces] : k \in 1..n}

Around(pieces) ==
    [type |-> "event", kind |-> "any", calls |-> <<>>, exit |-> FALSE,
     payload |-> Object(<<Other \o FlattenSeq(pieces)>>)]

MCInputs ==
    Intact
    \union {Cut(i, n) : i \in Intact, n \in 0..MaxLength}
    \union {Changed(i, n, byte) : n \in 0..MaxLength, byte \in {34, 92, 125},
                i \in {Reply(<<e>>) : e \in Elements} \union {e \in Events : e.calls # <<>>}}
    \union {Around(pieces) : pieces \in
                UNION {UpTo(3, Fragments), UpTo(4, Structure), UpTo(4, Numeric), UpTo(5, Quoted)}}

ASSUME \A i \in Intact : Len(i.payload) <= MaxLength

-----------------------------------------------------------------------------
(***************************************************************************)
(* "Returns false when [...] there is invalid JSON" (json.h): a message    *)
(* read to its end without complaint is, or begins with, JSON text; and no *)
(* JSON text in a member that is skipped over is complained about.         *)
(***************************************************************************)
ErrorsAreExact ==
    /\ Done /\ error = None /\ (trimmed \/ update \/ input.kind = "any")
            => Grammar!BeginsWithJson(input.payload)
    /\ Done /\ input.kind = "any" /\ Grammar!IsJson(input.payload) => error = None
=============================================================================
