--------------------------- MODULE MessagesProofs ---------------------------
(***************************************************************************)
(* Proofs about Messages, for every message of whatever bytes: the strings *)
(* that are decoded in place never reach what has not been read, and every *)
(* round of the handlers takes something from the message or ends a loop.  *)
(* Most of it is about the tokenizer: what each function of json.c does to *)
(* the position, whatever it finds in the document.                        *)
(***************************************************************************)
EXTENDS Messages, SequenceTheorems, WellFoundedInduction, TLAPS

-----------------------------------------------------------------------------
(***************************************************************************)
(* Induction over the natural numbers, with a set in place of a predicate, *)
(* and recursion.                                                          *)
(***************************************************************************)
LEMMA LessIsWellFounded == IsWellFoundedOn({pair \in Nat \X Nat : pair[1] < pair[2]}, Nat)
  BY NatLessThanWellFounded DEF OpToRel

\* Every set of naturals has a least element, which is Min.
LEMMA MinIsLeast ==
    ASSUME NEW I \in SUBSET Nat, I # {}
    PROVE  Min(I) \in I /\ \A k \in I : Min(I) <= k
<1> DEFINE Less == {pair \in Nat \X Nat : pair[1] < pair[2]}
<1>1. IsWellFoundedOn(Less, Nat)
  BY LessIsWellFounded
<1> HIDE DEF Less
<1>2. PICK x \in I : \A y \in I : <<y, x>> \notin Less
  BY <1>1, WFMin
<1>3. ASSUME NEW y \in I
      PROVE  x <= y
  <2>1. y < x => <<y, x>> \in Less
    BY DEF Less
  <2> QED
    BY <1>2, <2>1
<1> QED
  BY <1>3 DEF Min

\* A set that holds 0 and, with every natural, the next one holds them all.
LEMMA SetInduction ==
    ASSUME NEW S, 0 \in S, \A n \in Nat : n \in S => n + 1 \in S
    PROVE  Nat \subseteq S
<1> SUFFICES ASSUME Nat \ S # {}
             PROVE  FALSE
  OBVIOUS
<1> DEFINE m == Min(Nat \ S)
<1>1. m \in Nat \ S /\ \A k \in Nat \ S : m <= k
  BY MinIsLeast
<1> HIDE DEF m
<1>2. m - 1 \in Nat /\ (m - 1) + 1 = m
  BY <1>1
<1>3. m - 1 \in S
  BY <1>1, <1>2
<1> QED
  BY <1>1, <1>2, <1>3

-----------------------------------------------------------------------------
(***************************************************************************)
(* A function on I is defined by recursion: Round gives what it should be  *)
(* from what it is, and f[i] depends on the f[j] of smaller rank only.     *)
(* Such a function exists, with its values in the sets Results names.      *)
(***************************************************************************)
Typed(I, V, Results) == {g \in [I -> V] : \A i \in I : g[i] \in Results[i]}

Recursion(I, V, Results, rank, N, Round) ==
    /\ rank \in [I -> Nat] /\ N \in Nat /\ \A i \in I : rank[i] < N
    /\ Typed(I, V, Results) # {}
    /\ Round \in [Typed(I, V, Results) -> Typed(I, V, Results)]
    /\ \A g, h \in Typed(I, V, Results) : \A i \in I :
            (\A j \in I : rank[j] < rank[i] => g[j] = h[j]) => Round[g][i] = Round[h][i]

LEMMA RecursionExists ==
    ASSUME NEW I, NEW V, NEW Results, NEW rank, NEW N, NEW Round,
           Recursion(I, V, Results, rank, N, Round)
    PROVE  \E f \in Typed(I, V, Results) : f = Round[f]
<1> USE DEF Recursion
<1> DEFINE T == Typed(I, V, Results)
           S == {n \in Nat : \E f \in T : \A i \in I : rank[i] < n => f[i] = Round[f][i]}
<1>0. ASSUME NEW g \in T
      PROVE  Round[g] \in T /\ Round[g] \in [I -> V]
  BY DEF Typed
<1> HIDE DEF T
<1>1. 0 \in S
  <2>1. T # {}
    BY DEF T
  <2> QED
    BY <2>1
<1>2. ASSUME NEW n \in Nat, n \in S
      PROVE  n + 1 \in S
  <2>1. PICK f \in T : \A i \in I : rank[i] < n => f[i] = Round[f][i]
    BY <1>2
  <2>2. ASSUME NEW i \in I, rank[i] < n + 1
        PROVE  Round[f][i] = Round[Round[f]][i]
    <3>1. \A j \in I : rank[j] < rank[i] => f[j] = Round[f][j]
      BY <2>1, <2>2
    <3> QED
      BY <1>0, <3>1 DEF T
  <2> QED
    BY <1>0, <2>2
<1>3. N \in S
  <2> HIDE DEF S
  <2> QED
    BY <1>1, <1>2, SetInduction
<1>4. PICK f \in T : \A i \in I : f[i] = Round[f][i]
  BY <1>3
<1>5. f \in [I -> V] /\ Round[f] \in [I -> V]
  BY <1>0 DEF T, Typed
<1>6. f = Round[f]
  BY <1>4, <1>5
<1> QED
  BY <1>6 DEF T

\* What holds for i if it holds for all j of smaller rank, holds.
LEMMA RankInduction ==
    ASSUME NEW I, NEW rank \in [I -> Nat], NEW Good,
           \A i \in I : (\A j \in I : rank[j] < rank[i] => j \in Good) => i \in Good
    PROVE  \A i \in I : i \in Good
<1> DEFINE S == {n \in Nat : \A i \in I : rank[i] < n => i \in Good}
<1>1. 0 \in S
  OBVIOUS
<1>2. ASSUME NEW n \in Nat, n \in S
      PROVE  n + 1 \in S
  BY <1>2
<1>3. Nat \subseteq S
  <2> HIDE DEF S
  <2> QED
    BY <1>1, <1>2, SetInduction
<1>4. ASSUME NEW i \in I
      PROVE  i \in Good
  <2>1. rank[i] + 1 \in S
    BY <1>3
  <2> QED
    BY <2>1
<1> QED
  BY <1>4

-----------------------------------------------------------------------------
(***************************************************************************)
(* What the functions of json.c do to the state.                           *)
(***************************************************************************)
Errors == {None, "end", "character", "value", "key", "escape", "utf16", "utf8"}

State == [cur: Nat \ {0}, end: Nat \ {0}, err: Errors, ok: BOOLEAN]

\* An error ends the document.
Sound(x) == x \in State /\ x.cur <= x.end /\ (x.err # None => x.cur = x.end)

\* Nothing but the position has changed, and ok perhaps.
Ahead(x, t) == Sound(t) /\ x.cur <= t.cur /\ t.end = x.end /\ t.err = x.err

\* A function may go forward or fail...
From(x, t) ==
    /\ Sound(t)
    /\ x.cur <= t.cur /\ t.end <= x.end
    /\ t.ok => t.end = x.end /\ t.err = x.err

\* ...with an error, if it fails...
Reached(x, t) == From(x, t) /\ (~t.ok => t.err # None)

\* ...or without one, if there is another token; if it succeeds, it has
\* taken something...
Matched(x, t) ==
    /\ From(x, t)
    /\ t.ok => x.cur < t.cur
    /\ ~t.ok /\ t.err = None => t = No(x)

\* ...or both.
Skipped(x, t) == From(x, t) /\ IF t.ok THEN x.cur < t.cur ELSE t.err # None

LEMMA MovesAreSound ==
    ASSUME NEW x, Sound(x), NEW p \in x.cur .. x.end, x.err = None \/ p = x.cur
    PROVE  /\ Sound(To(x, p)) /\ To(x, p).cur = p /\ To(x, p).end = x.end
           /\ To(x, p).err = x.err /\ To(x, p).ok = x.ok
  BY DEF Sound, State, To

LEMMA AnswersAreSound ==
    ASSUME NEW x, Sound(x)
    PROVE  /\ Sound(Yes(x)) /\ Sound(No(x))
           /\ Yes(x).ok /\ ~No(x).ok
           /\ Yes(x).cur = x.cur /\ Yes(x).end = x.end /\ Yes(x).err = x.err
           /\ No(x).cur = x.cur /\ No(x).end = x.end /\ No(x).err = x.err
  BY DEF Sound, State, Yes, No

\* An error at a place ahead.
LEMMA ErrIsReached ==
    ASSUME NEW x, Sound(x), NEW p \in x.cur .. x.end, NEW msg \in Errors, msg # None
    PROVE  Reached(x, Err(x, p, msg)) /\ ~Err(x, p, msg).ok /\ Err(x, p, msg).err = msg
<1>1. p \in Nat \ {0} /\ p <= x.end
  BY DEF Sound, State
<1>2. Err(x, p, msg) = [cur |-> p, end |-> p, err |-> msg, ok |-> FALSE]
  BY DEF Err
<1> QED
  BY <1>1, <1>2 DEF Sound, State, Reached, From

LEMMA FaultIsReached ==
    ASSUME NEW x, Sound(x), NEW p \in Nat, x.cur <= p, NEW msg \in Errors, msg # None
    PROVE  /\ Reached(x, Fault(x, p, msg)) /\ ~Fault(x, p, msg).ok
           /\ Fault(x, p, msg).err \in Errors \ {None}
<1>1. x.end \in x.cur .. x.end /\ "end" \in Errors /\ "end" # None
  BY DEF Sound, State, Errors, None
<1>2. CASE p >= x.end
  BY <1>1, <1>2, ErrIsReached DEF Fault
<1>3. CASE ~(p >= x.end)
  <2>1. p \in x.cur .. x.end
    BY <1>3 DEF Sound, State
  <2> QED
    BY <1>3, <2>1, ErrIsReached DEF Fault
<1> QED
  BY <1>2, <1>3

\* What one function leaves, the next goes on from.
LEMMA ReachedOn ==
    ASSUME NEW x, Sound(x), NEW t, Ahead(x, t),
           NEW u, Reached(t, u)
    PROVE  /\ Reached(x, u)
           /\ x.cur < t.cur => Skipped(x, u) /\ Matched(x, u)
  BY DEF Ahead, Reached, From, Skipped, Matched, Sound, State

LEMMA SkippedOn ==
    ASSUME NEW x, Sound(x), NEW t, Ahead(x, t),
           NEW u, Skipped(t, u)
    PROVE  Skipped(x, u) /\ Matched(x, u) /\ Reached(x, u)
  BY DEF Ahead, Reached, From, Skipped, Matched, Sound, State

LEMMA RefuseIsReached ==
    ASSUME NEW x, Sound(x)
    PROVE  Skipped(x, Refuse(x)) /\ ~Refuse(x).ok
<1>1. CASE x.err # None
  <2>1. Refuse(x) = No(x)
    BY <1>1 DEF Refuse
  <2> QED
    BY <1>1, <2>1, AnswersAreSound DEF Skipped, From, Sound, State
<1>2. CASE x.err = None
  <2>1. Refuse(x) = Fault(x, x.cur, "character")
    BY <1>2 DEF Refuse
  <2>2. "character" \in Errors /\ "character" # None /\ x.cur \in Nat
    BY DEF Errors, None, Sound, State
  <2>3. Reached(x, Refuse(x)) /\ ~Refuse(x).ok
    BY <2>1, <2>2, FaultIsReached DEF Sound, State
  <2> QED
    BY <2>3 DEF Skipped, Reached
<1> QED
  BY <1>1, <1>2

\* The first place from x.cur on where a byte is not one of a class.
LEMMA SkipWhileStops ==
    ASSUME NEW d, NEW x, Sound(x), NEW bytes
    PROVE  \E p \in x.cur .. x.end :
              /\ SkipWhile(d, x, bytes) = To(x, p)
              /\ p = x.end \/ d[p] \notin bytes
              /\ \A q \in x.cur .. (p - 1) : d[q] \in bytes
<1> DEFINE Stops == {p \in x.cur .. x.end : p = x.end \/ d[p] \notin bytes}
           m == Min(Stops)
           Is1(p) == /\ p = x.end \/ d[p] \notin bytes
                     /\ \A q \in x.cur .. (p - 1) : d[q] \in bytes
<1>0. x.cur \in Nat /\ x.end \in Nat /\ x.cur <= x.end
  BY DEF Sound, State
<1>1. Stops \in SUBSET Nat /\ Stops # {}
  BY <1>0
<1>2. m \in Stops /\ \A k \in Stops : m <= k
  BY <1>1, MinIsLeast
<1> HIDE DEF m
<1>3. \A q \in x.cur .. (m - 1) : d[q] \in bytes
  BY <1>0, <1>2
<1>4. \E p \in x.cur .. x.end : Is1(p)
  BY <1>2, <1>3
<1> DEFINE p == CHOOSE p \in x.cur .. x.end : Is1(p)
<1>5. p \in x.cur .. x.end /\ Is1(p)
  BY <1>4
<1>6. SkipWhile(d, x, bytes) = To(x, p)
  BY DEF SkipWhile
<1> QED
  BY <1>5, <1>6

LEMMA SkipWhileIsAhead ==
    ASSUME NEW d, NEW x, Sound(x), NEW bytes
    PROVE  /\ Ahead(x, SkipWhile(d, x, bytes))
           /\ SkipWhile(d, x, bytes).ok = x.ok
           /\ Is(d, x, bytes) => x.cur < SkipWhile(d, x, bytes).cur
           /\ \A q \in x.cur .. (SkipWhile(d, x, bytes).cur - 1) : d[q] \in bytes
<1>1. PICK p \in x.cur .. x.end :
          /\ SkipWhile(d, x, bytes) = To(x, p)
          /\ p = x.end \/ d[p] \notin bytes
          /\ \A q \in x.cur .. (p - 1) : d[q] \in bytes
  BY SkipWhileStops
<1>2. x.err = None \/ p = x.cur
  BY DEF Sound, State
<1>3. /\ Sound(To(x, p)) /\ To(x, p).cur = p /\ To(x, p).end = x.end
      /\ To(x, p).err = x.err /\ To(x, p).ok = x.ok
  BY <1>2, MovesAreSound
<1>4. x.cur <= p /\ (Is(d, x, bytes) => x.cur < p)
  BY <1>1 DEF Sound, State, Is
<1> QED
  BY <1>1, <1>3, <1>4 DEF Ahead

LEMMA SkipWhitespaceIsAhead ==
    ASSUME NEW d, NEW x, Sound(x)
    PROVE  Ahead(x, SkipWhitespace(d, x)) /\ SkipWhitespace(d, x).ok = x.ok
  BY SkipWhileIsAhead DEF SkipWhitespace

LEMMA ErrorNames ==
    {"end", "character", "value", "key", "escape", "utf16", "utf8"} \subseteq Errors \ {None}
  BY DEF Errors, None

\* One byte further.
LEMMA StepIsAhead ==
    ASSUME NEW x, Sound(x), x.cur < x.end
    PROVE  Ahead(x, Step(x)) /\ Step(x).cur = x.cur + 1 /\ x.err = None
<1>1. x.err = None /\ x.cur + 1 \in x.cur .. x.end
  BY DEF Sound, State
<1>2. x.cur <= x.cur + 1
  BY DEF Sound, State
<1> QED
  BY <1>1, <1>2, MovesAreSound DEF Step, Ahead

\* One byte further, and behind the whitespace.
LEMMA NextToken ==
    ASSUME NEW d, NEW x, Sound(x), x.cur < x.end
    PROVE  Ahead(x, SkipWhitespace(d, Step(x))) /\ x.cur < SkipWhitespace(d, Step(x)).cur
<1>1. Ahead(x, Step(x)) /\ Step(x).cur = x.cur + 1
  BY StepIsAhead
<1>2. Sound(Step(x))
  BY <1>1 DEF Ahead
<1>3. Ahead(Step(x), SkipWhitespace(d, Step(x)))
  BY <1>2, SkipWhitespaceIsAhead
<1> QED
  BY <1>1, <1>3 DEF Ahead, Sound, State

LEMMA YesIsReached ==
    ASSUME NEW x, Sound(x), NEW t, Ahead(x, t)
    PROVE  /\ Reached(x, Yes(t)) /\ Yes(t).ok /\ Ahead(x, Yes(t))
           /\ x.cur < t.cur => Skipped(x, Yes(t)) /\ Matched(x, Yes(t))
<1>1. Sound(Yes(t)) /\ Yes(t).ok /\ Yes(t).cur = t.cur /\ Yes(t).end = t.end /\ Yes(t).err = t.err
  BY AnswersAreSound DEF Ahead
<1>2. From(x, Yes(t))
  BY <1>1 DEF From, Ahead, Sound, State
<1> QED
  BY <1>1, <1>2 DEF Reached, Skipped, Matched, Ahead

LEMMA NoIsMatched ==
    ASSUME NEW x, Sound(x)
    PROVE  Matched(x, No(x)) /\ ~No(x).ok
<1>1. Sound(No(x)) /\ ~No(x).ok /\ No(x).cur = x.cur /\ No(x).end = x.end /\ No(x).err = x.err
  BY AnswersAreSound
<1> QED
  BY <1>1 DEF From, Matched, Sound, State

LEMMA AheadIsTransitive ==
    ASSUME NEW x, Sound(x), NEW t, Ahead(x, t), NEW u, Ahead(t, u)
    PROVE  Ahead(x, u)
  BY DEF Ahead, Sound, State

LEMMA PostValueIsReached ==
    ASSUME NEW d, NEW x, Sound(x)
    PROVE  Reached(x, SkipPostValue(d, x))
<1> DEFINE t == SkipWhitespace(d, x)
           u == SkipWhitespace(d, Step(t))
<1>1. Ahead(x, t) /\ Sound(t)
  BY SkipWhitespaceIsAhead DEF Ahead
<1>2. SkipPostValue(d, x) = AfterValue(d, t)
  BY DEF SkipPostValue
<1>3. ASSUME t.cur < t.end
      PROVE  Ahead(t, u) /\ Sound(u)
  BY <1>1, <1>3, NextToken DEF Ahead
<1> HIDE DEF t
<1>4. CASE AtEnd(t) \/ Is(d, t, Closing)
  BY <1>1, <1>2, <1>4, YesIsReached DEF AfterValue
<1>5. CASE ~(AtEnd(t) \/ Is(d, t, Closing)) /\ d[t.cur] # Comma
  <2>1. SkipPostValue(d, x) = Err(t, t.cur, "character")
    BY <1>2, <1>5 DEF AfterValue
  <2>2. t.cur \in t.cur .. t.end
    BY <1>1 DEF Sound, State
  <2>3. Reached(t, SkipPostValue(d, x))
    BY <1>1, <2>1, <2>2, ErrIsReached, ErrorNames
  <2> QED
    BY <1>1, <2>3, ReachedOn
<1>6. CASE ~(AtEnd(t) \/ Is(d, t, Closing)) /\ d[t.cur] = Comma
  <2>1. SkipPostValue(d, x) = NotClosing(d, u)
    BY <1>2, <1>6 DEF AfterValue
  <2>2. Ahead(t, u) /\ Sound(u)
    BY <1>1, <1>3, <1>6 DEF AtEnd, Sound, State
  <2> HIDE DEF u
  <2>3. u.cur \in u.cur .. u.end /\ Ahead(u, u)
    BY <2>2 DEF Ahead, Sound, State
  <2>4. Reached(u, Err(u, u.cur, "value")) /\ Reached(u, Yes(u))
    BY <2>2, <2>3, ErrIsReached, ErrorNames, YesIsReached
  <2>5. Reached(u, SkipPostValue(d, x))
    BY <2>1, <2>4 DEF NotClosing
  <2>6. Ahead(x, u)
    BY <1>1, <2>2, AheadIsTransitive
  <2> QED
    BY <2>5, <2>6, ReachedOn
<1> QED
  BY <1>4, <1>5, <1>6

LEMMA PostKeyIsReached ==
    ASSUME NEW d, NEW x, Sound(x)
    PROVE  Skipped(x, SkipPostKey(d, x))
<1> DEFINE t == SkipWhitespace(d, x)
           u == SkipWhitespace(d, Step(t))
<1>1. Ahead(x, t) /\ Sound(t)
  BY SkipWhitespaceIsAhead DEF Ahead
<1>2. SkipPostKey(d, x) = IF Is(d, t, {Colon}) THEN Yes(u) ELSE Fault(t, t.cur, "key")
  BY DEF SkipPostKey
<1>3. ASSUME t.cur < t.end
      PROVE  Ahead(t, u) /\ t.cur < u.cur
  BY <1>1, <1>3, NextToken DEF Ahead
<1> HIDE DEF t, u
<1>4. CASE Is(d, t, {Colon})
  <2>1. Ahead(t, u) /\ t.cur < u.cur
    BY <1>3, <1>4 DEF Is
  <2>2. Skipped(t, SkipPostKey(d, x))
    BY <1>1, <1>2, <1>4, <2>1, YesIsReached
  <2> QED
    BY <1>1, <2>2, SkippedOn
<1>5. CASE ~Is(d, t, {Colon})
  <2>1. t.cur \in Nat /\ t.cur <= t.cur
    BY <1>1 DEF Sound, State
  <2>2. Reached(t, SkipPostKey(d, x)) /\ ~SkipPostKey(d, x).ok
    BY <1>1, <1>2, <1>5, <2>1, FaultIsReached, ErrorNames
  <2>3. Skipped(t, SkipPostKey(d, x))
    BY <2>2 DEF Reached, Skipped
  <2> QED
    BY <1>1, <2>3, SkippedOn
<1> QED
  BY <1>4, <1>5

LEMMA AfterIsReached ==
    ASSUME NEW d, NEW x, Sound(x), NEW is_key \in BOOLEAN
    PROVE  /\ x.ok => Reached(x, After(d, x, is_key))
           /\ ~x.ok => After(d, x, is_key) = x
<1>1. Reached(x, SkipPostKey(d, x))
  BY PostKeyIsReached DEF Skipped, Reached
<1> QED
  BY <1>1, PostValueIsReached DEF After

\* After something that has been skipped or matched.
LEMMA AfterMatched ==
    ASSUME NEW d, NEW x, Sound(x), NEW t, Matched(x, t), NEW is_key \in BOOLEAN
    PROVE  Matched(x, After(d, t, is_key))
<1>1. CASE t.ok
  <2>1. Ahead(x, t) /\ Sound(t) /\ x.cur < t.cur
    BY <1>1 DEF Matched, From, Ahead
  <2>2. Reached(t, After(d, t, is_key))
    BY <1>1, <2>1, AfterIsReached
  <2> QED
    BY <2>1, <2>2, ReachedOn
<1>2. CASE ~t.ok
  BY <1>2, AfterIsReached DEF Matched, From
<1> QED
  BY <1>1, <1>2

LEMMA BeginIsMatched ==
    ASSUME NEW d, NEW x, Sound(x), NEW bracket
    PROVE  /\ Matched(x, Begin(d, x, bracket))
           /\ Is(d, x, {bracket}) => /\ Begin(d, x, bracket).ok
                                     /\ Begin(d, x, bracket).cur \in x.cur + 1 .. x.end
<1> DEFINE u == SkipWhitespace(d, Step(x))
<1>1. CASE Is(d, x, {bracket})
  <2>1. Begin(d, x, bracket) = Yes(u)
    BY <1>1 DEF Begin
  <2>2. Ahead(x, u) /\ x.cur < u.cur
    BY <1>1, NextToken DEF Is
  <2> HIDE DEF u
  <2>3. Matched(x, Yes(u)) /\ Yes(u).ok
    BY <2>2, YesIsReached
  <2>4. Yes(u).cur \in x.cur + 1 .. x.end
    BY <2>2, AnswersAreSound DEF Ahead, Sound, State
  <2> QED
    BY <1>1, <2>1, <2>3, <2>4
<1>2. CASE ~Is(d, x, {bracket})
  BY <1>2, NoIsMatched DEF Begin
<1> QED
  BY <1>1, <1>2

\* The first byte that is not of its class: all before it are there.
LEMMA FirstWrongIs ==
    ASSUME NEW d, NEW x, Sound(x), NEW p \in Nat, x.cur <= p, p <= x.end,
           NEW n \in Nat, NEW classes, DOMAIN classes = 1 .. n
    PROVE  LET w == FirstWrong(d, x, p, classes)
           IN  /\ w \in 0 .. n
               /\ w > 0 => /\ p + w - 1 <= x.end /\ x.cur <= p + w - 1
                           /\ ~Is(d, To(x, p + w - 1), classes[w])
               /\ w = 0 => /\ p + n <= x.end
                           /\ \A k \in 1 .. n : d[p + k - 1] \in classes[k]
<1> DEFINE wrong == {k \in DOMAIN classes : ~Is(d, To(x, p + k - 1), classes[k])}
           w == FirstWrong(d, x, p, classes)
<1>0. x \in State /\ x.cur \in Nat /\ x.end \in Nat
  BY DEF Sound, State
<1>1. ASSUME NEW k \in 1 .. n
      PROVE  k \notin wrong => p + k - 1 < x.end /\ d[p + k - 1] \in classes[k]
  <2>1. To(x, p + k - 1).cur = p + k - 1 /\ To(x, p + k - 1).end = x.end
    BY <1>0 DEF To, State
  <2> QED
    BY <2>1 DEF Is
<1>2. CASE wrong = {}
  <2>1. w = 0
    BY <1>2 DEF FirstWrong
  <2>2. p + n <= x.end
    <3>1. CASE n = 0
      BY <1>0, <3>1
    <3>2. CASE n # 0
      <4>1. p + n - 1 < x.end
        BY <1>1, <1>2, <3>2
      <4> QED
        BY <1>0, <4>1
    <3> QED
      BY <3>1, <3>2
  <2> QED
    BY <1>1, <1>2, <2>1, <2>2
<1>3. CASE wrong # {}
  <2>1. wrong \in SUBSET Nat
    OBVIOUS
  <2>2. w = Min(wrong)
    BY <1>3 DEF FirstWrong
  <2>3. w \in wrong /\ \A k \in wrong : w <= k
    BY <1>3, <2>1, <2>2, MinIsLeast
  <2>4. w \in 1 .. n /\ ~Is(d, To(x, p + w - 1), classes[w])
    BY <2>3
  <2> HIDE DEF w
  <2>5. p + w - 1 <= x.end
    <3>1. CASE w = 1
      BY <1>0, <3>1
    <3>2. CASE w # 1
      <4>1. w - 1 \in 1 .. n /\ w - 1 \notin wrong
        BY <2>3, <2>4, <3>2
      <4>2. p + (w - 1) - 1 < x.end
        BY <1>1, <4>1
      <4> QED
        BY <1>0, <2>4, <4>2
    <3> QED
      BY <3>1, <3>2
  <2>6. x.cur <= p + w - 1 /\ w \in 0 .. n /\ w # 0
    BY <1>0, <2>4
  <2> QED
    BY <2>4, <2>5, <2>6 DEF w
<1> QED
  BY <1>2, <1>3

(***************************************************************************)
(* Closing brackets.  At the end of the document there are as many as are  *)
(* asked for; elsewhere one is taken, or what is there is something else.  *)
(***************************************************************************)
Rest(x) == x.end - x.cur

LEMMA EndIs ==
    ASSUME NEW d, NEW x, Sound(x), NEW bracket, NEW t, t = End(d, x, bracket)
    PROVE  /\ Sound(t) /\ x.cur <= t.cur /\ t.end <= x.end
           /\ t.ok => Rest(t) < Rest(x) \/ (Rest(x) = 0 /\ Rest(t) = 0)
           /\ ~t.ok => x.cur < x.end /\ t = No(x)
<1>0. \/ AtEnd(x) /\ t = Yes(IF x.err = None THEN Err(x, x.end, "end") ELSE x)
      \/ ~AtEnd(x) /\ Is(d, x, {bracket}) /\ t = Yes(SkipPostValue(d, Step(x)))
      \/ ~AtEnd(x) /\ ~Is(d, x, {bracket}) /\ t = No(x)
  <2>1. ~(AtEnd(x) /\ Is(d, x, {bracket}))
    BY DEF AtEnd, Is, Sound, State
  <2> QED
    BY <2>1, Zenon DEF End
<1> USE DEF Sound, State, Rest
<1>1. CASE AtEnd(x)
  <2> DEFINE e == IF x.err = None THEN Err(x, x.end, "end") ELSE x
  <2>1. t = Yes(e)
    BY <1>0, <1>1
  <2>2. Sound(e) /\ e.cur = x.cur /\ e.end = x.end
    <3>1. x.end \in x.cur .. x.end
      OBVIOUS
    <3>2. Sound(Err(x, x.end, "end"))
      BY <3>1, ErrIsReached, ErrorNames DEF Reached, From
    <3>3. Err(x, x.end, "end").cur = x.end /\ Err(x, x.end, "end").end = x.end
      BY DEF Err
    <3> QED
      BY <1>1, <3>2, <3>3 DEF AtEnd
  <2> HIDE DEF e
  <2>3. Sound(t) /\ t.ok /\ t.cur = x.cur /\ t.end = x.end
    BY <2>1, <2>2, AnswersAreSound
  <2> QED
    BY <1>1, <2>3 DEF AtEnd
<1>2. CASE ~AtEnd(x) /\ Is(d, x, {bracket})
  <2> DEFINE e == SkipPostValue(d, Step(x))
  <2>1. t = Yes(e)
    BY <1>0, <1>2
  <2>2. Ahead(x, Step(x)) /\ Sound(Step(x)) /\ x.cur < Step(x).cur
    BY <1>2, StepIsAhead DEF Is, Ahead
  <2>3. Skipped(x, e)
    BY <2>2, PostValueIsReached, ReachedOn
  <2> HIDE DEF e
  <2>4. Sound(t) /\ t.ok /\ t.cur = e.cur /\ t.end = e.end /\ t.err = e.err
    BY <2>1, <2>3, AnswersAreSound DEF Skipped, From
  <2> QED
    BY <1>2, <2>3, <2>4 DEF Skipped, From, AtEnd
<1>3. CASE ~AtEnd(x) /\ ~Is(d, x, {bracket})
  <2>1. t = No(x)
    BY <1>0, <1>3
  <2> QED
    BY <1>3, <2>1, AnswersAreSound DEF AtEnd
<1> QED
  BY <1>1, <1>2, <1>3

-----------------------------------------------------------------------------
(***************************************************************************)
(* The escapes of UTF-16.                                                  *)
(***************************************************************************)
LEMMA Bytes == \A b : b \in Byte <=> b \in Nat /\ b <= 255
  BY DEF Byte

LEMMA Tuples ==
    ASSUME NEW B, NEW a \in B, NEW b \in B, NEW c \in B, NEW e \in B
    PROVE  /\ <<a>> \in Seq(B) /\ Len(<<a>>) = 1
           /\ <<a, b>> \in Seq(B) /\ Len(<<a, b>>) = 2
           /\ <<a, b, c>> \in Seq(B) /\ Len(<<a, b, c>>) = 3
           /\ <<a, b, c, e>> \in Seq(B) /\ Len(<<a, b, c, e>>) = 4
  OBVIOUS

LEMMA HexValues == \A b \in Hex : HexValue(b) \in Nat /\ HexValue(b) <= 15
  BY DEF Hex, Digit, HexValue

LEMMA HexPairs ==
    ASSUME NEW d, NEW p \in Nat, d[p] \in Hex, d[p + 1] \in Hex
    PROVE  HexPair(d, p) \in Nat /\ HexPair(d, p) <= 255
<1> DEFINE a == HexValue(d[p])
           b == HexValue(d[p + 1])
<1>1. a \in Nat /\ a <= 15 /\ b \in Nat /\ b <= 15
  BY HexValues
<1>2. HexPair(d, p) = 16 * a + b
  BY DEF HexPair
<1> HIDE DEF a, b
<1> QED
  BY <1>1, <1>2

\* Two pairs of digits; the two halves of a surrogate pair.
LEMMA CodePoints ==
    /\ \A a, b \in Nat : a <= 255 /\ b <= 255 =>
            256 * a + b \in Nat /\ 256 * a + b <= 1114111
    /\ \A h, a, b \in Nat :
            h >= 55296 /\ h < 56320 /\ a >= 12 /\ a <= 15 /\ b <= 255 =>
                LET c == (h - 55296 + 64) * 1024 + (a - 12) * 256 + b
                IN  c \in Nat /\ c <= 1114111
  OBVIOUS

LEMMA Utf8Bytes ==
    ASSUME NEW c \in Nat, c <= 1114111
    PROVE  Utf8(c) \in Seq(Byte) /\ Len(Utf8(c)) \in 1 .. 4
<1> DEFINE a == c % 64
           b == (c \div 64) % 64
           e == (c \div 4096) % 64
           q1 == c \div 64
           q2 == c \div 4096
           q3 == c \div 262144
<1>1. a \in 0 .. 63 /\ b \in 0 .. 63 /\ e \in 0 .. 63
  OBVIOUS
<1>2. /\ q1 \in Nat /\ q2 \in Nat /\ q3 \in Nat /\ q3 <= 4
      /\ c < 2048 => q1 <= 31
      /\ c < 65536 => q2 <= 15
  OBVIOUS
<1>3. Utf8(c) = IF c < 128 THEN <<c>>
                ELSE IF c < 2048 THEN <<192 + q1, 128 + a>>
                ELSE IF c < 65536 THEN <<224 + q2, 128 + b, 128 + a>>
                ELSE <<240 + q3, 128 + e, 128 + b, 128 + a>>
  BY DEF Utf8
<1> HIDE DEF a, b, e, q1, q2, q3
<1>4. /\ 128 + a \in Byte /\ 128 + b \in Byte /\ 128 + e \in Byte
      /\ c < 128 => c \in Byte
      /\ c < 2048 => 192 + q1 \in Byte
      /\ c < 65536 => 224 + q2 \in Byte
      /\ 240 + q3 \in Byte
  BY <1>1, <1>2, Bytes
<1>5. CASE c < 128
  BY <1>3, <1>4, <1>5, Tuples
<1>6. CASE c >= 128 /\ c < 2048
  BY <1>3, <1>4, <1>6, Tuples
<1>7. CASE c >= 2048 /\ c < 65536
  BY <1>3, <1>4, <1>7, Tuples
<1>8. CASE c >= 65536
  BY <1>3, <1>4, <1>8, Tuples
<1> QED
  BY <1>5, <1>6, <1>7, <1>8

LEMMA UnescapeIs ==
    ASSUME NEW d, NEW x, Sound(x), NEW p \in Nat, x.cur <= p, p < x.end,
           NEW u, u = UnescapeUnicode(d, x, p)
    PROVE  /\ u.err \in Errors
           /\ u.at \in x.cur .. x.end
           /\ u.err = None => /\ u.at \in p + 4 .. x.end - 1
                              /\ u.bytes \in Seq(Byte) /\ Len(u.bytes) \in 1 .. 4
<1> DEFINE four == <<Hex, Hex, Hex, Hex>>
           high == 256 * HexPair(d, p + 1) + HexPair(d, p + 3)
           digit == FirstWrong(d, x, p + 1, four)
           half == FirstWrong(d, x, p + 5, SecondHalf)
           pair == (high - 55296 + 64) * 1024
                   + (HexValue(d[p + 8]) - 12) * 256 + HexPair(d, p + 9)
           Wrong(e) == [bytes |-> <<>>, at |-> e.cur, err |-> e.err]
<1>0. x.cur \in Nat /\ x.end \in Nat
  BY DEF Sound, State
<1>1. u = IF digit > 0 THEN Wrong(Fault(x, p + digit, "escape"))
          ELSE IF high < 55296 \/ high >= 56320
          THEN [bytes |-> Utf8(high), at |-> p + 4, err |-> None]
          ELSE IF half = 0
          THEN [bytes |-> Utf8(pair), at |-> p + 10, err |-> None]
          ELSE IF p + 4 + half >= x.end \/ half > 4
          THEN Wrong(Fault(x, p + 4 + half, "escape"))
          ELSE Wrong(Err(x, p, "utf16"))
  BY DEF UnescapeUnicode
<1>2. ASSUME NEW e, Reached(x, e), e.err # None, u = Wrong(e)
      PROVE  u.err \in Errors /\ u.err # None /\ u.at \in x.cur .. x.end
  BY <1>0, <1>2 DEF Reached, From, Sound, State
<1>3. /\ digit \in 0 .. 4
      /\ digit = 0 => p + 5 <= x.end /\ \A k \in 1 .. 4 : d[p + k] \in Hex
  <2>1. PICK n \in Nat : n = 4
    OBVIOUS
  <2>2. DOMAIN four = 1 .. n /\ \A k \in 1 .. n : four[k] = Hex
    BY <2>1
  <2>3. p + 1 \in Nat /\ x.cur <= p + 1 /\ p + 1 <= x.end
    BY <1>0
  <2> HIDE DEF four
  <2>4. /\ digit \in 0 .. n
        /\ digit = 0 => /\ p + 1 + n <= x.end
                        /\ \A k \in 1 .. n : d[(p + 1) + k - 1] \in four[k]
    BY <2>2, <2>3, Zenon, FirstWrongIs
  <2>5. ASSUME NEW k \in 1 .. n
        PROVE  (p + 1) + k - 1 = p + k
    OBVIOUS
  <2> HIDE DEF digit
  <2> QED
    BY <2>1, <2>2, <2>4, <2>5
<1>4. CASE digit > 0
  <2>1. p + digit \in Nat /\ x.cur <= p + digit
    BY <1>0, <1>3
  <2>2. Reached(x, Fault(x, p + digit, "escape")) /\ Fault(x, p + digit, "escape").err # None
    BY <2>1, FaultIsReached, ErrorNames
  <2> QED
    BY <1>1, <1>2, <1>4, <2>2
<1>5. ASSUME digit = 0
      PROVE  /\ p + 5 <= x.end /\ high \in Nat /\ high <= 1114111
             /\ half \in 0 .. 6
             /\ half = 0 => p + 11 <= x.end /\ \A k \in 1 .. 6 : d[p + 4 + k] \in SecondHalf[k]
  <2>1. d[p + 1] \in Hex /\ d[p + 2] \in Hex /\ d[p + 3] \in Hex /\ d[p + 4] \in Hex
    BY <1>3, <1>5
  <2>2. /\ HexPair(d, p + 1) \in Nat /\ HexPair(d, p + 1) <= 255
        /\ HexPair(d, p + 3) \in Nat /\ HexPair(d, p + 3) <= 255
    <3>1. (p + 1) + 1 = p + 2 /\ (p + 3) + 1 = p + 4 /\ p + 1 \in Nat /\ p + 3 \in Nat
      OBVIOUS
    <3> QED
      BY <2>1, <3>1, HexPairs
  <2>3. high \in Nat /\ high <= 1114111
    BY <2>2, CodePoints
  <2>4. p + 5 \in Nat /\ x.cur <= p + 5 /\ p + 5 <= x.end
    BY <1>0, <1>3, <1>5
  <2>5. PICK n \in Nat : n = 6
    OBVIOUS
  <2>6. DOMAIN SecondHalf = 1 .. n
    BY <2>5 DEF SecondHalf
  <2>7. /\ half \in 0 .. n
        /\ half = 0 => /\ p + 5 + n <= x.end
                       /\ \A k \in 1 .. n : d[(p + 5) + k - 1] \in SecondHalf[k]
    BY <2>4, <2>6, Zenon, FirstWrongIs
  <2>8. ASSUME NEW k \in 1 .. n
        PROVE  (p + 5) + k - 1 = p + 4 + k
    OBVIOUS
  <2> HIDE DEF high, half
  <2> QED
    BY <2>3, <2>4, <2>5, <2>7, <2>8
<1>6. CASE digit = 0 /\ (high < 55296 \/ high >= 56320)
  <2>1. Utf8(high) \in Seq(Byte) /\ Len(Utf8(high)) \in 1 .. 4
    <3> HIDE DEF high
    <3> QED
      BY <1>5, <1>6, Utf8Bytes
  <2>2. u = [bytes |-> Utf8(high), at |-> p + 4, err |-> None]
    <3> HIDE DEF high, half, digit, Wrong
    <3> QED
      BY <1>1, <1>6
  <2> HIDE DEF high, half, digit
  <2> QED
    BY <1>0, <1>5, <1>6, <2>1, <2>2 DEF Errors
<1>7. CASE digit = 0 /\ high >= 55296 /\ high < 56320 /\ half = 0
  <2>1. d[p + 8] \in 67..70 \union 99..102 /\ d[p + 9] \in Hex /\ d[p + 10] \in Hex
    <3>1. /\ d[p + 4 + 4] \in SecondHalf[4] /\ d[p + 4 + 5] \in SecondHalf[5]
          /\ d[p + 4 + 6] \in SecondHalf[6]
      BY <1>5, <1>7
    <3>2. p + 4 + 4 = p + 8 /\ p + 4 + 5 = p + 9 /\ p + 4 + 6 = p + 10
      OBVIOUS
    <3>3. SecondHalf[4] = 67..70 \union 99..102 /\ SecondHalf[5] = Hex /\ SecondHalf[6] = Hex
      BY DEF SecondHalf
    <3> QED
      BY <3>1, <3>2, <3>3
  <2>2. HexValue(d[p + 8]) \in Nat /\ HexValue(d[p + 8]) >= 12 /\ HexValue(d[p + 8]) <= 15
    BY <2>1 DEF HexValue
  <2>3. HexPair(d, p + 9) \in Nat /\ HexPair(d, p + 9) <= 255
    <3>1. (p + 9) + 1 = p + 10 /\ p + 9 \in Nat
      OBVIOUS
    <3> QED
      BY <2>1, <3>1, HexPairs
  <2>4. pair \in Nat /\ pair <= 1114111
    <3> HIDE DEF high
    <3> QED
      BY <1>5, <1>7, <2>2, <2>3, CodePoints
  <2>5. u = [bytes |-> Utf8(pair), at |-> p + 10, err |-> None]
    <3> HIDE DEF pair, high, half, digit, Wrong
    <3> QED
      BY <1>1, <1>5, <1>7
  <2> HIDE DEF pair, high, half, digit
  <2>6. Utf8(pair) \in Seq(Byte) /\ Len(Utf8(pair)) \in 1 .. 4
    BY <2>4, Utf8Bytes
  <2>7. p + 11 <= x.end
    BY <1>5, <1>7
  <2>8. u.at = p + 10 /\ u.err = None /\ u.bytes = Utf8(pair)
    BY <2>5
  <2>9. p + 10 \in x.cur .. x.end /\ p + 10 \in p + 4 .. x.end - 1
    BY <1>0, <2>7
  <2> QED
    BY <2>6, <2>8, <2>9 DEF Errors
<1>8. CASE digit = 0 /\ high >= 55296 /\ high < 56320 /\ half > 0
  <2>1. p + 4 + half \in Nat /\ x.cur <= p + 4 + half /\ p \in x.cur .. x.end
    BY <1>0, <1>5, <1>8
  <2>2. /\ Reached(x, Fault(x, p + 4 + half, "escape"))
        /\ Fault(x, p + 4 + half, "escape").err # None
    BY <2>1, FaultIsReached, ErrorNames
  <2>3. Reached(x, Err(x, p, "utf16")) /\ Err(x, p, "utf16").err # None
    BY <2>1, ErrIsReached, ErrorNames
  <2>4. u = Wrong(Fault(x, p + 4 + half, "escape")) \/ u = Wrong(Err(x, p, "utf16"))
    <3> HIDE DEF high, half, digit, Wrong
    <3> QED
      BY <1>1, <1>5, <1>8
  <2> QED
    BY <1>2, <2>2, <2>3, <2>4
<1> QED
  <2> HIDE DEF high, half, digit
  <2> QED
    BY <1>3, <1>4, <1>5, <1>6, <1>7, <1>8

-----------------------------------------------------------------------------
(***************************************************************************)
(* Words, and strings that are skipped.                                    *)
(***************************************************************************)
LEMMA MovesAhead ==
    ASSUME NEW x, Sound(x), NEW p \in x.cur .. x.end, x.err = None \/ p = x.cur
    PROVE  Ahead(x, To(x, p)) /\ Sound(To(x, p)) /\ To(x, p).cur = p
  BY MovesAreSound DEF Ahead, Sound, State

LEMMA MovesCombine ==
    ASSUME NEW x \in State, NEW p, NEW q
    PROVE  To(To(x, p), q) = To(x, q) /\ To(x, p).end = x.end /\ To(x, p).err = x.err
  BY DEF To, State

LEMMA MatchIsMatched ==
    ASSUME NEW d, NEW x, Sound(x), NEW n \in Nat \ {0}, NEW token, DOMAIN token = 1 .. n,
           Len(token) = n
    PROVE  /\ Matched(x, Match(d, x, token))
           /\ Is(d, x, {token[1]}) => Skipped(x, Match(d, x, token))
<1> DEFINE classes == [k \in DOMAIN token |-> {token[k]}]
           w == FirstWrong(d, x, x.cur, classes)
<1>0. x.cur \in Nat /\ x.end \in Nat /\ x.cur <= x.end /\ x.cur <= x.cur
  BY DEF Sound, State
<1>1. \/ w = 0 /\ Match(d, x, token) = SkipPostValue(d, To(x, x.cur + n))
      \/ w = 1 /\ Match(d, x, token) = No(x)
      \/ w # 0 /\ Match(d, x, token) = Fault(x, x.cur + w - 1, "character")
  BY DEF Match
<1>2. DOMAIN classes = 1 .. n
  OBVIOUS
<1>3. 1 \in DOMAIN classes /\ classes[1] = {token[1]}
  OBVIOUS
<1> HIDE DEF classes
<1>4. /\ w \in 0 .. n
      /\ w = 0 => x.cur + n <= x.end
      /\ w > 0 => ~Is(d, To(x, x.cur + w - 1), classes[w])
  BY <1>0, <1>2, FirstWrongIs
<1> HIDE DEF w
<1>5. CASE w = 0 /\ Match(d, x, token) = SkipPostValue(d, To(x, x.cur + n))
  <2>1. x.cur + n \in x.cur .. x.end /\ x.err = None /\ x.cur < x.cur + n
    BY <1>0, <1>4, <1>5 DEF Sound, State
  <2> QED
    BY <1>5, <2>1, MovesAhead, PostValueIsReached, ReachedOn
<1>6. CASE w = 1 /\ Match(d, x, token) = No(x)
  <2>1. ~Is(d, To(x, x.cur), {token[1]})
    <3>1. x.cur + 1 - 1 = x.cur
      BY <1>0
    <3> QED
      BY <1>4, <1>6, <1>3, <3>1
  <2>2. To(x, x.cur).cur = x.cur /\ To(x, x.cur).end = x.end
    BY DEF To, Sound, State
  <2>3. ~Is(d, x, {token[1]})
    BY <2>1, <2>2 DEF Is
  <2> QED
    BY <1>6, <2>3, NoIsMatched
<1>7. CASE w # 0 /\ Match(d, x, token) = Fault(x, x.cur + w - 1, "character")
  <2>1. x.cur + w - 1 \in Nat /\ x.cur <= x.cur + w - 1
    BY <1>0, <1>4, <1>7
  <2>2. Reached(x, Match(d, x, token)) /\ ~Match(d, x, token).ok
    BY <1>7, <2>1, FaultIsReached, ErrorNames
  <2> QED
    BY <2>2 DEF Reached, Matched, Skipped
<1> QED
  BY <1>1, <1>5, <1>6, <1>7

\* If a string is skipped from every place ahead, it is from this one; and only
\* those places matter.
LEMMA CharacterIsSkipped ==
    ASSUME NEW d, NEW x, Sound(x), x.err = None, NEW g, NEW h,
           \A p \in x.cur + 1 .. x.end : Skipped(To(x, p), g[p]) /\ h[p] = g[p]
    PROVE  /\ Skipped(x, SkipCharacter(d, x, g))
           /\ SkipCharacter(d, x, h) = SkipCharacter(d, x, g)
<1> DEFINE four == <<Hex, Hex, Hex, Hex>>
           digit == FirstWrong(d, x, x.cur + 2, four)
           R(skip) ==
                IF AtEnd(x) THEN Err(x, x.end, "end")
                ELSE IF d[x.cur] = Quote THEN Yes(Step(x))
                ELSE IF d[x.cur] < 32 THEN Err(x, x.cur, "character")
                ELSE IF d[x.cur] # Backslash THEN skip[x.cur + 1]
                ELSE IF Is(d, Step(x), DOMAIN Escape) THEN skip[x.cur + 2]
                ELSE IF ~Is(d, Step(x), {LetterU}) THEN Fault(x, x.cur + 1, "escape")
                ELSE IF digit > 0 THEN Fault(x, x.cur + 1 + digit, "escape")
                ELSE skip[x.cur + 6]
<1>0. x.cur \in Nat \ {0} /\ x.end \in Nat /\ x.cur <= x.end
  BY DEF Sound, State
<1>1. SkipCharacter(d, x, g) = R(g) /\ SkipCharacter(d, x, h) = R(h)
  BY DEF SkipCharacter
<1>2. ASSUME NEW p \in x.cur + 1 .. x.end
      PROVE  Skipped(x, g[p]) /\ h[p] = g[p]
  <2>1. Ahead(x, To(x, p)) /\ Sound(To(x, p))
    BY <1>0, MovesAhead
  <2> QED
    BY <2>1, SkippedOn
<1>3. ASSUME NEW p \in Nat, x.cur <= p, NEW msg \in Errors, msg # None
      PROVE  Skipped(x, Fault(x, p, msg))
  BY <1>3, FaultIsReached DEF Skipped, Reached
<1>4. ASSUME NEW p \in x.cur .. x.end, NEW msg \in Errors, msg # None
      PROVE  Skipped(x, Err(x, p, msg))
  BY <1>4, ErrIsReached DEF Skipped, Reached
<1>5. CASE AtEnd(x)
  BY <1>0, <1>1, <1>4, <1>5, ErrorNames
<1>6. ASSUME ~AtEnd(x)
      PROVE  x.cur + 1 \in x.cur + 1 .. x.end /\ Step(x).cur = x.cur + 1 /\ Step(x).end = x.end
             /\ Skipped(x, Yes(Step(x)))
  <2>1. x.cur < x.end
    BY <1>0, <1>6 DEF AtEnd
  <2>2. Ahead(x, Step(x)) /\ Step(x).cur = x.cur + 1
    BY <2>1, StepIsAhead
  <2>3. Skipped(x, Yes(Step(x)))
    BY <1>0, <2>2, YesIsReached
  <2> QED
    BY <1>0, <2>1, <2>2, <2>3 DEF Ahead
<1>7. CASE ~AtEnd(x) /\ ~(Is(d, Step(x), DOMAIN Escape) \/ Is(d, Step(x), {LetterU}))
  <2>1. x.cur + 1 \in Nat /\ x.cur <= x.cur + 1 /\ x.cur \in x.cur .. x.end
    BY <1>0
  <2>2. /\ Skipped(x, Err(x, x.cur, "character"))
        /\ Skipped(x, Fault(x, x.cur + 1, "escape"))
        /\ Skipped(x, g[x.cur + 1]) /\ h[x.cur + 1] = g[x.cur + 1]
    BY <1>2, <1>3, <1>4, <1>6, <1>7, <2>1, ErrorNames
  <2> QED
    BY <1>1, <1>6, <1>7, <2>2
<1>8. CASE ~AtEnd(x) /\ Is(d, Step(x), DOMAIN Escape)
  <2>1. x.cur \in x.cur .. x.end /\ x.cur + 2 \in x.cur + 1 .. x.end
    BY <1>0, <1>6, <1>8 DEF Is
  <2>2. /\ Skipped(x, Err(x, x.cur, "character"))
        /\ Skipped(x, g[x.cur + 1]) /\ h[x.cur + 1] = g[x.cur + 1]
        /\ Skipped(x, g[x.cur + 2]) /\ h[x.cur + 2] = g[x.cur + 2]
    BY <1>2, <1>4, <1>6, <1>8, <2>1, ErrorNames
  <2> QED
    BY <1>1, <1>6, <1>8, <2>2
<1>9. CASE ~AtEnd(x) /\ ~Is(d, Step(x), DOMAIN Escape) /\ Is(d, Step(x), {LetterU})
  <2>1. PICK n \in Nat : n = 4
    OBVIOUS
  <2>2. DOMAIN four = 1 .. n
    BY <2>1
  <2>3. x.cur + 2 \in Nat /\ x.cur <= x.cur + 2 /\ x.cur + 2 <= x.end
    BY <1>0, <1>6, <1>9 DEF Is
  <2> HIDE DEF four
  <2>4. digit \in 0 .. n /\ (digit = 0 => x.cur + 2 + n <= x.end)
    BY <2>2, <2>3, Zenon, FirstWrongIs
  <2> HIDE DEF digit
  <2>5. x.cur \in x.cur .. x.end /\ x.cur + 1 + digit \in Nat /\ x.cur <= x.cur + 1 + digit
    BY <1>0, <2>4
  <2>6. digit = 0 => x.cur + 6 \in x.cur + 1 .. x.end
    BY <1>0, <2>1, <2>4
  <2>7. /\ Skipped(x, Err(x, x.cur, "character"))
        /\ Skipped(x, Fault(x, x.cur + 1 + digit, "escape"))
        /\ Skipped(x, g[x.cur + 1]) /\ h[x.cur + 1] = g[x.cur + 1]
        /\ digit = 0 => Skipped(x, g[x.cur + 6]) /\ h[x.cur + 6] = g[x.cur + 6]
    BY <1>2, <1>3, <1>4, <1>6, <1>9, <2>5, <2>6, ErrorNames
  <2>8. digit > 0 \/ digit = 0
    BY <2>4
  <2> QED
    BY <1>1, <1>6, <1>9, <2>7, <2>8
<1> QED
  BY <1>5, <1>7, <1>8, <1>9

LEMMA CharactersAreSkipped ==
    ASSUME NEW d, NEW x, Sound(x), x.err = None
    PROVE  Skipped(x, SkipCharacters(d, x))
<1> DEFINE I == 1 .. x.end
           rank == [p \in I |-> x.end - p]
           R == [p \in I |-> {t \in State : Skipped(To(x, p), t)}]
           T == Typed(I, State, R)
           Body(g) == [p \in I |-> SkipCharacter(d, To(x, p), g)]
           Round == [g \in T |-> Body(g)]
           f == CHOOSE f : f = Body(f)
<1>0. x.cur \in Nat \ {0} /\ x.end \in Nat /\ x.cur <= x.end /\ x \in State
  BY DEF Sound, State
<1>1. ASSUME NEW p \in I
      PROVE  Sound(To(x, p)) /\ To(x, p).cur = p /\ To(x, p).end = x.end /\ To(x, p).err = None
  BY <1>0 DEF Sound, State, To
<1>2. ASSUME NEW p \in I, NEW g, NEW h,
             \A q \in I : rank[q] < rank[p] => g[q] \in R[q] /\ h[q] = g[q]
      PROVE  /\ SkipCharacter(d, To(x, p), g) \in R[p]
             /\ SkipCharacter(d, To(x, p), h) = SkipCharacter(d, To(x, p), g)
  <2> DEFINE y == To(x, p)
  <2>1. Sound(y) /\ y.err = None /\ y.cur = p /\ y.end = x.end
    BY <1>1
  <2>2. ASSUME NEW q \in y.cur + 1 .. y.end
        PROVE  Skipped(To(y, q), g[q]) /\ h[q] = g[q]
    <3>1. q \in I /\ rank[q] < rank[p]
      BY <1>0, <2>1
    <3>2. To(y, q) = To(x, q)
      BY <1>0, MovesCombine
    <3> QED
      BY <1>2, <3>1, <3>2
  <2> HIDE DEF y
  <2>3. Skipped(y, SkipCharacter(d, y, g)) /\ SkipCharacter(d, y, h) = SkipCharacter(d, y, g)
    BY <2>1, <2>2, CharacterIsSkipped
  <2>4. SkipCharacter(d, y, g) \in State
    BY <2>3 DEF Skipped, From, Sound
  <2> QED
    BY <2>3, <2>4 DEF y
<1>3. rank \in [I -> Nat] /\ \A p \in I : rank[p] < x.end
  BY <1>0
<1>4. T # {}
  <2> DEFINE e == Err(x, x.end, "end")
  <2>1. ASSUME NEW p \in I
        PROVE  Skipped(To(x, p), e)
    <3>1. x.end \in To(x, p).cur .. To(x, p).end /\ Err(To(x, p), x.end, "end") = e
      BY <1>0, <1>1 DEF Err
    <3> QED
      BY <1>1, <3>1, ErrIsReached, ErrorNames DEF Skipped, Reached
  <2>2. e \in State
    BY <1>0, <2>1 DEF Skipped, From, Sound
  <2> HIDE DEF e
  <2>3. [p \in I |-> e] \in T
    BY <2>1, <2>2 DEF Typed
  <2> QED
    BY <2>3
<1> HIDE DEF rank
<1>5. ASSUME NEW g \in T
      PROVE  Body(g) \in T
  <2>1. ASSUME NEW p \in I
        PROVE  SkipCharacter(d, To(x, p), g) \in R[p]
    BY <1>2 DEF Typed
  <2> QED
    BY <2>1 DEF Typed
<1>6. \E u : u = Body(u)
  <2>1. Round \in [T -> T]
    BY <1>5
  <2>2. ASSUME NEW g \in T, NEW h \in T, NEW p \in I,
               \A q \in I : rank[q] < rank[p] => g[q] = h[q]
        PROVE  Round[g][p] = Round[h][p]
    <3>1. \A q \in I : rank[q] < rank[p] => g[q] \in R[q] /\ h[q] = g[q]
      BY <2>2 DEF Typed
    <3>2. SkipCharacter(d, To(x, p), h) = SkipCharacter(d, To(x, p), g)
      BY <1>2, <3>1
    <3> QED
      BY <3>2
  <2> HIDE DEF Round, R, I
  <2>3. \A g, h \in T : \A p \in I :
            (\A q \in I : rank[q] < rank[p] => g[q] = h[q]) => Round[g][p] = Round[h][p]
    BY <2>2
  <2>4. Recursion(I, State, R, rank, x.end, Round)
    BY <1>0, <1>3, <1>4, <2>1, <2>3 DEF Recursion
  <2>5. \E u \in T : u = Round[u]
    BY <2>4, RecursionExists
  <2> QED
    BY <2>5 DEF Round
<1>7. f = Body(f)
  BY <1>6
<1> HIDE DEF f
<1> DEFINE Good == {p \in I : f[p] \in R[p]}
<1>8. ASSUME NEW p \in I, \A q \in I : rank[q] < rank[p] => q \in Good
      PROVE  p \in Good
  <2>1. SkipCharacter(d, To(x, p), f) \in R[p]
    BY <1>2, <1>8
  <2> QED
    BY <1>7, <2>1
<1>9. x.cur \in Good
  <2> HIDE DEF Good, I
  <2>1. \A p \in I : (\A q \in I : rank[q] < rank[p] => q \in Good) => p \in Good
    BY <1>8
  <2>2. \A p \in I : p \in Good
    BY <1>3, <2>1, RankInduction
  <2> QED
    BY <1>0, <2>2 DEF I
<1>10. SkipCharacters(d, x) = f[x.cur]
  BY DEF SkipCharacters, f
<1>11. To(x, x.cur) = x
  BY <1>0 DEF To, State
<1> QED
  BY <1>9, <1>10, <1>11

-----------------------------------------------------------------------------
(***************************************************************************)
(* Strings that are compared.                                              *)
(***************************************************************************)
LEMMA PlaceDoesNotMatter ==
    ASSUME NEW d, NEW x \in State, NEW q, NEW p
    PROVE  UnescapeUnicode(d, To(x, q), p) = UnescapeUnicode(d, x, p)
<1>1. \A r : To(To(x, q), r) = To(x, r)
  BY MovesCombine
<1>2. \A r, classes : FirstWrong(d, To(x, q), r, classes) = FirstWrong(d, x, r, classes)
  BY <1>1 DEF FirstWrong
<1>3. To(x, q).end = x.end
  BY MovesCombine
<1>4. \A r, msg : Err(To(x, q), r, msg) = Err(x, r, msg)
  BY DEF Err
<1>5. \A r, msg : Fault(To(x, q), r, msg) = Fault(x, r, msg)
  BY <1>3, <1>4 DEF Fault
<1> QED
  BY <1>2, <1>3, <1>4, <1>5 DEF UnescapeUnicode

\* From p on a text is not there, or what is there has been taken, or there is
\* an error.
Compared(x, p, t) == t \in State /\ (t = No(x) \/ Skipped(To(x, p), t))

LEMMA CompareAtIs ==
    ASSUME NEW d, NEW x, Sound(x), x.err = None, NEW text \in Seq(Nat),
           NEW p \in 1 .. x.end, NEW k \in 0 .. Len(text), NEW g, NEW h,
           \A q \in p + 1 .. x.end : \A m \in 0 .. Len(text) :
               Compared(x, q, g[<<q, m>>]) /\ h[<<q, m>>] = g[<<q, m>>]
    PROVE  /\ Compared(x, p, CompareAt(d, x, text, p, k, g))
           /\ CompareAt(d, x, text, p, k, h) = CompareAt(d, x, text, p, k, g)
<1> DEFINE y == To(x, p)
           u == UnescapeUnicode(d, x, p + 1)
           Goes(c, byte, next) ==
                IF text[k + 1] = byte THEN c[<<next, k + 1>>] ELSE No(x)
           Rem == SubSeq(text, k + 1, Len(text))
           C(c) == CompareAt(d, x, text, p, k, c)
           R(c) ==
                IF p >= x.end THEN Err(x, x.end, "end")
                ELSE IF d[p] = Quote
                THEN IF k = Len(text) THEN Yes(To(x, p + 1)) ELSE No(x)
                ELSE IF k = Len(text) THEN No(x)
                ELSE IF d[p] # Backslash THEN Goes(c, d[p], p + 1)
                ELSE IF Is(d, To(x, p + 1), DOMAIN Escape) THEN Goes(c, Escape[d[p + 1]], p + 2)
                ELSE IF ~Is(d, To(x, p + 1), {LetterU}) THEN Fault(x, p + 1, "escape")
                ELSE IF u.err # None THEN Err(x, u.at, u.err)
                ELSE IF ~IsPrefix(u.bytes, Rem) THEN No(x)
                ELSE c[<<u.at, k + Len(u.bytes)>>]
<1>0. x.cur \in Nat \ {0} /\ x.end \in Nat /\ x \in State /\ Len(text) \in Nat
  BY DEF Sound, State
<1>1. C(g) = R(g) /\ C(h) = R(h)
  BY DEF CompareAt
<1>2. Sound(y) /\ y.cur = p /\ y.end = x.end /\ y.err = None
  BY <1>0 DEF Sound, State, To
<1>3. Compared(x, p, No(x))
  BY AnswersAreSound DEF Compared, Sound
<1>4. ASSUME NEW t, Skipped(y, t)
      PROVE  Compared(x, p, t)
  BY <1>4 DEF Compared, Skipped, From, Sound
<1>5. ASSUME NEW q \in p + 1 .. x.end, NEW m \in 0 .. Len(text)
      PROVE  Compared(x, p, g[<<q, m>>]) /\ h[<<q, m>>] = g[<<q, m>>]
  <2>1. Compared(x, q, g[<<q, m>>]) /\ h[<<q, m>>] = g[<<q, m>>]
    OBVIOUS
  <2>2. ASSUME NEW t, Skipped(To(x, q), t)
        PROVE  Skipped(y, t)
    <3>1. q \in y.cur .. y.end /\ To(y, q) = To(x, q)
      BY <1>0, <1>2, MovesCombine
    <3>2. Ahead(y, To(x, q)) /\ Sound(To(x, q))
      BY <1>2, <3>1, MovesAhead
    <3> QED
      BY <1>2, <2>2, <3>2, SkippedOn
  <2> QED
    BY <1>4, <2>1, <2>2 DEF Compared
<1>6. ASSUME NEW q \in p .. x.end, NEW msg \in Errors, msg # None
      PROVE  Compared(x, p, Err(x, q, msg))
  <2>1. Err(x, q, msg) = Err(y, q, msg) /\ q \in y.cur .. y.end
    BY <1>2 DEF Err
  <2>2. Skipped(y, Err(x, q, msg))
    BY <1>2, <1>6, <2>1, ErrIsReached DEF Skipped, Reached
  <2> QED
    BY <1>4, <2>2
<1> HIDE DEF y, C
<1>7. CASE p >= x.end
  <2>1. x.end \in p .. x.end
    BY <1>0
  <2> QED
    BY <1>1, <1>6, <1>7, <2>1, ErrorNames DEF C
<1>8. CASE ~(p >= x.end) /\ d[p] = Quote
  <2>1. p + 1 \in y.cur .. y.end /\ y.cur < p + 1 /\ To(y, p + 1) = To(x, p + 1)
    BY <1>0, <1>2, <1>8, MovesCombine DEF y
  <2>2. Ahead(y, To(x, p + 1)) /\ To(x, p + 1).cur = p + 1
    BY <1>2, <2>1, MovesAhead
  <2>3. Skipped(y, Yes(To(x, p + 1)))
    BY <1>2, <2>1, <2>2, YesIsReached
  <2>4. Compared(x, p, Yes(To(x, p + 1)))
    BY <1>4, <2>3
  <2> QED
    BY <1>1, <1>3, <1>8, <2>4 DEF C
<1>9. CASE ~(p >= x.end) /\ d[p] # Quote /\ k = Len(text)
  BY <1>1, <1>3, <1>9 DEF C
<1>10. ASSUME ~(p >= x.end), k # Len(text), NEW q \in p + 1 .. x.end, NEW byte
       PROVE  Compared(x, p, Goes(g, byte, q)) /\ Goes(h, byte, q) = Goes(g, byte, q)
  <2>1. k + 1 \in 0 .. Len(text)
    BY <1>0, <1>10
  <2> QED
    BY <1>3, <1>5, <2>1
<1>11. CASE ~(p >= x.end) /\ d[p] # Quote /\ k # Len(text) /\ d[p] # Backslash
  <2>1. p + 1 \in p + 1 .. x.end
    BY <1>0, <1>11
  <2>2. Compared(x, p, Goes(g, d[p], p + 1)) /\ Goes(h, d[p], p + 1) = Goes(g, d[p], p + 1)
    BY <1>10, <1>11, <2>1
  <2> QED
    BY <1>1, <1>11, <2>2 DEF C
<1>12. CASE ~(p >= x.end) /\ d[p] = Backslash /\ d[p] # Quote /\ k # Len(text)
  <2>1. To(x, p + 1).cur = p + 1 /\ To(x, p + 1).end = x.end
    BY <1>0 DEF To, State
  <2>2. CASE Is(d, To(x, p + 1), DOMAIN Escape)
    <3>1. p + 2 \in p + 1 .. x.end
      BY <1>0, <2>1, <2>2 DEF Is
    <3> DEFINE byte == Escape[d[p + 1]]
    <3>2. Compared(x, p, Goes(g, byte, p + 2)) /\ Goes(h, byte, p + 2) = Goes(g, byte, p + 2)
      BY <1>10, <1>12, <3>1
    <3> QED
      BY <1>1, <1>12, <2>2, <3>2 DEF C
  <2>3. CASE ~Is(d, To(x, p + 1), DOMAIN Escape) /\ ~Is(d, To(x, p + 1), {LetterU})
    <3>1. Fault(x, p + 1, "escape") \in {Err(x, x.end, "end"), Err(x, p + 1, "escape")}
      BY DEF Fault
    <3>2. p + 1 \in p .. x.end /\ x.end \in p .. x.end
      BY <1>0, <1>12
    <3>3. Compared(x, p, Fault(x, p + 1, "escape"))
      BY <1>6, <3>1, <3>2, ErrorNames
    <3> QED
      BY <1>1, <1>12, <2>3, <3>3 DEF C
  <2>4. CASE ~Is(d, To(x, p + 1), DOMAIN Escape) /\ Is(d, To(x, p + 1), {LetterU})
    <3>1. p + 1 \in Nat /\ y.cur <= p + 1 /\ p + 1 < y.end
      BY <1>0, <1>2, <2>1, <2>4 DEF Is
    <3>2. u = UnescapeUnicode(d, y, p + 1)
      BY <1>0, PlaceDoesNotMatter DEF y
    <3> HIDE DEF u
    <3>3. /\ u.err \in Errors /\ u.at \in y.cur .. y.end
          /\ u.err = None => u.at \in p + 1 + 4 .. y.end - 1 /\ Len(u.bytes) \in 1 .. 4
      BY <1>2, <3>1, <3>2, UnescapeIs
    <3>4. CASE u.err # None
      <4>1. Compared(x, p, Err(x, u.at, u.err))
        BY <1>2, <1>6, <3>3, <3>4
      <4> QED
        BY <1>1, <1>12, <2>4, <3>4, <4>1 DEF C
    <3>5. CASE u.err = None /\ ~IsPrefix(u.bytes, Rem)
      BY <1>1, <1>3, <1>12, <2>4, <3>5 DEF C
    <3>6. CASE u.err = None /\ IsPrefix(u.bytes, Rem)
      <4>1. Len(u.bytes) <= Len(Rem)
        BY <3>6 DEF IsPrefix
      <4>2. Len(Rem) = Len(text) - k
        BY <1>0
      <4> HIDE DEF Rem
      <4>3. u.at \in p + 1 .. x.end /\ k + Len(u.bytes) \in 0 .. Len(text)
        BY <1>0, <1>2, <3>3, <3>6, <4>1, <4>2
      <4>4. /\ Compared(x, p, g[<<u.at, k + Len(u.bytes)>>])
            /\ h[<<u.at, k + Len(u.bytes)>>] = g[<<u.at, k + Len(u.bytes)>>]
        BY <1>5, <4>3
      <4> QED
        BY <1>1, <1>12, <2>4, <3>6, <4>4 DEF C
    <3> QED
      BY <3>4, <3>5, <3>6
  <2> QED
    BY <2>2, <2>3, <2>4
<1> QED
  BY <1>7, <1>8, <1>9, <1>11, <1>12 DEF C

LEMMA CompareIs ==
    ASSUME NEW d, NEW x, Sound(x), x.err = None, NEW text \in Seq(Nat), NEW start \in 1 .. x.end
    PROVE  Compared(x, start, Compare(d, x, start, text))
<1> DEFINE I == (1 .. x.end) \X (0 .. Len(text))
           rank == [i \in I |-> x.end - i[1]]
           R == [i \in I |-> {t \in State : Compared(x, i[1], t)}]
           T == Typed(I, State, R)
           Body(g) == [i \in I |-> CompareAt(d, x, text, i[1], i[2], g)]
           Round == [g \in T |-> Body(g)]
           f == CHOOSE f : f = Body(f)
<1>0. x.end \in Nat /\ Len(text) \in Nat /\ Sound(No(x)) /\ No(x) \in State
  BY AnswersAreSound DEF Sound, State
<1>1. ASSUME NEW i \in I, NEW g, NEW h,
             \A j \in I : rank[j] < rank[i] => g[j] \in R[j] /\ h[j] = g[j]
      PROVE  /\ CompareAt(d, x, text, i[1], i[2], g) \in R[i]
             /\ CompareAt(d, x, text, i[1], i[2], h) = CompareAt(d, x, text, i[1], i[2], g)
  <2>1. PICK p \in 1 .. x.end, k \in 0 .. Len(text) : i = <<p, k>>
    OBVIOUS
  <2>2. ASSUME NEW q \in p + 1 .. x.end, NEW m \in 0 .. Len(text)
        PROVE  Compared(x, q, g[<<q, m>>]) /\ h[<<q, m>>] = g[<<q, m>>]
    <3>1. <<q, m>> \in I /\ rank[<<q, m>>] < rank[i]
      BY <1>0, <2>1
    <3> QED
      BY <1>1, <3>1
  <2>3. /\ Compared(x, p, CompareAt(d, x, text, p, k, g))
        /\ CompareAt(d, x, text, p, k, h) = CompareAt(d, x, text, p, k, g)
    BY <2>2, CompareAtIs
  <2> QED
    BY <2>1, <2>3 DEF Compared
<1>2. rank \in [I -> Nat] /\ \A i \in I : rank[i] < x.end
  BY <1>0
<1>3. T # {}
  <2>1. [i \in I |-> No(x)] \in T
    BY <1>0 DEF Typed, Compared
  <2> QED
    BY <2>1
<1> HIDE DEF rank
<1>4. ASSUME NEW g \in T
      PROVE  Body(g) \in T
  <2>1. ASSUME NEW i \in I
        PROVE  CompareAt(d, x, text, i[1], i[2], g) \in R[i]
    BY <1>1 DEF Typed
  <2> QED
    BY <2>1 DEF Typed
<1>5. \E u : u = Body(u)
  <2>1. Round \in [T -> T]
    BY <1>4
  <2>2. ASSUME NEW g \in T, NEW h \in T, NEW i \in I,
               \A j \in I : rank[j] < rank[i] => g[j] = h[j]
        PROVE  Round[g][i] = Round[h][i]
    <3>1. \A j \in I : rank[j] < rank[i] => g[j] \in R[j] /\ h[j] = g[j]
      BY <2>2 DEF Typed
    <3>2. CompareAt(d, x, text, i[1], i[2], h) = CompareAt(d, x, text, i[1], i[2], g)
      BY <1>1, <3>1
    <3> QED
      BY <3>2
  <2> HIDE DEF Round, R, I
  <2>3. \A g, h \in T : \A i \in I :
            (\A j \in I : rank[j] < rank[i] => g[j] = h[j]) => Round[g][i] = Round[h][i]
    BY <2>2
  <2>4. Recursion(I, State, R, rank, x.end, Round)
    BY <1>0, <1>2, <1>3, <2>1, <2>3 DEF Recursion
  <2>5. \E u \in T : u = Round[u]
    BY <2>4, RecursionExists
  <2> QED
    BY <2>5 DEF Round
<1>6. f = Body(f)
  BY <1>5
<1> HIDE DEF f
<1> DEFINE Good == {i \in I : f[i] \in R[i]}
<1>7. ASSUME NEW i \in I, \A j \in I : rank[j] < rank[i] => j \in Good
      PROVE  i \in Good
  <2>1. CompareAt(d, x, text, i[1], i[2], f) \in R[i]
    BY <1>1, <1>7
  <2> QED
    BY <1>6, <2>1
<1>8. \A i \in I : f[i] \in R[i]
  <2> HIDE DEF Good, I
  <2>1. \A i \in I : (\A j \in I : rank[j] < rank[i] => j \in Good) => i \in Good
    BY <1>7
  <2>2. \A i \in I : i \in Good
    BY <1>2, <2>1, RankInduction
  <2> QED
    BY <2>2 DEF Good
<1>9. Compare(d, x, start, text) = f[<<start, 0>>]
  BY DEF Compare, f
<1>10. <<start, 0>> \in I
  BY <1>0
<1>11. f[<<start, 0>>] \in R[<<start, 0>>]
  BY <1>8, <1>10
<1>12. R[<<start, 0>>] = {t \in State : Compared(x, start, t)}
  BY <1>10
<1> QED
  BY <1>9, <1>11, <1>12

LEMMA StringIsMatched ==
    ASSUME NEW d, NEW x, Sound(x), NEW text \in Seq(Nat), NEW is_key \in BOOLEAN
    PROVE  Matched(x, String(d, x, text, is_key))
<1> DEFINE t == Compare(d, x, x.cur + 1, text)
<1>1. CASE Is(d, x, {Quote})
  <2>1. x.cur < x.end /\ x.err = None /\ x.cur + 1 \in 1 .. x.end /\ x.cur + 1 \in x.cur .. x.end
    BY <1>1 DEF Is, Sound, State
  <2>2. t = No(x) \/ Skipped(To(x, x.cur + 1), t)
    BY <2>1, CompareIs DEF Compared
  <2>3. Ahead(x, To(x, x.cur + 1)) /\ Sound(To(x, x.cur + 1))
    BY <2>1, MovesAhead
  <2>4. Matched(x, t)
    BY <2>2, <2>3, NoIsMatched, SkippedOn
  <2>5. String(d, x, text, is_key) = After(d, t, is_key)
    BY <1>1 DEF String
  <2> QED
    BY <2>4, <2>5, AfterMatched
<1>2. CASE ~Is(d, x, {Quote})
  BY <1>2, NoIsMatched DEF String
<1> QED
  BY <1>1, <1>2

-----------------------------------------------------------------------------
(***************************************************************************)
(* Keys and numbers that are skipped.                                      *)
(***************************************************************************)
\* What goes on only from a success keeps what was reached.
LEMMA Continues ==
    ASSUME NEW x, Sound(x), NEW t, Reached(x, t), NEW u,
           t.ok => Reached(t, u), ~t.ok => u = t
    PROVE  Reached(x, u) /\ (Skipped(x, t) => Skipped(x, u))
<1>1. CASE t.ok
  <2>1. Ahead(x, t) /\ Sound(t)
    BY <1>1 DEF Reached, From, Ahead
  <2> QED
    BY <1>1, <2>1, ReachedOn DEF Skipped
<1>2. CASE ~t.ok
  BY <1>2
<1> QED
  BY <1>1, <1>2

LEMMA SkippedIsReached ==
    ASSUME NEW x, NEW t, Skipped(x, t)
    PROVE  Reached(x, t)
  BY DEF Skipped, Reached

LEMMA AfterSkipped ==
    ASSUME NEW d, NEW x, Sound(x), NEW t, Skipped(x, t), NEW is_key \in BOOLEAN
    PROVE  Skipped(x, After(d, t, is_key))
<1>1. Sound(t) /\ Reached(x, t)
  BY SkippedIsReached DEF Skipped, From
<1>2. t.ok => Reached(t, After(d, t, is_key))
  BY <1>1, AfterIsReached
<1>3. ~t.ok => After(d, t, is_key) = t
  BY <1>1, AfterIsReached
<1> QED
  BY <1>1, <1>2, <1>3, Continues

LEMMA StringIsSkipped ==
    ASSUME NEW d, NEW x, Sound(x), Is(d, x, {Quote})
    PROVE  Skipped(x, SkipString(d, x))
<1>1. Ahead(x, Step(x)) /\ Sound(Step(x)) /\ Step(x).err = None
  BY StepIsAhead DEF Is, Ahead
<1>2. SkipString(d, x) = SkipCharacters(d, Step(x))
  BY DEF SkipString
<1> QED
  BY <1>1, <1>2, CharactersAreSkipped, SkippedOn

LEMMA KeyIsSkipped ==
    ASSUME NEW d, NEW x, Sound(x)
    PROVE  Skipped(x, SkipKey(d, x))
<1>1. CASE Is(d, x, {Quote})
  BY <1>1, StringIsSkipped, AfterSkipped DEF SkipKey
<1>2. CASE ~Is(d, x, {Quote})
  BY <1>2, RefuseIsReached DEF SkipKey
<1> QED
  BY <1>1, <1>2

LEMMA MoreIsReached ==
    ASSUME NEW x, Sound(x)
    PROVE  Reached(x, More(x))
<1>1. x.end \in x.cur .. x.end /\ Ahead(x, x)
  BY DEF Sound, State, Ahead
<1> QED
  BY <1>1, ErrIsReached, ErrorNames, YesIsReached DEF More

LEMMA ExpectIsReached ==
    ASSUME NEW d, NEW x, Sound(x), NEW bytes
    PROVE  Reached(x, Expect(d, x, bytes))
<1>1. x.cur \in Nat /\ x.cur <= x.cur /\ Ahead(x, x)
  BY DEF Sound, State, Ahead
<1> QED
  BY <1>1, FaultIsReached, ErrorNames, YesIsReached DEF Expect

LEMMA DigitsAreReached ==
    ASSUME NEW d, NEW x, Sound(x)
    PROVE  /\ x.ok => Reached(x, SkipDigits(d, x))
           /\ x.ok /\ Is(d, x, Digit) => Skipped(x, SkipDigits(d, x))
           /\ ~x.ok => SkipDigits(d, x) = x
<1> DEFINE t == SkipWhile(d, x, Digit)
<1>1. Ahead(x, t) /\ Sound(t) /\ (Is(d, x, Digit) => x.cur < t.cur)
  <2>1. Ahead(x, t) /\ (Is(d, x, Digit) => x.cur < t.cur)
    BY Zenon, SkipWhileIsAhead
  <2> QED
    BY <2>1 DEF Ahead
<1>2. SkipDigits(d, x) = IF x.ok THEN More(t) ELSE x
  BY DEF SkipDigits
<1> HIDE DEF t
<1>3. Reached(t, More(t))
  BY <1>1, MoreIsReached
<1>4. Reached(x, More(t)) /\ (Is(d, x, Digit) => Skipped(x, More(t)))
  BY <1>1, <1>3, ReachedOn
<1> QED
  BY <1>2, <1>4

\* A byte is taken, and digits are expected.
LEMMA DigitsAfter ==
    ASSUME NEW d, NEW x, Sound(x), x.cur < x.end
    PROVE  /\ Skipped(x, Expect(d, Step(x), Digit))
           /\ Skipped(x, SkipDigits(d, Expect(d, Step(x), Digit)))
<1> DEFINE t == Expect(d, Step(x), Digit)
<1>1. Ahead(x, Step(x)) /\ Sound(Step(x)) /\ x.cur < Step(x).cur
  BY StepIsAhead DEF Ahead, Sound, State
<1>2. Skipped(x, t)
  BY <1>1, ExpectIsReached, ReachedOn
<1>3. Sound(t) /\ Reached(x, t)
  BY <1>2, SkippedIsReached DEF Skipped, From
<1> HIDE DEF t
<1>4. (t.ok => Reached(t, SkipDigits(d, t))) /\ (~t.ok => SkipDigits(d, t) = t)
  BY <1>3, DigitsAreReached
<1>5. Skipped(x, SkipDigits(d, t))
  BY <1>2, <1>3, <1>4, Continues
<1> QED
  BY <1>2, <1>5 DEF t

LEMMA IntegerIsSkipped ==
    ASSUME NEW d, NEW x, Sound(x), Is(d, x, {Minus} \union Digit)
    PROVE  Skipped(x, SkipInteger(d, x))
<1> DEFINE t == IF Is(d, x, {Minus}) THEN Expect(d, Step(x), Digit) ELSE Yes(x)
           u == SkipInteger(d, x)
<1>0. x.cur < x.end
  BY DEF Is
<1>1. Reached(x, t) /\ Sound(t)
  <2>1. Reached(x, Expect(d, Step(x), Digit))
    BY <1>0, DigitsAfter, SkippedIsReached
  <2>2. Reached(x, Yes(x))
    BY YesIsReached DEF Ahead, Sound, State
  <2> QED
    BY <2>1, <2>2 DEF Reached, From
<1>2. u = IF t.ok /\ Is(d, t, {Zero}) THEN More(Step(t)) ELSE SkipDigits(d, t)
  BY DEF SkipInteger
<1>3. Is(d, x, {Minus}) => Skipped(x, t)
  BY <1>0, DigitsAfter
<1>4. ~Is(d, x, {Minus}) => t = Yes(x) /\ t.ok /\ Ahead(x, t) /\ Is(d, t, Digit)
  <2>1. ASSUME ~Is(d, x, {Minus})
        PROVE  Is(d, x, Digit)
    BY <2>1 DEF Is
  <2>2. Is(d, x, Digit) => Is(d, Yes(x), Digit)
    BY AnswersAreSound DEF Is
  <2> QED
    BY <2>1, <2>2, AnswersAreSound, YesIsReached DEF Ahead, Sound, State
<1> HIDE DEF t, u
<1>5. ASSUME Is(d, t, {Zero})
      PROVE  Skipped(t, More(Step(t)))
  <2>1. Ahead(t, Step(t)) /\ Sound(Step(t)) /\ t.cur < Step(t).cur
    BY <1>1, <1>5, StepIsAhead DEF Is, Ahead, Sound, State
  <2> QED
    BY <1>1, <2>1, MoreIsReached, ReachedOn
<1>6. /\ t.ok => Reached(t, u)
      /\ t.ok /\ Is(d, t, Digit) => Skipped(t, u)
      /\ ~t.ok => u = t
  BY <1>1, <1>2, <1>5, DigitsAreReached, SkippedIsReached
<1>7. CASE Is(d, x, {Minus})
  BY <1>1, <1>3, <1>6, <1>7, Continues DEF u
<1>8. CASE ~Is(d, x, {Minus})
  BY <1>1, <1>4, <1>6, <1>8, SkippedOn DEF u
<1> QED
  BY <1>7, <1>8

LEMMA FractionIsReached ==
    ASSUME NEW d, NEW x, Sound(x)
    PROVE  /\ x.ok => Reached(x, SkipFraction(d, x))
           /\ ~x.ok => SkipFraction(d, x) = x
<1>1. Is(d, x, {Dot}) => Reached(x, SkipDigits(d, Expect(d, Step(x), Digit)))
  BY DigitsAfter, SkippedIsReached DEF Is
<1>2. x.ok => Reached(x, x)
  BY DEF Reached, From, Sound, State
<1> QED
  BY <1>1, <1>2 DEF SkipFraction

LEMMA ExponentIsReached ==
    ASSUME NEW d, NEW x, Sound(x)
    PROVE  /\ x.ok => Reached(x, SkipExponent(d, x))
           /\ ~x.ok => SkipExponent(d, x) = x
<1> DEFINE sign == Expect(d, Step(x), {Minus, Plus})
<1>0. SkipExponent(d, x) = IF ~x.ok \/ ~Is(d, x, Exponent) THEN x
                           ELSE IF sign.ok THEN SkipDigits(d, Expect(d, Step(sign), Digit))
                           ELSE sign
  BY DEF SkipExponent
<1>1. x.ok => Reached(x, x)
  BY DEF Reached, From, Sound, State
<1>2. ASSUME Is(d, x, Exponent)
      PROVE  Reached(x, sign) /\ (sign.ok => sign.cur < sign.end)
  <2>1. Ahead(x, Step(x)) /\ Sound(Step(x))
    BY <1>2, StepIsAhead DEF Is, Ahead
  <2>2. Reached(x, sign)
    BY <2>1, ExpectIsReached, ReachedOn
  <2>3. sign.ok => Is(d, Step(x), {Minus, Plus}) /\ sign = Yes(Step(x))
    <3>1. Step(x).cur \in Nat /\ Step(x).cur <= Step(x).cur
      BY <2>1 DEF Sound, State
    <3>2. ~Fault(Step(x), Step(x).cur, "character").ok
      BY <2>1, <3>1, FaultIsReached, ErrorNames
    <3> QED
      BY <3>2 DEF Expect
  <2> QED
    BY <2>1, <2>2, <2>3, AnswersAreSound DEF Is
<1> HIDE DEF sign
<1>3. ASSUME Is(d, x, Exponent), sign.ok
      PROVE  Reached(x, SkipDigits(d, Expect(d, Step(sign), Digit)))
  <2>1. Ahead(x, sign) /\ Sound(sign) /\ sign.cur < sign.end
    BY <1>2, <1>3 DEF Reached, From, Ahead
  <2> QED
    BY <2>1, DigitsAfter, SkippedOn
<1> QED
  BY <1>0, <1>1, <1>2, <1>3

LEMMA NumberIsSkipped ==
    ASSUME NEW d, NEW x, Sound(x), Is(d, x, {Minus} \union Digit)
    PROVE  Skipped(x, SkipNumber(d, x))
<1> DEFINE t == SkipInteger(d, x)
           u == SkipFraction(d, t)
           v == SkipExponent(d, u)
<1>0. SkipNumber(d, x) = After(d, v, FALSE)
  BY DEF SkipNumber
<1>1. Skipped(x, t) /\ Reached(x, t) /\ Sound(t)
  BY IntegerIsSkipped, SkippedIsReached DEF Skipped, From
<1> HIDE DEF t
<1>2. Skipped(x, u) /\ Reached(x, u) /\ Sound(u)
  BY <1>1, FractionIsReached, Continues DEF Reached, From
<1> HIDE DEF u
<1>3. Skipped(x, v)
  BY <1>2, ExponentIsReached, Continues DEF Reached, From
<1> HIDE DEF v
<1> QED
  BY <1>0, <1>3, AfterSkipped

-----------------------------------------------------------------------------
(***************************************************************************)
(* Values that are skipped.                                                *)
(***************************************************************************)
LEMMA ContentsAreSkipped ==
    ASSUME NEW d, NEW x, Sound(x), NEW bracket, NEW g, NEW h,
           \A q \in x.cur .. x.end :
               Skipped(To(x, q), g[<<q, AnyValue>>]) /\ h[<<q, AnyValue>>] = g[<<q, AnyValue>>],
           \A q \in x.cur + 1 .. x.end :
               Skipped(To(x, q), g[<<q, bracket>>]) /\ h[<<q, bracket>>] = g[<<q, bracket>>]
    PROVE  /\ Skipped(x, SkipContentsAt(d, x, bracket, g))
           /\ SkipContentsAt(d, x, bracket, h) = SkipContentsAt(d, x, bracket, g)
<1> DEFINE key == IF bracket = CloseObject THEN SkipKey(d, x) ELSE Yes(x)
           item(c) == IF key.ok THEN c[<<key.cur, AnyValue>>] ELSE key
           R(c) == IF AtEnd(x) THEN Err(x, x.end, "end")
                   ELSE IF d[x.cur] = bracket THEN SkipPostValue(d, Step(x))
                   ELSE IF item(c).ok THEN c[<<item(c).cur, bracket>>] ELSE item(c)
<1>0. x.cur \in Nat /\ x.end \in Nat /\ x.cur <= x.end /\ (x.err = None \/ x.cur = x.end)
  BY DEF Sound, State
<1>1. /\ SkipContentsAt(d, x, bracket, g) = R(g)
      /\ SkipContentsAt(d, x, bracket, h) = R(h)
  BY DEF SkipContentsAt
<1>2. Reached(x, key) /\ (~key.ok => Skipped(x, key))
  <2>1. Skipped(x, SkipKey(d, x)) /\ Reached(x, SkipKey(d, x))
    BY KeyIsSkipped, SkippedIsReached
  <2>2. Reached(x, Yes(x)) /\ Yes(x).ok
    BY YesIsReached, AnswersAreSound DEF Ahead, Sound, State
  <2> QED
    BY <2>1, <2>2
<1> HIDE DEF key
<1>3. item(h) = item(g) /\ Skipped(x, item(g))
  <2>1. CASE ~key.ok
    BY <1>2, <2>1
  <2>2. CASE key.ok
    <3>1. Ahead(x, key) /\ Sound(key) /\ key.cur \in x.cur .. x.end
      BY <1>0, <1>2, <2>2 DEF Reached, From, Ahead, Sound, State
    <3>2. /\ Skipped(To(x, key.cur), g[<<key.cur, AnyValue>>])
          /\ h[<<key.cur, AnyValue>>] = g[<<key.cur, AnyValue>>]
      BY <3>1
    <3>3. Ahead(x, To(x, key.cur)) /\ Sound(To(x, key.cur))
      <4>1. x.err = None \/ key.cur = x.cur
        BY <1>0, <3>1
      <4> QED
        BY <3>1, <4>1, MovesAhead
    <3>4. Skipped(x, g[<<key.cur, AnyValue>>])
      BY <3>2, <3>3, SkippedOn
    <3> QED
      BY <2>2, <3>2, <3>4
  <2> QED
    BY <2>1, <2>2
<1> DEFINE e == item(g)
<1>4. e = item(g) /\ e = item(h)
  BY <1>3
<1> HIDE DEF item, e
<1>5. e.ok => /\ Skipped(x, g[<<e.cur, bracket>>])
              /\ h[<<e.cur, bracket>>] = g[<<e.cur, bracket>>]
  <2> SUFFICES ASSUME e.ok
               PROVE  /\ Skipped(x, g[<<e.cur, bracket>>])
                      /\ h[<<e.cur, bracket>>] = g[<<e.cur, bracket>>]
    OBVIOUS
  <2>1. e.cur \in x.cur + 1 .. x.end /\ e.cur \in x.cur .. x.end
    BY <1>0, <1>3, <1>4 DEF Skipped, From, Sound, State
  <2>2. x.err = None
    BY <1>0, <2>1
  <2>3. Ahead(x, To(x, e.cur)) /\ Sound(To(x, e.cur))
    BY <2>1, <2>2, MovesAhead
  <2>4. Skipped(To(x, e.cur), g[<<e.cur, bracket>>]) /\ h[<<e.cur, bracket>>] = g[<<e.cur, bracket>>]
    BY <2>1
  <2> QED
    BY <2>3, <2>4, SkippedOn
<1>6. AtEnd(x) => Skipped(x, Err(x, x.end, "end"))
  <2>1. x.end \in x.cur .. x.end
    BY <1>0
  <2> QED
    BY <2>1, ErrIsReached, ErrorNames DEF Skipped, Reached
<1>7. ~AtEnd(x) => Skipped(x, SkipPostValue(d, Step(x)))
  <2> SUFFICES ASSUME ~AtEnd(x)
               PROVE  Skipped(x, SkipPostValue(d, Step(x)))
    OBVIOUS
  <2>1. Ahead(x, Step(x)) /\ Sound(Step(x)) /\ x.cur < Step(x).cur
    BY <1>0, StepIsAhead DEF AtEnd, Ahead, Sound, State
  <2> QED
    BY <2>1, PostValueIsReached, ReachedOn
<1> QED
  BY <1>1, <1>3, <1>4, <1>5, <1>6, <1>7

LEMMA ValueIsSkipped ==
    ASSUME NEW d, NEW x, Sound(x), NEW g, NEW h,
           \A q \in x.cur + 1 .. x.end : \A bracket \in Closing :
               Skipped(To(x, q), g[<<q, bracket>>]) /\ h[<<q, bracket>>] = g[<<q, bracket>>]
    PROVE  /\ Skipped(x, SkipValueAt(d, x, g))
           /\ SkipValueAt(d, x, h) = SkipValueAt(d, x, g)
<1> DEFINE Same(u, v) == Skipped(x, u) /\ v = u
<1>1. ASSUME NEW open, NEW bracket \in Closing, Is(d, x, {open}), NEW q,
             q = Begin(d, x, open).cur
      PROVE  Same(g[<<q, bracket>>], h[<<q, bracket>>])
  <2>1. q \in x.cur + 1 .. x.end /\ q \in x.cur .. x.end /\ x.err = None
    BY <1>1, BeginIsMatched DEF Sound, State, Is
  <2>2. Ahead(x, To(x, q)) /\ Sound(To(x, q))
    BY <2>1, MovesAhead
  <2>3. Skipped(To(x, q), g[<<q, bracket>>]) /\ h[<<q, bracket>>] = g[<<q, bracket>>]
    BY <2>1
  <2> QED
    BY <2>2, <2>3, SkippedOn
<1>2. /\ Is(d, x, {TrueText[1]}) => Skipped(x, Match(d, x, TrueText))
      /\ Is(d, x, {FalseText[1]}) => Skipped(x, Match(d, x, FalseText))
      /\ Is(d, x, {NullText[1]}) => Skipped(x, Match(d, x, NullText))
  <2>1. /\ DOMAIN TrueText = 1 .. 4 /\ Len(TrueText) = 4
        /\ DOMAIN FalseText = 1 .. 5 /\ Len(FalseText) = 5
        /\ DOMAIN NullText = 1 .. 4 /\ Len(NullText) = 4
    BY DEF TrueText, FalseText, NullText
  <2>2. 4 \in Nat \ {0} /\ 5 \in Nat \ {0}
    OBVIOUS
  <2> QED
    BY <2>1, <2>2, Zenon, MatchIsMatched
<1>3. Is(d, x, {Quote}) => Skipped(x, After(d, SkipString(d, x), FALSE))
  BY StringIsSkipped, AfterSkipped
<1>4. Is(d, x, {Minus} \union Digit) => Skipped(x, SkipNumber(d, x))
  BY NumberIsSkipped
<1>5. Skipped(x, Refuse(x))
  BY RefuseIsReached
<1>6. /\ Is(d, x, {OpenObject}) => Same(g[<<Begin(d, x, OpenObject).cur, CloseObject>>],
                                        h[<<Begin(d, x, OpenObject).cur, CloseObject>>])
      /\ Is(d, x, {OpenList}) => Same(g[<<Begin(d, x, OpenList).cur, CloseList>>],
                                      h[<<Begin(d, x, OpenList).cur, CloseList>>])
  BY <1>1 DEF Closing
<1> QED
  BY <1>2, <1>3, <1>4, <1>5, <1>6 DEF SkipValueAt

LEMMA SkipValueIs ==
    ASSUME NEW d, NEW x, Sound(x)
    PROVE  Skipped(x, SkipValue(d, x))
<1> DEFINE Kinds == {AnyValue, CloseObject, CloseList}
           I == (x.cur .. x.end) \X Kinds
           rank == [i \in I |-> 2 * (x.end - i[1]) + IF i[2] = AnyValue THEN 0 ELSE 1]
           R == [i \in I |-> {t \in State : Skipped(To(x, i[1]), t)}]
           T == Typed(I, State, R)
           At(i, g) == IF i[2] = AnyValue THEN SkipValueAt(d, To(x, i[1]), g)
                       ELSE SkipContentsAt(d, To(x, i[1]), i[2], g)
           Body(g) == [i \in I |-> At(i, g)]
           Round == [g \in T |-> Body(g)]
           f == CHOOSE f : f = Body(f)
           N == 2 * x.end + 2
<1>0. /\ x.cur \in Nat \ {0} /\ x.end \in Nat /\ x.cur <= x.end /\ x \in State
      /\ x.err = None \/ x.cur = x.end
      /\ N \in Nat
  BY DEF Sound, State
<1>1. ASSUME NEW p \in x.cur .. x.end
      PROVE  Sound(To(x, p)) /\ To(x, p).cur = p /\ To(x, p).end = x.end
  BY <1>0 DEF Sound, State, To
<1>2. ASSUME NEW i \in I, NEW g, NEW h,
             \A j \in I : rank[j] < rank[i] => g[j] \in R[j] /\ h[j] = g[j]
      PROVE  At(i, g) \in R[i] /\ At(i, h) = At(i, g)
  <2>1. PICK p \in x.cur .. x.end, kind \in Kinds : i = <<p, kind>>
    OBVIOUS
  <2> DEFINE y == To(x, p)
  <2>2. Sound(y) /\ y.cur = p /\ y.end = x.end /\ \A q : To(y, q) = To(x, q)
    BY <1>0, <1>1, MovesCombine
  <2>3. R[i] = {t \in State : Skipped(y, t)}
    BY <2>1
  <2>4. ASSUME NEW q \in p .. x.end, NEW k \in Kinds, q # p \/ (k = AnyValue /\ kind # AnyValue)
        PROVE  Skipped(To(y, q), g[<<q, k>>]) /\ h[<<q, k>>] = g[<<q, k>>]
    <3>1. <<q, k>> \in I
      BY <1>0
    <3>2. rank[<<q, k>>] < rank[i]
      <4>1. /\ rank[<<q, k>>] = 2 * (x.end - q) + IF k = AnyValue THEN 0 ELSE 1
            /\ rank[i] = 2 * (x.end - p) + IF kind = AnyValue THEN 0 ELSE 1
        BY <2>1, <3>1
      <4> QED
        BY <1>0, <2>4, <4>1
    <3>3. g[<<q, k>>] \in R[<<q, k>>] /\ h[<<q, k>>] = g[<<q, k>>]
      BY <1>2, <3>1, <3>2
    <3> QED
      BY <2>2, <3>1, <3>3
  <2> HIDE DEF y, R, I, rank
  <2>5. CASE kind = AnyValue
    <3>1. ASSUME NEW q \in y.cur + 1 .. y.end, NEW bracket \in Closing
          PROVE  Skipped(To(y, q), g[<<q, bracket>>]) /\ h[<<q, bracket>>] = g[<<q, bracket>>]
      <4>1. q \in p .. x.end /\ q # p /\ bracket \in Kinds
        BY <1>0, <2>2 DEF Closing
      <4> QED
        BY <2>4, <4>1
    <3>2. Skipped(y, SkipValueAt(d, y, g)) /\ SkipValueAt(d, y, h) = SkipValueAt(d, y, g)
      BY <2>2, <3>1, ValueIsSkipped
    <3>3. SkipValueAt(d, y, g) \in State
      BY <3>2 DEF Skipped, From, Sound
    <3> QED
      BY <2>1, <2>3, <2>5, <3>2, <3>3 DEF y
  <2>6. CASE kind # AnyValue
    <3>1. ASSUME NEW q \in y.cur .. y.end
          PROVE  /\ Skipped(To(y, q), g[<<q, AnyValue>>])
                 /\ h[<<q, AnyValue>>] = g[<<q, AnyValue>>]
      BY <2>2, <2>4, <2>6
    <3>2. ASSUME NEW q \in y.cur + 1 .. y.end
          PROVE  Skipped(To(y, q), g[<<q, kind>>]) /\ h[<<q, kind>>] = g[<<q, kind>>]
      <4>1. q \in p .. x.end /\ q # p
        BY <1>0, <2>2
      <4> QED
        BY <2>4, <4>1
    <3>3. /\ Skipped(y, SkipContentsAt(d, y, kind, g))
          /\ SkipContentsAt(d, y, kind, h) = SkipContentsAt(d, y, kind, g)
      BY <2>2, <3>1, <3>2, ContentsAreSkipped
    <3>4. SkipContentsAt(d, y, kind, g) \in State
      BY <3>3 DEF Skipped, From, Sound
    <3> QED
      BY <2>1, <2>3, <2>6, <3>3, <3>4 DEF y
  <2> QED
    BY <2>5, <2>6
<1>3. rank \in [I -> Nat] /\ \A i \in I : rank[i] < N
  BY <1>0
<1> HIDE DEF N
<1>4. T # {}
  <2> DEFINE e == Err(x, x.end, "end")
  <2>1. ASSUME NEW p \in x.cur .. x.end
        PROVE  Skipped(To(x, p), e)
    <3>1. x.end \in To(x, p).cur .. To(x, p).end /\ Err(To(x, p), x.end, "end") = e
      BY <1>0, <1>1 DEF Err
    <3> QED
      BY <1>1, <3>1, ErrIsReached, ErrorNames DEF Skipped, Reached
  <2>2. e \in State
    BY <1>0, <2>1 DEF Skipped, From, Sound
  <2> HIDE DEF e
  <2>3. [i \in I |-> e] \in T
    BY <2>1, <2>2 DEF Typed
  <2> QED
    BY <2>3
<1> HIDE DEF rank
<1>5. ASSUME NEW g \in T
      PROVE  Body(g) \in T
  <2>1. ASSUME NEW i \in I
        PROVE  At(i, g) \in R[i]
    BY <1>2 DEF Typed
  <2> QED
    BY <2>1 DEF Typed
<1>6. \E u : u = Body(u)
  <2>1. Round \in [T -> T]
    BY <1>5
  <2>2. ASSUME NEW g \in T, NEW h \in T, NEW i \in I,
               \A j \in I : rank[j] < rank[i] => g[j] = h[j]
        PROVE  Round[g][i] = Round[h][i]
    <3>1. \A j \in I : rank[j] < rank[i] => g[j] \in R[j] /\ h[j] = g[j]
      BY <2>2 DEF Typed
    <3>2. At(i, h) = At(i, g)
      BY <1>2, <3>1
    <3> QED
      BY <3>2
  <2> HIDE DEF Round, R, I
  <2>3. \A g, h \in T : \A i \in I :
            (\A j \in I : rank[j] < rank[i] => g[j] = h[j]) => Round[g][i] = Round[h][i]
    BY <2>2
  <2>4. Recursion(I, State, R, rank, N, Round)
    BY <1>0, <1>3, <1>4, <2>1, <2>3 DEF Recursion
  <2>5. \E u \in T : u = Round[u]
    BY <2>4, RecursionExists
  <2> QED
    BY <2>5 DEF Round
<1>7. f = Body(f)
  BY <1>6
<1> HIDE DEF f
<1> DEFINE Good == {i \in I : f[i] \in R[i]}
<1>8. ASSUME NEW i \in I, \A j \in I : rank[j] < rank[i] => j \in Good
      PROVE  i \in Good
  <2>1. At(i, f) \in R[i]
    BY <1>2, <1>8
  <2> QED
    BY <1>7, <2>1
<1>9. \A i \in I : f[i] \in R[i]
  <2> HIDE DEF Good, I
  <2>1. \A i \in I : (\A j \in I : rank[j] < rank[i] => j \in Good) => i \in Good
    BY <1>8
  <2>2. \A i \in I : i \in Good
    BY <1>3, <2>1, RankInduction
  <2> QED
    BY <2>2 DEF Good
<1>10. SkipValue(d, x) = f[<<x.cur, AnyValue>>]
  BY DEF SkipValue, f
<1>11. <<x.cur, AnyValue>> \in I
  BY <1>0
<1>12. f[<<x.cur, AnyValue>>] \in R[<<x.cur, AnyValue>>]
  BY <1>9, <1>11
<1>13. R[<<x.cur, AnyValue>>] = {t \in State : Skipped(To(x, x.cur), t)}
  BY <1>11
<1>14. To(x, x.cur) = x
  BY <1>0 DEF To, State
<1> QED
  BY <1>10, <1>12, <1>13, <1>14

\* json_skip_key_value_pair
LEMMA PairIsSkipped ==
    ASSUME NEW d, NEW x, Sound(x)
    PROVE  Skipped(x, SkipKeyValuePair(d, x))
<1> DEFINE t == SkipKey(d, x)
           u == SkipKeyValuePair(d, x)
<1>1. Skipped(x, t) /\ Reached(x, t) /\ Sound(t)
  BY KeyIsSkipped, SkippedIsReached DEF Skipped, From
<1>2. u = IF t.ok THEN SkipValue(d, t) ELSE t
  BY DEF SkipKeyValuePair
<1> HIDE DEF t, u
<1>3. Reached(t, SkipValue(d, t))
  BY <1>1, SkipValueIs, SkippedIsReached
<1>4. Skipped(x, u)
  BY <1>1, <1>2, <1>3, Continues
<1> QED
  BY <1>4 DEF u

-----------------------------------------------------------------------------
(***************************************************************************)
(* Strings that are decoded in place.                                      *)
(***************************************************************************)
LEMMA EscapesAreBytes == \A b \in DOMAIN Escape : Escape[b] \in Byte
<1> SUFFICES ASSUME NEW b \in {34, 92, 47, 98, 102, 110, 114, 116}
             PROVE  Escape[b] \in Byte
  BY DEF Escape
<1>1. Escape[b] \in {8, 12, 10, 13, 9, 34, 92, 47}
  BY DEF Escape
<1> QED
  BY <1>1, Bytes

LEMMA FollowingIs ==
    ASSUME NEW b \in Byte
    PROVE  \E n \in 0 .. 3 : DOMAIN Following(b) = 1 .. n /\ Len(Following(b)) = n
<1>0. b \in Nat /\ b <= 255
  BY Bytes
<1>1. CASE b < 128
  BY <1>0, <1>1 DEF Following
<1>2. CASE b \in 194..223
  BY <1>0, <1>2 DEF Following
<1>3. CASE b \in 224..239
  BY <1>0, <1>3 DEF Following
<1>4. CASE b \in 240..244
  BY <1>0, <1>4 DEF Following
<1>5. CASE b \in 128..193 \union 245..255
  BY <1>0, <1>5 DEF Following
<1> QED
  BY <1>0, <1>1, <1>2, <1>3, <1>4, <1>5

LEMMA PutIs ==
    ASSUME NEW n \in Nat, NEW d \in [1 .. n -> Byte], NEW p \in Nat, NEW bytes \in Seq(Byte)
    PROVE  /\ Put(d, p, bytes) \in [1 .. n -> Byte]
           /\ \A q \in 1 .. n : q < p \/ q >= p + Len(bytes) => Put(d, p, bytes)[q] = d[q]
           /\ p \in 1 .. n /\ Len(bytes) >= 1 => Put(d, p, bytes)[p] = bytes[1]
<1>1. ASSUME NEW q \in 1 .. n
      PROVE  /\ q \in p .. (p + Len(bytes) - 1) => bytes[q - p + 1] \in Byte
             /\ q < p \/ q >= p + Len(bytes) => q \notin p .. (p + Len(bytes) - 1)
  <2>1. Len(bytes) \in Nat
    OBVIOUS
  <2>2. q \in p .. (p + Len(bytes) - 1) => q - p + 1 \in 1 .. Len(bytes)
    BY <2>1
  <2> QED
    BY <2>1, <2>2
<1>2. DOMAIN d = 1 .. n /\ \A q \in 1 .. n : d[q] \in Byte
  OBVIOUS
<1> QED
  BY <1>1, <1>2 DEF Put

\* The string at y of the document e, of which m bytes have been written from
\* `at` on, is decoded: if these were behind the tokenizer, they still are, what
\* is ahead of it is as it was, and a 0 ends what has been written.
Document(n) == [1 .. n -> Byte]
Outcome(n) == [s: State, d: Document(n), size: Nat]

Decoded(n, at, e, y, m, r) ==
    /\ r \in Outcome(n)
    /\ Skipped(y, r.s)
    /\ \A q \in 1 .. n : q < at + m => r.d[q] = e[q]
    /\ at + m < y.cur => /\ at + r.size <= r.s.cur
                         /\ \A q \in r.s.cur .. n : r.d[q] = e[q]
                         /\ r.s.ok => m < r.size /\ r.d[at + r.size - 1] = 0

LEMMA ResultIsDecoded ==
    ASSUME NEW n \in Nat, NEW d \in Document(n), NEW x, Sound(x), NEW at \in Nat,
           NEW size \in Nat, NEW t, Skipped(x, t), ~t.ok
    PROVE  Decoded(n, at, d, x, size, [s |-> t, d |-> d, size |-> size])
<1> DEFINE r == [s |-> t, d |-> d, size |-> size]
<1>1. t \in State /\ x.cur <= t.cur /\ t.cur \in Nat /\ x.cur \in Nat
  BY DEF Skipped, From, Sound, State
<1>2. r \in Outcome(n) /\ r.s = t /\ r.d = d /\ r.size = size
  BY <1>1 DEF Outcome
<1> HIDE DEF r
<1> QED
  BY <1>1, <1>2 DEF Decoded, r

LEMMA WriteIsDecoded ==
    ASSUME NEW n \in Nat, NEW d \in Document(n), NEW x, Sound(x), x.err = None,
           NEW at \in Nat, NEW size \in Nat, NEW bytes \in Seq(Byte),
           NEW p \in x.cur + 1 .. x.end, x.cur + Len(bytes) <= p, NEW r,
           Decoded(n, at, Put(d, at + size, bytes), To(x, p), size + Len(bytes), r)
    PROVE  Decoded(n, at, d, x, size, r)
<1> DEFINE e == Put(d, at + size, bytes)
<1>0. x.cur \in Nat \ {0} /\ x.end \in Nat /\ p \in x.cur .. x.end /\ Len(bytes) \in Nat
  BY DEF Sound, State
<1>1. Ahead(x, To(x, p)) /\ Sound(To(x, p)) /\ To(x, p).cur = p
  BY <1>0, MovesAhead
<1>2. Skipped(x, r.s)
  BY <1>1, SkippedOn DEF Decoded
<1>3. p <= r.s.cur /\ r.s.cur \in Nat
  BY <1>1 DEF Decoded, Skipped, From, Sound, State
<1>4. ASSUME at + size < x.cur
      PROVE  /\ at + r.size <= r.s.cur /\ \A q \in r.s.cur .. n : r.d[q] = d[q]
             /\ r.s.ok => size < r.size /\ r.d[at + r.size - 1] = 0
  <2>1. at + (size + Len(bytes)) < p
    BY <1>0, <1>4
  <2>2. /\ at + r.size <= r.s.cur /\ \A q \in r.s.cur .. n : r.d[q] = e[q]
        /\ r.s.ok => size + Len(bytes) < r.size /\ r.d[at + r.size - 1] = 0
    BY <1>1, <2>1 DEF Decoded
  <2>3. ASSUME NEW q \in r.s.cur .. n
        PROVE  e[q] = d[q]
    <3>1. q \in 1 .. n /\ p <= q
      BY <1>0, <1>3
    <3>2. q >= (at + size) + Len(bytes) /\ at + size \in Nat
      <4>1. q \in Nat /\ p \in Nat
        BY <1>0, <3>1
      <4> QED
        BY <1>0, <2>1, <3>1, <4>1
    <3> QED
      BY <3>1, <3>2, PutIs DEF Document
  <2>4. size + Len(bytes) < r.size => size < r.size
    BY <1>0 DEF Decoded, Outcome
  <2> QED
    BY <2>2, <2>3, <2>4
<1>5. ASSUME NEW q \in 1 .. n, q < at + size
      PROVE  r.d[q] = d[q]
  <2>1. q < at + (size + Len(bytes)) /\ at + size \in Nat
    BY <1>0, <1>5
  <2>2. r.d[q] = e[q]
    BY <2>1 DEF Decoded
  <2>3. e[q] = d[q]
    BY <1>5, <2>1, PutIs DEF Document
  <2> QED
    BY <2>2, <2>3
<1> QED
  BY <1>2, <1>4, <1>5 DEF Decoded

LEMMA QuoteIsDecoded ==
    ASSUME NEW n \in Nat, NEW d \in Document(n), NEW x, Sound(x), x.cur < x.end,
           x.end <= n + 1, NEW at \in Nat \ {0}, NEW size \in Nat,
           NEW e, e = Put(d, at + size, << 0 >>),
           NEW r, r = [s |-> SkipPostValue(e, Step(x)), d |-> e, size |-> size + 1]
    PROVE  Decoded(n, at, d, x, size, r)
<1>0. x.cur \in Nat \ {0} /\ at + size \in Nat
  BY DEF Sound, State
<1>1. Ahead(x, Step(x)) /\ Sound(Step(x)) /\ Step(x).cur = x.cur + 1
  BY StepIsAhead DEF Ahead
<1>2. Skipped(x, r.s)
  <2>1. x.cur < Step(x).cur
    BY <1>0, <1>1
  <2> QED
    BY <1>1, <2>1, PostValueIsReached, ReachedOn
<1>3. <<0>> \in Seq(Byte) /\ Len(<<0>>) = 1
  <2>1. 0 \in Byte
    BY Bytes
  <2> QED
    BY <2>1, Tuples
<1>4. /\ e \in Document(n)
      /\ \A q \in 1 .. n : q < at + size \/ q >= at + size + 1 => e[q] = d[q]
      /\ at + size \in 1 .. n => e[at + size] = 0
  <2>1. PICK bytes \in Seq(Byte) : bytes = <<0>> /\ Len(bytes) = 1
    BY <1>3
  <2>2. PICK p \in Nat : p = at + size
    BY <1>0
  <2>3. e = Put(d, p, bytes)
    BY <2>1, <2>2
  <2>4. /\ Put(d, p, bytes) \in [1 .. n -> Byte]
        /\ \A q \in 1 .. n : q < p \/ q >= p + Len(bytes) => Put(d, p, bytes)[q] = d[q]
        /\ p \in 1 .. n /\ Len(bytes) >= 1 => Put(d, p, bytes)[p] = bytes[1]
    <3>1. d \in [1 .. n -> Byte]
      BY DEF Document
    <3> QED
      BY <3>1, PutIs
  <2>5. ASSUME NEW q \in 1 .. n, q < at + size \/ q >= at + size + 1
        PROVE  q < p \/ q >= p + Len(bytes)
    BY <2>1, <2>2, <2>5
  <2>6. bytes[1] = 0 /\ Len(bytes) >= 1
    BY <2>1
  <2> QED
    BY <2>2, <2>3, <2>4, <2>5, <2>6 DEF Document
<1>5. x.cur + 1 <= r.s.cur /\ r.s.cur \in Nat /\ r.s \in State
  <2>1. Reached(Step(x), r.s)
    BY <1>1, PostValueIsReached
  <2> QED
    BY <1>1, <2>1 DEF Reached, From, Sound, State
<1>6. r \in Outcome(n)
  BY <1>4, <1>5 DEF Outcome
<1>7. ASSUME at + size < x.cur
      PROVE  /\ at + r.size <= r.s.cur /\ \A q \in r.s.cur .. n : r.d[q] = d[q]
             /\ size < r.size /\ r.d[at + r.size - 1] = 0
  <2>1. at + (size + 1) <= r.s.cur
    BY <1>0, <1>5, <1>7
  <2>2. ASSUME NEW q \in r.s.cur .. n
        PROVE  q \in 1 .. n /\ q >= at + size + 1
    BY <1>0, <1>5, <1>7
  <2>3. at + size \in 1 .. n /\ at + (size + 1) - 1 = at + size /\ size < size + 1
    BY <1>0, <1>7 DEF Sound, State
  <2> QED
    BY <1>4, <2>1, <2>2, <2>3
<1>8. \A q \in 1 .. n : q < at + size => r.d[q] = d[q]
  BY <1>4
<1> QED
  BY <1>2, <1>6, <1>7, <1>8 DEF Decoded

\* g decodes strings from every place ahead, in whatever the document has
\* become; and h is g, as far as that goes.
Decodes(n, at, x, g, h) ==
    \A e \in Document(n), q \in x.cur + 1 .. x.end, m \in Nat :
        /\ Decoded(n, at, e, To(x, q), m, g[<<e, q, m>>])
        /\ h[<<e, q, m>>] = g[<<e, q, m>>]

LEMMA DecodeAtIs ==
    ASSUME NEW n \in Nat, NEW d \in Document(n), NEW x, Sound(x), x.err = None,
           x.end <= n + 1, NEW at \in Nat \ {0}, NEW size \in Nat, NEW g, NEW h,
           Decodes(n, at, x, g, h)
    PROVE  /\ Decoded(n, at, d, x, size, DecodeAt(d, x, at, size, g))
           /\ DecodeAt(d, x, at, size, h) = DecodeAt(d, x, at, size, g)
<1> DEFINE b == d[x.cur]
           u == UnescapeUnicode(d, x, x.cur + 1)
           classes == Following(b)
           wrong == FirstWrong(d, x, x.cur + 1, classes)
           Result(t) == [s |-> t, d |-> d, size |-> size]
           Write(decode, bytes, next) ==
                decode[<<Put(d, at + size, bytes), next, size + Len(bytes)>>]
           ended == Put(d, at + size, <<0>>)
           quoted == [s |-> SkipPostValue(ended, Step(x)), d |-> ended, size |-> size + 1]
           copied == SubSeq(d, x.cur, x.cur + Len(classes))
           escaped == <<Escape[d[x.cur + 1]]>>
           R(decode) ==
                IF AtEnd(x) THEN Result(Err(x, x.end, "end"))
                ELSE IF b = Quote THEN quoted
                ELSE IF b = Backslash
                THEN IF Is(d, Step(x), DOMAIN Escape) THEN Write(decode, escaped, x.cur + 2)
                     ELSE IF ~Is(d, Step(x), {LetterU})
                     THEN Result(Fault(x, x.cur + 1, "escape"))
                     ELSE IF u.err # None THEN Result(Err(x, u.at, u.err))
                     ELSE IF u.bytes = <<0>> THEN Result(Err(x, u.at, "character"))
                     ELSE Write(decode, u.bytes, u.at + 1)
                ELSE IF b < 32 THEN Result(Err(x, x.cur, "character"))
                ELSE IF classes = <<{}>> THEN Result(Err(x, x.cur, "utf8"))
                ELSE IF wrong > 0 THEN Result(Fault(x, x.cur + wrong, "utf8"))
                ELSE Write(decode, copied, x.cur + Len(classes) + 1)
           Good(r) == Decoded(n, at, d, x, size, r)
<1>0. x.cur \in Nat \ {0} /\ x.end \in Nat /\ x.cur <= x.end
  BY DEF Sound, State
<1>1. DecodeAt(d, x, at, size, g) = R(g) /\ DecodeAt(d, x, at, size, h) = R(h)
  BY DEF DecodeAt
<1>2. ASSUME NEW t, Skipped(x, t), ~t.ok
      PROVE  Good(Result(t))
  BY <1>2, ResultIsDecoded
<1>3. ASSUME NEW bytes \in Seq(Byte), NEW p \in x.cur + 1 .. x.end, x.cur + Len(bytes) <= p
      PROVE  /\ Good(Write(g, bytes, p))
             /\ Write(h, bytes, p) = Write(g, bytes, p)
  <2> USE DEF Decodes
  <2>1. at + size \in Nat /\ size + Len(bytes) \in Nat
    OBVIOUS
  <2>2. Put(d, at + size, bytes) \in Document(n)
    BY <2>1, PutIs DEF Document
  <2>3. /\ Decoded(n, at, Put(d, at + size, bytes), To(x, p), size + Len(bytes), Write(g, bytes, p))
        /\ Write(h, bytes, p) = Write(g, bytes, p)
    BY <2>1, <2>2
  <2> HIDE DEF Write
  <2> QED
    BY <1>3, <2>3, WriteIsDecoded
<1>4. ASSUME NEW p \in Nat, x.cur <= p, NEW msg \in Errors, msg # None
      PROVE  Good(Result(Fault(x, p, msg)))
  <2>1. Skipped(x, Fault(x, p, msg)) /\ ~Fault(x, p, msg).ok
    BY <1>4, FaultIsReached DEF Skipped, Reached
  <2> QED
    BY <1>2, <2>1
<1>5. ASSUME NEW p \in x.cur .. x.end, NEW msg \in Errors, msg # None
      PROVE  Good(Result(Err(x, p, msg)))
  <2>1. Skipped(x, Err(x, p, msg)) /\ ~Err(x, p, msg).ok
    BY <1>5, ErrIsReached DEF Skipped, Reached
  <2> QED
    BY <1>2, <2>1
<1> HIDE DEF b, u, classes, wrong, Result, Write, quoted, copied, escaped, Good
<1>6. CASE AtEnd(x)
  <2>1. x.end \in x.cur .. x.end
    BY <1>0
  <2>2. Good(Result(Err(x, x.end, "end")))
    BY <1>5, <2>1, ErrorNames
  <2> QED
    BY <1>1, <1>6, <2>2 DEF Good
<1>7. ASSUME ~AtEnd(x)
      PROVE  /\ x.cur < x.end /\ x.cur \in x.cur .. x.end /\ x.cur + 1 \in Nat
             /\ Step(x).cur = x.cur + 1 /\ Step(x).end = x.end
  <2>1. x.cur < x.end
    BY <1>0, <1>7 DEF AtEnd
  <2> QED
    BY <1>0, <2>1, StepIsAhead DEF Ahead
<1>8. CASE ~AtEnd(x) /\ b = Quote
  <2>1. Good(quoted)
    BY <1>7, <1>8, QuoteIsDecoded DEF quoted, Good
  <2> QED
    BY <1>1, <1>8, <2>1 DEF Good
<1>9. CASE ~AtEnd(x) /\ b # Quote /\ b = Backslash /\ Is(d, Step(x), DOMAIN Escape)
  <2>1. Escape[d[x.cur + 1]] \in Byte /\ x.cur + 1 < x.end
    BY <1>7, <1>9, EscapesAreBytes DEF Is
  <2>2. escaped \in Seq(Byte) /\ Len(escaped) = 1
    BY <2>1, Tuples DEF escaped
  <2>3. x.cur + 2 \in x.cur + 1 .. x.end /\ x.cur + Len(escaped) <= x.cur + 2
    BY <1>0, <2>1, <2>2
  <2>4. /\ Good(Write(g, escaped, x.cur + 2))
        /\ Write(h, escaped, x.cur + 2) = Write(g, escaped, x.cur + 2)
    BY <1>3, <2>2, <2>3
  <2> QED
    BY <1>1, <1>9, <2>4 DEF Good
<1>10. CASE /\ ~AtEnd(x) /\ b # Quote /\ b = Backslash
            /\ ~Is(d, Step(x), DOMAIN Escape) /\ ~Is(d, Step(x), {LetterU})
  <2>1. x.cur + 1 \in Nat /\ x.cur <= x.cur + 1
    BY <1>0
  <2>2. Good(Result(Fault(x, x.cur + 1, "escape")))
    BY <1>4, <2>1, ErrorNames
  <2> QED
    BY <1>1, <1>10, <2>2 DEF Good
<1>11. CASE /\ ~AtEnd(x) /\ b # Quote /\ b = Backslash
            /\ ~Is(d, Step(x), DOMAIN Escape) /\ Is(d, Step(x), {LetterU})
  <2>1. x.cur + 1 \in Nat /\ x.cur <= x.cur + 1 /\ x.cur + 1 < x.end
    BY <1>0, <1>7, <1>11 DEF Is
  <2>2. /\ u.err \in Errors /\ u.at \in x.cur .. x.end
        /\ u.err = None => /\ u.at \in (x.cur + 1) + 4 .. x.end - 1
                           /\ u.bytes \in Seq(Byte) /\ Len(u.bytes) \in 1 .. 4
    BY <2>1, UnescapeIs DEF u
  <2>3. CASE u.err # None
    <3>1. Good(Result(Err(x, u.at, u.err)))
      BY <1>5, <2>2, <2>3
    <3> QED
      BY <1>1, <1>11, <2>3, <3>1 DEF Good
  <2>4. CASE u.err = None
    <3>1. Good(Result(Err(x, u.at, "character")))
      BY <1>5, <2>2, ErrorNames
    <3>2. PICK bytes \in Seq(Byte), q \in (x.cur + 1) + 4 .. x.end - 1 :
              bytes = u.bytes /\ q = u.at /\ Len(bytes) \in 1 .. 4
      BY <2>2, <2>4
    <3>3. PICK p \in x.cur + 1 .. x.end : p = u.at + 1 /\ x.cur + Len(bytes) <= p
      <4>1. q + 1 \in x.cur + 1 .. x.end
        BY <1>0
      <4>2. x.cur + Len(bytes) <= q + 1
        <5>1. PICK k \in 1 .. 4 : k = Len(bytes)
          BY <3>2
        <5>2. x.cur + k <= q + 1
          BY <1>0
        <5> QED
          BY <5>1, <5>2
      <4>3. q + 1 = u.at + 1
        BY <3>2
      <4> QED
        BY <4>1, <4>2, <4>3
    <3>4. /\ Good(Write(g, bytes, p))
          /\ Write(h, bytes, p) = Write(g, bytes, p)
      BY <1>3, <3>3
    <3>5. /\ Good(Write(g, u.bytes, u.at + 1))
          /\ Write(h, u.bytes, u.at + 1) = Write(g, u.bytes, u.at + 1)
      BY <3>2, <3>3, <3>4
    <3> QED
      BY <1>1, <1>11, <2>4, <3>1, <3>5 DEF Good
  <2> QED
    BY <2>3, <2>4
<1>12. CASE ~AtEnd(x) /\ b # Quote /\ b # Backslash
  <2>1. b \in Byte /\ x.cur + 1 \in Nat /\ x.cur <= x.cur + 1 /\ x.cur + 1 <= x.end
    BY <1>0, <1>7, <1>12 DEF b, Document
  <2>2. PICK k \in 0 .. 3 : DOMAIN classes = 1 .. k /\ Len(classes) = k
    BY <2>1, FollowingIs DEF classes
  <2>3. k \in Nat
    BY <2>2
  <2>4. wrong \in 0 .. k /\ (wrong = 0 => (x.cur + 1) + k <= x.end)
    BY <2>1, <2>2, <2>3, Zenon, FirstWrongIs DEF wrong
  <2>5. /\ Good(Result(Err(x, x.cur, "character"))) /\ Good(Result(Err(x, x.cur, "utf8")))
    BY <1>5, <1>7, <1>12, ErrorNames
  <2>6. CASE wrong > 0
    <3>1. x.cur + wrong \in Nat /\ x.cur <= x.cur + wrong
      BY <1>0, <2>4
    <3>2. Good(Result(Fault(x, x.cur + wrong, "utf8")))
      BY <1>4, <3>1, ErrorNames
    <3> QED
      BY <1>1, <1>12, <2>5, <2>6, <3>2 DEF Good
  <2>7. CASE wrong = 0
    <3>1. x.cur + k + 1 \in x.cur + 1 .. x.end
      BY <1>0, <2>2, <2>4, <2>7
    <3>2. copied \in Seq(Byte) /\ Len(copied) = k + 1
      <4>1. \A i \in x.cur .. x.cur + k : d[i] \in Byte
        BY <1>0, <2>2, <3>1 DEF Document
      <4>2. x.cur \in Int /\ x.cur + k \in Int /\ x.cur <= x.cur + k
            /\ (x.cur + k) - x.cur + 1 = k + 1
        BY <1>0, <2>2
      <4>3. copied = SubSeq(d, x.cur, x.cur + k)
        BY <2>2 DEF copied
      <4> QED
        BY <4>1, <4>2, <4>3, SubSeqProperties
    <3>3. x.cur + Len(copied) <= x.cur + k + 1
      BY <1>0, <2>2, <3>2
    <3>4. /\ Good(Write(g, copied, x.cur + k + 1))
          /\ Write(h, copied, x.cur + k + 1) = Write(g, copied, x.cur + k + 1)
      BY <1>3, <3>1, <3>2, <3>3
    <3> QED
      BY <1>1, <1>12, <2>2, <2>5, <2>7, <3>4 DEF Good
  <2> QED
    BY <2>2, <2>4, <2>6, <2>7
<1> QED
  BY <1>6, <1>8, <1>9, <1>10, <1>11, <1>12

\* json_get_string, from behind the opening quote.
LEMMA DecodeIs ==
    ASSUME NEW n \in Nat, NEW d \in Document(n), NEW x, Sound(x), x.err = None,
           x.end <= n + 1, NEW at \in Nat \ {0}, NEW size \in Nat
    PROVE  Decoded(n, at, d, x, size, Decode(d, x, at, size))
<1> DEFINE I == Document(n) \X (1 .. x.end) \X Nat
           rank == [i \in I |-> x.end - i[2]]
           R == [i \in I |-> {r \in Outcome(n) : Decoded(n, at, i[1], To(x, i[2]), i[3], r)}]
           T == Typed(I, Outcome(n), R)
           At(i, g) == DecodeAt(i[1], To(x, i[2]), at, i[3], g)
           Body(g) == [i \in I |-> At(i, g)]
           Round == [g \in T |-> Body(g)]
           f == CHOOSE f : f = Body(f)
<1>0. x.cur \in Nat \ {0} /\ x.end \in Nat /\ x.cur <= x.end /\ x \in State
  BY DEF Sound, State
<1>1. ASSUME NEW p \in 1 .. x.end
      PROVE  Sound(To(x, p)) /\ To(x, p).cur = p /\ To(x, p).end = x.end /\ To(x, p).err = None
  BY <1>0 DEF Sound, State, To
<1>2. ASSUME NEW i \in I, NEW g, NEW h,
             \A j \in I : rank[j] < rank[i] => g[j] \in R[j] /\ h[j] = g[j]
      PROVE  At(i, g) \in R[i] /\ At(i, h) = At(i, g)
  <2>1. PICK e \in Document(n), p \in 1 .. x.end, m \in Nat : i = <<e, p, m>>
    OBVIOUS
  <2> DEFINE y == To(x, p)
  <2>2. /\ Sound(y) /\ y.cur = p /\ y.end = x.end /\ y.err = None
        /\ \A q : To(y, q) = To(x, q)
    BY <1>0, <1>1, MovesCombine
  <2>3. R[i] = {r \in Outcome(n) : Decoded(n, at, e, y, m, r)}
    BY <2>1
  <2>4. ASSUME NEW c \in Document(n), NEW q \in p + 1 .. x.end, NEW k \in Nat
        PROVE  /\ Decoded(n, at, c, To(x, q), k, g[<<c, q, k>>])
               /\ h[<<c, q, k>>] = g[<<c, q, k>>]
    <3>1. <<c, q, k>> \in I
      BY <1>0
    <3>2. rank[<<c, q, k>>] < rank[i]
      BY <1>0, <2>1, <3>1
    <3>3. g[<<c, q, k>>] \in R[<<c, q, k>>] /\ h[<<c, q, k>>] = g[<<c, q, k>>]
      BY <1>2, <3>1, <3>2
    <3> QED
      BY <3>1, <3>3
  <2> HIDE DEF R, I, rank
  <2>5. Decodes(n, at, y, g, h)
    <3>1. ASSUME NEW c \in Document(n), NEW q \in y.cur + 1 .. y.end, NEW k \in Nat
          PROVE  /\ Decoded(n, at, c, To(y, q), k, g[<<c, q, k>>])
                 /\ h[<<c, q, k>>] = g[<<c, q, k>>]
      BY <2>2, <2>4
    <3> QED
      BY <3>1 DEF Decodes
  <2>6. At(i, g) = DecodeAt(e, y, at, m, g) /\ At(i, h) = DecodeAt(e, y, at, m, h)
    BY <2>1
  <2> HIDE DEF y, At
  <2>7. y.end <= n + 1
    BY <2>2
  <2>8. /\ Decoded(n, at, e, y, m, DecodeAt(e, y, at, m, g))
        /\ DecodeAt(e, y, at, m, h) = DecodeAt(e, y, at, m, g)
    BY <2>2, <2>5, <2>7, DecodeAtIs
  <2> QED
    BY <2>3, <2>6, <2>8 DEF Decoded
<1>3. rank \in [I -> Nat] /\ \A i \in I : rank[i] < x.end
  BY <1>0
<1>4. T # {}
  <2> DEFINE t == Err(x, x.end, "end")
             r(i) == [s |-> t, d |-> i[1], size |-> i[3]]
  <2>1. ASSUME NEW p \in 1 .. x.end
        PROVE  Skipped(To(x, p), t) /\ ~t.ok
    <3>1. x.end \in To(x, p).cur .. To(x, p).end /\ Err(To(x, p), x.end, "end") = t
      BY <1>0, <1>1 DEF Err
    <3> QED
      BY <1>1, <3>1, ErrIsReached, ErrorNames DEF Skipped, Reached
  <2> HIDE DEF t
  <2>2. ASSUME NEW i \in I
        PROVE  Decoded(n, at, i[1], To(x, i[2]), i[3], r(i))
    <3>1. i[1] \in Document(n) /\ i[2] \in 1 .. x.end /\ i[3] \in Nat
      OBVIOUS
    <3> QED
      BY <1>1, <2>1, <3>1, ResultIsDecoded
  <2> HIDE DEF r, I
  <2>3. [i \in I |-> r(i)] \in T
    BY <2>2 DEF Typed, Decoded
  <2> QED
    BY <2>3
<1> HIDE DEF rank
<1>5. ASSUME NEW g \in T
      PROVE  Body(g) \in T
  <2>1. ASSUME NEW i \in I
        PROVE  At(i, g) \in R[i]
    BY <1>2 DEF Typed
  <2> QED
    BY <2>1 DEF Typed
<1>6. \E u : u = Body(u)
  <2>1. Round \in [T -> T]
    BY <1>5
  <2>2. ASSUME NEW g \in T, NEW h \in T, NEW i \in I,
               \A j \in I : rank[j] < rank[i] => g[j] = h[j]
        PROVE  Round[g][i] = Round[h][i]
    <3>1. \A j \in I : rank[j] < rank[i] => g[j] \in R[j] /\ h[j] = g[j]
      BY <2>2 DEF Typed
    <3>2. At(i, h) = At(i, g)
      BY <1>2, <3>1
    <3> QED
      BY <3>2
  <2> HIDE DEF Round, R, I
  <2>3. \A g, h \in T : \A i \in I :
            (\A j \in I : rank[j] < rank[i] => g[j] = h[j]) => Round[g][i] = Round[h][i]
    BY <2>2
  <2>4. Recursion(I, Outcome(n), R, rank, x.end, Round)
    BY <1>0, <1>3, <1>4, <2>1, <2>3 DEF Recursion
  <2>5. \E u \in T : u = Round[u]
    BY <2>4, RecursionExists
  <2> QED
    BY <2>5 DEF Round
<1>7. f = Body(f)
  BY <1>6
<1> HIDE DEF f
<1> DEFINE Good == {i \in I : f[i] \in R[i]}
<1>8. ASSUME NEW i \in I, \A j \in I : rank[j] < rank[i] => j \in Good
      PROVE  i \in Good
  <2>1. At(i, f) \in R[i]
    BY <1>2, <1>8
  <2> QED
    BY <1>7, <2>1
<1>9. \A i \in I : f[i] \in R[i]
  <2> HIDE DEF Good, I
  <2>1. \A i \in I : (\A j \in I : rank[j] < rank[i] => j \in Good) => i \in Good
    BY <1>8
  <2>2. \A i \in I : i \in Good
    BY <1>3, <2>1, RankInduction
  <2> QED
    BY <2>2 DEF Good
<1>10. Decode(d, x, at, size) = f[<<d, x.cur, size>>]
  <2>1. DOMAIN d = 1 .. n
    BY DEF Document
  <2> QED
    BY <2>1 DEF Decode, f, Document
<1>11. <<d, x.cur, size>> \in I
  BY <1>0
<1>12. f[<<d, x.cur, size>>] \in R[<<d, x.cur, size>>]
  BY <1>9, <1>11
<1>13. \A r \in R[<<d, x.cur, size>>] : Decoded(n, at, d, To(x, x.cur), size, r)
  BY <1>11
<1>14. To(x, x.cur) = x
  BY <1>0 DEF To, State
<1> QED
  BY <1>10, <1>12, <1>13, <1>14

\* json_get_string: it takes a string or fails; what it writes ends with a 0 and
\* stays behind the tokenizer; what is ahead of it, and what has been written
\* before, is as it was.
LEMMA StringIsDecoded ==
    ASSUME NEW n \in Nat, NEW d \in Document(n), NEW x, Sound(x), x.end <= n + 1,
           NEW at \in Nat \ {0}, at <= x.cur,
           NEW r, r = GetString(d, x, at)
    PROVE  /\ r.d \in Document(n) /\ r.size \in Nat /\ Matched(x, r.s)
           /\ at + r.size <= r.s.cur
           /\ \A q \in r.s.cur .. n : r.d[q] = d[q]
           /\ \A q \in 1 .. n : q < at => r.d[q] = d[q]
           /\ r.s.ok => 0 < r.size /\ r.d[at + r.size - 1] = 0
<1>0. x.cur \in Nat \ {0} /\ x.end \in Nat
  BY DEF Sound, State
<1>1. CASE Is(d, x, {Quote})
  <2> DEFINE y == Step(x)
  <2>1. /\ Ahead(x, y) /\ Sound(y) /\ y.cur = x.cur + 1 /\ y.err = None /\ y.end = x.end
    BY <1>1, StepIsAhead DEF Is, Ahead
  <2>2. r = Decode(d, y, at, 0)
    BY <1>1 DEF GetString
  <2> HIDE DEF y
  <2>3. Decoded(n, at, d, y, 0, r)
    BY <2>1, <2>2, DecodeIs
  <2>4. Matched(x, r.s)
    BY <2>1, <2>3, SkippedOn DEF Decoded
  <2>5. at + 0 < y.cur /\ at + 0 = at
    BY <1>0, <2>1
  <2> QED
    BY <2>3, <2>4, <2>5 DEF Decoded, Outcome
<1>2. CASE ~Is(d, x, {Quote})
  <2>1. r = [s |-> No(x), d |-> d, size |-> 0]
    BY <1>2 DEF GetString
  <2>2. r.s = No(x) /\ r.d = d /\ r.size = 0
    BY <2>1
  <2>3. Matched(x, r.s) /\ r.s.cur = x.cur /\ ~r.s.ok
    BY <2>2, NoIsMatched, AnswersAreSound
  <2> QED
    BY <1>0, <2>2, <2>3
<1> QED
  BY <1>1, <1>2

-----------------------------------------------------------------------------
(***************************************************************************)
(* Words that are tried.                                                   *)
(***************************************************************************)
\* What is left of the document never grows...
Within(x, t) == Sound(t) /\ x.cur <= t.cur /\ t.end <= x.end

\* ...and shrinks.
Advance(x, t) == Within(x, t) /\ Rest(t) < Rest(x)

LEMMA WithinIsTransitive ==
    ASSUME NEW x, Sound(x), NEW t, Within(x, t), NEW u, Within(t, u)
    PROVE  /\ Within(x, u) /\ Rest(u) \in Nat /\ Rest(t) \in Nat /\ Rest(x) \in Nat
           /\ Rest(u) <= Rest(t) /\ Rest(t) <= Rest(x)
           /\ Advance(x, t) \/ Advance(t, u) => Advance(x, u)
  BY DEF Within, Advance, Rest, Sound, State

LEMMA MatchedIsWithin ==
    ASSUME NEW x, Sound(x), NEW t, Matched(x, t)
    PROVE  Within(x, t) /\ (t.ok => Advance(x, t))
  BY DEF Matched, From, Within, Advance, Rest, Sound, State

LEMMA SkippedIsWithin ==
    ASSUME NEW x, Sound(x), NEW t, Skipped(x, t)
    PROVE  Within(x, t) /\ (Rest(x) > 0 => Advance(x, t))
  BY DEF Skipped, From, Within, Advance, Rest, Sound, State

LEMMA EndIsWithin ==
    ASSUME NEW d, NEW x, Sound(x), NEW bracket, NEW t, t = End(d, x, bracket)
    PROVE  Within(x, t) /\ (~t.ok => Rest(x) > 0)
  BY EndIs DEF Within, Rest, Sound, State

LEMMA TextsAreTexts == \A word \in DOMAIN Text : Text[word] \in Seq(Nat)
<1>1. Text["name"] \in Seq(Nat)
  BY DEF Text
<1>2. Text["output"] \in Seq(Nat)
  BY DEF Text
<1>3. Text["visible"] \in Seq(Nat)
  BY DEF Text
<1>4. Text["change"] \in Seq(Nat)
  BY DEF Text
<1>5. Text["current"] \in Seq(Nat)
  BY DEF Text
<1>6. Text["init"] \in Seq(Nat)
  BY DEF Text
<1>7. Text["focus"] \in Seq(Nat)
  BY DEF Text
<1>8. Text["move"] \in Seq(Nat)
  BY DEF Text
<1>9. Text["rename"] \in Seq(Nat)
  BY DEF Text
<1>10. Text["reload"] \in Seq(Nat)
  BY DEF Text
<1>11. DOMAIN Text = {"name", "output", "visible", "change", "current",
                    "init", "focus", "move", "rename", "reload"}
  BY DEF Text
<1> QED
  BY <1>1, <1>2, <1>3, <1>4, <1>5, <1>6, <1>7, <1>8, <1>9, <1>10, <1>11

Try == [word: DOMAIN Text \union {""}, s: State]

\* A word is taken, if one is there.
Tried(t, r) ==
    /\ r \in Try
    /\ Within(t, r.s)
    /\ r.word # "" => Advance(t, r.s)

LEMMA TryWordIs ==
    ASSUME NEW t, Sound(t), NEW r, Tried(t, r), NEW word \in DOMAIN Text,
           NEW is_key \in BOOLEAN
    PROVE  Tried(t, TryWord(r, word, is_key))
<1> DEFINE u == String(buffer, r.s, Text[word], is_key)
<1>1. Sound(r.s) /\ Within(r.s, u) /\ (u.ok => Advance(r.s, u)) /\ u \in State
  <2>1. Sound(r.s)
    BY DEF Tried, Within
  <2>2. Matched(r.s, u)
    BY <2>1, TextsAreTexts, StringIsMatched
  <2> QED
    BY <2>1, <2>2, MatchedIsWithin DEF Within, Sound
<1>2. TryWord(r, word, is_key) = IF r.word # "" THEN r
                                 ELSE [word |-> IF u.ok THEN word ELSE "", s |-> u]
  BY DEF TryWord
<1> HIDE DEF u
<1>3. Within(t, u) /\ (Advance(r.s, u) => Advance(t, u))
  BY <1>1, WithinIsTransitive DEF Tried
<1>4. CASE r.word # ""
  BY <1>2, <1>4
<1>5. CASE r.word = "" /\ u.ok
  <2>1. TryWord(r, word, is_key) = [word |-> word, s |-> u]
    BY <1>2, <1>5
  <2> DEFINE q == [word |-> word, s |-> u]
  <2>2. q \in Try /\ q.word = word /\ q.s = u
    BY <1>1 DEF Try
  <2> HIDE DEF q
  <2>3. Tried(t, q)
    BY <1>1, <1>3, <1>5, <2>2 DEF Tried
  <2> QED
    BY <2>1, <2>3 DEF q
<1>6. CASE r.word = "" /\ ~u.ok
  <2>1. TryWord(r, word, is_key) = [word |-> "", s |-> u]
    BY <1>2, <1>6
  <2> DEFINE q == [word |-> "", s |-> u]
  <2>2. q \in Try /\ q.word = "" /\ q.s = u
    BY <1>1 DEF Try
  <2> HIDE DEF q
  <2>3. Tried(t, q)
    BY <1>3, <2>2 DEF Tried
  <2> QED
    BY <2>1, <2>3 DEF q
<1> QED
  BY <1>4, <1>5, <1>6

\* One word after the other is tried.
LEMMA TryEachIs ==
    ASSUME NEW t, Sound(t), NEW words \in Seq(DOMAIN Text), NEW is_key \in BOOLEAN
    PROVE  Tried(t, TryEach(t, words, is_key))
<1> DEFINE I == 0 .. Len(words)
           rank == [k \in I |-> k]
           R == [k \in I |-> {r \in Try : Tried(t, r)}]
           T == Typed(I, Try, R)
           At(k, g) == IF k = 0 THEN [word |-> "", s |-> t]
                       ELSE TryWord(g[k - 1], words[k], is_key)
           Body(g) == [k \in I |-> At(k, g)]
           Round == [g \in T |-> Body(g)]
           f == CHOOSE f : f = Body(f)
           N == Len(words) + 1
<1>0. Len(words) \in Nat /\ N \in Nat
  OBVIOUS
<1>1. Tried(t, [word |-> "", s |-> t])
  <2> DEFINE r == [word |-> "", s |-> t]
  <2>1. r \in Try /\ r.word = "" /\ r.s = t
    BY DEF Try, Sound
  <2>2. Within(t, t)
    BY DEF Within, Sound, State
  <2> HIDE DEF r
  <2>3. Tried(t, r)
    BY <2>1, <2>2 DEF Tried
  <2> QED
    BY <2>3 DEF r
<1>2. ASSUME NEW k \in I, NEW g, NEW h,
             \A j \in I : rank[j] < rank[k] => g[j] \in R[j] /\ h[j] = g[j]
      PROVE  At(k, g) \in R[k] /\ At(k, h) = At(k, g)
  <2>1. CASE k = 0
    BY <1>1, <2>1 DEF Tried
  <2>2. CASE k # 0
    <3>1. k - 1 \in I /\ rank[k - 1] < rank[k] /\ words[k] \in DOMAIN Text
      BY <1>0, <2>2
    <3>2. Tried(t, g[k - 1]) /\ h[k - 1] = g[k - 1]
      BY <1>2, <3>1
    <3>3. Tried(t, TryWord(g[k - 1], words[k], is_key))
      BY <3>1, <3>2, TryWordIs
    <3> QED
      BY <2>2, <3>2, <3>3 DEF Tried
  <2> QED
    BY <2>1, <2>2
<1>3. rank \in [I -> Nat] /\ \A k \in I : rank[k] < N
  BY <1>0
<1> HIDE DEF N
<1>4. T # {}
  <2> DEFINE u == [word |-> "", s |-> t]
  <2>1. Tried(t, u)
    BY <1>1
  <2> HIDE DEF u
  <2>2. [k \in I |-> u] \in T
    BY <2>1 DEF Typed, Tried
  <2> QED
    BY <2>2
<1> HIDE DEF rank
<1>5. ASSUME NEW g \in T
      PROVE  Body(g) \in T
  <2>1. ASSUME NEW k \in I
        PROVE  At(k, g) \in R[k]
    BY <1>2 DEF Typed
  <2> QED
    BY <2>1 DEF Typed
<1>6. \E u : u = Body(u)
  <2>1. Round \in [T -> T]
    BY <1>5
  <2>2. ASSUME NEW g \in T, NEW h \in T, NEW k \in I,
               \A j \in I : rank[j] < rank[k] => g[j] = h[j]
        PROVE  Round[g][k] = Round[h][k]
    <3>1. \A j \in I : rank[j] < rank[k] => g[j] \in R[j] /\ h[j] = g[j]
      BY <2>2 DEF Typed
    <3>2. At(k, h) = At(k, g)
      BY <1>2, <3>1
    <3> QED
      BY <3>2
  <2> HIDE DEF Round, R, I
  <2>3. \A g, h \in T : \A k \in I :
            (\A j \in I : rank[j] < rank[k] => g[j] = h[j]) => Round[g][k] = Round[h][k]
    BY <2>2
  <2>4. Recursion(I, Try, R, rank, N, Round)
    BY <1>0, <1>3, <1>4, <2>1, <2>3 DEF Recursion
  <2>5. \E u \in T : u = Round[u]
    BY <2>4, RecursionExists
  <2> QED
    BY <2>5 DEF Round
<1>7. f = Body(f)
  BY <1>6
<1> HIDE DEF f
<1> DEFINE Good == {k \in I : f[k] \in R[k]}
<1>8. ASSUME NEW k \in I, \A j \in I : rank[j] < rank[k] => j \in Good
      PROVE  k \in Good
  <2>1. At(k, f) \in R[k]
    BY <1>2, <1>8
  <2> QED
    BY <1>7, <2>1
<1>9. \A k \in I : f[k] \in R[k]
  <2> HIDE DEF Good, I
  <2>1. \A k \in I : (\A j \in I : rank[j] < rank[k] => j \in Good) => k \in Good
    BY <1>8
  <2>2. \A k \in I : k \in Good
    BY <1>3, <2>1, RankInduction
  <2> QED
    BY <2>2 DEF Good
<1>10. TryEach(t, words, is_key) = f[Len(words)]
  BY DEF TryEach, f
<1>11. Len(words) \in I
  BY <1>0
<1> QED
  BY <1>9, <1>10, <1>11

LEMMA WantedIs == Wanted \in Seq(DOMAIN Text)
<1>1. \A word \in DOMAIN Text : <<word>> \in Seq(DOMAIN Text)
  OBVIOUS
<1>2. {"name", "output", "visible"} \subseteq DOMAIN Text
  BY DEF Text
<1>3. <<>> \in Seq(DOMAIN Text) /\ \A v, w \in Seq(DOMAIN Text) : v \o w \in Seq(DOMAIN Text)
  OBVIOUS
<1> QED
  BY <1>1, <1>2, <1>3 DEF Wanted

LEMMA WordsAreWords ==
    /\ <<"change", "current">> \in Seq(DOMAIN Text)
    /\ <<"name", "output">> \in Seq(DOMAIN Text)
    /\ <<"init", "focus", "move", "rename">> \in Seq(DOMAIN Text)
<1>1. {"name", "output", "change", "current", "init", "focus", "move", "rename"}
        \subseteq DOMAIN Text
  BY DEF Text
<1>2. \A a, b, c, e \in DOMAIN Text :
        <<a, b>> \in Seq(DOMAIN Text) /\ <<a, b, c, e>> \in Seq(DOMAIN Text)
  BY Tuples
<1> QED
  BY <1>1, <1>2

-----------------------------------------------------------------------------
(***************************************************************************)
(* The handlers.  The inductive invariant: what has been written is behind *)
(* the tokenizer, and from there to the end of the document the buffer is  *)
(* the message.  An error ends the document where it is found, so that the *)
(* document's end never reaches back over what has been overwritten.       *)
(***************************************************************************)
Stages == {"done", "start", "list", "event", "element", "current"}

Stage ==
    /\ input \in Inputs
    /\ stage \in Stages
    /\ stage = "start" => s = JsonInit(buffer)

Tokenizer == Sound(s) /\ s.end <= Len(input.payload) + 1

Written ==
    /\ buffer \in Document(Len(input.payload))
    /\ json_buffer \in Nat \ {0} /\ json_buffer <= s.cur
    /\ \A q \in s.cur .. s.end - 1 : buffer[q] = input.payload[q]

Names ==
    stage # "done" =>
        \A p \in {name, output} \ {NULL} :
            p \in Nat \ {0} /\ \E q \in p .. json_buffer - 1 : buffer[q] = 0

Invariant == Stage /\ Tokenizer /\ Written /\ Names

\* What a round of a handler does: it takes something, or ends a loop.
Round ==
    /\ Within(s, s')
    /\ buffer' \in Document(Len(input.payload))
    /\ json_buffer' \in Nat \ {0} /\ json_buffer' <= s'.cur
    /\ \A q \in s'.cur .. s'.end - 1 : buffer'[q] = buffer[q]
    /\ Names'
    /\ stage' \in Stages \ {"start"}
    /\ Rest(s') < Rest(s) \/ Depth[stage'] < Depth[stage]

\* What has been found is kept or forgotten.
Kept == name' \in {name, NULL} /\ output' \in {output, NULL}

LEMMA PayloadIs == Stage => Len(input.payload) \in Nat /\ input.payload \in Seq(Byte)
  BY MessagesAssumption DEF Stage

LEMMA RoundKeepsInvariant ==
    ASSUME Invariant, Round, input' = input
    PROVE  Invariant'
<1>1. /\ s.cur \in Nat /\ s.end \in Nat /\ s'.cur \in Nat /\ s'.end \in Nat
      /\ s.cur <= s'.cur /\ s'.end <= s.end /\ Sound(s') /\ Len(input.payload) \in Nat
  BY PayloadIs DEF Invariant, Round, Within, Tokenizer, Sound, State
<1>2. Stage'
  BY DEF Invariant, Stage, Round
<1>3. Tokenizer'
  BY <1>1 DEF Invariant, Tokenizer
<1>4. \A q \in s'.cur .. s'.end - 1 : buffer'[q] = input.payload[q]
  BY <1>1 DEF Invariant, Written, Round
<1>5. Written'
  BY <1>4 DEF Written, Round
<1> QED
  BY <1>2, <1>3, <1>5 DEF Invariant, Round

LEMMA ParseIsRound ==
    ASSUME Invariant, NEW t, Within(s, t), Parse(t), Kept,
           stage # "done", stage' \in Stages \ {"start"},
           Advance(s, t) \/ Depth[stage'] < Depth[stage]
    PROVE  Round
<1>1. s.cur \in Nat /\ t.cur \in Nat /\ s.cur <= t.cur /\ json_buffer \in Nat
  BY DEF Invariant, Within, Written, Tokenizer, Sound, State
<1>2. Names'
  BY DEF Invariant, Names, Kept, Parse
<1> QED
  BY <1>1, <1>2 DEF Invariant, Written, Round, Parse, Advance

LEMMA ReadIsRound ==
    ASSUME Invariant, NEW t, Advance(s, t), NEW complaint, Read(t, complaint),
           stage \in Stages \ {"start", "done"},
           name' \in {name, json_buffer}, output' \in {output, json_buffer}
    PROVE  Round
<1> DEFINE r == GetString(buffer, t, json_buffer)
           n == Len(input.payload)
<1>1. n \in Nat /\ Sound(t) /\ t.end <= n + 1 /\ json_buffer \in Nat /\ json_buffer # 0
      /\ json_buffer <= t.cur /\ buffer \in Document(n) /\ Sound(s)
  BY PayloadIs DEF Invariant, Tokenizer, Written, Advance, Within, Sound, State
<1>2. /\ s' = r.s /\ buffer' = r.d /\ json_buffer' = json_buffer + r.size
      /\ stage' = "done" \/ (r.s.ok /\ stage' = stage)
  BY DEF Read, ReturnOr, Return
<1> HIDE DEF r, n
<1>3. /\ r.d \in Document(n) /\ r.size \in Nat /\ Matched(t, r.s)
      /\ json_buffer + r.size <= r.s.cur
      /\ \A q \in r.s.cur .. n : r.d[q] = buffer[q]
      /\ \A q \in 1 .. n : q < json_buffer => r.d[q] = buffer[q]
      /\ r.s.ok => 0 < r.size /\ r.d[json_buffer + r.size - 1] = 0
  BY <1>1, StringIsDecoded DEF r
<1>4. Within(t, r.s) /\ Within(s, r.s) /\ Advance(s, r.s)
  BY <1>1, <1>3, MatchedIsWithin, WithinIsTransitive DEF Advance
<1>5. \A q \in s'.cur .. s'.end - 1 : buffer'[q] = buffer[q]
  <2>1. r.s.end \in Nat /\ r.s.end <= n + 1 /\ r.s.cur \in Nat
    BY <1>1, <1>4 DEF Within, Sound, State
  <2> QED
    BY <1>1, <1>2, <1>3, <2>1
<1>6. buffer' \in Document(Len(input.payload))
  BY <1>2, <1>3 DEF n
<1>7. stage' \in Stages \ {"start"}
  BY <1>2 DEF Stages
<1>8. Names'
  <2> SUFFICES ASSUME stage' # "done", NEW p \in {name', output'} \ {NULL}
               PROVE  p \in Nat \ {0} /\ \E q \in p .. json_buffer' - 1 : buffer'[q] = 0
    BY DEF Names
  <2>1. r.s.ok
    BY <1>2
  <2>2. CASE p = json_buffer
    <3> DEFINE q == json_buffer + r.size - 1
    <3>1. q \in p .. json_buffer' - 1 /\ buffer'[q] = 0
      BY <1>1, <1>2, <1>3, <2>1, <2>2
    <3> QED
      BY <1>1, <2>2, <3>1
  <2>3. CASE p \in {name, output}
    <3>1. p \in Nat \ {0} /\ \E q \in p .. json_buffer - 1 : buffer[q] = 0
      BY <2>3 DEF Invariant, Names
    <3>2. PICK q \in p .. json_buffer - 1 : buffer[q] = 0
      BY <3>1
    <3>3. t.cur \in Nat /\ t.cur <= t.end /\ json_buffer - 1 <= n
      BY <1>1 DEF Sound, State
    <3>4. q \in 1 .. n /\ q < json_buffer
      BY <1>1, <3>1, <3>3
    <3>5. buffer'[q] = 0
      BY <1>2, <1>3, <3>2, <3>4
    <3>6. q \in p .. json_buffer' - 1
      BY <1>1, <1>2, <1>3, <3>1
    <3> QED
      BY <3>1, <3>5, <3>6
  <2> QED
    BY <2>2, <2>3
<1> QED
  BY <1>1, <1>2, <1>3, <1>4, <1>5, <1>6, <1>7, <1>8 DEF Round, Advance

LEMMA InitIsInvariant == Init => Invariant
<1> SUFFICES ASSUME Init
             PROVE  Invariant
  OBVIOUS
<1> DEFINE n == Len(buffer)
           marked == Len(buffer) >= 3 /\ SubSeq(buffer, 1, 3) = <<239, 187, 191>>
           x == [cur |-> IF marked THEN 4 ELSE 1, end |-> n + 1, err |-> None, ok |-> TRUE]
<1>1. Stage /\ buffer = input.payload
  BY DEF Init, Stage, Stages
<1>2. n \in Nat /\ buffer \in [1 .. n -> Byte]
  BY <1>1, PayloadIs
<1>3. x.cur \in {1, 4} /\ x.end = n + 1 /\ x.err = None /\ x.ok = TRUE /\ (x.cur = 4 => n >= 3)
  OBVIOUS
<1>4. s = SkipWhitespace(buffer, x)
  BY DEF Init, JsonInit
<1>5. Sound(x)
  BY <1>2 DEF Sound, State, Errors
<1> HIDE DEF x, n
<1>6. Ahead(x, s)
  BY <1>4, <1>5, SkipWhitespaceIsAhead
<1>7. Sound(s) /\ s.end = n + 1 /\ s.cur \in Nat \ {0}
  BY <1>3, <1>6 DEF Ahead, Sound, State
<1>8. json_buffer = 1
  BY DEF Init
<1>9. Tokenizer
  BY <1>1, <1>2, <1>7 DEF Tokenizer, n
<1>10. Written
  BY <1>1, <1>2, <1>7, <1>8 DEF Written, Document, n
<1>11. Names
  BY DEF Init, Names
<1> QED
  BY <1>1, <1>9, <1>10, <1>11 DEF Invariant

LEMMA Depths ==
    /\ Depth["done"] = 0 /\ Depth["start"] = 1 /\ Depth["list"] = 1 /\ Depth["event"] = 1
    /\ Depth["element"] = 2 /\ Depth["current"] = 2
  BY DEF Depth

\* An object or a list is opened, or it ends the handler that none is there.
LEMMA BeginIsRound ==
    ASSUME Invariant, Kept, stage # "done", NEW x, Within(s, x), NEW bracket,
           NEW t, t = Begin(buffer, x, bracket), Parse(t),
           NEW next \in Stages \ {"start"}, NEW complaint,
           IF t.ok THEN stage' = next ELSE ReturnOr(t, complaint)
    PROVE  Round
<1>1. Sound(s) /\ Sound(x)
  BY DEF Invariant, Tokenizer, Within
<1>2. Within(x, t) /\ (t.ok => Advance(x, t))
  BY <1>1, BeginIsMatched, MatchedIsWithin
<1>3. Within(s, t) /\ (t.ok => Advance(s, t))
  BY <1>1, <1>2, WithinIsTransitive
<1>4. stage' = next \/ stage' = "done"
  BY DEF ReturnOr, Return
<1>5. stage' \in Stages \ {"start"}
  BY <1>4 DEF Stages
<1>6. CASE t.ok
  BY <1>3, <1>5, <1>6, ParseIsRound
<1>7. CASE ~t.ok
  <2>1. stage' = "done" /\ stage \in Stages \ {"done"}
    BY <1>7 DEF ReturnOr, Return, Invariant, Stage
  <2>2. Depth[stage'] < Depth[stage]
    BY <2>1, Depths DEF Stages
  <2> QED
    BY <1>3, <1>5, <2>2, ParseIsRound
<1> QED
  BY <1>6, <1>7

\* A bracket is closed.
LEMMA EndIsRound ==
    ASSUME Invariant, Kept, stage # "done", NEW bracket, Parse(End(buffer, s, bracket)),
           \/ stage' = "done"
           \/ stage \in {"element", "current"} /\ stage' \in {"list", "event"}
    PROVE  Round
<1> DEFINE t == End(buffer, s, bracket)
<1>1. Within(s, t)
  BY EndIsWithin DEF Invariant, Tokenizer
<1>2. stage \in Stages \ {"done"}
  BY DEF Invariant, Stage
<1>3. Depth[stage'] < Depth[stage] /\ stage' \in Stages \ {"start"}
  BY <1>2, Depths DEF Stages
<1> HIDE DEF t
<1> QED
  BY <1>1, <1>3, ParseIsRound DEF t

\* A member that is not wanted is skipped.
LEMMA SkipIsRound ==
    ASSUME Invariant, Kept, stage \in Stages \ {"start", "done"}, stage' = stage, Rest(s) > 0,
           NEW x, Within(s, x), Parse(SkipKeyValuePair(buffer, x))
    PROVE  Round
<1> DEFINE u == SkipKeyValuePair(buffer, x)
<1>1. Sound(s) /\ Sound(x)
  BY DEF Invariant, Tokenizer, Within
<1>2. Within(x, u) /\ (Rest(x) > 0 => Advance(x, u))
  BY <1>1, PairIsSkipped, SkippedIsWithin
<1> HIDE DEF u
<1>3. /\ Within(s, u) /\ (Advance(x, u) => Advance(s, u))
      /\ Rest(x) \in Nat /\ Rest(u) \in Nat /\ Rest(s) \in Nat /\ Rest(u) <= Rest(x)
  BY <1>1, <1>2, WithinIsTransitive
<1>4. Advance(s, u)
  BY <1>2, <1>3 DEF Advance
<1> QED
  BY <1>3, <1>4, ParseIsRound DEF u

\* The keys of a member are tried.
LEMMA KeysAreTried ==
    ASSUME Invariant, NEW keys \in Seq(DOMAIN Text), NEW key, key = TryKeys(keys)
    PROVE  /\ Within(s, key.s) /\ Sound(key.s)
           /\ key.word # "" => Advance(s, key.s)
<1>1. Sound(s)
  BY DEF Invariant, Tokenizer
<1>2. key = TryEach(s, keys, TRUE)
  BY DEF TryKeys
<1>3. Tried(s, key)
  BY <1>1, <1>2, TryEachIs
<1> QED
  BY <1>3 DEF Tried, Within

LEMMA OpenReplyIsRound == ASSUME Invariant, OpenReply PROVE Round
<1> DEFINE t == Begin(buffer, s, OpenList)
<1>1. s = JsonInit(buffer) /\ stage = "start"
  BY DEF Invariant, Stage, OpenReply
<1>2. /\ Parse(t) /\ Kept
      /\ IF t.ok THEN stage' = "list" ELSE ReturnOr(t, "no list")
  BY <1>1 DEF OpenReply, Kept, found
<1>3. Within(s, s) /\ "list" \in Stages \ {"start"}
  BY DEF Invariant, Tokenizer, Within, Sound, State, Stages
<1> HIDE DEF t
<1> QED
  BY <1>1, <1>2, <1>3, BeginIsRound DEF t

LEMMA OpenEventIsRound == ASSUME Invariant, OpenEvent PROVE Round
<1> DEFINE t == Begin(buffer, s, OpenObject)
<1>1. s = JsonInit(buffer) /\ stage = "start"
  BY DEF Invariant, Stage, OpenEvent
<1>2. /\ Parse(t) /\ Kept
      /\ IF t.ok THEN stage' = "event" ELSE ReturnOr(t, "no object")
  BY <1>1 DEF OpenEvent, Kept, found
<1>3. Within(s, s) /\ "event" \in Stages \ {"start"}
  BY DEF Invariant, Tokenizer, Within, Sound, State, Stages
<1> HIDE DEF t
<1> QED
  BY <1>1, <1>2, <1>3, BeginIsRound DEF t

LEMMA OpenElementIsRound == ASSUME Invariant, OpenElement PROVE Round
<1> DEFINE t == Begin(buffer, s, OpenObject)
<1>1. stage = "list"
  BY DEF OpenElement
<1>2. /\ Parse(t) /\ Kept
      /\ IF t.ok THEN stage' = "element" ELSE ReturnOr(t, "no object")
  BY DEF OpenElement, Kept
<1>3. Within(s, s) /\ "element" \in Stages \ {"start"}
  BY DEF Invariant, Tokenizer, Within, Sound, State, Stages
<1> HIDE DEF t
<1> QED
  BY <1>1, <1>2, <1>3, BeginIsRound DEF t

LEMMA EndReplyIsRound == ASSUME Invariant, EndReply PROVE Round
<1>1. stage = "list" /\ Parse(End(buffer, s, CloseList)) /\ stage' = "done" /\ Kept
  BY DEF EndReply, Return, Kept, found
<1> QED
  BY <1>1, EndIsRound

LEMMA CloseElementIsRound == ASSUME Invariant, CloseElement PROVE Round
<1>1. stage = "element" /\ Parse(End(buffer, s, CloseObject)) /\ Kept
  BY DEF CloseElement, Kept, found
<1>2. stage' \in {"done", "list"}
  BY DEF CloseElement, Return
<1> QED
  BY <1>1, <1>2, EndIsRound

LEMMA CloseEventIsRound == ASSUME Invariant, CloseEvent PROVE Round
<1>1. stage = "event" /\ Parse(End(buffer, s, CloseObject)) /\ stage' = "done" /\ Kept
  BY DEF CloseEvent, Return, Kept, found
<1> QED
  BY <1>1, EndIsRound

LEMMA CloseCurrentIsRound == ASSUME Invariant, CloseCurrent PROVE Round
<1>1. stage = "current" /\ Parse(End(buffer, s, CloseObject)) /\ stage' = "event" /\ Kept
  BY DEF CloseCurrent, Kept, found
<1> QED
  BY <1>1, EndIsRound

LEMMA MemberIsLeft ==
    ASSUME Invariant, NEW bracket, ~End(buffer, s, bracket).ok
    PROVE  Rest(s) > 0
  BY EndIsWithin DEF Invariant, Tokenizer

LEMMA ElementMemberIsRound == ASSUME Invariant, ElementMember PROVE Round
<1>0. stage = "element" /\ stage \in Stages \ {"start", "done"} /\ Sound(s)
  BY DEF ElementMember, Stages, Invariant, Tokenizer
<1> DEFINE key == TryKeys(Wanted)
           istrue == Match(buffer, key.s, TrueText)
           value == IF istrue.ok THEN istrue ELSE SkipValue(buffer, istrue)
<1>1. Within(s, key.s) /\ Sound(key.s) /\ (key.word # "" => Advance(s, key.s))
  BY WantedIs, KeysAreTried
<1>2. \/ /\ key.word \in {"name", "output"} /\ Read(key.s, "no string")
         /\ name' \in {name, json_buffer} /\ output' \in {output, json_buffer}
      \/ key.word = "visible" /\ Parse(value) /\ stage' = stage /\ Kept
      \/ Parse(SkipKeyValuePair(buffer, key.s)) /\ stage' = stage /\ Kept
  BY DEF ElementMember, Kept
<1>3. Within(key.s, value)
  <2>1. PICK n \in Nat \ {0} : n = 4
    OBVIOUS
  <2>2. DOMAIN TrueText = 1 .. n /\ Len(TrueText) = n
    BY <2>1 DEF TrueText
  <2> HIDE DEF key
  <2>3. Within(key.s, istrue)
    BY <1>1, <2>2, MatchIsMatched, MatchedIsWithin
  <2> HIDE DEF istrue
  <2>4. Within(istrue, SkipValue(buffer, istrue))
    BY <2>3, SkipValueIs, SkippedIsWithin DEF Within
  <2>5. Within(key.s, SkipValue(buffer, istrue))
    BY <1>1, <2>3, <2>4, WithinIsTransitive
  <2> QED
    BY <2>3, <2>5
<1> HIDE DEF key, value
<1>4. CASE /\ key.word \in {"name", "output"} /\ Read(key.s, "no string")
           /\ name' \in {name, json_buffer} /\ output' \in {output, json_buffer}
  BY <1>0, <1>1, <1>4, ReadIsRound
<1>5. CASE key.word = "visible" /\ Parse(value) /\ stage' = stage /\ Kept
  <2>1. Advance(s, value) /\ Within(s, value)
    BY <1>0, <1>1, <1>3, <1>5, WithinIsTransitive
  <2> QED
    BY <1>0, <1>5, <2>1, ParseIsRound
<1>6. CASE Parse(SkipKeyValuePair(buffer, key.s)) /\ stage' = stage /\ Kept
  <2>1. Rest(s) > 0
    BY MemberIsLeft DEF ElementMember
  <2> QED
    BY <1>0, <1>1, <1>6, <2>1, SkipIsRound
<1> QED
  BY <1>2, <1>4, <1>5, <1>6

LEMMA CurrentMemberIsRound == ASSUME Invariant, CurrentMember PROVE Round
<1>0. stage = "current" /\ stage \in Stages \ {"start", "done"}
  BY DEF CurrentMember, Stages
<1> DEFINE key == TryKeys(<<"name", "output">>)
<1>1. Within(s, key.s) /\ (key.word # "" => Advance(s, key.s))
  BY WordsAreWords, KeysAreTried
<1>2. \/ /\ key.word \in {"name", "output"} /\ Read(key.s, "no string")
         /\ name' \in {name, json_buffer} /\ output' \in {output, json_buffer}
      \/ Parse(SkipKeyValuePair(buffer, key.s)) /\ stage' = stage /\ Kept
  BY DEF CurrentMember, Kept
<1> HIDE DEF key
<1>3. CASE /\ key.word \in {"name", "output"} /\ Read(key.s, "no string")
           /\ name' \in {name, json_buffer} /\ output' \in {output, json_buffer}
  BY <1>0, <1>1, <1>3, ReadIsRound
<1>4. CASE Parse(SkipKeyValuePair(buffer, key.s)) /\ stage' = stage /\ Kept
  <2>1. Rest(s) > 0
    BY MemberIsLeft DEF CurrentMember
  <2> QED
    BY <1>0, <1>1, <1>4, <2>1, SkipIsRound
<1> QED
  BY <1>2, <1>3, <1>4

\* The word of a change is tried, and perhaps "reload".
LEMMA ChangeIsRound ==
    ASSUME Invariant, Kept, stage = "event", NEW t, Advance(s, t), Change(t)
    PROVE  Round
<1> DEFINE kind == TryEach(t, <<"init", "focus", "move", "rename">>, FALSE)
           reload == String(buffer, kind.s, Text["reload"], FALSE)
           final == IF ExitOnReload THEN reload ELSE No(kind.s)
<1>0. Sound(s) /\ Sound(t) /\ Within(s, t)
  BY DEF Invariant, Tokenizer, Advance, Within
<1>1. Within(t, kind.s) /\ Sound(kind.s)
  BY <1>0, WordsAreWords, TryEachIs DEF Tried, Within
<1>2. \/ Parse(kind.s) /\ stage' = stage
      \/ Parse(final) /\ stage' = "done"
  BY DEF Change, Return
<1> HIDE DEF kind
<1>3. Within(kind.s, final)
  <2>1. "reload" \in DOMAIN Text /\ Text["reload"] \in Seq(Nat)
    <3>1. "reload" \in DOMAIN Text
      BY DEF Text
    <3> QED
      BY <3>1, TextsAreTexts
  <2>2. Within(kind.s, reload)
    BY <1>1, <2>1, StringIsMatched, MatchedIsWithin
  <2>3. Within(kind.s, No(kind.s))
    BY <1>1, NoIsMatched, MatchedIsWithin
  <2> QED
    BY <2>2, <2>3
<1> HIDE DEF final
<1>4. Within(s, kind.s) /\ Advance(s, kind.s)
  BY <1>0, <1>1, WithinIsTransitive
<1>5. Within(s, final) /\ Advance(s, final)
  BY <1>0, <1>3, <1>4, WithinIsTransitive
<1>6. {"event", "done"} \subseteq Stages \ {"start"}
  BY DEF Stages
<1> QED
  BY <1>2, <1>4, <1>5, <1>6, ParseIsRound

LEMMA EventMemberIsRound == ASSUME Invariant, EventMember PROVE Round
<1>0. stage = "event" /\ stage \in Stages \ {"start", "done"} /\ Kept
  BY DEF EventMember, Stages, Kept
<1> DEFINE key == TryKeys(<<"change", "current">>)
           object == Begin(buffer, key.s, OpenObject)
<1>1. Within(s, key.s) /\ (key.word # "" => Advance(s, key.s))
  BY WordsAreWords, KeysAreTried
<1>2. \/ key.word = "change" /\ Change(key.s)
      \/ Parse(object) /\ IF object.ok THEN stage' = "current" ELSE ReturnOr(object, "no object")
      \/ Parse(SkipKeyValuePair(buffer, key.s)) /\ stage' = stage
  BY DEF EventMember
<1> HIDE DEF key
<1>3. CASE key.word = "change" /\ Change(key.s)
  BY <1>0, <1>1, <1>3, ChangeIsRound
<1>4. CASE Parse(object) /\ IF object.ok THEN stage' = "current" ELSE ReturnOr(object, "no object")
  <2>1. "current" \in Stages \ {"start"} /\ stage # "done"
    BY <1>0 DEF Stages
  <2> HIDE DEF object
  <2> QED
    BY <1>0, <1>1, <1>4, <2>1, BeginIsRound DEF object
<1>5. CASE Parse(SkipKeyValuePair(buffer, key.s)) /\ stage' = stage
  <2>1. Rest(s) > 0
    BY MemberIsLeft DEF EventMember
  <2> QED
    BY <1>0, <1>1, <1>5, <2>1, SkipIsRound
<1> QED
  BY <1>2, <1>3, <1>4, <1>5

LEMMA HandleIsRound == ASSUME Invariant, Handle PROVE Round
<1>1. CASE OpenReply
  BY <1>1, OpenReplyIsRound
<1>2. CASE EndReply
  BY <1>2, EndReplyIsRound
<1>3. CASE OpenElement
  BY <1>3, OpenElementIsRound
<1>4. CASE CloseElement
  BY <1>4, CloseElementIsRound
<1>5. CASE ElementMember
  BY <1>5, ElementMemberIsRound
<1>6. CASE OpenEvent
  BY <1>6, OpenEventIsRound
<1>7. CASE CloseEvent
  BY <1>7, CloseEventIsRound
<1>8. CASE EventMember
  BY <1>8, EventMemberIsRound
<1>9. CASE CloseCurrent
  BY <1>9, CloseCurrentIsRound
<1>10. CASE CurrentMember
  BY <1>10, CurrentMemberIsRound
<1> QED
  BY <1>1, <1>2, <1>3, <1>4, <1>5, <1>6, <1>7, <1>8, <1>9, <1>10 DEF Handle

LEMMA NextKeepsInvariant == Invariant /\ [Next]_vars => Invariant'
<1> SUFFICES ASSUME Invariant, [Next]_vars
             PROVE  Invariant'
  OBVIOUS
<1>1. CASE Handle /\ UNCHANGED input
  BY <1>1, HandleIsRound, RoundKeepsInvariant
<1>2. CASE UNCHANGED vars
  BY <1>2 DEF vars, parser, found, Invariant, Stage, Tokenizer, Written, Names
<1> QED
  BY <1>1, <1>2 DEF Next, Terminating

LEMMA InvariantHolds == Spec => []Invariant
<1>1. Init => Invariant
  BY InitIsInvariant
<1>2. Invariant /\ [Next]_vars => Invariant'
  BY NextKeepsInvariant
<1> QED
  BY <1>1, <1>2, PTL DEF Spec

LEMMA InvariantImpliesBufferIsIntact == Invariant => BufferIsIntact
<1> SUFFICES ASSUME Invariant
             PROVE  BufferIsIntact
  OBVIOUS
<1> DEFINE n == Len(input.payload)
           a == SubSeq(buffer, s.cur, s.end - 1)
           b == SubSeq(input.payload, s.cur, s.end - 1)
<1>1. /\ n \in Nat /\ buffer \in [1 .. n -> Byte] /\ Len(buffer) = n
      /\ s.cur \in Nat \ {0} /\ s.end \in Nat /\ s.cur <= s.end /\ s.end <= n + 1
  BY PayloadIs DEF Invariant, Tokenizer, Written, Document, Sound, State
<1>2. input.payload \in Seq(Byte)
  BY PayloadIs DEF Invariant
<1>3. \A q \in s.cur .. s.end - 1 : buffer[q] = input.payload[q]
  BY DEF Invariant, Written
<1>4. a = b
  BY <1>1, <1>2, <1>3
<1>5. ~Done => \A p \in {name, output} \ {NULL} :
                \E q \in p .. json_buffer - 1 : buffer[q] = 0
  BY DEF Done, Invariant, Names
<1> QED
  BY <1>1, <1>4, <1>5 DEF BufferIsIntact, Invariant, Written

(***************************************************************************)
(* For every message, of whatever bytes: what has been decoded in place is *)
(* behind the tokenizer, and from there to where the document ends it is   *)
(* as it was received; and the strings that have been found have an end.   *)
(***************************************************************************)
THEOREM BufferIntact == Spec => []BufferIsIntact
<1>1. Spec => []Invariant
  BY InvariantHolds
<1>2. Invariant => BufferIsIntact
  BY InvariantImpliesBufferIsIntact
<1> QED
  BY <1>1, <1>2, PTL

(***************************************************************************)
(* For every message, of whatever bytes: every round of a handler takes    *)
(* something from it, or ends a loop.  As both are bounded by the length   *)
(* of the message, the handler returns.                                    *)
(***************************************************************************)
THEOREM RoundsAdvance == Spec => EveryRoundAdvances
<1>1. ASSUME Invariant, [Next]_vars
      PROVE  [Left' < Left \/ (Left' = Left /\ Depth[stage'] < Depth[stage])]_vars
  <2>1. CASE Handle /\ UNCHANGED input
    <3>1. Round
      BY <1>1, <2>1, HandleIsRound
    <3>2. Left' <= Left /\ Left' \in Nat /\ Left \in Nat
      BY <1>1, <3>1 DEF Round, Within, Left, Sound, State, Invariant, Tokenizer
    <3>3. Left' < Left \/ Depth[stage'] < Depth[stage]
      BY <3>1 DEF Round, Rest, Left
    <3> QED
      BY <3>2, <3>3
  <2>2. CASE UNCHANGED vars
    BY <2>2
  <2> QED
    BY <1>1, <2>1, <2>2 DEF Next, Terminating
<1>2. Spec => []Invariant
  BY InvariantHolds
<1> QED
  BY <1>1, <1>2, PTL DEF Spec, EveryRoundAdvances

=============================================================================
