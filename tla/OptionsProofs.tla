---------------------------- MODULE OptionsProofs ----------------------------
(***************************************************************************)
(* Proofs about Options, for every command line: configure_output keeps    *)
(* the default configuration and that of every workspace named in exactly  *)
(* one list, and gives every workspace the look that the flags mean.  That *)
(* the lists hold nothing twice is an induction over the options of one    *)
(* configure_output.  The rest is one over the command line: the invariant *)
(* Means relates the state that the options lead to, field by field, to    *)
(* the flags, and a flag that reuses an option is shown to do what a new   *)
(* one would.                                                              *)
(***************************************************************************)
EXTENDS Options, SequenceTheorems, WellFoundedInduction, TLAPS

-----------------------------------------------------------------------------
(***************************************************************************)
(* Induction over the natural numbers, with a set in place of a predicate. *)
(***************************************************************************)
LEMMA LessIsWellFounded == IsWellFoundedOn({pair \in Nat \X Nat : pair[1] < pair[2]}, Nat)
  BY NatLessThanWellFounded DEF OpToRel

\* Every set of naturals has a least element, which is Min.
LEMMA MinIsLeast ==
    ASSUME NEW I \in SUBSET Nat, I # {}
    PROVE  Min(I) \in I /\ \A k \in I : Min(I) <= k
<1> DEFINE Less == {pair \in Nat \X Nat : pair[1] < pair[2]}
<1>1. IsWellFoundedOn(Less, Nat)
  BY LessIsWellFounded
<1> HIDE DEF Less
<1>2. PICK x \in I : \A y \in I : <<y, x>> \notin Less
  BY <1>1, WFMin
<1>3. ASSUME NEW y \in I
      PROVE  x <= y
  <2>1. y < x => <<y, x>> \in Less
    BY DEF Less
  <2> QED
    BY <1>2, <2>1
<1> QED
  BY <1>3 DEF Min

\* A set that holds 0 and, with every natural, the next one holds them all.
LEMMA SetInduction ==
    ASSUME NEW S, 0 \in S, \A n \in Nat : n \in S => n + 1 \in S
    PROVE  Nat \subseteq S
<1> SUFFICES ASSUME Nat \ S # {}
             PROVE  FALSE
  OBVIOUS
<1> DEFINE m == Min(Nat \ S)
<1>1. m \in Nat \ S /\ \A k \in Nat \ S : m <= k
  BY MinIsLeast
<1> HIDE DEF m
<1>2. m - 1 \in Nat /\ (m - 1) + 1 = m
  BY <1>1
<1>3. m - 1 \in S
  BY <1>1, <1>2
<1> QED
  BY <1>1, <1>2, <1>3

-----------------------------------------------------------------------------
(***************************************************************************)
(* Sets, sequences and folds.                                              *)
(***************************************************************************)
\* Every nonempty set of positions of a sequence has a greatest element.
LEMMA MaxIsGreatest ==
    ASSUME NEW n \in Nat, NEW I \in SUBSET (1 .. n), I # {}
    PROVE  Max(I) \in I /\ \A k \in I : k <= Max(I)
<1> DEFINE HasMax(S) == \E x \in S : \A y \in S : x >= y
           Good == {m \in Nat : \A S \in SUBSET (1 .. m) : S # {} => HasMax(S)}
<1>1. 0 \in Good
  <2>1. \A S \in SUBSET (1 .. 0) : S = {}
    OBVIOUS
  <2> QED
    BY <2>1
<1>2. ASSUME NEW m \in Nat, m \in Good
      PROVE  m + 1 \in Good
  <2>1. ASSUME NEW S \in SUBSET (1 .. m + 1), S # {}
        PROVE  HasMax(S)
    <3>1. CASE m + 1 \in S
      BY <3>1
    <3>2. CASE m + 1 \notin S
      <4>1. S \in SUBSET (1 .. m)
        BY <3>2
      <4> QED
        BY <1>2, <2>1, <4>1
    <3> QED
      BY <3>1, <3>2
  <2> QED
    BY <2>1
<1> HIDE DEF Good
<1>3. n \in Good
  BY <1>1, <1>2, SetInduction
<1>4. HasMax(I)
  BY <1>3 DEF Good
<1>5. Max(I) \in I /\ \A y \in I : Max(I) >= y
  BY <1>4 DEF Max
<1> QED
  BY <1>5

\* The last position from `from` to `to` whose element is in a set.
LEMMA LastIs ==
    ASSUME NEW n \in Nat, NEW I \in SUBSET (1 .. n)
    PROVE  LET last == IF I # {} THEN Max(I) ELSE 0
           IN  /\ last = 0 <=> I = {}
               /\ last # 0 => last \in I
               /\ \A k \in I : k <= last
               /\ last \in 0 .. n
<1>1. CASE I = {}
  BY <1>1
<1>2. CASE I # {}
  <2>1. Max(I) \in I /\ \A k \in I : k <= Max(I)
    BY <1>2, MaxIsGreatest
  <2>2. Max(I) \in 1 .. n
    BY <2>1
  <2>3. Max(I) # 0 /\ Max(I) \in 0 .. n
    BY <2>2
  <2> QED
    BY <1>2, <2>1, <2>3
<1> QED
  BY <1>1, <1>2

\* The fold of configure_output, for any list of options.
Configure(o, list) == FoldLeft(LAMBDA s, option : Step(s, o, option), StartConfigure, list)

\* The states in between: g[k] is the state after the first k options.
Replays(g, o, list) ==
    /\ g[0] = StartConfigure
    /\ \A k \in 1 .. Len(list) : g[k] = Step(g[k - 1], o, list[k])

FoldStep(f, o, list, s) ==
    IF s = {} THEN StartConfigure ELSE Step(f[s \ {Max(s)}], o, list[Max(s)])

FoldsTo(f, o, list, n) == f = [s \in SUBSET (1 .. n) |-> FoldStep(f, o, list, s)]

LEMMA FoldExists ==
    ASSUME NEW o, NEW list, NEW m \in Nat
    PROVE  \E f : FoldsTo(f, o, list, m)
<1> DEFINE S == {n \in Nat : \E f : FoldsTo(f, o, list, n)}
<1>1. 0 \in S
  <2> DEFINE f == [s \in SUBSET (1 .. 0) |-> StartConfigure]
  <2>1. \A s \in SUBSET (1 .. 0) : s = {}
    OBVIOUS
  <2>2. \A s \in SUBSET (1 .. 0) : FoldStep(f, o, list, s) = StartConfigure
    BY <2>1 DEF FoldStep
  <2>3. FoldsTo(f, o, list, 0)
    BY <2>2 DEF FoldsTo
  <2> QED
    BY <2>3
<1>2. ASSUME NEW n \in Nat, n \in S
      PROVE  n + 1 \in S
  <2>1. PICK f : FoldsTo(f, o, list, n)
    BY <1>2
  <2> DEFINE g == [s \in SUBSET (1 .. n + 1) |->
                     IF n + 1 \in s THEN Step(f[s \ {n + 1}], o, list[n + 1]) ELSE f[s]]
  <2>2. ASSUME NEW s \in SUBSET (1 .. n)
        PROVE  g[s] = f[s] /\ f[s] = FoldStep(f, o, list, s)
    <3>1. s \in SUBSET (1 .. n + 1) /\ n + 1 \notin s
      OBVIOUS
    <3> QED
      BY <2>1, <3>1 DEF FoldsTo
  <2>3. ASSUME NEW s \in SUBSET (1 .. n + 1)
        PROVE  g[s] = FoldStep(g, o, list, s)
    <3>1. CASE n + 1 \in s
      <4>1. Max(s) \in s /\ \A k \in s : k <= Max(s)
        BY <3>1, MaxIsGreatest, n + 1 \in Nat
      <4>2. Max(s) = n + 1
        <5>1. Max(s) \in 1 .. n + 1 /\ n + 1 <= Max(s)
          BY <3>1, <4>1
        <5> QED
          BY <5>1
      <4>3. s \ {n + 1} \in SUBSET (1 .. n)
        OBVIOUS
      <4>4. g[s \ {n + 1}] = f[s \ {n + 1}]
        BY <2>2, <4>3
      <4>5. g[s] = Step(f[s \ {n + 1}], o, list[n + 1])
        BY <3>1
      <4> HIDE DEF g
      <4> QED
        BY <3>1, <4>2, <4>4, <4>5 DEF FoldStep
    <3>2. CASE n + 1 \notin s
      <4>0. \A k \in s : k \in 1 .. n
        BY <3>2
      <4>1. s \in SUBSET (1 .. n) /\ s \ {Max(s)} \in SUBSET (1 .. n)
        BY <4>0
      <4>2. g[s] = FoldStep(f, o, list, s) /\ g[s \ {Max(s)}] = f[s \ {Max(s)}]
        BY <2>2, <4>1
      <4> HIDE DEF g
      <4> QED
        BY <4>2 DEF FoldStep
    <3> QED
      BY <3>1, <3>2
  <2>4. FoldsTo(g, o, list, n + 1)
    BY <2>3 DEF FoldsTo
  <2> QED
    BY <2>4
<1> HIDE DEF S
<1>3. m \in S
  BY <1>1, <1>2, SetInduction
<1> QED
  BY <1>3 DEF S

\* What configure_output computes is the last of the states in between.
LEMMA ConfigureReplays ==
    ASSUME NEW o, NEW list, NEW S, list \in Seq(S)
    PROVE  \E g : Replays(g, o, list) /\ Configure(o, list) = g[Len(list)]
<1> DEFINE n == Len(list)
           f == CHOOSE f : f = [s \in SUBSET DOMAIN list |->
                   IF s = {} THEN StartConfigure
                             ELSE Step(f[s \ {Max(s)}], o, list[Max(s)])]
<1>1. n \in Nat /\ DOMAIN list = 1 .. n
  BY LenProperties
<1>2. Configure(o, list) = f[DOMAIN list]
  BY DEF Configure, FoldLeft, MapThenFoldSet
<1>3. FoldsTo(f, o, list, n)
  <2>1. \E h : FoldsTo(h, o, list, n)
    BY <1>1, FoldExists
  <2> QED
    BY <1>1, <2>1 DEF FoldsTo, FoldStep
<1> HIDE DEF f, n
<1> DEFINE g == [k \in 0 .. n |-> f[1 .. k]]
<1>4. ASSUME NEW s \in SUBSET (1 .. n)
      PROVE  f[s] = FoldStep(f, o, list, s)
  BY <1>3 DEF FoldsTo
<1>5. g[0] = StartConfigure
  <2>1. 1 .. 0 = {} /\ {} \in SUBSET (1 .. n)
    OBVIOUS
  <2>2. g[0] = f[1 .. 0]
    BY <1>1
  <2> QED
    BY <1>4, <2>1, <2>2 DEF FoldStep
<1>6. ASSUME NEW k \in 1 .. n
      PROVE  g[k] = Step(g[k - 1], o, list[k])
  <2>0. k \in Nat /\ k >= 1
    BY <1>1
  <2>1. k \in Nat /\ 1 .. k \in SUBSET (1 .. k) /\ 1 .. k # {} /\ k \in 1 .. k
    BY <2>0
  <2>2. Max(1 .. k) \in 1 .. k /\ \A j \in 1 .. k : j <= Max(1 .. k)
    BY <2>1, MaxIsGreatest
  <2>3. Max(1 .. k) = k
    BY <2>1, <2>2
  <2>4. (1 .. k) \ {k} = 1 .. (k - 1) /\ 1 .. k \in SUBSET (1 .. n)
    BY <1>1
  <2>5. g[k] = f[1 .. k] /\ g[k - 1] = f[1 .. (k - 1)]
    BY <1>1
  <2>6. f[1 .. k] = Step(f[(1 .. k) \ {Max(1 .. k)}], o, list[Max(1 .. k)])
    BY <1>4, <2>1, <2>4 DEF FoldStep
  <2> QED
    BY <2>3, <2>4, <2>5, <2>6
<1>7. Configure(o, list) = g[n]
  BY <1>1, <1>2
<1> HIDE DEF g
<1> QED
  BY <1>5, <1>6, <1>7 DEF Replays, n

LEMMA ConfigureStart ==
    ASSUME NEW o
    PROVE  Configure(o, <<>>) = StartConfigure
<1>1. <<>> \in Seq({}) /\ Len(<<>>) = 0
  BY EmptySeq
<1>2. \E g : Replays(g, o, <<>>) /\ Configure(o, <<>>) = g[Len(<<>>)]
  BY <1>1, ConfigureReplays
<1> QED
  BY <1>1, <1>2 DEF Replays

LEMMA ConfigureAppend ==
    ASSUME NEW S, NEW o, NEW list \in Seq(S), NEW e \in S
    PROVE  Configure(o, Append(list, e)) = Step(Configure(o, list), o, e)
<1> DEFINE n == Len(list)
           longer == Append(list, e)
<1>1. /\ n \in Nat /\ longer \in Seq(S) /\ Len(longer) = n + 1
      /\ (\A i \in 1 .. n : longer[i] = list[i]) /\ longer[n + 1] = e
  BY AppendProperties, LenProperties
<1> HIDE DEF longer
<1>2. PICK g : Replays(g, o, list) /\ Configure(o, list) = g[n]
  BY ConfigureReplays
<1>3. PICK h : Replays(h, o, longer) /\ Configure(o, longer) = h[Len(longer)]
  BY <1>1, ConfigureReplays
<1> HIDE DEF n
<1> DEFINE Good == {k \in Nat : k <= n => h[k] = g[k]}
<1>4. 0 \in Good
  BY <1>2, <1>3 DEF Replays
<1>5. ASSUME NEW k \in Nat, k \in Good
      PROVE  k + 1 \in Good
  <2>1. SUFFICES ASSUME k + 1 <= n
                 PROVE  h[k + 1] = g[k + 1]
    OBVIOUS
  <2>2. k + 1 \in 1 .. n /\ k + 1 \in 1 .. Len(longer) /\ (k + 1) - 1 = k
    BY <1>1, <2>1
  <2>3. h[k + 1] = Step(h[(k + 1) - 1], o, longer[k + 1])
    BY <1>3, <2>2 DEF Replays
  <2>4. g[k + 1] = Step(g[(k + 1) - 1], o, list[k + 1])
    BY <1>2, <2>2 DEF Replays, n
  <2>5. h[k] = g[k]
    BY <1>1, <1>5, <2>1
  <2> QED
    BY <1>1, <2>2, <2>3, <2>4, <2>5
<1> HIDE DEF Good
<1>6. n \in Good
  BY <1>1, <1>4, <1>5, SetInduction
<1>7. h[n] = g[n]
  BY <1>1, <1>6 DEF Good
<1>8. n + 1 \in 1 .. Len(longer) /\ (n + 1) - 1 = n
  BY <1>1
<1>9. h[n + 1] = Step(h[(n + 1) - 1], o, longer[n + 1])
  BY <1>3, <1>8 DEF Replays
<1> QED
  BY <1>1, <1>2, <1>3, <1>7, <1>8, <1>9 DEF longer

-----------------------------------------------------------------------------
(***************************************************************************)
(* The elements of a sequence, and sequences without duplicates.           *)
(***************************************************************************)
LEMMA MembersOfConcat ==
    ASSUME NEW S, NEW a \in Seq(S), NEW b \in Seq(S)
    PROVE  ToSet(a \o b) = ToSet(a) \union ToSet(b)
<1>1. Len(a) \in Nat /\ Len(b) \in Nat /\ DOMAIN a = 1 .. Len(a) /\ DOMAIN b = 1 .. Len(b)
  BY LenProperties
<1>2. /\ a \o b \in Seq(S) /\ Len(a \o b) = Len(a) + Len(b)
      /\ \A i \in 1 .. Len(a) + Len(b) :
             (a \o b)[i] = IF i <= Len(a) THEN a[i] ELSE b[i - Len(a)]
  BY ConcatProperties
<1>3. DOMAIN (a \o b) = 1 .. Len(a) + Len(b)
  BY <1>2, LenProperties
<1>4. ASSUME NEW i \in 1 .. Len(a)
      PROVE  a[i] \in ToSet(a \o b)
  <2>1. i \in 1 .. Len(a) + Len(b) /\ (a \o b)[i] = a[i]
    BY <1>1, <1>2
  <2> QED
    BY <1>3, <2>1 DEF ToSet
<1>5. ASSUME NEW i \in 1 .. Len(b)
      PROVE  b[i] \in ToSet(a \o b)
  <2>1. i + Len(a) \in 1 .. Len(a) + Len(b) /\ ~(i + Len(a) <= Len(a))
        /\ (i + Len(a)) - Len(a) = i
    BY <1>1
  <2>2. (a \o b)[i + Len(a)] = b[i]
    BY <1>2, <2>1
  <2> QED
    BY <1>3, <2>1, <2>2 DEF ToSet
<1>6. ASSUME NEW i \in 1 .. Len(a) + Len(b)
      PROVE  (a \o b)[i] \in ToSet(a) \union ToSet(b)
  <2>1. CASE i <= Len(a)
    <3>1. i \in 1 .. Len(a) /\ (a \o b)[i] = a[i]
      BY <1>1, <1>2, <2>1
    <3> QED
      BY <1>1, <3>1 DEF ToSet
  <2>2. CASE ~(i <= Len(a))
    <3>1. i - Len(a) \in 1 .. Len(b) /\ (a \o b)[i] = b[i - Len(a)]
      BY <1>1, <1>2, <2>2
    <3> QED
      BY <1>1, <3>1 DEF ToSet
  <2> QED
    BY <2>1, <2>2
<1>7. ToSet(a \o b) \subseteq ToSet(a) \union ToSet(b)
  BY <1>3, <1>6 DEF ToSet
<1>8. ToSet(a) \subseteq ToSet(a \o b) /\ ToSet(b) \subseteq ToSet(a \o b)
  BY <1>1, <1>4, <1>5 DEF ToSet
<1> QED
  BY <1>7, <1>8

LEMMA MembersOfOne == \A e : ToSet(<<e>>) = {e}
<1>1. ASSUME NEW e
      PROVE  ToSet(<<e>>) = {e}
  <2>1. <<e>> \in Seq({e}) /\ Len(<<e>>) = 1 /\ <<e>>[1] = e
    OBVIOUS
  <2>2. DOMAIN <<e>> = 1 .. 1 /\ 1 .. 1 = {1}
    BY <2>1, LenProperties
  <2> QED
    BY <2>1, <2>2 DEF ToSet
<1> QED
  BY <1>1

LEMMA MembersOfNone == ToSet(<<>>) = {}
  BY EmptySeq, LenProperties DEF ToSet

LEMMA MembersTyped ==
    ASSUME NEW S, NEW s \in Seq(S)
    PROVE  ToSet(s) \subseteq S
  BY LenProperties, ElementOfSeq DEF ToSet

\* Two sequences have no duplicates together iff each has none and they share none.
LEMMA OnceIs ==
    ASSUME NEW S, NEW a \in Seq(S), NEW b \in Seq(S)
    PROVE  IsInjective(a \o b) <=>
               /\ IsInjective(a) /\ IsInjective(b)
               /\ ToSet(a) \intersect ToSet(b) = {}
<1> DEFINE c == a \o b
<1>1. Len(a) \in Nat /\ Len(b) \in Nat /\ DOMAIN a = 1 .. Len(a) /\ DOMAIN b = 1 .. Len(b)
  BY LenProperties
<1>2. /\ c \in Seq(S) /\ Len(c) = Len(a) + Len(b)
      /\ \A i \in 1 .. Len(a) + Len(b) : c[i] = IF i <= Len(a) THEN a[i] ELSE b[i - Len(a)]
  BY ConcatProperties
<1>3. DOMAIN c = 1 .. Len(a) + Len(b)
  BY <1>2, LenProperties
<1> HIDE DEF c
<1>4. \A i \in 1 .. Len(a) : i \in DOMAIN c /\ c[i] = a[i]
  BY <1>1, <1>2, <1>3
<1>5. ASSUME NEW i \in 1 .. Len(b)
      PROVE  Len(a) + i \in DOMAIN c /\ c[Len(a) + i] = b[i] /\ Len(a) + i > Len(a)
  <2>1. Len(a) + i \in 1 .. Len(a) + Len(b) /\ ~(Len(a) + i <= Len(a))
        /\ (Len(a) + i) - Len(a) = i
    BY <1>1
  <2> QED
    BY <1>2, <1>3, <2>1
<1>6. ASSUME IsInjective(c)
      PROVE  IsInjective(a) /\ IsInjective(b) /\ ToSet(a) \intersect ToSet(b) = {}
  <2>1. IsInjective(a)
    BY <1>1, <1>4, <1>6 DEF IsInjective
  <2>2. ASSUME NEW i \in 1 .. Len(b), NEW j \in 1 .. Len(b), b[i] = b[j]
        PROVE  i = j
    <3>1. c[Len(a) + i] = c[Len(a) + j]
      BY <1>5, <2>2
    <3>2. Len(a) + i = Len(a) + j
      BY <1>5, <1>6, <3>1 DEF IsInjective
    <3> QED
      BY <1>1, <3>2
  <2>3. ASSUME NEW i \in 1 .. Len(a), NEW j \in 1 .. Len(b), a[i] = b[j]
        PROVE  FALSE
    <3>1. c[i] = c[Len(a) + j] /\ i \in DOMAIN c /\ Len(a) + j \in DOMAIN c
      BY <1>4, <1>5, <2>3
    <3>2. i = Len(a) + j
      BY <1>6, <3>1 DEF IsInjective
    <3> QED
      BY <1>1, <3>2
  <2>4. ToSet(a) \intersect ToSet(b) = {}
    BY <1>1, <2>3 DEF ToSet
  <2>5. IsInjective(b)
    BY <1>1, <2>2 DEF IsInjective
  <2> QED
    BY <2>1, <2>4, <2>5
<1>7. ASSUME IsInjective(a), IsInjective(b), ToSet(a) \intersect ToSet(b) = {}
      PROVE  IsInjective(c)
  <2>1. SUFFICES ASSUME NEW i \in 1 .. Len(a) + Len(b), NEW j \in 1 .. Len(a) + Len(b),
                        c[i] = c[j]
                 PROVE  i = j
    BY <1>3 DEF IsInjective
  <2>2. ASSUME NEW k \in 1 .. Len(a) + Len(b)
        PROVE  \/ k \in 1 .. Len(a) /\ c[k] = a[k]
               \/ k - Len(a) \in 1 .. Len(b) /\ c[k] = b[k - Len(a)]
    BY <1>1, <1>2
  <2>3. ASSUME NEW k \in 1 .. Len(a), NEW m \in 1 .. Len(b)
        PROVE  a[k] # b[m]
    BY <1>1, <1>7 DEF ToSet
  <2>4. CASE i \in 1 .. Len(a) /\ c[i] = a[i]
    <3>1. j \in 1 .. Len(a) /\ c[j] = a[j]
      BY <2>1, <2>2, <2>3, <2>4
    <3> QED
      BY <1>1, <1>7, <2>1, <2>4, <3>1 DEF IsInjective
  <2>5. CASE i - Len(a) \in 1 .. Len(b) /\ c[i] = b[i - Len(a)]
    <3>1. j - Len(a) \in 1 .. Len(b) /\ c[j] = b[j - Len(a)]
      BY <2>1, <2>2, <2>3, <2>5
    <3>2. i - Len(a) = j - Len(a)
      BY <1>1, <1>7, <2>1, <2>5, <3>1 DEF IsInjective
    <3> QED
      BY <1>1, <3>2
  <2> QED
    BY <2>2, <2>4, <2>5
<1> QED
  BY <1>6, <1>7 DEF c

LEMMA OneIsOnce == \A e : IsInjective(<<e>>)
  BY DEF IsInjective

\* Removing an element leaves the others, in their order.
LEMMA RemoveFirstIs ==
    ASSUME NEW S, NEW s \in Seq(S), NEW e \in ToSet(s)
    PROVE  LET t == RemoveFirst(s, e)
           IN  /\ t \in Seq(S)
               /\ ToSet(s) \ {e} \subseteq ToSet(t)
               /\ ToSet(t) \subseteq ToSet(s)
               /\ IsInjective(s) => IsInjective(t) /\ e \notin ToSet(t)
<1> DEFINE n == Len(s)
           I == {i \in 1 .. n : s[i] = e}
           r == SelectInSeq(s, LAMBDA v : v = e)
           a == SubSeq(s, 1, r - 1)
           b == SubSeq(s, r + 1, n)
           t == RemoveFirst(s, e)
<1>1. n \in Nat /\ DOMAIN s = 1 .. n /\ \A i \in 1 .. n : s[i] \in S
  BY LenProperties, ElementOfSeq
<1>2. I # {} /\ I \in SUBSET Nat
  BY <1>1 DEF ToSet
<1>3. Min(I) \in I
  BY <1>2, MinIsLeast
<1>4. r = Min(I)
  BY <1>2 DEF SelectInSeq
<1>5. r \in 1 .. n /\ s[r] = e
  BY <1>3, <1>4
<1>6. t = a \o b
  BY <1>5 DEF RemoveFirst, RemoveAt
<1> HIDE DEF n, I, r, t
<1>7. a \in Seq(S) /\ Len(a) = r - 1 /\ \A i \in 1 .. r - 1 : a[i] = s[i]
  <2>1. \A i \in 1 .. r - 1 : s[i] \in S
    BY <1>1, <1>5
  <2>2. 1 \in Int /\ r - 1 \in Int
    BY <1>1, <1>5
  <2>3. /\ a \in Seq(S)
        /\ Len(a) = IF 1 <= r - 1 THEN (r - 1) - 1 + 1 ELSE 0
        /\ \A i \in 1 .. (r - 1) - 1 + 1 : a[i] = s[1 + i - 1]
    BY <2>1, <2>2, SubSeqProperties
  <2> HIDE DEF a
  <2>4. Len(a) = r - 1
    BY <1>1, <1>5, <2>3
  <2>5. \A i \in 1 .. r - 1 : a[i] = s[i]
    BY <1>1, <1>5, <2>3
  <2> QED
    BY <2>3, <2>4, <2>5
<1>8. b \in Seq(S) /\ Len(b) = n - r /\ \A i \in 1 .. n - r : b[i] = s[r + i]
  <2>1. \A i \in r + 1 .. n : s[i] \in S
    BY <1>1, <1>5
  <2>2. r + 1 \in Int /\ n \in Int
    BY <1>1, <1>5
  <2>3. /\ b \in Seq(S)
        /\ Len(b) = IF r + 1 <= n THEN n - (r + 1) + 1 ELSE 0
        /\ \A i \in 1 .. n - (r + 1) + 1 : b[i] = s[(r + 1) + i - 1]
    BY <2>1, <2>2, SubSeqProperties
  <2> HIDE DEF b
  <2>4. Len(b) = n - r
    BY <1>1, <1>5, <2>3
  <2>5. \A i \in 1 .. n - r : b[i] = s[r + i]
    BY <1>1, <1>5, <2>3
  <2> QED
    BY <2>3, <2>4, <2>5
<1> HIDE DEF a, b
<1>9. DOMAIN a = 1 .. r - 1 /\ DOMAIN b = 1 .. n - r
  BY <1>7, <1>8, LenProperties
<1>10. ToSet(t) = ToSet(a) \union ToSet(b) /\ t \in Seq(S)
  BY <1>6, <1>7, <1>8, MembersOfConcat, ConcatProperties
<1>11. \A i \in 1 .. n : i # r => s[i] \in ToSet(a) \union ToSet(b)
  <2>1. ASSUME NEW i \in 1 .. n, i < r
        PROVE  s[i] \in ToSet(a)
    <3>1. i \in 1 .. r - 1
      BY <1>1, <1>5, <2>1
    <3> QED
      BY <1>7, <1>9, <3>1 DEF ToSet
  <2>2. ASSUME NEW i \in 1 .. n, i > r
        PROVE  s[i] \in ToSet(b)
    <3>1. i - r \in 1 .. n - r /\ r + (i - r) = i
      BY <1>1, <1>5, <2>2
    <3> QED
      BY <1>8, <1>9, <3>1 DEF ToSet
  <2> QED
    BY <1>1, <1>5, <2>1, <2>2
<1>12. ToSet(a) \subseteq {s[i] : i \in (1 .. n) \ {r}}
  <2>1. \A i \in 1 .. r - 1 : i \in (1 .. n) \ {r}
    BY <1>1, <1>5
  <2> QED
    BY <1>7, <1>9, <2>1 DEF ToSet
<1>13. ToSet(b) \subseteq {s[i] : i \in (1 .. n) \ {r}}
  <2>1. \A i \in 1 .. n - r : r + i \in (1 .. n) \ {r}
    BY <1>1, <1>5
  <2> QED
    BY <1>8, <1>9, <2>1 DEF ToSet
<1>14. ToSet(s) \ {e} \subseteq ToSet(t) /\ ToSet(t) \subseteq ToSet(s)
  BY <1>1, <1>5, <1>10, <1>11, <1>12, <1>13 DEF ToSet
<1>15. ASSUME IsInjective(s)
       PROVE  IsInjective(t) /\ e \notin ToSet(t)
  <2>1. \A i, j \in 1 .. n : s[i] = s[j] => i = j
    BY <1>1, <1>15 DEF IsInjective
  <2>2. e \notin ToSet(t)
    BY <1>5, <1>10, <1>12, <1>13, <2>1
  <2>3. \A i \in 1 .. r - 1 : i \in 1 .. n /\ a[i] = s[i]
    BY <1>1, <1>5, <1>7
  <2>4. \A i \in 1 .. n - r : r + i \in 1 .. n /\ b[i] = s[r + i]
    BY <1>1, <1>5, <1>8
  <2>5. IsInjective(a)
    BY <1>9, <2>1, <2>3 DEF IsInjective
  <2>6. IsInjective(b)
    <3>1. ASSUME NEW i \in 1 .. n - r, NEW j \in 1 .. n - r, b[i] = b[j]
          PROVE  i = j
      <4>1. r + i = r + j
        BY <2>1, <2>4, <3>1
      <4> QED
        BY <1>1, <1>5, <4>1
    <3> QED
      BY <1>9, <3>1 DEF IsInjective
  <2>7. ToSet(a) \intersect ToSet(b) = {}
    <3>1. ASSUME NEW i \in 1 .. r - 1, NEW j \in 1 .. n - r, a[i] = b[j]
          PROVE  FALSE
      <4>1. i = r + j
        BY <2>1, <2>3, <2>4, <3>1
      <4> QED
        BY <1>1, <1>5, <4>1
    <3> QED
      BY <1>9, <3>1 DEF ToSet
  <2>8. IsInjective(t)
    BY <1>6, <1>7, <1>8, <2>5, <2>6, <2>7, OnceIs
  <2> QED
    BY <2>2, <2>8
<1> QED
  BY <1>10, <1>14, <1>15 DEF t

-----------------------------------------------------------------------------
(***************************************************************************)
(* The invariant.                                                          *)
(***************************************************************************)
Owners == Workspaces \union {All}
Names == UNION {Called[x] : x \in Outputs} \union {All}
AnyValue == Names \union Owners \union Colors \union Images \union Modes \union Positions
Types == Kinds \union Selectors
Looks == [Owners -> [Kinds -> AnyValue \union {Unset}]]

Flags ==
    {f \in [type : Types, value : AnyValue] :
        /\ f.type = "workspace" => f.value \in Owners
        /\ f.type = "mode" => f.value \in Modes}

States ==
    [configs : Seq(Owners), others : Seq(Owners), look : Looks,
     selected : BOOLEAN, prev : Types \union {"none"}, crashed : BOOLEAN]

\* Between two options of the same kind there is a selector.
OptionsAreUnique(list) ==
    \A i, j \in 1 .. Len(list) :
        i < j /\ list[i].type = list[j].type /\ list[i].type \in Kinds =>
            \E m \in i .. j : list[m].type \in Selectors

ListInv ==
    /\ args \in Seq(Flags)
    /\ options \in Seq(Flags)
    /\ OptionsAreUnique(options)

\* The configurations in the two lists, and the ones a setting applies to.
Configured(s) == ToSet(s.configs) \union ToSet(s.others)

Affects(s, w) ==
    IF w \in Configured(s) THEN w \in ToSet(s.configs) ELSE All \in ToSet(s.configs)

LastIsA(list, type) == Len(list) # 0 /\ list[Len(list)].type = type

\* Run, Selects, Sets, ValueSet and Meant for any list of flags.
RunAt(list, end, type) == {i \in 1 .. end : \A m \in i .. end : list[m].type = type}

EndOf(list, k, type) == SelectLastInSubSeq(list, 1, k, LAMBDA x : x.type = type)

RunOf(list, k, type) == {list[j].value : j \in RunAt(list, EndOf(list, k, type), type)}

SelectsOf(list, k, type, names) ==
    \/ RunOf(list, k, type) = {}
    \/ RunOf(list, k, type) \intersect (names \union {All}) # {}

SelectsNamed(list, k, w) == SelectsOf(list, k, "workspace", {w})

SetBy(f, kind) == f.type = kind \/ (kind = "position" /\ f.type = "mode")

ValueBy(f, kind) ==
    IF f.type = "mode" /\ kind = "position" THEN PositionOf[f.value] ELSE f.value

AppliesOf(list, i, o, w, kind) ==
    /\ SetBy(list[i], kind)
    /\ SelectsOf(list, i, "output", Called[o])
    /\ SelectsNamed(list, i, w)

ApplyingOf(list, o, w, kind) == {i \in 1 .. Len(list) : AppliesOf(list, i, o, w, kind)}

MeantOf(list, o, w, kind) ==
    LET I == ApplyingOf(list, o, w, kind)
    IN  IF I = {} THEN Unset ELSE ValueBy(list[Max(I)], kind)

\* The default configuration, and those that the flags in a list ask for.
NamedBy(list) ==
    {All} \union {list[i].value : i \in {j \in 1 .. Len(list) : list[j].type = "workspace"}}

\* The state s of configure_output is what the flags in the list mean.
Means(list, o, s) ==
    /\ Configured(s) = NamedBy(list)
    /\ \A type \in Selectors : s.prev = type <=> LastIsA(list, type)
    /\ s.selected <=> SelectsOf(list, Len(list), "output", Called[o])
    /\ \A w \in Workspaces : Affects(s, w) <=> SelectsNamed(list, Len(list), w)
    /\ \A w \in Workspaces, kind \in Kinds : LookOf(s, w)[kind] = MeantOf(list, o, w, kind)

MeansInv ==
    \A o \in Outputs :
        LET s == Configure(o, options) IN ~s.crashed => Means(args, o, s)

-----------------------------------------------------------------------------
(***************************************************************************)
(* What one option does to the state of configure_output.                  *)
(***************************************************************************)
LEMMA StartIs ==
    /\ StartConfigure \in States
    /\ ~StartConfigure.crashed /\ StartConfigure.selected /\ StartConfigure.prev = "none"
    /\ StartConfigure.configs = <<All>> /\ StartConfigure.others = <<>>
    /\ StartConfigure.look = [w \in Owners |-> [k \in Kinds |-> Unset]]
<1>1. <<All>> \in Seq(Owners)
  BY DEF Owners
<1>2. <<>> \in Seq(Owners)
  BY EmptySeq
<1>3. [w \in Owners |-> [k \in Kinds |-> Unset]] \in Looks
  BY DEF Looks
<1> QED
  BY <1>1, <1>2, <1>3 DEF StartConfigure, States, Owners

LEMMA StepCrashed ==
    ASSUME NEW o, NEW s, NEW e, s.crashed
    PROVE  Step(s, o, e) = s
  BY DEF Step

LEMMA StepOutputIs ==
    ASSUME NEW o, NEW s \in States, ~s.crashed, NEW e \in Flags, e.type = "output"
    PROVE  LET t == Step(s, o, e)
           IN  /\ t \in States /\ ~t.crashed /\ t.prev = "output"
               /\ t.configs = s.configs /\ t.others = s.others /\ t.look = s.look
               /\ t.selected <=> \/ s.selected /\ s.prev = "output"
                                 \/ e.value = All
                                 \/ e.value \in Called[o]
<1> DEFINE t == Step(s, o, e)
           chosen == (s.selected /\ s.prev = "output") \/ e.value = All \/ e.value \in Called[o]
<1>1. t = [StepOutput(s, o, e.value) EXCEPT !.prev = "output"]
  BY DEF Step
<1>2. StepOutput(s, o, e.value) = [s EXCEPT !.selected = chosen]
  BY DEF StepOutput, States
<1> HIDE DEF chosen
<1>3. t = [[s EXCEPT !.selected = chosen] EXCEPT !.prev = "output"]
  BY <1>1, <1>2
<1> HIDE DEF t
<1>4. /\ t.configs = s.configs /\ t.others = s.others /\ t.look = s.look
      /\ t.selected = chosen /\ t.prev = "output" /\ t.crashed = s.crashed
  BY <1>3 DEF States
<1>5. chosen \in BOOLEAN
  BY DEF chosen
<1>6. t \in States
  BY <1>3, <1>5 DEF States, Types, Selectors
<1> QED
  BY <1>4, <1>6 DEF t, chosen

LEMMA StepAllIs ==
    ASSUME NEW o, NEW s \in States, ~s.crashed,
           NEW e \in Flags, e.type = "workspace", e.value = All
    PROVE  LET t == Step(s, o, e)
           IN  /\ t \in States /\ ~t.crashed /\ t.prev = "workspace"
               /\ t.configs = s.others \o s.configs /\ t.others = <<>>
               /\ t.look = s.look /\ t.selected = s.selected
<1> DEFINE t == Step(s, o, e)
<1>1. t = [StepAllWorkspaces(s) EXCEPT !.prev = "workspace"]
  BY DEF Step
<1>2. t = [[s EXCEPT !.configs = s.others \o s.configs, !.others = <<>>]
           EXCEPT !.prev = "workspace"]
  BY <1>1 DEF StepAllWorkspaces, States
<1> HIDE DEF t
<1>3. s.others \o s.configs \in Seq(Owners) /\ <<>> \in Seq(Owners)
  BY ConcatProperties, EmptySeq DEF States
<1>4. /\ t.configs = s.others \o s.configs /\ t.others = <<>> /\ t.look = s.look
      /\ t.selected = s.selected /\ t.prev = "workspace" /\ t.crashed = s.crashed
  BY <1>2 DEF States
<1>5. t \in States
  BY <1>2, <1>3 DEF States, Types, Selectors
<1> QED
  BY <1>4, <1>5 DEF t

\* The lists that the search for a named workspace starts from.
BaseConfigs(s) == IF s.prev = "workspace" THEN s.configs ELSE <<>>
BaseOthers(s) == IF s.prev = "workspace" THEN s.others ELSE s.configs \o s.others

\* The workspace is selected already, or moved to the list, or new in it.
Found(t, s, name) ==
    /\ name \in ToSet(BaseConfigs(s))
    /\ t.configs = BaseConfigs(s) /\ t.others = BaseOthers(s) /\ t.look = s.look

Moved(t, s, name) ==
    /\ {name, All} \intersect ToSet(BaseConfigs(s)) = {}
    /\ name \in ToSet(BaseOthers(s))
    /\ t.configs = <<name>> \o BaseConfigs(s)
    /\ t.others = RemoveFirst(BaseOthers(s), name)
    /\ t.look = s.look

Created(t, s, name) ==
    /\ {name, All} \intersect ToSet(BaseConfigs(s)) = {}
    /\ name \notin ToSet(BaseOthers(s))
    /\ t.configs = <<name>> \o BaseConfigs(s)
    /\ t.others = BaseOthers(s)
    /\ t.look = [s.look EXCEPT ![name] = s.look[All]]

LEMMA StepWorkspaceIs ==
    ASSUME NEW o, NEW s \in States, ~s.crashed,
           NEW e \in Flags, e.type = "workspace", e.value # All
    PROVE  LET t == Step(s, o, e)
           IN  /\ t \in States /\ t.prev = "workspace" /\ t.selected = s.selected
               /\ \/ t.crashed /\ t.configs = BaseConfigs(s) /\ t.others = BaseOthers(s)
                  \/ ~t.crashed /\ \/ Found(t, s, e.value)
                                   \/ Moved(t, s, e.value)
                                   \/ Created(t, s, e.value)
<1> DEFINE t == Step(s, o, e)
           name == e.value
           base == IF s.prev = "workspace" THEN s
                   ELSE [s EXCEPT !.others = s.configs \o @, !.configs = <<>>]
           I == {i \in 1 .. Len(base.configs) : base.configs[i] \in {name, All}}
           found == IF I # {} THEN Min(I) ELSE 0
           isNew == name \notin ToSet(base.others)
           u == StepWorkspace(s, name)
<1>1. t = [u EXCEPT !.prev = "workspace"]
  BY DEF Step
<1>2. name \in Workspaces /\ name \in Owners /\ All \in Owners
  BY DEF Flags, Owners
<1>3. /\ s.configs \in Seq(Owners) /\ s.others \in Seq(Owners) /\ s.look \in Looks
      /\ s.configs \o s.others \in Seq(Owners) /\ <<>> \in Seq(Owners)
  BY ConcatProperties, EmptySeq DEF States
<1>4. /\ base \in States
      /\ base.configs = BaseConfigs(s) /\ base.others = BaseOthers(s) /\ base.look = s.look
      /\ base.crashed = s.crashed /\ base.selected = s.selected
  <2>1. CASE s.prev = "workspace"
    BY <2>1 DEF BaseConfigs, BaseOthers
  <2>2. CASE s.prev # "workspace"
    <3>1. base = [s EXCEPT !.others = s.configs \o s.others, !.configs = <<>>]
      BY <2>2 DEF States
    <3> HIDE DEF base
    <3>2. /\ base.configs = <<>> /\ base.others = s.configs \o s.others /\ base.look = s.look
          /\ base.crashed = s.crashed /\ base.selected = s.selected
      BY <3>1 DEF States
    <3>3. base \in States
      BY <1>3, <3>1 DEF States
    <3> QED
      BY <2>2, <3>2, <3>3 DEF BaseConfigs, BaseOthers
  <2> QED
    BY <2>1, <2>2
<1>5. u = IF found # 0 /\ base.configs[found] = All THEN [base EXCEPT !.crashed = TRUE]
          ELSE IF found # 0 THEN base
          ELSE [base EXCEPT !.configs = <<name>> \o @,
                            !.others = IF isNew THEN @ ELSE RemoveFirst(@, name),
                            !.look[name] = IF isNew THEN base.look[All] ELSE @]
  BY DEF StepWorkspace, SelectInSeq
<1> HIDE DEF t, u, base
<1>6. /\ base.configs \in Seq(Owners) /\ base.others \in Seq(Owners) /\ base.look \in Looks
      /\ DOMAIN base.configs = 1 .. Len(base.configs) /\ Len(base.configs) \in Nat
  BY <1>4, LenProperties DEF States
<1>7. CASE I # {}
  <2>0. I \in SUBSET Nat
    OBVIOUS
  <2>1. Min(I) \in I
    BY <1>7, <2>0, MinIsLeast
  <2>2. found = Min(I) /\ found # 0
    BY <1>6, <1>7, <2>1
  <2>3. base.configs[found] \in {name, All} /\ base.configs[found] \in ToSet(base.configs)
    BY <1>6, <2>1, <2>2 DEF ToSet
  <2> HIDE DEF found, I
  <2>4. CASE base.configs[found] = All
    <3>1. t = [[base EXCEPT !.crashed = TRUE] EXCEPT !.prev = "workspace"]
      BY <1>1, <1>5, <2>2, <2>4
    <3>2. /\ t.crashed = TRUE /\ t.prev = "workspace" /\ t.selected = base.selected
          /\ t.configs = base.configs /\ t.others = base.others
      BY <1>4, <3>1 DEF States
    <3>3. t \in States
      BY <1>4, <3>1 DEF States, Types, Selectors
    <3> QED
      BY <1>4, <3>2, <3>3 DEF t
  <2>5. CASE base.configs[found] # All
    <3>1. t = [base EXCEPT !.prev = "workspace"]
      BY <1>1, <1>5, <2>2, <2>5
    <3>2. /\ t.crashed = base.crashed /\ t.prev = "workspace" /\ t.selected = base.selected
          /\ t.configs = base.configs /\ t.others = base.others /\ t.look = base.look
      BY <1>4, <3>1 DEF States
    <3>3. t \in States
      BY <1>4, <3>1 DEF States, Types, Selectors
    <3>4. Found(t, s, name)
      BY <1>4, <2>3, <2>5, <3>2 DEF Found
    <3> QED
      BY <1>4, <3>2, <3>3, <3>4 DEF t
  <2> QED
    BY <2>4, <2>5
<1>8. CASE I = {}
  <2>1. {name, All} \intersect ToSet(base.configs) = {}
    BY <1>6, <1>8 DEF ToSet
  <2>2. u = [base EXCEPT !.configs = <<name>> \o @,
                         !.others = IF isNew THEN @ ELSE RemoveFirst(@, name),
                         !.look[name] = IF isNew THEN base.look[All] ELSE @]
    BY <1>5, <1>8
  <2>3. <<name>> \o base.configs \in Seq(Owners)
    <3>1. <<name>> \in Seq(Owners)
      BY <1>2
    <3> QED
      BY <1>6, <3>1, ConcatProperties
  <2>4. CASE isNew
    <3>1. u = [base EXCEPT !.configs = <<name>> \o base.configs,
                           !.look = [base.look EXCEPT ![name] = base.look[All]]]
      BY <1>4, <2>2, <2>4 DEF States
    <3>2. [base.look EXCEPT ![name] = base.look[All]] \in Looks
      BY <1>2, <1>6 DEF Looks
    <3> DEFINE look == [base.look EXCEPT ![name] = base.look[All]]
               configs == <<name>> \o base.configs
    <3> HIDE DEF look, configs
    <3>3. t = [[base EXCEPT !.configs = configs, !.look = look] EXCEPT !.prev = "workspace"]
      BY <1>1, <3>1 DEF look, configs
    <3>4. /\ t.crashed = base.crashed /\ t.prev = "workspace" /\ t.selected = base.selected
          /\ t.configs = configs /\ t.others = base.others /\ t.look = look
      BY <1>4, <3>3 DEF States
    <3>5. look \in Looks /\ configs \in Seq(Owners)
      BY <2>3, <3>2 DEF look, configs
    <3>6. t \in States
      BY <1>4, <3>3, <3>5 DEF States, Types, Selectors
    <3>7. Created(t, s, name)
      BY <1>4, <2>1, <2>4, <3>4 DEF Created, look, configs
    <3> QED
      BY <1>4, <3>4, <3>6, <3>7 DEF t
  <2>5. CASE ~isNew
    <3> DEFINE others == RemoveFirst(base.others, name)
               configs == <<name>> \o base.configs
    <3>1. u = [base EXCEPT !.configs = configs, !.others = others,
                           !.look = [base.look EXCEPT ![name] = base.look[name]]]
      BY <1>4, <2>2, <2>5 DEF States
    <3>2. [base.look EXCEPT ![name] = base.look[name]] = base.look
      BY <1>2, <1>6 DEF Looks
    <3>3. others \in Seq(Owners)
      BY <1>6, <2>5, RemoveFirstIs
    <3> HIDE DEF others, configs
    <3>4. t = [[base EXCEPT !.configs = configs, !.others = others, !.look = base.look]
               EXCEPT !.prev = "workspace"]
      BY <1>1, <3>1, <3>2
    <3>5. /\ t.crashed = base.crashed /\ t.prev = "workspace" /\ t.selected = base.selected
          /\ t.configs = configs /\ t.others = others /\ t.look = base.look
      BY <1>4, <3>4 DEF States
    <3>6. configs \in Seq(Owners)
      BY <2>3 DEF configs
    <3>7. t \in States
      BY <1>4, <1>6, <3>3, <3>4, <3>6 DEF States, Types, Selectors
    <3>8. Moved(t, s, name)
      BY <1>4, <2>1, <2>5, <3>5 DEF Moved, others, configs
    <3> QED
      BY <1>4, <3>5, <3>7, <3>8 DEF t
  <2> QED
    BY <2>4, <2>5
<1> QED
  BY <1>7, <1>8

\* t is s with the setting applied, if s takes settings at all.
Applied(t, s, kind, v) ==
    /\ t.configs = s.configs /\ t.others = s.others
    /\ t.selected = s.selected /\ t.crashed = s.crashed
    /\ \A w \in Owners, k \in Kinds :
           t.look[w][k] = IF k = kind /\ ~s.crashed /\ s.selected /\ w \in ToSet(s.configs)
                          THEN v ELSE s.look[w][k]

LEMMA StepSettingIs ==
    ASSUME NEW o, NEW s \in States, NEW e \in Flags, e.type \in Kinds
    PROVE  LET t == Step(s, o, e)
           IN  /\ t \in States /\ Applied(t, s, e.type, e.value)
               /\ ~s.crashed => t.prev = e.type
<1> DEFINE t == Step(s, o, e)
           kind == e.type
           v == e.value
           new == [w \in Owners |-> IF w \in ToSet(s.configs)
                                    THEN [s.look[w] EXCEPT ![kind] = v] ELSE s.look[w]]
<1>1. s.look \in Looks /\ v \in AnyValue
  BY DEF States, Flags
<1>2. new \in Looks
  BY <1>1 DEF Looks
<1>3. CASE s.crashed
  <2>1. t = s
    BY <1>3, StepCrashed
  <2> QED
    BY <1>3, <2>1 DEF Applied
<1>4. CASE ~s.crashed /\ ~s.selected
  <2>1. t = [s EXCEPT !.prev = kind]
    BY <1>4 DEF Step, StepSetting, Kinds
  <2> HIDE DEF t
  <2>2. /\ t.configs = s.configs /\ t.others = s.others /\ t.look = s.look
        /\ t.selected = s.selected /\ t.prev = kind /\ t.crashed = s.crashed
    BY <2>1 DEF States
  <2>3. t \in States
    BY <2>1 DEF States, Types
  <2> QED
    BY <1>4, <2>2, <2>3 DEF Applied, t
<1>5. CASE ~s.crashed /\ s.selected
  <2>1. t = [StepSetting(s, kind, v) EXCEPT !.prev = kind]
    BY <1>5 DEF Step, Kinds
  <2>2. DOMAIN s.look = Owners
    BY <1>1 DEF Looks
  <2>3. StepSetting(s, kind, v) = [s EXCEPT !.look = new]
    BY <1>5, <2>2 DEF StepSetting, States
  <2> HIDE DEF t
  <2>4. \A w \in Owners, k \in Kinds :
            new[w][k] = IF k = kind /\ w \in ToSet(s.configs) THEN v ELSE s.look[w][k]
    BY <1>1 DEF Looks
  <2> HIDE DEF new
  <2>5. t = [[s EXCEPT !.look = new] EXCEPT !.prev = kind]
    BY <2>1, <2>3
  <2>6. /\ t.configs = s.configs /\ t.others = s.others /\ t.look = new
        /\ t.selected = s.selected /\ t.prev = kind /\ t.crashed = s.crashed
    BY <2>5 DEF States
  <2>7. t \in States
    BY <1>2, <2>5 DEF States, Types
  <2>8. Applied(t, s, kind, v)
    BY <1>5, <2>4, <2>6 DEF Applied
  <2> QED
    BY <2>6, <2>7, <2>8 DEF t
<1>6. s.crashed \in BOOLEAN /\ s.selected \in BOOLEAN
  BY DEF States
<1> QED
  BY <1>3, <1>4, <1>5, <1>6

LEMMA StepTyped ==
    ASSUME NEW o, NEW s \in States, NEW e \in Flags
    PROVE  Step(s, o, e) \in States
<1>1. CASE s.crashed
  BY <1>1, StepCrashed
<1>2. CASE ~s.crashed /\ e.type = "output"
  BY <1>2, StepOutputIs
<1>3. CASE ~s.crashed /\ e.type = "workspace"
  BY <1>3, StepAllIs, StepWorkspaceIs
<1>4. CASE e.type \in Kinds
  BY <1>4, StepSettingIs
<1>5. e.type \in Kinds \union Selectors
  BY DEF Flags, Types
<1> QED
  BY <1>1, <1>2, <1>3, <1>4, <1>5 DEF Selectors

LEMMA ReplayTyped ==
    ASSUME NEW o, NEW list \in Seq(Flags), NEW g, Replays(g, o, list)
    PROVE  \A k \in 0 .. Len(list) : g[k] \in States
<1> DEFINE n == Len(list)
           Good == {k \in Nat : k <= n => g[k] \in States}
<1>1. n \in Nat /\ \A i \in 1 .. n : list[i] \in Flags
  BY LenProperties, ElementOfSeq
<1>2. 0 \in Good
  BY StartIs DEF Replays
<1>3. ASSUME NEW k \in Nat, k \in Good
      PROVE  k + 1 \in Good
  <2>1. SUFFICES ASSUME k + 1 <= n
                 PROVE  g[k + 1] \in States
    OBVIOUS
  <2>2. k + 1 \in 1 .. n /\ (k + 1) - 1 = k /\ k <= n
    BY <1>1, <2>1
  <2>3. g[k + 1] = Step(g[(k + 1) - 1], o, list[k + 1])
    BY <2>2 DEF Replays
  <2>4. g[k] \in States
    BY <1>3, <2>2
  <2> QED
    BY <1>1, <2>2, <2>3, <2>4, StepTyped
<1> HIDE DEF Good, n
<1>4. Nat \subseteq Good
  BY <1>2, <1>3, SetInduction
<1> QED
  BY <1>1, <1>4 DEF Good, n

LEMMA ConfigureTyped ==
    ASSUME NEW o, NEW list \in Seq(Flags)
    PROVE  Configure(o, list) \in States
<1>1. PICK g : Replays(g, o, list) /\ Configure(o, list) = g[Len(list)]
  BY ConfigureReplays
<1>2. Len(list) \in 0 .. Len(list)
  BY LenProperties
<1> QED
  BY <1>1, <1>2, ReplayTyped

-----------------------------------------------------------------------------
(***************************************************************************)
(* The option that wsbg_option_new returns: a new one, or the last of its  *)
(* kind when no selector comes after it.                                   *)
(***************************************************************************)
Reuses(list, r, kind) ==
    /\ r \in 1 .. Len(list) /\ list[r].type = kind
    /\ \A j \in r + 1 .. Len(list) : list[j].type \notin Selectors \union {kind}

Replace(list, r, v) == [list EXCEPT ![r].value = v]

LEMMA OptionNewIs ==
    ASSUME NEW list \in Seq(Flags), OptionsAreUnique(list), NEW kind \in Kinds, NEW v
    PROVE  \/ /\ OptionNew(list, kind, v) = Append(list, [type |-> kind, value |-> v])
              /\ \A i \in 1 .. Len(list) : list[i].type = kind =>
                     \E m \in i .. Len(list) : list[m].type \in Selectors
           \/ \E r \in 1 .. Len(list) :
                  /\ Reuses(list, r, kind)
                  /\ OptionNew(list, kind, v) = Replace(list, r, v)
<1> DEFINE n == Len(list)
           I == {i \in 1 .. n : list[i].type \in Selectors}
           last == IF I # {} THEN Max(I) ELSE 0
           J == {i \in last + 1 .. n : list[i].type = kind}
           reuse == IF J # {} THEN Min(J) ELSE 0
<1>1. n \in Nat /\ I \in SUBSET (1 .. n)
  BY LenProperties
<1>2. /\ last # 0 => last \in I
      /\ \A k \in I : k <= last
      /\ last \in 0 .. n
  <2> HIDE DEF I, n
  <2> QED
    BY <1>1, LastIs
<1>3. OptionNew(list, kind, v) = IF reuse = 0 THEN Append(list, [type |-> kind, value |-> v])
                                              ELSE Replace(list, reuse, v)
  BY DEF OptionNew, SelectLastInSeq, SelectInSubSeq, Replace
<1>4. J \in SUBSET Nat /\ J \subseteq 1 .. n
  <2> HIDE DEF last
  <2> QED
    BY <1>1, <1>2
<1>5. CASE J = {}
  <2>1. ASSUME NEW i \in 1 .. n, list[i].type = kind
        PROVE  \E m \in i .. n : list[m].type \in Selectors
    <3> HIDE DEF last
    <3>1. i <= last
      BY <1>1, <1>2, <1>5, <2>1
    <3>2. last \in I /\ last \in i .. n
      BY <1>1, <1>2, <2>1, <3>1
    <3> QED
      BY <3>2
  <2> QED
    BY <1>3, <1>5, <2>1
<1>6. CASE J # {}
  <2>1. Min(J) \in J /\ \A k \in J : Min(J) <= k
    BY <1>4, <1>6, MinIsLeast
  <2>2. reuse = Min(J)
    BY <1>6
  <2> HIDE DEF reuse
  <2>3. reuse \in last + 1 .. n /\ list[reuse].type = kind
    BY <2>1, <2>2
  <2>4. reuse \in 1 .. n /\ reuse # 0
    <3> HIDE DEF last
    <3> QED
      BY <1>1, <1>2, <2>3
  <2>5. ASSUME NEW j \in reuse + 1 .. n
        PROVE  list[j].type \notin Selectors \union {kind}
    <3> HIDE DEF last
    <3>1. j \in 1 .. n /\ reuse < j /\ j > last
      BY <1>1, <1>2, <2>3, <2>4
    <3>2. list[j].type \notin Selectors
      BY <1>1, <1>2, <3>1
    <3>3. ASSUME list[j].type = kind
          PROVE  FALSE
      <4>1. \E m \in reuse .. j : list[m].type \in Selectors
        BY <2>3, <2>4, <3>1, <3>3 DEF OptionsAreUnique
      <4>2. PICK m \in reuse .. j : list[m].type \in Selectors
        BY <4>1
      <4>3. m \in I /\ m > last
        BY <1>1, <1>2, <2>3, <2>4, <3>1, <4>2
      <4> QED
        BY <1>1, <1>2, <4>3
    <3> QED
      BY <3>2, <3>3
  <2>6. Reuses(list, reuse, kind)
    BY <2>3, <2>4, <2>5 DEF Reuses
  <2>7. OptionNew(list, kind, v) = Replace(list, reuse, v)
    BY <1>3, <2>4
  <2> QED
    BY <2>4, <2>6, <2>7
<1> QED
  BY <1>5, <1>6

LEMMA ReplaceIs ==
    ASSUME NEW list \in Seq(Flags), NEW r \in 1 .. Len(list),
           NEW v \in AnyValue, list[r].type = "mode" => v \in Modes, list[r].type # "workspace"
    PROVE  LET new == Replace(list, r, v)
           IN  /\ new \in Seq(Flags) /\ Len(new) = Len(list)
               /\ new[r] = [type |-> list[r].type, value |-> v]
               /\ \A i \in 1 .. Len(list) : new[i].type = list[i].type
               /\ \A i \in 1 .. Len(list) : i # r => new[i] = list[i]
<1> DEFINE e == [type |-> list[r].type, value |-> v]
           new == Replace(list, r, v)
<1>1. list[r] \in Flags /\ DOMAIN list = 1 .. Len(list)
  BY ElementOfSeq, LenProperties
<1>2. list[r] = [type |-> list[r].type, value |-> list[r].value]
  BY <1>1 DEF Flags
<1>3. [list[r] EXCEPT !.value = v] = e
  BY <1>2
<1>4. e \in Flags
  BY <1>1 DEF Flags
<1>5. new = [list EXCEPT ![r] = e]
  BY <1>1, <1>3 DEF Replace
<1> HIDE DEF e, new
<1>6. /\ new \in Seq(Flags) /\ Len(new) = Len(list)
      /\ \A j \in 1 .. Len(list) : new[j] = IF j = r THEN e ELSE list[j]
  BY <1>4, <1>5, ExceptSeq
<1>7. e.type = list[r].type
  BY DEF e
<1> QED
  BY <1>6, <1>7 DEF new, e

\* Settings of different kinds may come in either order.
LEMMA AppliedStep ==
    ASSUME NEW o, NEW s \in States, NEW t \in States, NEW kind, NEW v,
           Applied(t, s, kind, v),
           NEW e \in Flags, e.type \in Kinds, e.type # kind
    PROVE  Applied(Step(t, o, e), Step(s, o, e), kind, v)
<1> DEFINE t2 == Step(t, o, e)
           s2 == Step(s, o, e)
<1>1. Applied(t2, t, e.type, e.value) /\ Applied(s2, s, e.type, e.value)
  BY StepSettingIs
<1> HIDE DEF t2, s2
<1>2. /\ t2.configs = s2.configs /\ t2.others = s2.others
      /\ t2.selected = s2.selected /\ t2.crashed = s2.crashed
  BY <1>1 DEF Applied
<1>3. /\ s2.crashed = s.crashed /\ s2.selected = s.selected /\ s2.configs = s.configs
      /\ t.crashed = s.crashed /\ t.selected = s.selected /\ t.configs = s.configs
  BY <1>1 DEF Applied
<1>4. ASSUME NEW w \in Owners, NEW k \in Kinds
      PROVE  t2.look[w][k] = IF k = kind /\ ~s2.crashed /\ s2.selected /\ w \in ToSet(s2.configs)
                             THEN v ELSE s2.look[w][k]
  <2> DEFINE takes == ~s.crashed /\ s.selected /\ w \in ToSet(s.configs)
  <2>1. t2.look[w][k] = IF k = e.type /\ takes THEN e.value ELSE t.look[w][k]
    BY <1>1, <1>3 DEF Applied
  <2>2. s2.look[w][k] = IF k = e.type /\ takes THEN e.value ELSE s.look[w][k]
    BY <1>1 DEF Applied
  <2>3. t.look[w][k] = IF k = kind /\ takes THEN v ELSE s.look[w][k]
    BY DEF Applied
  <2>4. takes <=> ~s2.crashed /\ s2.selected /\ w \in ToSet(s2.configs)
    BY <1>3
  <2> HIDE DEF takes
  <2>5. t2.look[w][k] = IF k = kind /\ takes THEN v ELSE s2.look[w][k]
    BY <2>1, <2>2, <2>3
  <2> QED
    BY <2>4, <2>5
<1>5. Applied(t2, s2, kind, v)
  BY <1>2, <1>4 DEF Applied
<1> QED
  BY <1>5 DEF t2, s2

\* The later of two settings of a kind decides.
LEMMA AppliedAgain ==
    ASSUME NEW o, NEW s \in States, NEW e \in Flags, NEW f \in Flags,
           e.type \in Kinds, f.type = e.type
    PROVE  Applied(Step(s, o, f), Step(s, o, e), e.type, f.value)
<1> DEFINE t2 == Step(s, o, f)
           s2 == Step(s, o, e)
           kind == e.type
<1>1. Applied(t2, s, kind, f.value) /\ Applied(s2, s, kind, e.value)
  BY StepSettingIs
<1> HIDE DEF t2, s2
<1>2. /\ t2.configs = s2.configs /\ t2.others = s2.others
      /\ t2.selected = s2.selected /\ t2.crashed = s2.crashed
      /\ s2.crashed = s.crashed /\ s2.selected = s.selected /\ s2.configs = s.configs
  BY <1>1 DEF Applied
<1>3. ASSUME NEW w \in Owners, NEW k \in Kinds
      PROVE  t2.look[w][k] = IF k = kind /\ ~s2.crashed /\ s2.selected /\ w \in ToSet(s2.configs)
                             THEN f.value ELSE s2.look[w][k]
  <2> DEFINE takes == ~s.crashed /\ s.selected /\ w \in ToSet(s.configs)
  <2>1. t2.look[w][k] = IF k = kind /\ takes THEN f.value ELSE s.look[w][k]
    BY <1>1 DEF Applied
  <2>2. s2.look[w][k] = IF k = kind /\ takes THEN e.value ELSE s.look[w][k]
    BY <1>1 DEF Applied
  <2>3. takes <=> ~s2.crashed /\ s2.selected /\ w \in ToSet(s2.configs)
    BY <1>2
  <2> HIDE DEF takes
  <2>4. t2.look[w][k] = IF k = kind /\ takes THEN f.value ELSE s2.look[w][k]
    BY <2>1, <2>2
  <2> QED
    BY <2>3, <2>4
<1>4. Applied(t2, s2, kind, f.value)
  BY <1>2, <1>3 DEF Applied
<1> QED
  BY <1>4 DEF t2, s2

LEMMA ReplaceApplies ==
    ASSUME NEW o, NEW list \in Seq(Flags), NEW kind \in Kinds,
           NEW r \in 1 .. Len(list), Reuses(list, r, kind),
           NEW v \in AnyValue, kind = "mode" => v \in Modes
    PROVE  LET s == Configure(o, list)
               t == Configure(o, Replace(list, r, v))
           IN  Applied(t, s, kind, v) /\ (~t.crashed => t.prev \in Kinds)
<1> DEFINE n == Len(list)
           new == Replace(list, r, v)
<1>1. n \in Nat /\ \A i \in 1 .. n : list[i] \in Flags
  BY LenProperties, ElementOfSeq
<1>2. list[r].type = kind /\ \A j \in r + 1 .. n : list[j].type \notin Selectors \union {kind}
  BY DEF Reuses
<1>3. /\ new \in Seq(Flags) /\ Len(new) = n
      /\ new[r] = [type |-> kind, value |-> v]
      /\ \A i \in 1 .. n : new[i].type = list[i].type
      /\ \A i \in 1 .. n : i # r => new[i] = list[i]
  <2>1. list[r].type # "workspace"
    BY <1>2 DEF Kinds
  <2> QED
    BY <1>2, <2>1, ReplaceIs
<1> HIDE DEF n, new
<1>4. PICK g : Replays(g, o, list) /\ Configure(o, list) = g[n]
  BY ConfigureReplays DEF n
<1>5. PICK h : Replays(h, o, new) /\ Configure(o, new) = h[n]
  BY <1>3, ConfigureReplays
<1>6. \A k \in 0 .. n : g[k] \in States /\ h[k] \in States
  BY <1>3, <1>4, <1>5, ReplayTyped DEF n
<1>7. \A i \in 1 .. n : list[i] \in Flags /\ new[i] \in Flags
  BY <1>1, <1>3, ElementOfSeq
<1>8. \A i \in 1 .. n : g[i] = Step(g[i - 1], o, list[i]) /\ h[i] = Step(h[i - 1], o, new[i])
  BY <1>3, <1>4, <1>5 DEF Replays, n
<1>9. r \in 1 .. n /\ r \in Nat
  BY <1>1 DEF n
<1> DEFINE Good == {k \in Nat : k <= n =>
                       /\ k < r => h[k] = g[k]
                       /\ r <= k => Applied(h[k], g[k], kind, v)}
<1>10. 0 \in Good
  <2>1. h[0] = g[0]
    BY <1>4, <1>5 DEF Replays
  <2> QED
    BY <1>9, <2>1
<1>11. ASSUME NEW k \in Nat, k \in Good
       PROVE  k + 1 \in Good
  <2>1. SUFFICES ASSUME k + 1 <= n
                 PROVE  /\ k + 1 < r => h[k + 1] = g[k + 1]
                        /\ r <= k + 1 => Applied(h[k + 1], g[k + 1], kind, v)
    OBVIOUS
  <2>2. k + 1 \in 1 .. n /\ (k + 1) - 1 = k /\ k \in 0 .. n
    BY <1>1, <2>1
  <2>3. g[k + 1] = Step(g[k], o, list[k + 1]) /\ h[k + 1] = Step(h[k], o, new[k + 1])
    <3>1. /\ g[k + 1] = Step(g[(k + 1) - 1], o, list[k + 1])
          /\ h[k + 1] = Step(h[(k + 1) - 1], o, new[k + 1])
      BY <1>8, <2>2
    <3> QED
      BY <2>2, <3>1
  <2>4. g[k] \in States /\ h[k] \in States /\ list[k + 1] \in Flags /\ new[k + 1] \in Flags
    BY <1>6, <1>7, <2>2
  <2>5. CASE k + 1 < r
    <3>1. h[k] = g[k]
      BY <1>9, <1>11, <2>1, <2>5, <2>2
    <3>2. new[k + 1] = list[k + 1]
      BY <1>3, <2>2, <2>5
    <3> HIDE DEF Good
    <3>3. h[k + 1] = g[k + 1] /\ ~(r <= k + 1)
      BY <1>9, <2>3, <2>5, <3>1, <3>2
    <3> QED
      BY <3>3
  <2>6. CASE k + 1 = r
    <3>1. h[k] = g[k]
      BY <1>9, <1>11, <2>1, <2>6, <2>2
    <3> HIDE DEF Good
    <3>2. list[k + 1].type = kind /\ new[k + 1].type = kind /\ new[k + 1].value = v
      BY <1>2, <1>3, <2>6
    <3>3. Applied(Step(g[k], o, new[k + 1]), Step(g[k], o, list[k + 1]), kind, v)
      BY <2>4, <3>2, AppliedAgain
    <3>4. Applied(h[k + 1], g[k + 1], kind, v)
      BY <2>3, <3>1, <3>3
    <3> QED
      BY <1>9, <2>6, <3>4
  <2>7. CASE k + 1 > r
    <3>1. Applied(h[k], g[k], kind, v)
      BY <1>9, <1>11, <2>1, <2>7, <2>2
    <3> HIDE DEF Good
    <3>2. k + 1 \in r + 1 .. n /\ k + 1 # r
      BY <1>9, <2>2, <2>7
    <3>3. list[k + 1].type \in Kinds /\ list[k + 1].type # kind
      BY <1>2, <2>4, <3>2 DEF Flags, Types
    <3>4. new[k + 1] = list[k + 1]
      BY <1>3, <2>2, <3>2
    <3>5. Applied(Step(h[k], o, list[k + 1]), Step(g[k], o, list[k + 1]), kind, v)
      BY <2>4, <3>1, <3>3, AppliedStep
    <3>6. Applied(h[k + 1], g[k + 1], kind, v)
      BY <2>3, <3>4, <3>5
    <3> QED
      BY <1>9, <2>7, <3>6
  <2> QED
    BY <1>9, <2>5, <2>6, <2>7
<1> HIDE DEF Good
<1>12. n \in Good
  BY <1>1, <1>10, <1>11, SetInduction
<1>13. Applied(h[n], g[n], kind, v)
  BY <1>1, <1>9, <1>12 DEF Good
<1>14. n \in 1 .. n /\ n - 1 \in 0 .. n /\ n \in 0 .. n
  BY <1>1, <1>9
<1>15. new[n].type \in Kinds
  <2>1. CASE n = r
    BY <1>2, <1>3, <1>14, <2>1
  <2>2. CASE n # r
    <3>1. n \in r + 1 .. n
      BY <1>1, <1>9, <2>2
    <3> QED
      BY <1>2, <1>3, <1>7, <1>14, <3>1 DEF Flags, Types
  <2> QED
    BY <2>1, <2>2
<1>16. ~h[n].crashed => h[n].prev \in Kinds
  <2>1. h[n] = Step(h[n - 1], o, new[n]) /\ h[n - 1] \in States /\ new[n] \in Flags
    BY <1>6, <1>7, <1>8, <1>14
  <2>2. /\ Applied(h[n], h[n - 1], new[n].type, new[n].value)
        /\ ~h[n - 1].crashed => h[n].prev = new[n].type
    BY <1>15, <2>1, StepSettingIs
  <2>3. h[n].crashed = h[n - 1].crashed
    BY <2>2 DEF Applied
  <2> QED
    BY <1>15, <2>2, <2>3
<1> QED
  BY <1>4, <1>5, <1>13, <1>16 DEF new

\* Whether it is reused or new, the option applies its setting at the end.
LEMMA OptionNewApplies ==
    ASSUME NEW list \in Seq(Flags), OptionsAreUnique(list), NEW kind \in Kinds,
           NEW v \in AnyValue, kind = "mode" => v \in Modes
    PROVE  LET new == OptionNew(list, kind, v)
           IN  /\ new \in Seq(Flags)
               /\ OptionsAreUnique(new)
               /\ \A o : LET s == Configure(o, list)
                             t == Configure(o, new)
                         IN  Applied(t, s, kind, v) /\ (~t.crashed => t.prev \in Kinds)
<1> DEFINE n == Len(list)
           e == [type |-> kind, value |-> v]
           new == OptionNew(list, kind, v)
<1>1. e \in Flags /\ e.type = kind /\ e.value = v
  BY DEF Flags, Types, Kinds
<1>2. n \in Nat
  BY LenProperties
<1> HIDE DEF n, e, new
<1>3. CASE /\ new = Append(list, e)
           /\ \A i \in 1 .. n : list[i].type = kind =>
                  \E m \in i .. n : list[m].type \in Selectors
  <2>1. /\ new \in Seq(Flags) /\ Len(new) = n + 1
        /\ (\A i \in 1 .. n : new[i] = list[i]) /\ new[n + 1] = e
    BY <1>1, <1>3, AppendProperties DEF n
  <2>2. ASSUME NEW i \in 1 .. n + 1, NEW j \in 1 .. n + 1,
               i < j, new[i].type = new[j].type, new[i].type \in Kinds
        PROVE  \E m \in i .. j : new[m].type \in Selectors
    <3>1. CASE j = n + 1
      <4>1. i \in 1 .. n /\ list[i].type = kind
        BY <1>1, <1>2, <2>1, <2>2, <3>1
      <4>2. PICK m \in i .. n : list[m].type \in Selectors
        BY <1>3, <4>1
      <4>3. m \in 1 .. n /\ m \in i .. j
        BY <1>2, <3>1, <4>1
      <4>4. new[m].type \in Selectors
        BY <2>1, <4>2, <4>3
      <4> QED
        BY <4>3, <4>4
    <3>2. CASE j # n + 1
      <4>1. i \in 1 .. n /\ j \in 1 .. n
        BY <1>2, <2>2, <3>2
      <4>2. list[i].type = list[j].type /\ list[i].type \in Kinds
        BY <2>1, <2>2, <4>1
      <4>3. PICK m \in i .. j : list[m].type \in Selectors
        BY <2>2, <4>1, <4>2 DEF OptionsAreUnique, n
      <4>4. m \in 1 .. n
        BY <1>2, <4>1
      <4> QED
        BY <2>1, <4>3, <4>4
    <3> QED
      BY <3>1, <3>2
  <2>3. OptionsAreUnique(new)
    BY <2>1, <2>2 DEF OptionsAreUnique
  <2>4. ASSUME NEW o
        PROVE  LET s == Configure(o, list)
                   t == Configure(o, new)
               IN  Applied(t, s, kind, v) /\ (~t.crashed => t.prev \in Kinds)
    <3> DEFINE s == Configure(o, list)
               t == Configure(o, new)
    <3>1. t = Step(s, o, e)
      BY <1>1, <1>3, ConfigureAppend
    <3>2. s \in States
      BY ConfigureTyped
    <3> HIDE DEF s, t
    <3>3. Applied(t, s, kind, v) /\ (~s.crashed => t.prev = kind)
      BY <1>1, <3>1, <3>2, StepSettingIs
    <3>4. t.crashed = s.crashed
      BY <3>3 DEF Applied
    <3> QED
      BY <3>3, <3>4 DEF s, t
  <2> QED
    BY <2>1, <2>3, <2>4 DEF new
<1>4. ASSUME NEW r \in 1 .. n, Reuses(list, r, kind), new = Replace(list, r, v)
      PROVE  /\ new \in Seq(Flags)
             /\ OptionsAreUnique(new)
             /\ \A o : LET s == Configure(o, list)
                           t == Configure(o, new)
                       IN  Applied(t, s, kind, v) /\ (~t.crashed => t.prev \in Kinds)
  <2>1. list[r].type = kind
    BY <1>4 DEF Reuses
  <2>2. /\ new \in Seq(Flags) /\ Len(new) = n
        /\ \A i \in 1 .. n : new[i].type = list[i].type
    <3>1. list[r].type # "workspace" /\ (list[r].type = "mode" => v \in Modes)
      BY <2>1 DEF Kinds
    <3>2. r \in 1 .. Len(list)
      BY DEF n
    <3> DEFINE u == Replace(list, r, v)
    <3>3. /\ u \in Seq(Flags) /\ Len(u) = Len(list)
          /\ \A i \in 1 .. Len(list) : u[i].type = list[i].type
      BY <3>1, <3>2, ReplaceIs
    <3> HIDE DEF u
    <3>4. new = u
      BY <1>4 DEF u
    <3> QED
      BY <3>3, <3>4 DEF n
  <2>3. ASSUME NEW i \in 1 .. n, NEW j \in 1 .. n,
               i < j, new[i].type = new[j].type, new[i].type \in Kinds
        PROVE  \E m \in i .. j : new[m].type \in Selectors
    <3>1. list[i].type = list[j].type /\ list[i].type \in Kinds
      BY <2>2, <2>3
    <3>2. PICK m \in i .. j : list[m].type \in Selectors
      BY <2>3, <3>1 DEF OptionsAreUnique, n
    <3>3. m \in 1 .. n
      BY <1>2
    <3> QED
      BY <2>2, <3>2, <3>3
  <2>4. OptionsAreUnique(new)
    BY <2>2, <2>3 DEF OptionsAreUnique
  <2>5. ASSUME NEW o
        PROVE  LET s == Configure(o, list)
                   t == Configure(o, new)
               IN  Applied(t, s, kind, v) /\ (~t.crashed => t.prev \in Kinds)
    BY <1>4, ReplaceApplies DEF n
  <2> QED
    BY <2>2, <2>4, <2>5
<1>5. \/ /\ new = Append(list, e)
         /\ \A i \in 1 .. n : list[i].type = kind =>
                \E m \in i .. n : list[m].type \in Selectors
      \/ \E r \in 1 .. n : Reuses(list, r, kind) /\ new = Replace(list, r, v)
  BY OptionNewIs DEF n, e, new
<1> QED
  BY <1>3, <1>4, <1>5 DEF new

-----------------------------------------------------------------------------
(***************************************************************************)
(* What one more flag means.                                               *)
(***************************************************************************)
LEMMA EndIs ==
    ASSUME NEW list, NEW k \in Nat, NEW type
    PROVE  LET end == EndOf(list, k, type)
           IN  /\ end \in 0 .. k
               /\ end # 0 => list[end].type = type
               /\ \A i \in 1 .. k : list[i].type = type => i <= end
<1> DEFINE I == {i \in 1 .. k : list[i].type = type}
           end == IF I # {} THEN Max(I) ELSE 0
<1>1. EndOf(list, k, type) = end
  BY DEF EndOf, SelectLastInSubSeq
<1>2. I \in SUBSET (1 .. k)
  OBVIOUS
<1>3. end \in 0 .. k /\ (end # 0 => end \in I) /\ \A i \in I : i <= end
  <2> HIDE DEF I
  <2> QED
    BY <1>2, LastIs
<1> HIDE DEF end
<1> QED
  BY <1>1, <1>3

\* Two lists that agree up to k have the same runs there.
LEMMA RunAgrees ==
    ASSUME NEW list, NEW new, NEW k \in Nat, NEW type,
           \A i \in 1 .. k : new[i] = list[i]
    PROVE  RunOf(new, k, type) = RunOf(list, k, type)
<1> DEFINE end == EndOf(list, k, type)
<1>1. EndOf(new, k, type) = end
  <2>1. {i \in 1 .. k : new[i].type = type} = {i \in 1 .. k : list[i].type = type}
    OBVIOUS
  <2> QED
    BY <2>1 DEF EndOf, SelectLastInSubSeq
<1>2. end \in 0 .. k
  BY EndIs
<1> HIDE DEF end
<1>3. \A i \in 1 .. end : i \in 1 .. k /\ new[i] = list[i]
  BY <1>2
<1>4. ASSUME NEW i \in 1 .. end
      PROVE  (\A m \in i .. end : new[m].type = type) <=> (\A m \in i .. end : list[m].type = type)
  <2>1. \A m \in i .. end : m \in 1 .. end
    BY <1>2
  <2> QED
    BY <1>3, <2>1
<1>5. RunAt(new, end, type) = RunAt(list, end, type)
  BY <1>4 DEF RunAt
<1>6. \A j \in RunAt(list, end, type) : new[j].value = list[j].value
  BY <1>3 DEF RunAt
<1> QED
  BY <1>1, <1>5, <1>6 DEF RunOf, end

\* The longer list, by a name of its own: the next two lemmas state facts
\* about it that need none of the definition of Append.
With(list, e) == Append(list, e)

LEMMA RunGrows ==
    ASSUME NEW list \in Seq(Flags), NEW e \in Flags, NEW type
    PROVE  /\ e.type # type =>
                  RunOf(With(list, e), Len(list) + 1, type) = RunOf(list, Len(list), type)
           /\ e.type = type /\ LastIsA(list, type) =>
                  /\ RunOf(list, Len(list), type) # {}
                  /\ \A x : x \in RunOf(With(list, e), Len(list) + 1, type) <=>
                                x \in RunOf(list, Len(list), type) \/ x = e.value
           /\ e.type = type /\ ~LastIsA(list, type) =>
                  \A x : x \in RunOf(With(list, e), Len(list) + 1, type) <=> x = e.value
<1> DEFINE new == With(list, e)
           n == Len(list)
<1>1. n \in Nat /\ (\A i \in 1 .. n : new[i] = list[i]) /\ new[n + 1] = e
  BY AppendProperties, LenProperties DEF With
<1>2. LastIsA(list, type) <=> n # 0 /\ list[n].type = type
  BY DEF LastIsA
<1> HIDE DEF new, n
<1>3. EndOf(list, n, type) = n <=> n = 0 \/ list[n].type = type
  <2> DEFINE end == EndOf(list, n, type)
  <2>1. /\ end \in 0 .. n
        /\ end # 0 => list[end].type = type
        /\ \A i \in 1 .. n : list[i].type = type => i <= end
    BY <1>1, EndIs
  <2> HIDE DEF end
  <2>2. n # 0 => n \in 1 .. n
    BY <1>1
  <2>3. n # 0 /\ list[n].type = type => end = n
    BY <1>1, <2>1, <2>2
  <2> QED
    BY <1>1, <2>1, <2>3 DEF end
<1>4. ASSUME e.type = type
      PROVE  EndOf(new, n + 1, type) = n + 1
  <2> DEFINE end == EndOf(new, n + 1, type)
  <2>1. n + 1 \in Nat /\ n + 1 \in 1 .. n + 1
    BY <1>1
  <2>2. end \in 0 .. n + 1 /\ \A i \in 1 .. n + 1 : new[i].type = type => i <= end
    BY <2>1, EndIs
  <2> HIDE DEF end
  <2>3. end = n + 1
    BY <1>1, <1>4, <2>1, <2>2
  <2> QED
    BY <2>3 DEF end
<1>5. ASSUME e.type # type
      PROVE  RunOf(new, n + 1, type) = RunOf(list, n, type)
  <2>1. RunOf(new, n, type) = RunOf(list, n, type)
    BY <1>1, RunAgrees
  <2>2. ASSUME NEW i \in 1 .. n + 1, new[i].type = type
        PROVE  i \in 1 .. n
    BY <1>1, <1>5, <2>2
  <2>3. 1 .. n \subseteq 1 .. n + 1
    BY <1>1
  <2>4. {i \in 1 .. n + 1 : new[i].type = type} = {i \in 1 .. n : new[i].type = type}
    BY <2>2, <2>3
  <2>5. EndOf(new, n + 1, type) = EndOf(new, n, type)
    BY <2>4 DEF EndOf, SelectLastInSubSeq
  <2> QED
    BY <2>1, <2>5 DEF RunOf
<1>6. ASSUME e.type = type, LastIsA(list, type)
      PROVE  /\ RunOf(list, n, type) # {}
             /\ RunOf(new, n + 1, type) = RunOf(list, n, type) \union {e.value}
  <2>1. EndOf(list, n, type) = n /\ n \in 1 .. n
    BY <1>1, <1>2, <1>3, <1>6
  <2>2. n \in RunAt(list, n, type)
    <3>1. \A m \in n .. n : m = n
      BY <1>1
    <3> QED
      BY <1>2, <1>6, <2>1, <3>1 DEF RunAt
  <2>3. RunOf(list, n, type) # {}
    BY <2>1, <2>2 DEF RunOf
  <2>4. RunAt(new, n + 1, type) = RunAt(list, n, type) \union {n + 1}
    <3>1. \A m \in n + 1 .. n + 1 : new[m].type = type
      BY <1>1, <1>6
    <3>2. n + 1 \in RunAt(new, n + 1, type)
      BY <1>1, <3>1 DEF RunAt
    <3>3. ASSUME NEW i \in 1 .. n
          PROVE  (\A m \in i .. n + 1 : new[m].type = type) <=> \A m \in i .. n : list[m].type = type
      <4>1. ASSUME \A m \in i .. n : list[m].type = type
            PROVE  \A m \in i .. n + 1 : new[m].type = type
        <5>1. ASSUME NEW m \in i .. n + 1
              PROVE  new[m].type = type
          <6>1. CASE m = n + 1
            BY <1>1, <1>6, <6>1
          <6>2. CASE m # n + 1
            <7>1. m \in i .. n /\ m \in 1 .. n
              BY <1>1, <6>2
            <7> QED
              BY <1>1, <4>1, <7>1
          <6> QED
            BY <6>1, <6>2
        <5> QED
          BY <5>1
      <4>2. \A m \in i .. n : m \in i .. n + 1 /\ m \in 1 .. n
        BY <1>1
      <4> QED
        BY <1>1, <4>1, <4>2
    <3>4. 1 .. n + 1 = (1 .. n) \union {n + 1}
      BY <1>1
    <3> QED
      BY <3>2, <3>3, <3>4 DEF RunAt
  <2>5. \A j \in RunAt(list, n, type) : new[j].value = list[j].value
    BY <1>1 DEF RunAt
  <2>6. EndOf(new, n + 1, type) = n + 1
    BY <1>4, <1>6
  <2>7. RunOf(new, n + 1, type) = {new[j].value : j \in RunAt(list, n, type) \union {n + 1}}
    BY <2>4, <2>6 DEF RunOf
  <2>8. RunOf(list, n, type) = {list[j].value : j \in RunAt(list, n, type)}
    BY <2>1 DEF RunOf
  <2>9. RunOf(new, n + 1, type) = RunOf(list, n, type) \union {e.value}
    BY <1>1, <2>5, <2>7, <2>8
  <2> QED
    BY <2>3, <2>9
<1>7. ASSUME e.type = type, ~LastIsA(list, type)
      PROVE  RunOf(new, n + 1, type) = {e.value}
  <2>1. \A m \in n + 1 .. n + 1 : new[m].type = type
    BY <1>1, <1>7
  <2>2. n + 1 \in RunAt(new, n + 1, type)
    BY <1>1, <2>1 DEF RunAt
  <2>3. ASSUME NEW i \in 1 .. n
        PROVE  ~ \A m \in i .. n + 1 : new[m].type = type
    <3>1. n \in i .. n + 1 /\ n \in 1 .. n /\ n # 0
      BY <1>1
    <3> QED
      BY <1>1, <1>2, <1>7, <3>1
  <2>4. 1 .. n + 1 = (1 .. n) \union {n + 1}
    BY <1>1
  <2>5. RunAt(new, n + 1, type) = {n + 1}
    BY <2>2, <2>3, <2>4 DEF RunAt
  <2>6. EndOf(new, n + 1, type) = n + 1
    BY <1>4, <1>7
  <2> QED
    BY <1>1, <2>5, <2>6 DEF RunOf
<1> QED
  BY <1>5, <1>6, <1>7 DEF new, n

LEMMA MeantGrows ==
    ASSUME NEW list \in Seq(Flags), NEW e \in Flags, NEW o, NEW w, NEW kind
    PROVE  MeantOf(With(list, e), o, w, kind) =
               IF /\ SetBy(e, kind)
                  /\ SelectsOf(With(list, e), Len(list) + 1, "output", Called[o])
                  /\ SelectsNamed(With(list, e), Len(list) + 1, w)
               THEN ValueBy(e, kind) ELSE MeantOf(list, o, w, kind)
<1> DEFINE new == With(list, e)
           n == Len(list)
           I == ApplyingOf(list, o, w, kind)
           J == ApplyingOf(new, o, w, kind)
<1>1. /\ n \in Nat /\ (\A i \in 1 .. n : new[i] = list[i]) /\ new[n + 1] = e
      /\ Len(new) = n + 1
  BY AppendProperties, LenProperties DEF With
<1> HIDE DEF new, n
<1>2. ASSUME NEW i \in 1 .. n
      PROVE  AppliesOf(new, i, o, w, kind) <=> AppliesOf(list, i, o, w, kind)
  <2>1. i \in Nat /\ \A j \in 1 .. i : new[j] = list[j]
    BY <1>1
  <2>2. \A type : RunOf(new, i, type) = RunOf(list, i, type)
    BY <2>1, RunAgrees
  <2> QED
    BY <1>1, <2>2 DEF AppliesOf, SelectsOf, SelectsNamed
<1>3. AppliesOf(new, n + 1, o, w, kind) <=>
          /\ SetBy(e, kind)
          /\ SelectsOf(new, n + 1, "output", Called[o])
          /\ SelectsNamed(new, n + 1, w)
  BY <1>1 DEF AppliesOf
<1>4. I = {i \in 1 .. n : AppliesOf(list, i, o, w, kind)}
      /\ J = {i \in 1 .. n + 1 : AppliesOf(new, i, o, w, kind)}
  BY <1>1 DEF ApplyingOf, n
<1>5. 1 .. n + 1 = (1 .. n) \union {n + 1} /\ n + 1 \notin 1 .. n
  BY <1>1
<1> HIDE DEF I, J
<1>6. CASE AppliesOf(new, n + 1, o, w, kind)
  <2>1. n + 1 \in J /\ J \in SUBSET (1 .. n + 1) /\ n + 1 \in Nat
    BY <1>1, <1>4, <1>5, <1>6
  <2>2. Max(J) \in J /\ \A k \in J : k <= Max(J)
    BY <2>1, MaxIsGreatest
  <2>3. Max(J) \in 1 .. n + 1 /\ n + 1 <= Max(J)
    BY <2>1, <2>2
  <2>4. Max(J) = n + 1
    BY <1>1, <2>3
  <2> QED
    BY <1>1, <1>3, <1>6, <2>1, <2>4 DEF MeantOf, J, new, n
<1>7. CASE ~AppliesOf(new, n + 1, o, w, kind)
  <2>1. J = I
    BY <1>2, <1>4, <1>5, <1>7
  <2>2. I # {} => Max(I) \in 1 .. n
    <3>1. I \in SUBSET (1 .. n)
      BY <1>4
    <3> QED
      BY <1>1, <3>1, MaxIsGreatest
  <2>3. MeantOf(new, o, w, kind) = MeantOf(list, o, w, kind)
    BY <1>1, <2>1, <2>2 DEF MeantOf, I, J
  <2> QED
    BY <1>3, <1>7, <2>3 DEF new, n
<1> QED
  BY <1>6, <1>7

LEMMA MeantKept ==
    ASSUME NEW list \in Seq(Flags), NEW e \in Flags, e.type \in Selectors,
           NEW o, NEW w, NEW kind \in Kinds
    PROVE  MeantOf(With(list, e), o, w, kind) = MeantOf(list, o, w, kind)
<1>1. ~SetBy(e, kind)
  BY DEF SetBy, Selectors, Kinds
<1>2. MeantOf(With(list, e), o, w, kind) =
          IF /\ SetBy(e, kind)
             /\ SelectsOf(With(list, e), Len(list) + 1, "output", Called[o])
             /\ SelectsNamed(With(list, e), Len(list) + 1, w)
          THEN ValueBy(e, kind) ELSE MeantOf(list, o, w, kind)
  BY MeantGrows
<1> QED
  BY <1>1, <1>2

LEMMA LastOfAppend ==
    ASSUME NEW list \in Seq(Flags), NEW e \in Flags
    PROVE  /\ Len(With(list, e)) = Len(list) + 1
           /\ \A type : LastIsA(With(list, e), type) <=> e.type = type
<1>1. Len(With(list, e)) = Len(list) + 1 /\ With(list, e)[Len(list) + 1] = e
      /\ Len(list) \in Nat
  BY AppendProperties, LenProperties DEF With
<1>2. Len(list) + 1 # 0
  BY <1>1
<1> QED
  BY <1>1, <1>2 DEF LastIsA

\* Only a flag for a workspace asks for a configuration.
LEMMA NamedGrows ==
    ASSUME NEW list \in Seq(Flags), NEW e \in Flags
    PROVE  NamedBy(With(list, e)) =
               IF e.type = "workspace" THEN NamedBy(list) \union {e.value} ELSE NamedBy(list)
<1> DEFINE n == Len(list)
           new == With(list, e)
<1>1. /\ n \in Nat /\ Len(new) = n + 1
      /\ (\A i \in 1 .. n : new[i] = list[i]) /\ new[n + 1] = e
  BY AppendProperties, LenProperties DEF With
<1> HIDE DEF new, n
<1>2. \A i : i \in 1 .. n + 1 <=> i \in 1 .. n \/ i = n + 1
  BY <1>1
<1>3. ASSUME NEW x
      PROVE  (\E i \in 1 .. n + 1 : new[i].type = "workspace" /\ new[i].value = x) <=>
                 \/ \E i \in 1 .. n : list[i].type = "workspace" /\ list[i].value = x
                 \/ e.type = "workspace" /\ e.value = x
  BY <1>1, <1>2
<1>4. /\ \A x : x \in NamedBy(list) <=>
                \/ x = All
                \/ \E i \in 1 .. n : list[i].type = "workspace" /\ list[i].value = x
      /\ \A x : x \in NamedBy(new) <=>
                \/ x = All
                \/ \E i \in 1 .. n + 1 : new[i].type = "workspace" /\ new[i].value = x
  BY <1>1 DEF NamedBy, n
<1>5. \A x : x \in NamedBy(new) <=>
          x \in NamedBy(list) \/ (e.type = "workspace" /\ x = e.value)
  BY <1>3, <1>4
<1> QED
  BY <1>5 DEF new

LEMMA LookIs ==
    ASSUME NEW s \in States, NEW w
    PROVE  LookOf(s, w) = IF w \in Configured(s) THEN s.look[w] ELSE s.look[All]
<1>1. ToSet(s.configs \o s.others) = Configured(s)
  BY MembersOfConcat DEF States, Configured
<1> QED
  BY <1>1 DEF LookOf

-----------------------------------------------------------------------------
(***************************************************************************)
(* Every option keeps the state of configure_output what the flags mean.   *)
(***************************************************************************)
LEMMA StartMeans ==
    ASSUME NEW o
    PROVE  Means(<<>>, o, StartConfigure)
<1> DEFINE s == StartConfigure
<1>1. ToSet(s.configs) = {All} /\ ToSet(s.others) = {} /\ s \in States
  BY StartIs, MembersOfOne, MembersOfNone
<1>2. Configured(s) = {All}
  BY <1>1 DEF Configured
<1>3. Len(<<>>) = 0
  OBVIOUS
<1>4. ASSUME NEW type
      PROVE  RunOf(<<>>, 0, type) = {}
  <2>1. EndOf(<<>>, 0, type) \in 0 .. 0
    BY EndIs
  <2>2. EndOf(<<>>, 0, type) = 0 /\ 1 .. 0 = {}
    BY <2>1
  <2> QED
    BY <2>2 DEF RunOf, RunAt
<1>5. \A names, type : SelectsOf(<<>>, Len(<<>>), type, names)
  BY <1>3, <1>4 DEF SelectsOf
<1>6. ASSUME NEW type \in Selectors
      PROVE  s.prev = type <=> LastIsA(<<>>, type)
  BY <1>3, StartIs DEF LastIsA, Selectors
<1>7. ASSUME NEW w \in Workspaces
      PROVE  Affects(s, w)
  BY <1>1, <1>2 DEF Affects
<1>8. ASSUME NEW w \in Workspaces, NEW kind \in Kinds
      PROVE  LookOf(s, w)[kind] = MeantOf(<<>>, o, w, kind)
  <2>1. 1 .. 0 = {}
    OBVIOUS
  <2>2. ApplyingOf(<<>>, o, w, kind) = {}
    BY <1>3, <2>1 DEF ApplyingOf
  <2>3. MeantOf(<<>>, o, w, kind) = Unset
    BY <2>2 DEF MeantOf
  <2>4. \A x \in Owners : s.look[x][kind] = Unset
    BY StartIs
  <2>5. w \in Owners /\ All \in Owners
    BY DEF Owners
  <2>6. LookOf(s, w) \in {s.look[w], s.look[All]}
    BY <1>1, LookIs
  <2> QED
    BY <2>3, <2>4, <2>5, <2>6
<1>9. NamedBy(<<>>) = {All}
  <2>1. 1 .. 0 = {}
    OBVIOUS
  <2> QED
    BY <1>3, <2>1 DEF NamedBy
<1> QED
  BY <1>2, <1>5, <1>6, <1>7, <1>8, <1>9, StartIs DEF Means, SelectsNamed

LEMMA OutputMeans ==
    ASSUME NEW o, NEW s \in States, ~s.crashed, NEW list \in Seq(Flags), Means(list, o, s),
           NEW e \in Flags, e.type = "output"
    PROVE  Means(With(list, e), o, Step(s, o, e))
<1> DEFINE t == Step(s, o, e)
           new == With(list, e)
           n == Len(list)
<1>1. /\ t \in States /\ ~t.crashed /\ t.prev = "output"
      /\ t.configs = s.configs /\ t.others = s.others /\ t.look = s.look
      /\ t.selected <=> \/ s.selected /\ s.prev = "output"
                        \/ e.value = All
                        \/ e.value \in Called[o]
  BY StepOutputIs
<1>2. Len(new) = n + 1 /\ \A type : LastIsA(new, type) <=> e.type = type
  BY LastOfAppend
<1>3. /\ RunOf(new, n + 1, "workspace") = RunOf(list, n, "workspace")
      /\ LastIsA(list, "output") =>
             /\ RunOf(list, n, "output") # {}
             /\ \A x : x \in RunOf(new, n + 1, "output") <=>
                           x \in RunOf(list, n, "output") \/ x = e.value
      /\ ~LastIsA(list, "output") => \A x : x \in RunOf(new, n + 1, "output") <=> x = e.value
  BY RunGrows
<1>4. \A w \in Workspaces, kind \in Kinds : MeantOf(new, o, w, kind) = MeantOf(list, o, w, kind)
  BY MeantKept DEF Selectors
<1>5. NamedBy(new) = NamedBy(list)
  BY NamedGrows
<1> HIDE DEF t, new, n
<1>6. Configured(t) = Configured(s) /\ \A w : Affects(t, w) <=> Affects(s, w)
  BY <1>1 DEF Configured, Affects
<1>7. \A w : LookOf(t, w) = LookOf(s, w)
  BY <1>1 DEF LookOf
<1>8. t.selected <=> SelectsOf(new, n + 1, "output", Called[o])
  <2>1. s.prev = "output" <=> LastIsA(list, "output")
    BY DEF Means, Selectors
  <2>2. s.selected <=> SelectsOf(list, n, "output", Called[o])
    BY DEF Means, n
  <2>3. CASE LastIsA(list, "output")
    <3>1. s.selected <=> RunOf(list, n, "output") \intersect (Called[o] \union {All}) # {}
      BY <1>3, <2>2, <2>3 DEF SelectsOf
    <3>2. SelectsOf(new, n + 1, "output", Called[o]) <=>
              (RunOf(list, n, "output") \union {e.value}) \intersect (Called[o] \union {All}) # {}
      BY <1>3, <2>3 DEF SelectsOf
    <3> QED
      BY <1>1, <2>1, <2>3, <3>1, <3>2
  <2>4. CASE ~LastIsA(list, "output")
    <3>1. \A x : x \in RunOf(new, n + 1, "output") <=> x = e.value
      BY <1>3, <2>4
    <3> DEFINE run == RunOf(new, n + 1, "output")
               names == Called[o] \union {All}
    <3>2. run # {} /\ (run \intersect names # {} <=> e.value \in names)
      <4> HIDE DEF names
      <4> QED
        BY <3>1
    <3>3. SelectsOf(new, n + 1, "output", Called[o]) <=> e.value \in names
      BY <3>2 DEF SelectsOf
    <3> QED
      BY <1>1, <2>1, <2>4, <3>3
  <2> QED
    BY <2>3, <2>4
<1>9. \A w : SelectsNamed(new, n + 1, w) <=> SelectsNamed(list, n, w)
  BY <1>3 DEF SelectsOf, SelectsNamed
<1>10. \A type \in Selectors : t.prev = type <=> LastIsA(new, type)
  BY <1>1, <1>2
<1>11. Means(new, o, t)
  BY <1>2, <1>4, <1>5, <1>6, <1>7, <1>8, <1>9, <1>10 DEF Means, n
<1> QED
  BY <1>11 DEF t, new

\* What an option for workspaces leaves alone.
LEMMA SelectorMeans ==
    ASSUME NEW o, NEW s \in States, NEW list \in Seq(Flags), Means(list, o, s),
           NEW e \in Flags, e.type = "workspace",
           NEW t, t.selected = s.selected, t.prev = "workspace",
           Configured(t) = Configured(s) \union {e.value},
           \A w \in Workspaces : LookOf(t, w) = LookOf(s, w),
           \A w \in Workspaces :
               Affects(t, w) <=> SelectsNamed(With(list, e), Len(list) + 1, w)
    PROVE  Means(With(list, e), o, t)
<1> DEFINE new == With(list, e)
           n == Len(list)
<1>1. Len(new) = n + 1 /\ \A type : LastIsA(new, type) <=> e.type = type
  BY LastOfAppend
<1>2. RunOf(new, n + 1, "output") = RunOf(list, n, "output")
  BY RunGrows
<1>3. \A w \in Workspaces, kind \in Kinds : MeantOf(new, o, w, kind) = MeantOf(list, o, w, kind)
  BY MeantKept DEF Selectors
<1>4. NamedBy(new) = NamedBy(list) \union {e.value}
  BY NamedGrows
<1> HIDE DEF new, n
<1>5. SelectsOf(new, n + 1, "output", Called[o]) <=> SelectsOf(list, n, "output", Called[o])
  BY <1>2 DEF SelectsOf
<1>6. t.selected <=> SelectsOf(new, Len(new), "output", Called[o])
  BY <1>1, <1>5 DEF Means, n
<1>7. \A w \in Workspaces : Affects(t, w) <=> SelectsNamed(new, Len(new), w)
  BY <1>1 DEF new, n
<1>8. \A type \in Selectors : t.prev = type <=> LastIsA(new, type)
  BY <1>1
<1>9. \A w \in Workspaces, kind \in Kinds : LookOf(t, w)[kind] = MeantOf(new, o, w, kind)
  BY <1>3 DEF Means
<1>10. Configured(t) = NamedBy(new)
  BY <1>4 DEF Means
<1>11. Means(new, o, t)
  BY <1>6, <1>7, <1>8, <1>9, <1>10 DEF Means
<1> QED
  BY <1>11 DEF new

LEMMA AllWorkspacesMeans ==
    ASSUME NEW o, NEW s \in States, ~s.crashed, NEW list \in Seq(Flags), Means(list, o, s),
           NEW e \in Flags, e.type = "workspace", e.value = All
    PROVE  Means(With(list, e), o, Step(s, o, e))
<1> DEFINE t == Step(s, o, e)
           new == With(list, e)
           n == Len(list)
<1>1. /\ t \in States /\ ~t.crashed /\ t.prev = "workspace"
      /\ t.configs = s.others \o s.configs /\ t.others = <<>>
      /\ t.look = s.look /\ t.selected = s.selected
  BY StepAllIs
<1>2. All \in RunOf(new, n + 1, "workspace")
  <2>1. /\ LastIsA(list, "workspace") =>
               \A x : x \in RunOf(new, n + 1, "workspace") <=>
                          x \in RunOf(list, n, "workspace") \/ x = e.value
        /\ ~LastIsA(list, "workspace") =>
               \A x : x \in RunOf(new, n + 1, "workspace") <=> x = e.value
    BY RunGrows
  <2> HIDE DEF new, n
  <2> QED
    BY <2>1
<1> HIDE DEF t, new, n
<1>3. ToSet(t.configs) = Configured(s) /\ ToSet(t.others) = {}
  BY <1>1, MembersOfConcat, MembersOfNone DEF States, Configured
<1>4. Configured(t) = Configured(s) /\ All \in Configured(s)
  BY <1>3 DEF Configured, Means, NamedBy
<1>5. \A w : Affects(t, w)
  BY <1>3, <1>4 DEF Affects
<1>6. \A w : SelectsNamed(new, n + 1, w)
  BY <1>2 DEF SelectsOf, SelectsNamed
<1>7. \A w : LookOf(t, w) = LookOf(s, w)
  BY <1>1, <1>4, LookIs
<1>8. Means(new, o, t)
  BY <1>1, <1>4, <1>5, <1>6, <1>7, SelectorMeans DEF new, n
<1> QED
  BY <1>8 DEF t, new

\* What an option for one workspace changes: whether settings apply to it.
LEMMA NamedAffects ==
    ASSUME NEW s \in States, NEW t \in States, NEW name \in Workspaces, All \in Configured(s),
           Found(t, s, name) \/ Moved(t, s, name) \/ Created(t, s, name)
    PROVE  /\ Configured(t) = Configured(s) \union {name}
           /\ \A w \in Workspaces :
                  /\ Affects(t, w) <=> w = name \/ (s.prev = "workspace" /\ Affects(s, w))
                  /\ LookOf(t, w) = LookOf(s, w)
<1> DEFINE B == ToSet(BaseConfigs(s))
           C == ToSet(BaseOthers(s))
<1>1. /\ BaseConfigs(s) \in Seq(Owners) /\ BaseOthers(s) \in Seq(Owners)
      /\ s.configs \in Seq(Owners) /\ s.others \in Seq(Owners) /\ s.look \in Looks
  <2>1. s.configs \o s.others \in Seq(Owners) /\ <<>> \in Seq(Owners)
    BY ConcatProperties, EmptySeq DEF States
  <2> QED
    BY <2>1 DEF BaseConfigs, BaseOthers, States
<1>2. B \union C = Configured(s)
  BY <1>1, MembersOfConcat, MembersOfNone DEF BaseConfigs, BaseOthers, Configured
<1>3. name \in Owners /\ All \in Owners /\ name # All
  BY OptionsAssumption DEF Owners
<1> DEFINE BaseAffects(w) == IF w \in Configured(s) THEN w \in B ELSE All \in B
<1>4. ASSUME NEW w
      PROVE  BaseAffects(w) <=> s.prev = "workspace" /\ Affects(s, w)
  BY MembersOfNone DEF BaseConfigs, Affects
<1>5. Configured(t) = ToSet(t.configs) \union ToSet(t.others)
  BY DEF Configured
<1>6. ToSet(<<name>> \o BaseConfigs(s)) = {name} \union B
  <2>1. <<name>> \in Seq(Owners)
    BY <1>3
  <2>2. ToSet(<<name>> \o BaseConfigs(s)) = ToSet(<<name>>) \union ToSet(BaseConfigs(s))
    BY <1>1, <2>1, MembersOfConcat
  <2> QED
    BY <2>2, MembersOfOne
<1>7. CASE Found(t, s, name)
  <2>1. /\ name \in B /\ ToSet(t.configs) = B /\ ToSet(t.others) = C /\ t.look = s.look
    BY <1>7 DEF Found
  <2> HIDE DEF B, C
  <2>2. Configured(t) = Configured(s)
    BY <1>2, <1>5, <2>1
  <2>3. \A w : Affects(t, w) <=> w = name \/ BaseAffects(w)
    BY <1>2, <2>1, <2>2 DEF Affects
  <2>4. \A w : LookOf(t, w) = LookOf(s, w)
    BY <2>1, <2>2, LookIs
  <2>5. Configured(t) = Configured(s) \union {name}
    BY <1>2, <2>1, <2>2
  <2> QED
    BY <1>4, <2>3, <2>4, <2>5
<1>8. CASE Moved(t, s, name)
  <2>1. /\ {name, All} \intersect B = {} /\ name \in C
        /\ ToSet(t.configs) = {name} \union B /\ t.look = s.look
    BY <1>6, <1>8 DEF Moved
  <2>2. C \ {name} \subseteq ToSet(t.others) /\ ToSet(t.others) \subseteq C
    BY <1>1, <1>8, RemoveFirstIs DEF Moved
  <2> HIDE DEF B, C
  <2>3. Configured(t) = Configured(s)
    BY <1>2, <1>5, <2>1, <2>2
  <2>4. \A w : Affects(t, w) <=> w = name \/ BaseAffects(w)
    BY <1>2, <1>3, <2>1, <2>3 DEF Affects
  <2>5. \A w : LookOf(t, w) = LookOf(s, w)
    BY <2>1, <2>3, LookIs
  <2>6. Configured(t) = Configured(s) \union {name}
    BY <1>2, <2>1, <2>3
  <2> QED
    BY <1>4, <2>4, <2>5, <2>6
<1>9. CASE Created(t, s, name)
  <2>1. /\ {name, All} \intersect B = {} /\ name \notin C
        /\ ToSet(t.configs) = {name} \union B /\ ToSet(t.others) = C
        /\ t.look = [s.look EXCEPT ![name] = s.look[All]]
    BY <1>6, <1>9 DEF Created
  <2> HIDE DEF B, C
  <2>2. Configured(t) = Configured(s) \union {name} /\ name \notin Configured(s)
    BY <1>2, <1>5, <2>1
  <2>3. \A w : Affects(t, w) <=> w = name \/ BaseAffects(w)
    BY <1>2, <1>3, <2>1, <2>2 DEF Affects
  <2>4. \A w \in Owners : t.look[w] = IF w = name THEN s.look[All] ELSE s.look[w]
    BY <1>1, <2>1 DEF Looks
  <2>5. ASSUME NEW w \in Workspaces
        PROVE  LookOf(t, w) = LookOf(s, w)
    <3>1. w \in Owners
      BY DEF Owners
    <3> QED
      BY <1>3, <2>2, <2>4, <3>1, LookIs
  <2> QED
    BY <1>4, <2>2, <2>3, <2>5
<1> QED
  BY <1>7, <1>8, <1>9

LEMMA WorkspaceMeans ==
    ASSUME NEW o, NEW s \in States, ~s.crashed, NEW list \in Seq(Flags), Means(list, o, s),
           NEW e \in Flags, e.type = "workspace", e.value # All, ~Step(s, o, e).crashed
    PROVE  Means(With(list, e), o, Step(s, o, e))
<1> DEFINE t == Step(s, o, e)
           new == With(list, e)
           n == Len(list)
           name == e.value
<1>1. /\ t \in States /\ t.prev = "workspace" /\ t.selected = s.selected
      /\ Found(t, s, name) \/ Moved(t, s, name) \/ Created(t, s, name)
  BY StepWorkspaceIs
<1>2. /\ LastIsA(list, "workspace") =>
             /\ RunOf(list, n, "workspace") # {}
             /\ \A x : x \in RunOf(new, n + 1, "workspace") <=>
                           x \in RunOf(list, n, "workspace") \/ x = name
      /\ ~LastIsA(list, "workspace") =>
             \A x : x \in RunOf(new, n + 1, "workspace") <=> x = name
  BY RunGrows
<1>3. name \in Workspaces
  BY DEF Flags, Owners
<1> HIDE DEF t, new, n, name
<1>4. /\ Configured(t) = Configured(s) \union {name}
      /\ \A w \in Workspaces :
             /\ Affects(t, w) <=> w = name \/ (s.prev = "workspace" /\ Affects(s, w))
             /\ LookOf(t, w) = LookOf(s, w)
  <2>1. All \in Configured(s)
    BY DEF Means, NamedBy
  <2> QED
    BY <1>1, <1>3, <2>1, NamedAffects
<1>5. ASSUME NEW w \in Workspaces
      PROVE  Affects(t, w) <=> SelectsNamed(new, n + 1, w)
  <2>1. s.prev = "workspace" <=> LastIsA(list, "workspace")
    BY DEF Means, Selectors
  <2>2. Affects(s, w) <=> SelectsNamed(list, n, w)
    BY DEF Means, n
  <2>3. name # All
    BY <1>3, OptionsAssumption
  <2>4. CASE LastIsA(list, "workspace")
    <3>1. Affects(s, w) <=> RunOf(list, n, "workspace") \intersect ({w} \union {All}) # {}
      BY <1>2, <2>2, <2>4 DEF SelectsOf, SelectsNamed
    <3>2. SelectsNamed(new, n + 1, w) <=>
              (RunOf(list, n, "workspace") \union {name}) \intersect ({w} \union {All}) # {}
      BY <1>2, <2>4 DEF SelectsOf, SelectsNamed
    <3> QED
      BY <1>4, <2>1, <2>3, <2>4, <3>1, <3>2
  <2>5. CASE ~LastIsA(list, "workspace")
    <3>1. \A x : x \in RunOf(new, n + 1, "workspace") <=> x = name
      BY <1>2, <2>5
    <3>2. SelectsNamed(new, n + 1, w) <=> name = w
      BY <2>3, <3>1 DEF SelectsOf, SelectsNamed
    <3> QED
      BY <1>4, <2>1, <2>5, <3>2
  <2> QED
    BY <2>4, <2>5
<1>6. Means(new, o, t)
  BY <1>1, <1>4, <1>5, SelectorMeans DEF new, n, name
<1> QED
  BY <1>6 DEF t, new

\* A setting is given to the workspaces that are selected, on an output that is.
LEMMA SettingMeans ==
    ASSUME NEW o, NEW s \in States, NEW list \in Seq(Flags), Means(list, o, s),
           NEW e \in Flags, e.type \in Kinds,
           NEW t \in States, t.prev \in Kinds,
           t.configs = s.configs, t.others = s.others, t.selected = s.selected,
           \A w \in Owners, k \in Kinds :
               t.look[w][k] = IF SetBy(e, k) /\ s.selected /\ w \in ToSet(s.configs)
                              THEN ValueBy(e, k) ELSE s.look[w][k]
    PROVE  Means(With(list, e), o, t)
<1> DEFINE new == With(list, e)
           n == Len(list)
<1>1. Len(new) = n + 1 /\ \A type : LastIsA(new, type) <=> e.type = type
  BY LastOfAppend
<1>2. \A type \in Selectors : RunOf(new, n + 1, type) = RunOf(list, n, type)
  <2>1. \A type \in Selectors : e.type # type
    BY DEF Selectors, Kinds
  <2> QED
    BY <2>1, RunGrows
<1>3. NamedBy(new) = NamedBy(list)
  <2>1. e.type # "workspace"
    BY DEF Kinds
  <2> QED
    BY <2>1, NamedGrows
<1>4. \A w, kind : MeantOf(new, o, w, kind) =
          IF /\ SetBy(e, kind)
             /\ SelectsOf(new, n + 1, "output", Called[o])
             /\ SelectsNamed(new, n + 1, w)
          THEN ValueBy(e, kind) ELSE MeantOf(list, o, w, kind)
  BY MeantGrows
<1> HIDE DEF new, n
<1>5. Configured(t) = Configured(s) /\ \A w : Affects(t, w) <=> Affects(s, w)
  BY DEF Configured, Affects
<1>6. SelectsOf(new, n + 1, "output", Called[o]) <=> SelectsOf(list, n, "output", Called[o])
  BY <1>2 DEF SelectsOf, Selectors
<1>7. \A w : SelectsNamed(new, n + 1, w) <=> SelectsNamed(list, n, w)
  BY <1>2 DEF SelectsOf, SelectsNamed, Selectors
<1>8. s.selected <=> SelectsOf(list, n, "output", Called[o])
  BY DEF Means, n
<1>9. \A w \in Workspaces : Affects(s, w) <=> SelectsNamed(list, n, w)
  BY DEF Means, n
<1>10. ASSUME NEW w \in Workspaces, NEW kind \in Kinds
      PROVE  LookOf(t, w)[kind] = MeantOf(new, o, w, kind)
  <2> DEFINE takes == SetBy(e, kind) /\ s.selected /\ Affects(s, w)
  <2>1. w \in Owners /\ All \in Owners
    BY DEF Owners
  <2>2. LookOf(t, w) = IF w \in Configured(s) THEN t.look[w] ELSE t.look[All]
    BY <1>5, LookIs
  <2>3. LookOf(s, w) = IF w \in Configured(s) THEN s.look[w] ELSE s.look[All]
    BY LookIs
  <2>4. LookOf(t, w)[kind] = IF takes THEN ValueBy(e, kind) ELSE LookOf(s, w)[kind]
    <3>1. CASE w \in Configured(s)
      BY <2>1, <2>2, <2>3, <3>1 DEF Affects
    <3>2. CASE w \notin Configured(s)
      BY <2>1, <2>2, <2>3, <3>2 DEF Affects
    <3> QED
      BY <3>1, <3>2
  <2>5. MeantOf(new, o, w, kind) = IF takes THEN ValueBy(e, kind) ELSE MeantOf(list, o, w, kind)
    <3>1. takes <=> /\ SetBy(e, kind)
                    /\ SelectsOf(new, n + 1, "output", Called[o])
                    /\ SelectsNamed(new, n + 1, w)
      BY <1>6, <1>7, <1>8, <1>9
    <3> QED
      BY <1>4, <3>1
  <2>6. LookOf(s, w)[kind] = MeantOf(list, o, w, kind)
    BY DEF Means
  <2> HIDE DEF takes
  <2> QED
    BY <2>4, <2>5, <2>6
<1>11. \A type \in Selectors : t.prev = type <=> LastIsA(new, type)
  BY <1>1 DEF Selectors, Kinds
<1>12. Configured(t) = NamedBy(new)
  BY <1>3, <1>5 DEF Means
<1>13. t.selected <=> SelectsOf(new, Len(new), "output", Called[o])
  BY <1>1, <1>6, <1>8
<1>14. \A w \in Workspaces : Affects(t, w) <=> SelectsNamed(new, Len(new), w)
  BY <1>1, <1>5, <1>7, <1>9
<1>15. Means(new, o, t)
  BY <1>10, <1>11, <1>12, <1>13, <1>14 DEF Means
<1> QED
  BY <1>15 DEF new

-----------------------------------------------------------------------------
(***************************************************************************)
(* The steps.                                                              *)
(***************************************************************************)
Inv == ListInv /\ MeansInv

LEMMA SelectorStep ==
    ASSUME Inv, NEW f \in Flags, f.type \in Selectors,
           args' = Append(args, f), options' = Append(options, f)
    PROVE  Inv'
<1> DEFINE n == Len(options)
<1>1. args \in Seq(Flags) /\ options \in Seq(Flags) /\ OptionsAreUnique(options)
  BY DEF Inv, ListInv
<1>2. /\ args' \in Seq(Flags) /\ options' \in Seq(Flags) /\ Len(options') = n + 1
      /\ (\A i \in 1 .. n : options'[i] = options[i]) /\ options'[n + 1] = f
      /\ n \in Nat
  BY <1>1, AppendProperties, LenProperties
<1> HIDE DEF n
<1>3. ASSUME NEW i \in 1 .. n + 1, NEW j \in 1 .. n + 1,
             i < j, options'[i].type = options'[j].type, options'[i].type \in Kinds
      PROVE  \E m \in i .. j : options'[m].type \in Selectors
  <2>1. j # n + 1
    BY <1>2, <1>3 DEF Kinds, Selectors
  <2>2. i \in 1 .. n /\ j \in 1 .. n
    BY <1>2, <1>3, <2>1
  <2>3. options[i].type = options[j].type /\ options[i].type \in Kinds
    BY <1>2, <1>3, <2>2
  <2>4. PICK m \in i .. j : options[m].type \in Selectors
    BY <1>1, <1>3, <2>2, <2>3 DEF OptionsAreUnique, n
  <2>5. m \in 1 .. n
    BY <1>2, <2>2
  <2> QED
    BY <1>2, <2>4, <2>5
<1>4. ListInv'
  BY <1>2, <1>3 DEF ListInv, OptionsAreUnique
<1>5. ASSUME NEW o \in Outputs, ~Configure(o, options').crashed
      PROVE  Means(args', o, Configure(o, options'))
  <2> DEFINE s == Configure(o, options)
             t == Configure(o, options')
  <2>1. t = Step(s, o, f) /\ s \in States
    BY <1>1, ConfigureAppend, ConfigureTyped
  <2> HIDE DEF s, t
  <2>2. ~t.crashed
    BY <1>5 DEF t
  <2>3. ~s.crashed
    BY <2>1, <2>2, StepCrashed
  <2>4. Means(args, o, s)
    BY <2>3 DEF Inv, MeansInv, s
  <2>5. Means(Append(args, f), o, t)
    <3>1. CASE f.type = "output"
      BY <1>1, <2>1, <2>3, <2>4, <3>1, OutputMeans DEF With
    <3>2. CASE f.type = "workspace" /\ f.value = All
      BY <1>1, <2>1, <2>3, <2>4, <3>2, AllWorkspacesMeans DEF With
    <3>3. CASE f.type = "workspace" /\ f.value # All
      BY <1>1, <2>1, <2>2, <2>3, <2>4, <3>3, WorkspaceMeans DEF With
    <3> QED
      BY <3>1, <3>2, <3>3 DEF Selectors
  <2> QED
    BY <2>5 DEF t
<1>6. MeansInv'
  BY <1>5 DEF MeansInv
<1> QED
  BY <1>4, <1>6 DEF Inv

LEMMA SettingStep ==
    ASSUME Inv, NEW f \in Flags, f.type \in Kinds, f.type # "mode",
           args' = Append(args, f), options' = OptionNew(options, f.type, f.value)
    PROVE  Inv'
<1>1. args \in Seq(Flags) /\ options \in Seq(Flags) /\ OptionsAreUnique(options)
  BY DEF Inv, ListInv
<1>2. args' \in Seq(Flags)
  BY <1>1, AppendProperties
<1>3. f.value \in AnyValue
  BY DEF Flags
<1>4. /\ options' \in Seq(Flags)
      /\ OptionsAreUnique(options')
      /\ \A o : LET s == Configure(o, options)
                    t == Configure(o, options')
                IN  Applied(t, s, f.type, f.value) /\ (~t.crashed => t.prev \in Kinds)
  <2> DEFINE new == OptionNew(options, f.type, f.value)
  <2>1. /\ new \in Seq(Flags)
        /\ OptionsAreUnique(new)
        /\ \A o : LET s == Configure(o, options)
                      t == Configure(o, new)
                  IN  Applied(t, s, f.type, f.value) /\ (~t.crashed => t.prev \in Kinds)
    BY <1>1, <1>3, OptionNewApplies
  <2> HIDE DEF new
  <2>2. options' = new
    BY DEF new
  <2> QED
    BY <2>1, <2>2
<1>5. ListInv'
  BY <1>2, <1>4 DEF ListInv
<1>6. ASSUME NEW o \in Outputs, ~Configure(o, options').crashed
      PROVE  Means(args', o, Configure(o, options'))
  <2> DEFINE s == Configure(o, options)
             t == Configure(o, options')
  <2>1. s \in States /\ t \in States
    BY <1>1, <1>4, ConfigureTyped
  <2>2. Applied(t, s, f.type, f.value) /\ (~t.crashed => t.prev \in Kinds)
    BY <1>4
  <2> HIDE DEF s, t
  <2>3. ~t.crashed /\ ~s.crashed
    BY <1>6, <2>2 DEF t, Applied
  <2>4. Means(args, o, s)
    BY <2>3 DEF Inv, MeansInv, s
  <2>5. /\ t.configs = s.configs /\ t.others = s.others /\ t.selected = s.selected
    BY <2>2 DEF Applied
  <2>6. ASSUME NEW w \in Owners, NEW k \in Kinds
        PROVE  t.look[w][k] = IF SetBy(f, k) /\ s.selected /\ w \in ToSet(s.configs)
                              THEN ValueBy(f, k) ELSE s.look[w][k]
    <3>1. t.look[w][k] = IF k = f.type /\ s.selected /\ w \in ToSet(s.configs)
                         THEN f.value ELSE s.look[w][k]
      BY <2>2, <2>3 DEF Applied
    <3>2. (SetBy(f, k) <=> k = f.type) /\ ValueBy(f, k) = f.value
      BY DEF SetBy, ValueBy
    <3> QED
      BY <3>1, <3>2
  <2>7. Means(With(args, f), o, t)
    BY <1>1, <2>1, <2>2, <2>3, <2>4, <2>5, <2>6, SettingMeans
  <2> QED
    BY <2>7 DEF t, With
<1>7. MeansInv'
  BY <1>6 DEF MeansInv
<1> QED
  BY <1>5, <1>7 DEF Inv

LEMMA ModeStep ==
    ASSUME Inv, NEW f \in Flags, f.type = "mode", NEW p \in Positions, p = PositionOf[f.value],
           args' = Append(args, f),
           options' = OptionNew(OptionNew(options, "mode", f.value), "position", p)
    PROVE  Inv'
<1> DEFINE first == OptionNew(options, "mode", f.value)
<1>1. args \in Seq(Flags) /\ options \in Seq(Flags) /\ OptionsAreUnique(options)
  BY DEF Inv, ListInv
<1>2. args' \in Seq(Flags)
  BY <1>1, AppendProperties
<1>3. f.value \in AnyValue /\ f.value \in Modes /\ p \in AnyValue
  BY DEF Flags, AnyValue
<1>4. /\ first \in Seq(Flags)
      /\ OptionsAreUnique(first)
      /\ \A o : Applied(Configure(o, first), Configure(o, options), "mode", f.value)
  <2>1. "mode" \in Kinds
    BY DEF Kinds
  <2> QED
    BY <1>1, <1>3, <2>1, OptionNewApplies
<1> HIDE DEF first
<1>5. /\ options' \in Seq(Flags)
      /\ OptionsAreUnique(options')
      /\ \A o : LET t == Configure(o, options')
                IN  /\ Applied(t, Configure(o, first), "position", p)
                    /\ ~t.crashed => t.prev \in Kinds
  <2> DEFINE new == OptionNew(first, "position", p)
  <2>1. "position" \in Kinds /\ "position" # "mode"
    BY DEF Kinds
  <2>2. /\ new \in Seq(Flags)
        /\ OptionsAreUnique(new)
        /\ \A o : LET t == Configure(o, new)
                  IN  /\ Applied(t, Configure(o, first), "position", p)
                      /\ ~t.crashed => t.prev \in Kinds
    BY <1>3, <1>4, <2>1, OptionNewApplies
  <2>3. options' = new
    BY DEF first
  <2> HIDE DEF new
  <2> QED
    BY <2>2, <2>3
<1>6. ListInv'
  BY <1>2, <1>5 DEF ListInv
<1>7. ASSUME NEW o \in Outputs, ~Configure(o, options').crashed
      PROVE  Means(args', o, Configure(o, options'))
  <2> DEFINE s == Configure(o, options)
             u == Configure(o, first)
             t == Configure(o, options')
  <2>1. s \in States /\ t \in States
    BY <1>1, <1>5, ConfigureTyped
  <2>2. /\ Applied(u, s, "mode", f.value) /\ Applied(t, u, "position", p)
        /\ ~t.crashed => t.prev \in Kinds
    BY <1>4, <1>5
  <2> HIDE DEF s, t, u
  <2>3. ~t.crashed /\ ~u.crashed /\ ~s.crashed
    BY <1>7, <2>2 DEF t, Applied
  <2>4. Means(args, o, s)
    BY <2>3 DEF Inv, MeansInv, s
  <2>5. /\ t.configs = s.configs /\ t.others = s.others /\ t.selected = s.selected
        /\ u.configs = s.configs /\ u.selected = s.selected
    BY <2>2 DEF Applied
  <2>6. ASSUME NEW w \in Owners, NEW k \in Kinds
        PROVE  t.look[w][k] = IF SetBy(f, k) /\ s.selected /\ w \in ToSet(s.configs)
                              THEN ValueBy(f, k) ELSE s.look[w][k]
    <3> DEFINE takes == s.selected /\ w \in ToSet(s.configs)
    <3>1. u.look[w][k] = IF k = "mode" /\ takes THEN f.value ELSE s.look[w][k]
      BY <2>2, <2>3 DEF Applied
    <3>2. t.look[w][k] = IF k = "position" /\ takes THEN p ELSE u.look[w][k]
      BY <2>2, <2>3, <2>5 DEF Applied
    <3>3. SetBy(f, k) <=> k = "mode" \/ k = "position"
      BY DEF SetBy
    <3>4. ValueBy(f, k) = IF k = "position" THEN p ELSE f.value
      BY DEF ValueBy
    <3> HIDE DEF takes
    <3>5. t.look[w][k] = IF SetBy(f, k) /\ takes THEN ValueBy(f, k) ELSE s.look[w][k]
      BY <3>1, <3>2, <3>3, <3>4
    <3> QED
      BY <3>5 DEF takes
  <2>7. f.type \in Kinds
    BY DEF Kinds
  <2>8. Means(With(args, f), o, t)
    BY <1>1, <2>1, <2>2, <2>3, <2>4, <2>5, <2>6, <2>7, SettingMeans
  <2> QED
    BY <2>8 DEF t, With
<1>8. MeansInv'
  BY <1>7 DEF MeansInv
<1> QED
  BY <1>6, <1>8 DEF Inv

LEMMA InitInv == Init => Inv
<1> SUFFICES ASSUME Init
             PROVE  Inv
  OBVIOUS
<1>1. args = <<>> /\ options = <<>>
  BY DEF Init
<1>2. <<>> \in Seq(Flags) /\ Len(<<>>) = 0
  BY EmptySeq
<1>3. ListInv
  BY <1>1, <1>2 DEF ListInv, OptionsAreUnique
<1>4. MeansInv
  BY <1>1, ConfigureStart, StartMeans DEF MeansInv
<1> QED
  BY <1>3, <1>4 DEF Inv

LEMMA NextInv == Inv /\ [Next]_vars => Inv'
<1> SUFFICES ASSUME Inv, [Next]_vars
             PROVE  Inv'
  OBVIOUS
<1>1. CASE UNCHANGED vars
  BY <1>1 DEF vars, Inv, ListInv, MeansInv
<1>2. ASSUME NEW name \in Names, OutputFlag(name)
      PROVE  Inv'
  <2> DEFINE f == [type |-> "output", value |-> name]
  <2>1. f \in Flags /\ f.type \in Selectors
    BY DEF Flags, Types, Selectors, AnyValue
  <2>2. args' = Append(args, f) /\ options' = Append(options, f)
    BY <1>2 DEF OutputFlag, Parse, OptionSelect
  <2> HIDE DEF f
  <2> QED
    BY <2>1, <2>2, SelectorStep
<1>3. ASSUME NEW name \in Owners, WorkspaceFlag(name)
      PROVE  Inv'
  <2> DEFINE f == [type |-> "workspace", value |-> name]
  <2>1. f \in Flags /\ f.type \in Selectors
    BY DEF Flags, Types, Selectors, AnyValue
  <2>2. args' = Append(args, f) /\ options' = Append(options, f)
    BY <1>3 DEF WorkspaceFlag, Parse, OptionSelect
  <2> HIDE DEF f
  <2> QED
    BY <2>1, <2>2, SelectorStep
<1>4. ASSUME NEW v \in Colors, ColorFlag(v)
      PROVE  Inv'
  <2> DEFINE f == [type |-> "color", value |-> v]
  <2>1. f \in Flags /\ f.type \in Kinds /\ f.type # "mode"
    BY DEF Flags, Types, Kinds, AnyValue
  <2>2. args' = Append(args, f) /\ options' = OptionNew(options, f.type, f.value)
    BY <1>4 DEF ColorFlag, Parse
  <2> HIDE DEF f
  <2> QED
    BY <2>1, <2>2, SettingStep
<1>5. ASSUME NEW v \in Images, ImageFlag(v)
      PROVE  Inv'
  <2> DEFINE f == [type |-> "image", value |-> v]
  <2>1. f \in Flags /\ f.type \in Kinds /\ f.type # "mode"
    BY DEF Flags, Types, Kinds, AnyValue
  <2>2. args' = Append(args, f) /\ options' = OptionNew(options, f.type, f.value)
    BY <1>5 DEF ImageFlag, Parse
  <2> HIDE DEF f
  <2> QED
    BY <2>1, <2>2, SettingStep
<1>6. ASSUME NEW v \in Positions, PositionFlag(v)
      PROVE  Inv'
  <2> DEFINE f == [type |-> "position", value |-> v]
  <2>1. f \in Flags /\ f.type \in Kinds /\ f.type # "mode"
    BY DEF Flags, Types, Kinds, AnyValue
  <2>2. args' = Append(args, f) /\ options' = OptionNew(options, f.type, f.value)
    BY <1>6 DEF PositionFlag, Parse
  <2> HIDE DEF f
  <2> QED
    BY <2>1, <2>2, SettingStep
<1>7. ASSUME NEW v \in Modes, ModeFlag(v)
      PROVE  Inv'
  <2> DEFINE f == [type |-> "mode", value |-> v]
  <2>1. f \in Flags /\ f.type = "mode" /\ f.value = v
    BY DEF Flags, Types, Kinds, AnyValue
  <2>2. PositionOf[v] \in Positions
    BY OptionsAssumption
  <2>3. /\ args' = Append(args, f)
        /\ options' = OptionNew(OptionNew(options, "mode", v), "position", PositionOf[v])
    BY <1>7 DEF ModeFlag, Parse
  <2> HIDE DEF f
  <2> QED
    BY <2>1, <2>2, <2>3, ModeStep
<1>8. Next => \/ \E name \in Names : OutputFlag(name)
              \/ \E name \in Owners : WorkspaceFlag(name)
              \/ \E v \in Colors : ColorFlag(v)
              \/ \E v \in Images : ImageFlag(v)
              \/ \E v \in Positions : PositionFlag(v)
              \/ \E v \in Modes : ModeFlag(v)
  BY DEF Next, Names, Owners
<1> QED
  BY <1>1, <1>2, <1>3, <1>4, <1>5, <1>6, <1>7, <1>8

\* For every command line, as long as no name is compared with the default
\* configuration's missing one (which the code would dereference), every
\* workspace of every output gets the look that the flags mean.
THEOREM FlagsAreObeyed == Spec => []LastApplicableSettingWins
<1>1. ASSUME Inv, NEW o \in Outputs, ~ConfigureOutput(o).crashed,
             NEW w \in Workspaces, NEW kind \in Kinds
      PROVE  LookOf(ConfigureOutput(o), w)[kind] = Meant(o, w, kind)
  <2>1. ConfigureOutput(o) = Configure(o, options)
    BY DEF ConfigureOutput, Configure
  <2>2. LookOf(ConfigureOutput(o), w)[kind] = MeantOf(args, o, w, kind)
    BY <1>1, <2>1 DEF Inv, MeansInv, Means
  <2>3. args \in Seq(Flags) /\ DOMAIN args = 1 .. Len(args)
    BY <1>1, LenProperties DEF Inv, ListInv
  <2>4. \A k, type, names : Selects(k, type, names) <=> SelectsOf(args, k, type, names)
    BY DEF Selects, SelectsOf, Run, RunOf, RunAt, EndOf
  <2>5. \A i : Sets(i, kind) <=> SetBy(args[i], kind)
    BY DEF Sets, SetBy
  <2> DEFINE Applies(i) == /\ Sets(i, kind)
                           /\ Selects(i, "output", Called[o])
                           /\ Selects(i, "workspace", {w})
             I == {i \in 1 .. Len(args) : Applies([j \in DOMAIN args |-> j][i])}
             k == IF I # {} THEN Max(I) ELSE 0
  <2>6. Meant(o, w, kind) = IF k = 0 THEN Unset ELSE ValueSet(k, kind)
    BY DEF Meant, SelectLastInSubSeq
  <2>7. I = ApplyingOf(args, o, w, kind)
    BY <2>3, <2>4, <2>5 DEF ApplyingOf, AppliesOf, SelectsNamed
  <2>8. I \in SUBSET (1 .. Len(args)) /\ Len(args) \in Nat
    BY <2>3, LenProperties
  <2> HIDE DEF I
  <2>9. k = 0 <=> I = {}
    BY <2>8, LastIs
  <2>10. \A i : ValueSet(i, kind) = ValueBy(args[i], kind)
    BY DEF ValueSet, ValueBy
  <2>11. Meant(o, w, kind) = MeantOf(args, o, w, kind)
    BY <2>6, <2>7, <2>9, <2>10 DEF MeantOf
  <2> QED
    BY <2>2, <2>11
<1>2. Inv => LastApplicableSettingWins
  BY <1>1 DEF LastApplicableSettingWins
<1> QED
  BY <1>2, InitInv, NextInv, PTL DEF Spec

-----------------------------------------------------------------------------
(***************************************************************************)
(* The two lists of configure_output.                                      *)
(***************************************************************************)
Kept(s) ==
    /\ IsInjective(s.configs) /\ IsInjective(s.others)
    /\ ToSet(s.configs) \intersect ToSet(s.others) = {}

LEMMA NoneIsOnce == IsInjective(<<>>)
<1>1. DOMAIN <<>> = {}
  BY EmptySeq, LenProperties
<1> QED
  BY <1>1 DEF IsInjective

\* The search starts from two lists that keep everything, too.
LEMMA BaseKept ==
    ASSUME NEW s \in States, Kept(s)
    PROVE  /\ BaseConfigs(s) \in Seq(Owners) /\ BaseOthers(s) \in Seq(Owners)
           /\ IsInjective(BaseConfigs(s)) /\ IsInjective(BaseOthers(s))
           /\ ToSet(BaseConfigs(s)) \intersect ToSet(BaseOthers(s)) = {}
<1>1. s.configs \in Seq(Owners) /\ s.others \in Seq(Owners) /\ <<>> \in Seq(Owners)
  BY EmptySeq DEF States
<1>2. CASE s.prev = "workspace"
  BY <1>1, <1>2 DEF BaseConfigs, BaseOthers, Kept, Configured
<1>3. CASE s.prev # "workspace"
  <2> DEFINE both == s.configs \o s.others
  <2>1. both \in Seq(Owners)
    BY <1>1, ConcatProperties
  <2>2. IsInjective(both)
    BY <1>1, OnceIs DEF Kept
  <2>3. ToSet(both) = Configured(s)
    BY <1>1, MembersOfConcat DEF Configured
  <2>4. BaseConfigs(s) = <<>> /\ BaseOthers(s) = both
    BY <1>3 DEF BaseConfigs, BaseOthers
  <2> HIDE DEF both
  <2> QED
    BY <1>1, <2>1, <2>2, <2>3, <2>4, NoneIsOnce, MembersOfNone DEF Kept
<1> QED
  BY <1>2, <1>3

LEMMA ConsOnce ==
    ASSUME NEW S, NEW e \in S, NEW s \in Seq(S), IsInjective(s), e \notin ToSet(s)
    PROVE  /\ IsInjective(<<e>> \o s)
           /\ \A x : x \in ToSet(<<e>> \o s) <=> x = e \/ x \in ToSet(s)
<1> DEFINE one == <<e>>
<1>1. one \in Seq(S) /\ IsInjective(one) /\ ToSet(one) = {e}
  BY OneIsOnce, MembersOfOne
<1> HIDE DEF one
<1>2. IsInjective(one \o s)
  BY <1>1, OnceIs
<1>3. ToSet(one \o s) = ToSet(one) \union ToSet(s)
  BY <1>1, MembersOfConcat
<1> QED
  BY <1>1, <1>2, <1>3 DEF one

LEMMA StepKept ==
    ASSUME NEW o, NEW s \in States, Kept(s), NEW e \in Flags
    PROVE  Kept(Step(s, o, e))
<1> DEFINE t == Step(s, o, e)
<1>1. s.configs \in Seq(Owners) /\ s.others \in Seq(Owners)
  BY DEF States
<1>2. CASE t.configs = s.configs /\ t.others = s.others
  BY <1>2 DEF Kept, Configured
<1>3. CASE s.crashed
  <2>1. t = s
    BY <1>3, StepCrashed
  <2> QED
    BY <2>1
<1>4. CASE ~s.crashed /\ e.type = "output"
  <2>1. t.configs = s.configs /\ t.others = s.others
    BY <1>4, StepOutputIs
  <2> QED
    BY <1>2, <2>1
<1>5. CASE e.type \in Kinds
  <2>1. Applied(t, s, e.type, e.value)
    BY <1>5, StepSettingIs
  <2> QED
    BY <1>2, <2>1 DEF Applied
<1>6. CASE ~s.crashed /\ e.type = "workspace" /\ e.value = All
  <2>1. t.configs = s.others \o s.configs /\ t.others = <<>>
    BY <1>6, StepAllIs
  <2> HIDE DEF t
  <2>2. IsInjective(t.configs) /\ ToSet(t.configs) = Configured(s)
    <3>1. ToSet(s.others) \intersect ToSet(s.configs) = {}
      BY DEF Kept
    <3>2. IsInjective(t.configs)
      BY <1>1, <2>1, <3>1, OnceIs DEF Kept
    <3>3. ToSet(t.configs) = ToSet(s.others) \union ToSet(s.configs)
      BY <1>1, <2>1, MembersOfConcat
    <3> QED
      BY <3>2, <3>3 DEF Configured
  <2>3. IsInjective(t.others) /\ ToSet(t.others) = {}
    BY <2>1, NoneIsOnce, MembersOfNone
  <2>4. Kept(t)
    BY <2>2, <2>3 DEF Kept, Configured
  <2> QED
    BY <2>4 DEF t
<1>7. CASE ~s.crashed /\ e.type = "workspace" /\ e.value # All
  <2> DEFINE B == BaseConfigs(s)
             C == BaseOthers(s)
             name == e.value
  <2>1. \/ t.configs = B /\ t.others = C
        \/ Moved(t, s, name)
        \/ Created(t, s, name)
    BY <1>7, StepWorkspaceIs DEF Found
  <2>2. /\ B \in Seq(Owners) /\ C \in Seq(Owners)
        /\ IsInjective(B) /\ IsInjective(C)
        /\ ToSet(B) \intersect ToSet(C) = {}
    BY BaseKept
  <2>3. name \in Owners /\ name # All
    BY <1>7 DEF Flags
  <2> SUFFICES Kept(t)
    OBVIOUS
  <2> HIDE DEF t, name, B, C
  <2>4. CASE t.configs = B /\ t.others = C
    BY <2>2, <2>4 DEF Kept, Configured
  <2>5. ASSUME {name, All} \intersect ToSet(B) = {}, t.configs = <<name>> \o B
        PROVE  /\ IsInjective(t.configs)
               /\ \A x : x \in ToSet(t.configs) <=> x = name \/ x \in ToSet(B)
    <3>1. name \notin ToSet(B) /\ All \notin ToSet(B)
      BY <2>5
    <3>2. /\ IsInjective(<<name>> \o B)
          /\ \A x : x \in ToSet(<<name>> \o B) <=> x = name \/ x \in ToSet(B)
      BY <2>2, <2>3, <3>1, ConsOnce
    <3> QED
      BY <2>2, <2>5, <3>1, <3>2
  <2>6. CASE Moved(t, s, name)
    <3>1. /\ {name, All} \intersect ToSet(B) = {} /\ name \in ToSet(C)
          /\ t.configs = <<name>> \o B /\ t.others = RemoveFirst(C, name)
      BY <2>6 DEF Moved, B, C
    <3>2. /\ ToSet(C) \ {name} \subseteq ToSet(t.others) /\ ToSet(t.others) \subseteq ToSet(C)
          /\ IsInjective(t.others) /\ name \notin ToSet(t.others)
      BY <2>2, <3>1, RemoveFirstIs
    <3> QED
      BY <2>2, <2>3, <2>5, <3>1, <3>2 DEF Kept, Configured
  <2>7. CASE Created(t, s, name)
    <3>1. /\ {name, All} \intersect ToSet(B) = {} /\ name \notin ToSet(C)
          /\ t.configs = <<name>> \o B /\ t.others = C
      BY <2>7 DEF Created, B, C
    <3> QED
      BY <2>2, <2>5, <3>1 DEF Kept, Configured
  <2> QED
    BY <2>1, <2>4, <2>6, <2>7
<1>8. e.type \in Kinds \union Selectors
  BY DEF Flags, Types
<1> QED
  BY <1>3, <1>4, <1>5, <1>6, <1>7, <1>8 DEF Selectors

LEMMA ConfigureKept ==
    ASSUME NEW o, NEW list \in Seq(Flags)
    PROVE  Kept(Configure(o, list))
<1> DEFINE n == Len(list)
<1>1. PICK g : Replays(g, o, list) /\ Configure(o, list) = g[n]
  BY ConfigureReplays
<1>2. n \in Nat /\ \A i \in 1 .. n : list[i] \in Flags
  BY LenProperties, ElementOfSeq
<1>3. \A k \in 0 .. n : g[k] \in States
  BY <1>1, ReplayTyped
<1> DEFINE Good == {k \in Nat : k <= n => Kept(g[k])}
<1>4. 0 \in Good
  <2>1. Kept(StartConfigure)
    BY StartIs, OneIsOnce, NoneIsOnce, MembersOfOne, MembersOfNone DEF Kept, Configured
  <2> QED
    BY <1>1, <2>1 DEF Replays
<1>5. ASSUME NEW k \in Nat, k \in Good
      PROVE  k + 1 \in Good
  <2>1. SUFFICES ASSUME k + 1 <= n
                 PROVE  Kept(g[k + 1])
    OBVIOUS
  <2>2. k + 1 \in 1 .. n /\ k \in 0 .. n /\ (k + 1) - 1 = k /\ k <= n
    BY <1>2, <2>1
  <2>3. g[k + 1] = Step(g[(k + 1) - 1], o, list[k + 1])
    BY <1>1, <2>2 DEF Replays
  <2>4. g[k + 1] = Step(g[k], o, list[k + 1])
    BY <2>2, <2>3
  <2>5. Kept(g[k]) /\ g[k] \in States /\ list[k + 1] \in Flags
    BY <1>2, <1>3, <1>5, <2>2
  <2> QED
    BY <2>4, <2>5, StepKept
<1> HIDE DEF Good, n
<1>6. n \in Good
  BY <1>2, <1>4, <1>5, SetInduction
<1> QED
  BY <1>1, <1>2, <1>6 DEF Good

\* For every command line, the two lists that configure_output moves its
\* configurations between hold the default one and that of every workspace
\* named by a flag (unless the comparison with the default configuration's
\* missing name stops it midway), and hold each of them once.
THEOREM ConfigsAreKept == Spec => []NoConfigLostOrDoubled
<1>1. ASSUME Inv, NEW o \in Outputs
      PROVE  LET s    == ConfigureOutput(o)
                 kept == s.configs \o s.others
             IN  /\ IsInjective(kept)
                 /\ ~s.crashed => ToSet(kept) = {All} \union Named
  <2> DEFINE s == Configure(o, options)
  <2>1. ConfigureOutput(o) = s
    BY DEF ConfigureOutput, Configure
  <2>2. options \in Seq(Flags) /\ DOMAIN args = 1 .. Len(args)
    BY <1>1, LenProperties DEF Inv, ListInv
  <2>3. s \in States /\ Kept(s)
    BY <2>2, ConfigureTyped, ConfigureKept
  <2>4. ~s.crashed => Configured(s) = NamedBy(args)
    BY <1>1 DEF Inv, MeansInv, Means
  <2> HIDE DEF s
  <2>5. s.configs \in Seq(Owners) /\ s.others \in Seq(Owners)
    BY <2>3 DEF States
  <2>6. IsInjective(s.configs \o s.others)
    BY <2>3, <2>5, OnceIs DEF Kept
  <2>7. ToSet(s.configs \o s.others) = Configured(s)
    BY <2>5, MembersOfConcat DEF Configured
  <2>8. NamedBy(args) = {All} \union Named
    BY <2>2 DEF NamedBy, Named
  <2> QED
    BY <2>1, <2>4, <2>6, <2>7, <2>8
<1>2. Inv => NoConfigLostOrDoubled
  BY <1>1 DEF NoConfigLostOrDoubled
<1> QED
  BY <1>2, InitInv, NextInv, PTL DEF Spec
=============================================================================
