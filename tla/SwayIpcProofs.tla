---------------------------- MODULE SwayIpcProofs ----------------------------
(***************************************************************************)
(* Proofs about the connection to Sway, for any messages and requests,     *)
(* sizes of the header and of an address, and any of the calls failing.    *)
(* First, the requests: what has been sent and what is left make up the    *)
(* whole.  Then, the messages: the bytes received, those in the socket and *)
(* those to come make up the messages that were not returned yet; so each  *)
(* is returned as it was sent, which is what MessageStream promises.       *)
(***************************************************************************)
EXTENDS SwayIpc, SequenceTheorems, WellFoundedInduction, TLAPS

-----------------------------------------------------------------------------
(***************************************************************************)
(* Induction over the natural numbers, with a set in place of a predicate. *)
(***************************************************************************)
LEMMA LessIsWellFounded == IsWellFoundedOn({pair \in Nat \X Nat : pair[1] < pair[2]}, Nat)
  BY NatLessThanWellFounded DEF OpToRel

\* Every set of naturals has a least element, which is Min.
LEMMA MinIsLeast ==
    ASSUME NEW I \in SUBSET Nat, I # {}
    PROVE  Min(I) \in I /\ \A k \in I : Min(I) <= k
<1> DEFINE Less == {pair \in Nat \X Nat : pair[1] < pair[2]}
<1>1. IsWellFoundedOn(Less, Nat)
  BY LessIsWellFounded
<1> HIDE DEF Less
<1>2. PICK x \in I : \A y \in I : <<y, x>> \notin Less
  BY <1>1, WFMin
<1>3. ASSUME NEW y \in I
      PROVE  x <= y
  <2>1. y < x => <<y, x>> \in Less
    BY DEF Less
  <2> QED
    BY <1>2, <2>1
<1> QED
  BY <1>3 DEF Min

\* A set that holds 0 and, with every natural, the next one holds them all.
LEMMA SetInduction ==
    ASSUME NEW S, 0 \in S, \A n \in Nat : n \in S => n + 1 \in S
    PROVE  Nat \subseteq S
<1> SUFFICES ASSUME Nat \ S # {}
             PROVE  FALSE
  OBVIOUS
<1> DEFINE m == Min(Nat \ S)
<1>1. m \in Nat \ S /\ \A k \in Nat \ S : m <= k
  BY MinIsLeast
<1> HIDE DEF m
<1>2. m - 1 \in Nat /\ (m - 1) + 1 = m
  BY <1>1
<1>3. m - 1 \in S
  BY <1>1, <1>2
<1> QED
  BY <1>1, <1>2, <1>3

-----------------------------------------------------------------------------
(***************************************************************************)
(* Sequences.                                                              *)
(***************************************************************************)
LEMMA ConcatRegroups ==
    \A S : \A a, b, c \in Seq(S) : (a \o b) \o c = a \o (b \o c)
<1>1. ASSUME NEW S, NEW a \in Seq(S), NEW b \in Seq(S), NEW c \in Seq(S)
      PROVE  (a \o b) \o c = a \o (b \o c)
  BY ConcatAssociative
<1> QED
  BY <1>1

\* An element put before a sequence.
LEMMA ConsProperties ==
    ASSUME NEW S, NEW e \in S, NEW s \in Seq(S)
    PROVE  LET t == <<e>> \o s
           IN  t \in Seq(S) /\ t # <<>> /\ Head(t) = e /\ Tail(t) = s
<1> DEFINE t == <<e>> \o s
<1>1. <<e>> \in Seq(S) /\ Len(<<e>>) = 1 /\ <<e>>[1] = e
  OBVIOUS
<1>2. Len(s) \in Nat
  BY LenProperties
<1>3. t \in Seq(S) /\ Len(t) = 1 + Len(s)
      /\ \A i \in 1 .. 1 + Len(s) : t[i] = IF i <= 1 THEN <<e>>[i] ELSE s[i - 1]
  BY <1>1, ConcatProperties
<1> HIDE DEF t
<1>4. t # <<>>
  BY <1>2, <1>3, EmptySeq
<1>5. Head(t) = e
  BY <1>1, <1>2, <1>3
<1>6. Tail(t) \in Seq(S) /\ Len(Tail(t)) = Len(s) /\ \A i \in 1 .. Len(s) : Tail(t)[i] = t[i + 1]
  BY <1>2, <1>3, <1>4, HeadTailProperties
<1>7. \A i \in 1 .. Len(s) : Tail(t)[i] = s[i]
  BY <1>2, <1>3, <1>6
<1>8. Tail(t) = s
  BY <1>6, <1>7, SeqEqual
<1> QED
  BY <1>3, <1>4, <1>5, <1>8 DEF t

\* Sequences that agree up to n have the same beginning.
LEMMA SameBeginning ==
    ASSUME NEW S, NEW s \in Seq(S), NEW t \in Seq(S), NEW n \in Nat,
           n <= Len(s), n <= Len(t), \A k \in 1 .. n : s[k] = t[k]
    PROVE  SubSeq(s, 1, n) = SubSeq(t, 1, n)
<1>1. Len(s) \in Nat /\ Len(t) \in Nat
  BY LenProperties
<1>2. ASSUME NEW r \in Seq(S), n <= Len(r)
      PROVE  /\ SubSeq(r, 1, n) \in Seq(S) /\ Len(SubSeq(r, 1, n)) = n
             /\ \A k \in 1 .. n : SubSeq(r, 1, n)[k] = r[k]
  <2>1. \A k \in 1 .. n : r[k] \in S
    BY <1>2, LenProperties, ElementOfSeq
  <2>2. /\ SubSeq(r, 1, n) \in Seq(S)
        /\ Len(SubSeq(r, 1, n)) = (IF 1 <= n THEN (n - 1) + 1 ELSE 0)
        /\ \A k \in 1 .. (n - 1) + 1 : SubSeq(r, 1, n)[k] = r[(1 + k) - 1]
    BY <2>1, SubSeqProperties
  <2> QED
    BY <2>2
<1> DEFINE a == SubSeq(s, 1, n)
           b == SubSeq(t, 1, n)
<1>3. /\ a \in Seq(S) /\ b \in Seq(S) /\ Len(a) = n /\ Len(b) = n
      /\ (\A k \in 1 .. n : a[k] = s[k]) /\ \A k \in 1 .. n : b[k] = t[k]
  BY <1>2
<1> HIDE DEF a, b
<1>4. a = b
  BY <1>3, SeqEqual
<1> QED
  BY <1>4 DEF a, b

-----------------------------------------------------------------------------
(***************************************************************************)
(* FlattenSeq.  The function it is defined with exists, and concatenates   *)
(* the sequences from the left.                                            *)
(***************************************************************************)
Flattens(f, s) ==
    f = [i \in 1 .. Len(s) |-> IF i = 1 THEN s[i] ELSE f[i - 1] \o s[i]]

LEMMA FlattenExists ==
    ASSUME NEW s, Len(s) \in Nat
    PROVE  \E f : Flattens(f, s)
<1> DEFINE Upto(f, n) == f = [i \in 1 .. n |-> IF i = 1 THEN s[i] ELSE f[i - 1] \o s[i]]
           S == {n \in Nat : \E f : Upto(f, n)}
<1>1. 0 \in S
  <2>1. Upto([i \in 1 .. 0 |-> s], 0)
    OBVIOUS
  <2> QED
    BY <2>1
<1>2. ASSUME NEW n \in Nat, n \in S
      PROVE  n + 1 \in S
  <2>1. PICK f : Upto(f, n)
    BY <1>2
  <2> DEFINE g == [i \in 1 .. n + 1 |->
                     IF i = n + 1 THEN (IF i = 1 THEN s[i] ELSE f[i - 1] \o s[i]) ELSE f[i]]
  <2>2. ASSUME NEW i \in 1 .. n + 1
        PROVE  g[i] = IF i = 1 THEN s[i] ELSE g[i - 1] \o s[i]
    <3>1. CASE i = n + 1
      <4>1. i # 1 => i - 1 \in 1 .. n + 1 /\ i - 1 # n + 1
        BY <3>1
      <4> QED
        BY <3>1, <4>1
    <3>2. CASE i # n + 1
      <4>1. i \in 1 .. n /\ (i # 1 => i - 1 \in 1 .. n /\ i - 1 # n + 1)
        BY <3>2
      <4>2. f[i] = IF i = 1 THEN s[i] ELSE f[i - 1] \o s[i]
        BY <2>1, <4>1
      <4> QED
        BY <3>2, <4>1, <4>2
    <3> QED
      BY <3>1, <3>2
  <2>3. Upto(g, n + 1)
    <3>1. g = [i \in 1 .. n + 1 |-> g[i]]
      OBVIOUS
    <3> HIDE DEF g
    <3> QED
      BY <2>2, <3>1
  <2>4. \E h : Upto(h, n + 1)
    BY <2>3
  <2> HIDE DEF g, Upto
  <2> QED
    BY <2>4
<1>3. Nat \subseteq S
  <2> HIDE DEF S
  <2> QED
    BY <1>1, <1>2, SetInduction
<1>4. \E f : Upto(f, Len(s))
  BY <1>3
<1> QED
  BY <1>4 DEF Flattens

LEMMA FlattensAt ==
    ASSUME NEW s, NEW f, Flattens(f, s), NEW i \in 1 .. Len(s)
    PROVE  f[i] = IF i = 1 THEN s[i] ELSE f[i - 1] \o s[i]
<1> DEFINE g == [j \in 1 .. Len(s) |-> IF j = 1 THEN s[j] ELSE f[j - 1] \o s[j]]
<1>1. f = g
  BY DEF Flattens
<1>2. g[i] = IF i = 1 THEN s[i] ELSE f[i - 1] \o s[i]
  OBVIOUS
<1> HIDE DEF g
<1> QED
  BY <1>1, <1>2

LEMMA FlattenIs ==
    ASSUME NEW s, Len(s) \in Nat, Len(s) # 0
    PROVE  \E f : Flattens(f, s) /\ FlattenSeq(s) = f[Len(s)]
<1> DEFINE f == CHOOSE f : f = [i \in 1 .. Len(s) |-> IF i = 1 THEN s[i] ELSE f[i - 1] \o s[i]]
<1>1. Flattens(f, s)
  BY FlattenExists DEF Flattens
<1>2. FlattenSeq(s) = f[Len(s)]
  BY DEF FlattenSeq
<1> QED
  BY <1>1, <1>2

LEMMA FlattenEmpty == FlattenSeq(<<>>) = <<>>
  BY DEF FlattenSeq

LEMMA FlattensType ==
    ASSUME NEW S, NEW s \in Seq(Seq(S)), NEW f, Flattens(f, s)
    PROVE  \A i \in 1 .. Len(s) : f[i] \in Seq(S)
<1> DEFINE Good == {n \in Nat : n \in 1 .. Len(s) => f[n] \in Seq(S)}
<1>1. ASSUME NEW n \in Nat, n \in Good
      PROVE  n + 1 \in Good
  <2> SUFFICES ASSUME n + 1 \in 1 .. Len(s)
               PROVE  f[n + 1] \in Seq(S)
    OBVIOUS
  <2>1. f[n + 1] = IF n + 1 = 1 THEN s[n + 1] ELSE f[(n + 1) - 1] \o s[n + 1]
    BY FlattensAt
  <2>2. s[n + 1] \in Seq(S)
    BY ElementOfSeq
  <2>3. n # 0 => f[(n + 1) - 1] \in Seq(S)
    <3>1. (n + 1) - 1 = n /\ (n # 0 => n \in 1 .. Len(s))
      BY LenProperties
    <3> QED
      BY <1>1, <3>1
  <2> QED
    BY <2>1, <2>2, <2>3, ConcatProperties
<1>2. Nat \subseteq Good
  <2>1. 0 \in Good
    OBVIOUS
  <2> HIDE DEF Good
  <2> QED
    BY <1>1, <2>1, SetInduction
<1> QED
  BY <1>2, LenProperties

LEMMA FlattenType ==
    ASSUME NEW S, NEW s \in Seq(Seq(S))
    PROVE  FlattenSeq(s) \in Seq(S)
<1>1. CASE s = <<>>
  BY <1>1, FlattenEmpty, EmptySeq
<1>2. CASE s # <<>>
  <2>1. Len(s) \in Nat /\ Len(s) # 0
    BY <1>2, EmptySeq
  <2>2. PICK f : Flattens(f, s) /\ FlattenSeq(s) = f[Len(s)]
    BY <2>1, FlattenIs
  <2>3. \A i \in 1 .. Len(s) : f[i] \in Seq(S)
    BY <2>2, FlattensType
  <2> QED
    BY <2>1, <2>2, <2>3
<1> QED
  BY <1>1, <1>2

\* The first sequence comes first, followed by the others.
LEMMA FlattenHead ==
    ASSUME NEW S, NEW s \in Seq(Seq(S)), s # <<>>
    PROVE  FlattenSeq(s) = Head(s) \o FlattenSeq(Tail(s))
<1>0. \A a, b, c \in Seq(S) : (a \o b) \o c = a \o (b \o c)
  BY ConcatAssociative
<1>1. Len(s) \in Nat /\ Len(s) # 0 /\ Head(s) = s[1] /\ s[1] \in Seq(S)
  BY EmptySeq, ElementOfSeq
<1>2. Tail(s) \in Seq(Seq(S)) /\ Len(Tail(s)) = Len(s) - 1
      /\ \A i \in 1 .. Len(s) - 1 : Tail(s)[i] = s[i + 1]
  BY HeadTailProperties
<1>3. PICK f : Flattens(f, s) /\ FlattenSeq(s) = f[Len(s)]
  BY <1>1, FlattenIs
<1>4. f[1] = s[1]
  <2>1. 1 \in 1 .. Len(s)
    BY <1>1
  <2> QED
    BY <1>3, <2>1, FlattensAt
<1>5. CASE Len(s) = 1
  <2>1. Tail(s) = <<>>
    <3>1. Len(Tail(s)) = 0
      BY <1>2, <1>5
    <3> QED
      BY <1>2, <3>1, EmptySeq
  <2>2. FlattenSeq(Tail(s)) = <<>>
    BY <2>1, FlattenEmpty
  <2>3. s[1] \o <<>> = s[1]
    BY <1>1, ConcatEmptySeq
  <2>4. f[Len(s)] = s[1]
    BY <1>4, <1>5
  <2> QED
    BY <1>1, <1>3, <2>2, <2>3, <2>4
<1>6. CASE Len(s) # 1
  <2>1. PICK g : Flattens(g, Tail(s)) /\ FlattenSeq(Tail(s)) = g[Len(s) - 1]
    <3>1. Len(Tail(s)) \in Nat /\ Len(Tail(s)) # 0
      BY <1>1, <1>2, <1>6
    <3> QED
      BY <1>2, <3>1, FlattenIs
  <2>2. \A i \in 1 .. Len(s) - 1 : g[i] \in Seq(S)
    BY <1>2, <2>1, FlattensType
  <2> DEFINE Agree(n) == n \in 1 .. Len(s) - 1 => f[n + 1] = s[1] \o g[n]
             Good == {n \in Nat : Agree(n)}
  <2>3. Agree(0)
    OBVIOUS
  <2>4. ASSUME NEW n \in Nat, Agree(n)
        PROVE  Agree(n + 1)
    <3> SUFFICES ASSUME n + 1 \in 1 .. Len(s) - 1
                 PROVE  f[(n + 1) + 1] = s[1] \o g[n + 1]
      OBVIOUS
    <3> DEFINE next == s[(n + 1) + 1]
    <3>1. f[(n + 1) + 1] = f[n + 1] \o next
      <4>1. (n + 1) + 1 \in 1 .. Len(s) /\ (n + 1) + 1 # 1 /\ ((n + 1) + 1) - 1 = n + 1
        BY <1>1
      <4>2. f[(n + 1) + 1] = f[((n + 1) + 1) - 1] \o next
        BY <1>3, <4>1, FlattensAt
      <4> QED
        BY <4>1, <4>2
    <3>2. next \in Seq(S)
      <4>1. (n + 1) + 1 \in 1 .. Len(s)
        BY <1>1
      <4> QED
        BY <4>1, ElementOfSeq
    <3>3. g[n + 1] = IF n = 0 THEN next ELSE g[n] \o next
      <4>1. Tail(s)[n + 1] = next
        BY <1>2
      <4>2. n + 1 \in 1 .. Len(Tail(s)) /\ (n + 1) - 1 = n /\ (n + 1 = 1 <=> n = 0)
        BY <1>2
      <4>3. g[n + 1] = IF n + 1 = 1 THEN Tail(s)[n + 1] ELSE g[(n + 1) - 1] \o Tail(s)[n + 1]
        BY <2>1, <4>2, FlattensAt
      <4> QED
        BY <4>1, <4>2, <4>3
    <3> HIDE DEF next
    <3>4. CASE n = 0
      <4>1. f[n + 1] = s[1]
        BY <1>4, <3>4
      <4> QED
        BY <3>1, <3>3, <3>4, <4>1
    <3>5. CASE n # 0
      <4>1. n \in 1 .. Len(s) - 1
        BY <3>5
      <4>2. f[n + 1] = s[1] \o g[n] /\ g[n] \in Seq(S)
        BY <2>2, <2>4, <4>1
      <4>3. (s[1] \o g[n]) \o next = s[1] \o (g[n] \o next)
        BY <1>0, <1>1, <3>2, <4>2, Zenon
      <4>4. g[n + 1] = g[n] \o next
        BY <3>3, <3>5
      <4> QED
        BY <3>1, <4>2, <4>3, <4>4
    <3> QED
      BY <3>4, <3>5
  <2>5. Nat \subseteq Good
    <3> HIDE DEF Agree
    <3>1. 0 \in Good
      BY <2>3
    <3>2. \A n \in Nat : n \in Good => n + 1 \in Good
      BY <2>4
    <3> HIDE DEF Good
    <3> QED
      BY <3>1, <3>2, SetInduction
  <2>6. Len(s) - 1 \in Nat /\ Len(s) - 1 \in 1 .. Len(s) - 1 /\ (Len(s) - 1) + 1 = Len(s)
    <3>1. \A n \in Nat : n # 0 /\ n # 1 =>
            n - 1 \in Nat /\ n - 1 \in 1 .. n - 1 /\ (n - 1) + 1 = n
      OBVIOUS
    <3> QED
      BY <1>1, <1>6, <3>1, Zenon
  <2>7. f[Len(s)] = s[1] \o g[Len(s) - 1]
    BY <2>5, <2>6
  <2> QED
    BY <1>1, <1>3, <2>1, <2>7
<1> QED
  BY <1>5, <1>6

\* A sequence added at the end comes last.
LEMMA FlattenAppend ==
    ASSUME NEW S, NEW s \in Seq(Seq(S)), NEW e \in Seq(S)
    PROVE  FlattenSeq(Append(s, e)) = FlattenSeq(s) \o e
<1> DEFINE t == Append(s, e)
<1>1. t \in Seq(Seq(S)) /\ t # <<>> /\ Len(t) = Len(s) + 1
      /\ (\A i \in 1 .. Len(s) : t[i] = s[i]) /\ t[Len(s) + 1] = e
  BY AppendProperties
<1>2. Len(s) \in Nat
  BY LenProperties
<1> HIDE DEF t
<1>3. PICK g : Flattens(g, t) /\ FlattenSeq(t) = g[Len(s) + 1]
  BY <1>1, <1>2, FlattenIs
<1>4. CASE Len(s) = 0
  <2>1. 1 \in 1 .. Len(t)
    BY <1>1, <1>4
  <2>2. g[1] = e
    BY <1>1, <1>3, <1>4, <2>1, FlattensAt
  <2>3. FlattenSeq(s) = <<>>
    BY <1>4, EmptySeq, FlattenEmpty
  <2>4. <<>> \o e = e
    BY ConcatEmptySeq
  <2> QED
    BY <1>3, <1>4, <2>2, <2>3, <2>4 DEF t
<1>5. CASE Len(s) # 0
  <2>1. PICK f : Flattens(f, s) /\ FlattenSeq(s) = f[Len(s)]
    BY <1>2, <1>5, FlattenIs
  <2> DEFINE Agree(n) == n \in 1 .. Len(s) => g[n] = f[n]
             Good == {n \in Nat : Agree(n)}
  <2>2. ASSUME NEW n \in Nat, Agree(n)
        PROVE  Agree(n + 1)
    <3> SUFFICES ASSUME n + 1 \in 1 .. Len(s)
                 PROVE  g[n + 1] = f[n + 1]
      OBVIOUS
    <3>1. n + 1 \in 1 .. Len(t) /\ (n + 1) - 1 = n
      BY <1>1, <1>2
    <3>2. g[n + 1] = IF n + 1 = 1 THEN t[n + 1] ELSE g[n] \o t[n + 1]
      <4>1. g[n + 1] = IF n + 1 = 1 THEN t[n + 1] ELSE g[(n + 1) - 1] \o t[n + 1]
        BY <1>3, <3>1, FlattensAt
      <4> QED
        BY <3>1, <4>1
    <3>3. f[n + 1] = IF n + 1 = 1 THEN s[n + 1] ELSE f[n] \o s[n + 1]
      <4>1. f[n + 1] = IF n + 1 = 1 THEN s[n + 1] ELSE f[(n + 1) - 1] \o s[n + 1]
        BY <2>1, FlattensAt
      <4> QED
        BY <3>1, <4>1
    <3>4. t[n + 1] = s[n + 1]
      BY <1>1
    <3>5. n + 1 # 1 => g[n] = f[n]
      <4>1. n + 1 # 1 => n \in 1 .. Len(s)
        BY <1>2
      <4> QED
        BY <2>2, <4>1
    <3> QED
      BY <3>2, <3>3, <3>4, <3>5, Zenon
  <2>3. Nat \subseteq Good
    <3>1. Agree(0)
      OBVIOUS
    <3> HIDE DEF Agree
    <3>2. 0 \in Good
      BY <3>1
    <3>3. \A n \in Nat : n \in Good => n + 1 \in Good
      BY <2>2
    <3> HIDE DEF Good
    <3> QED
      BY <3>2, <3>3, SetInduction
  <2>4. g[Len(s)] = f[Len(s)]
    <3>1. \A n \in Nat : n # 0 => n \in 1 .. n
      OBVIOUS
    <3> QED
      BY <1>2, <1>5, <2>3, <3>1, Zenon
  <2>5. g[Len(s) + 1] = g[Len(s)] \o e
    <3>1. \A n \in Nat : n # 0 => n + 1 \in 1 .. n + 1 /\ n + 1 # 1 /\ (n + 1) - 1 = n
      OBVIOUS
    <3>2. Len(s) + 1 \in 1 .. Len(t) /\ Len(s) + 1 # 1 /\ (Len(s) + 1) - 1 = Len(s)
      BY <1>1, <1>2, <1>5, <3>1, Zenon
    <3> QED
      <4> DEFINE n == Len(s) + 1
      <4>1. g[n] = IF n = 1 THEN t[n] ELSE g[n - 1] \o t[n]
        BY <1>3, <3>2, FlattensAt
      <4> QED
        BY <1>1, <3>2, <4>1
  <2> QED
    BY <1>3, <2>1, <2>4, <2>5 DEF t
<1> QED
  BY <1>4, <1>5

-----------------------------------------------------------------------------
Stages == {"start", "send", "wait", "ready", "poll", "recv", "killed"}

-----------------------------------------------------------------------------
(***************************************************************************)
(* Requests.                                                               *)
(***************************************************************************)
RequestBytes == Nat \X Nat

LEMMA PartsType ==
    ASSUME NEW i \in DOMAIN Requests
    PROVE  Parts(i) \in Seq(Seq(RequestBytes)) /\ Parts(i) # <<>>
<1> DEFINE header  == [k \in 1..HeaderSize |-> <<i, k>>]
           payload == [k \in 1..Requests[i] |-> <<i, HeaderSize + k>>]
<1>1. i \in Nat /\ Requests[i] \in Nat /\ HeaderSize \in Nat
  BY SwayIpcAssumption
<1>2. header \in Seq(RequestBytes)
  BY <1>1 DEF RequestBytes
<1>3. payload \in Seq(RequestBytes)
  BY <1>1 DEF RequestBytes
<1>4. Parts(i) = IF Requests[i] = 0 THEN <<header>> ELSE <<header, payload>>
  BY DEF Parts
<1> HIDE DEF header, payload
<1> QED
  BY <1>2, <1>3, <1>4

LEMMA AllPartsType ==
    AllParts \in Seq(Seq(RequestBytes)) /\ AllParts # <<>>
<1> DEFINE parts == [i \in DOMAIN Requests |-> Parts(i)]
<1>1. DOMAIN Requests = 1 .. Len(Requests) /\ Len(Requests) \in Nat /\ Len(Requests) # 0
  BY SwayIpcAssumption, EmptySeq
<1>2. parts \in Seq(Seq(Seq(RequestBytes))) /\ Len(parts) = Len(Requests)
  BY <1>1, PartsType
<1>3. parts # <<>> /\ Head(parts) = Parts(1)
  BY <1>1, <1>2
<1>4. 1 \in DOMAIN Requests
  BY <1>1
<1>5. Parts(1) \in Seq(Seq(RequestBytes)) /\ Parts(1) # <<>>
  BY <1>4, PartsType
<1> HIDE DEF parts
<1>6. Tail(parts) \in Seq(Seq(Seq(RequestBytes)))
  BY <1>2, <1>3, HeadTailProperties
<1>7. FlattenSeq(Tail(parts)) \in Seq(Seq(RequestBytes)) /\ FlattenSeq(parts) \in Seq(Seq(RequestBytes))
  BY <1>2, <1>6, FlattenType
<1>8. FlattenSeq(parts) = Parts(1) \o FlattenSeq(Tail(parts))
  BY <1>2, <1>3, FlattenHead
<1>9. FlattenSeq(parts) # <<>>
  BY <1>5, <1>7, <1>8, ConcatEqualIffEmpty
<1> QED
  BY <1>7, <1>9 DEF AllParts, parts

Unfinished == stage \in {"start", "send", "wait", "ready"}

(***************************************************************************)
(* What is left is sent after what has been sent.  The loop that sends     *)
(* looks at the first part left, so there is one while it runs.            *)
(***************************************************************************)
SendInv ==
    /\ requested \in Seq(RequestBytes) /\ unsent \in Seq(Seq(RequestBytes))
    /\ open \in BOOLEAN /\ stage \in Stages
    /\ stage = "start" => unsent # <<>>
    /\ stage \in {"send", "ready", "wait"} => open /\ unsent # <<>>
    /\ open => stage \notin {"start", "killed"}
    /\ Unfinished => requested \o FlattenSeq(unsent) = FlattenSeq(AllParts)
    /\ RequestsAreWhole

LEMMA PrefixOfConcat ==
    ASSUME NEW S, NEW s \in Seq(S), NEW t \in Seq(S)
    PROVE  IsPrefix(s, s \o t)
<1>1. Len(s) \in Nat /\ Len(t) \in Nat /\ Len(s \o t) = Len(s) + Len(t)
  BY ConcatProperties
<1>2. SubSeq(s \o t, 1, Len(s)) = SubSeq(s, 1, Len(s))
  <2>1. CASE Len(s) = 0
    BY <2>1, SubSeqEmpty
  <2>2. CASE Len(s) # 0
    <3>1. 1 \in 1 .. Len(s) /\ Len(s) \in 1 .. Len(s)
      BY <1>1, <2>2
    <3> QED
      BY <3>1, SubSeqOfConcat1
  <2> QED
    BY <2>1, <2>2
<1> QED
  BY <1>1, <1>2 DEF IsPrefix

LEMMA BytesRegroup ==
    \A a, b, c \in Seq(RequestBytes) : (a \o b) \o c = a \o (b \o c)
BY ConcatRegroups

\* send takes the first n bytes of the first part, whether or not it is all.
LEMMA LeftIsTheRest ==
    ASSUME unsent \in Seq(Seq(RequestBytes)), unsent # <<>>,
           requested \in Seq(RequestBytes),
           NEW n \in 1 .. Len(Head(unsent))
    PROVE  LET taken == SubSeq(Head(unsent), 1, n)
           IN  /\ Left(n) \in Seq(Seq(RequestBytes))
               /\ requested \o taken \in Seq(RequestBytes)
               /\ (requested \o taken) \o FlattenSeq(Left(n)) = requested \o FlattenSeq(unsent)
<1> DEFINE part == Head(unsent)
           taken == SubSeq(part, 1, n)
           rest == SubSeq(part, n + 1, Len(part))
           others == FlattenSeq(Tail(unsent))
<1>1. part \in Seq(RequestBytes) /\ Tail(unsent) \in Seq(Seq(RequestBytes))
  BY HeadTailProperties
<1>2. others \in Seq(RequestBytes)
  BY <1>1, FlattenType
<1>3. FlattenSeq(unsent) = part \o others
  BY FlattenHead
<1>4. Len(part) \in Nat /\ n \in 1 .. Len(part)
  BY <1>1, LenProperties
<1> HIDE DEF part
<1>5. taken \in Seq(RequestBytes)
  <2>1. \A i \in 1 .. n : part[i] \in RequestBytes
    BY <1>1, <1>4, ElementOfSeq
  <2> QED
    BY <1>4, <2>1, SubSeqProperties
<1>6. rest \in Seq(RequestBytes)
  <2>1. \A i \in n + 1 .. Len(part) : part[i] \in RequestBytes
    BY <1>1, <1>4, ElementOfSeq
  <2> QED
    BY <1>4, <2>1, SubSeqProperties
<1>7. taken \o rest = part
  <2>1. 1 \in 1 .. Len(part) + 1 /\ n \in 0 .. Len(part) /\ Len(part) \in n .. Len(part)
    BY <1>4
  <2>2. taken \o rest = SubSeq(part, 1, Len(part))
    BY <1>1, <2>1, ConcatAdjacentSubSeq
  <2> QED
    BY <1>1, <2>2, SubSeqFull
<1>8. Left(n) = IF n = Len(part) THEN Tail(unsent) ELSE <<rest>> \o Tail(unsent)
  BY DEF Left, part
<1>9. requested \o taken \in Seq(RequestBytes)
  BY <1>5, ConcatProperties
<1>10. Left(n) \in Seq(Seq(RequestBytes)) /\ taken \o FlattenSeq(Left(n)) = part \o others
  <2>1. CASE n = Len(part)
    <3>1. taken = part
      BY <1>1, <2>1, SubSeqFull
    <3> QED
      BY <1>1, <1>8, <2>1, <3>1
  <2>2. CASE n # Len(part)
    <3> HIDE DEF rest, taken
    <3> DEFINE left == <<rest>> \o Tail(unsent)
    <3>1. left \in Seq(Seq(RequestBytes)) /\ left # <<>> /\ Head(left) = rest /\ Tail(left) = Tail(unsent)
      BY <1>1, <1>6, ConsProperties
    <3>2. FlattenSeq(left) = rest \o others
      BY <3>1, FlattenHead
    <3>3. Left(n) = left
      BY <1>8, <2>2
    <3> HIDE DEF left, others
    <3>4. taken \o (rest \o others) = part \o others
      BY <1>2, <1>5, <1>6, <1>7, BytesRegroup, Zenon
    <3> QED
      BY <3>1, <3>2, <3>3, <3>4
  <2> QED
    BY <2>1, <2>2
<1>11. FlattenSeq(Left(n)) \in Seq(RequestBytes)
  BY <1>10, FlattenType
<1> HIDE DEF taken, rest, others
<1>12. (requested \o taken) \o FlattenSeq(Left(n)) = requested \o FlattenSeq(unsent)
  <2>1. (requested \o taken) \o FlattenSeq(Left(n)) = requested \o (taken \o FlattenSeq(Left(n)))
    BY <1>5, <1>11, BytesRegroup, Zenon
  <2> QED
    BY <1>3, <1>10, <2>1
<1> QED
  BY <1>9, <1>10, <1>12 DEF taken, part

LEMMA InitSend == Init => SendInv
<1> SUFFICES ASSUME Init
             PROVE  SendInv
  OBVIOUS
<1>1. <<>> \in Seq(RequestBytes)
  BY EmptySeq
<1>2. FlattenSeq(AllParts) \in Seq(RequestBytes)
  BY AllPartsType, FlattenType
<1>3. <<>> \o FlattenSeq(AllParts) = FlattenSeq(AllParts)
  BY <1>2, ConcatEmptySeq
<1>4. IsPrefix(<<>>, FlattenSeq(AllParts))
  BY <1>1, <1>2, <1>3, PrefixOfConcat
<1> QED
  BY <1>1, <1>3, <1>4, AllPartsType DEF Init, SendInv, Stages, Unfinished, RequestsAreWhole

\* Receiving leaves the requests alone, and may close the socket.
LEMMA ReceivingKeepsSend ==
    ASSUME SendInv, open, stage \in {"poll", "recv"},
           UNCHANGED sending, open' \in BOOLEAN, stage' \in {"poll", "recv"}
    PROVE  SendInv'
BY DEF SendInv, Stages, Unfinished, RequestsAreWhole, sending

LEMMA SendSomeKeepsSend ==
    ASSUME SendInv, NEW n \in 1..(IF Sending THEN Len(Head(unsent)) ELSE 0), SendSome(n)
    PROVE  SendInv'
<1> DEFINE whole == FlattenSeq(AllParts)
<1>1. stage \in {"send", "ready"} /\ open = TRUE /\ unsent # <<>> /\ n \in 1..Len(Head(unsent))
  BY DEF SendSome, Sending, SendInv
<1>2. requested \in Seq(RequestBytes) /\ unsent \in Seq(Seq(RequestBytes))
      /\ requested \o FlattenSeq(unsent) = whole
  BY <1>1 DEF SendInv, Unfinished
<1>3. /\ requested' = requested \o SubSeq(Head(unsent), 1, n)
      /\ unsent' = Left(n)
      /\ stage' = IF unsent' = <<>> THEN "poll" ELSE "send"
      /\ open' = TRUE
  BY <1>1 DEF SendSome
<1>4. unsent' \in Seq(Seq(RequestBytes)) /\ requested' \in Seq(RequestBytes)
      /\ requested' \o FlattenSeq(unsent') = whole
  <2> DEFINE taken == SubSeq(Head(unsent), 1, n)
             left == Left(n)
  <2>1. /\ left \in Seq(Seq(RequestBytes))
        /\ requested \o taken \in Seq(RequestBytes)
        /\ (requested \o taken) \o FlattenSeq(left) = requested \o FlattenSeq(unsent)
    BY <1>1, <1>2, LeftIsTheRest
  <2>2. requested' = requested \o taken /\ unsent' = left
    BY <1>3
  <2> HIDE DEF taken, left
  <2> QED
    BY <1>2, <2>1, <2>2
<1>5. FlattenSeq(unsent') \in Seq(RequestBytes)
  BY <1>4, FlattenType
<1>6. IsPrefix(requested', whole)
  BY <1>4, <1>5, PrefixOfConcat
<1>7. unsent' = <<>> => requested' = whole
  <2>1. requested' \o <<>> = requested'
    BY <1>4, ConcatEmptySeq
  <2> QED
    BY <1>4, <2>1, FlattenEmpty
<1> HIDE DEF whole
<1>8. FlattenSeq(AllParts)' = whole
  BY DEF whole
<1> QED
  BY <1>3, <1>4, <1>6, <1>7, <1>8 DEF SendInv, Stages, Unfinished, RequestsAreWhole

LEMMA SendStep == SendInv /\ [Next]_vars => SendInv'
<1> SUFFICES ASSUME SendInv, [Next]_vars
             PROVE  SendInv'
  OBVIOUS
<1>1. CASE UNCHANGED <<sending, open, stage>>
  BY <1>1 DEF SendInv, Stages, Unfinished, RequestsAreWhole, sending
<1>2. CASE \E m \in Messages : Send(m)
  BY <1>1, <1>2 DEF Send
<1>3. CASE Write \/ HangUp
  BY <1>1, <1>3 DEF Write, HangUp
<1>4. CASE Open
  BY <1>4 DEF Open, SendInv, Stages, Unfinished, RequestsAreWhole, sending
<1>5. ASSUME NEW n \in 1..(IF Sending THEN Len(Head(unsent)) ELSE 0), SendSome(n)
      PROVE  SendInv'
  BY <1>5, SendSomeKeepsSend
<1>6. CASE SendBlocked \/ Writable
  BY <1>6 DEF SendBlocked, Writable, SendInv, Stages, Unfinished, RequestsAreWhole, sending
<1>7. CASE SendFails \/ Killed
  <2>1. requested' = requested /\ unsent' \in {unsent, <<>>} /\ open' = FALSE /\ stage' \in {"poll", "killed"}
    BY <1>7 DEF SendFails, Killed, sending
  <2>2. unsent' \in Seq(Seq(RequestBytes))
    BY <2>1, EmptySeq DEF SendInv
  <2> QED
    BY <2>1, <2>2 DEF SendInv, Stages, Unfinished, RequestsAreWhole
<1>8. CASE Poll
  BY <1>8, ReceivingKeepsSend DEF Poll
<1>9. CASE SwayIpcRecv
  <2>1. CASE NothingToRead
    BY <2>1, ReceivingKeepsSend DEF NothingToRead, Calling, SendInv
  <2>2. ASSUME NEW n \in 0..Len(wire), RecvPart(n) \/ RecvHeader(n) \/ RecvLast(n)
        PROVE  SendInv'
    <3>1. open /\ stage = "recv" /\ UNCHANGED <<sending, open>> /\ stage' \in {"poll", "recv"}
      BY <2>2 DEF RecvPart, RecvHeader, RecvLast, Take, Calling
    <3> QED
      BY <3>1, ReceivingKeepsSend DEF SendInv
  <2>3. ASSUME NEW n \in 0..Len(wire), RecvTooBig(n)
        PROVE  SendInv'
    BY <2>3, ReceivingKeepsSend DEF RecvTooBig, Calling, Close
  <2> QED
    BY <1>9, <2>1, <2>2, <2>3 DEF SwayIpcRecv
<1>10. CASE GrowFails \/ RecvFails
  BY <1>10, ReceivingKeepsSend DEF GrowFails, RecvFails, Calling, Close
<1>11. CASE UNCHANGED vars
  BY <1>1, <1>11 DEF vars
<1> QED
  BY <1>2, <1>3, <1>4, <1>5, <1>6, <1>7, <1>8, <1>9, <1>10, <1>11 DEF Next, SwayIpcSend

LEMMA SendInvHolds == Spec => []SendInv
<1>1. Init => SendInv
  BY InitSend
<1>2. SendInv /\ [Next]_vars => SendInv'
  BY SendStep
<1> QED
  BY <1>1, <1>2, PTL DEF Spec

(***************************************************************************)
(* Sway gets the requests one after the other, byte for byte, whatever     *)
(* send makes of the parts that sway_ipc_send_data gives it; main's loop   *)
(* begins when they are complete, or with the socket closed.               *)
(***************************************************************************)
THEOREM WholeRequests == Spec => []RequestsAreWhole
<1>1. SendInv => RequestsAreWhole
  BY DEF SendInv
<1> QED
  BY <1>1, SendInvHolds, PTL

-----------------------------------------------------------------------------
(***************************************************************************)
(* Messages.  While the socket is open, the bytes received, in the socket  *)
(* and to come are those of the messages not returned yet, one after the   *)
(* other; what has been received is less than the first of them, and the   *)
(* size of its payload is known when its header is there.                  *)
(***************************************************************************)
Live == open \/ stage = "start"

Unread == SubSeq(buffer, 1, received) \o (wire \o pending)

Unreturned == [k \in 1 .. Len(sent) - Len(delivered) |-> BytesOf(sent[Len(delivered) + k])]

NextMessage == sent[Len(delivered) + 1]

Returned == {AsReturned(m) : m \in Messages}

ReceiveTyped ==
    /\ sent \in Seq(Messages)
    /\ pending \in Seq(AnyByte) /\ wire \in Seq(AnyByte) /\ buffer \in Seq(AnyByte)
    /\ received \in Nat /\ payload_size \in Nat
    /\ delivered \in Seq(Returned)
    /\ Len(delivered) <= Len(sent)

InStep ==
    /\ received <= Len(buffer)
    /\ Unread = FlattenSeq(Unreturned)
    /\ received > 0 => received < HeaderSize + NextMessage.size
    /\ payload_size = IF received < HeaderSize THEN 0 ELSE NextMessage.size

ReceiveInv == ReceiveTyped /\ (Live => InStep)

LEMMA ByteType ==
    ASSUME NEW m \in Messages \union {Junk}, NEW k \in Nat
    PROVE  Byte(m, k) \in AnyByte /\ Byte(m, k).message = m
BY DEF Byte, AnyByte

LEMMA BytesOfType ==
    ASSUME NEW m \in Messages
    PROVE  /\ BytesOf(m) \in Seq(AnyByte)
           /\ m.size \in Nat /\ HeaderSize \in Nat /\ HeaderSize > 0
           /\ Len(BytesOf(m)) = HeaderSize + m.size
           /\ \A k \in 1..(HeaderSize + m.size) : BytesOf(m)[k] = Byte(m, k)
<1>1. m.size \in Nat /\ HeaderSize \in Nat /\ HeaderSize > 0
  BY SwayIpcAssumption
<1> DEFINE len == HeaderSize + m.size
<1>2. len \in Nat
  BY <1>1
<1>3. BytesOf(m) = [k \in 1..len |-> Byte(m, k)]
  BY DEF BytesOf
<1> HIDE DEF len
<1>4. \A k \in 1..len : Byte(m, k) \in AnyByte
  BY ByteType
<1>5. BytesOf(m) \in Seq(AnyByte) /\ Len(BytesOf(m)) = len
  BY <1>2, <1>3, <1>4
<1>6. \A k \in 1..len : BytesOf(m)[k] = Byte(m, k)
  BY <1>3
<1> QED
  BY <1>1, <1>5, <1>6 DEF len

LEMMA UnreturnedType ==
    ASSUME ReceiveTyped
    PROVE  /\ Unreturned \in Seq(Seq(AnyByte))
           /\ Len(Unreturned) = Len(sent) - Len(delivered)
           /\ Len(sent) - Len(delivered) \in Nat
           /\ Len(sent) \in Nat /\ Len(delivered) \in Nat
           /\ \A k \in 1 .. Len(sent) - Len(delivered) :
                Unreturned[k] = BytesOf(sent[Len(delivered) + k])
<1> DEFINE len == Len(sent) - Len(delivered)
<1>1. Len(sent) \in Nat /\ Len(delivered) \in Nat /\ len \in Nat
  BY LenProperties DEF ReceiveTyped
<1>2. ASSUME NEW k \in 1 .. len
      PROVE  BytesOf(sent[Len(delivered) + k]) \in Seq(AnyByte)
  <2>1. Len(delivered) + k \in 1 .. Len(sent)
    BY <1>1
  <2>2. sent[Len(delivered) + k] \in Messages
    BY <2>1, ElementOfSeq DEF ReceiveTyped
  <2> QED
    BY <2>2, BytesOfType
<1>3. Unreturned = [k \in 1 .. len |-> BytesOf(sent[Len(delivered) + k])]
  BY DEF Unreturned
<1>4. len \in Nat
  BY <1>1
<1>5. Unreturned \in Seq(Seq(AnyByte)) /\ Len(Unreturned) = len
  <2> HIDE DEF len
  <2> QED
    BY <1>2, <1>3, <1>4
<1>6. \A k \in 1 .. len : Unreturned[k] = BytesOf(sent[Len(delivered) + k])
  BY <1>3
<1> QED
  BY <1>1, <1>5, <1>6

LEMMA UnreadType ==
    ASSUME ReceiveTyped, received <= Len(buffer)
    PROVE  /\ SubSeq(buffer, 1, received) \in Seq(AnyByte)
           /\ Len(SubSeq(buffer, 1, received)) = received
           /\ \A k \in 1 .. received : SubSeq(buffer, 1, received)[k] = buffer[k]
           /\ wire \o pending \in Seq(AnyByte)
           /\ Unread \in Seq(AnyByte)
           /\ Len(Unread) = received + (Len(wire) + Len(pending))
           /\ Len(wire) \in Nat /\ Len(pending) \in Nat /\ Len(buffer) \in Nat
<1>1. received \in Nat /\ Len(wire) \in Nat /\ Len(pending) \in Nat /\ Len(buffer) \in Nat
  BY LenProperties DEF ReceiveTyped
<1>2. \A k \in 1 .. received : buffer[k] \in AnyByte
  BY <1>1, ElementOfSeq DEF ReceiveTyped
<1> DEFINE start == SubSeq(buffer, 1, received)
<1>3. start \in Seq(AnyByte) /\ Len(start) = (IF 1 <= received THEN (received - 1) + 1 ELSE 0)
      /\ \A k \in 1 .. (received - 1) + 1 : start[k] = buffer[(1 + k) - 1]
  BY <1>1, <1>2, SubSeqProperties
<1> HIDE DEF start
<1>4. Len(start) = received /\ \A k \in 1 .. received : start[k] = buffer[k]
  BY <1>1, <1>3
<1>5. wire \o pending \in Seq(AnyByte) /\ Len(wire \o pending) = Len(wire) + Len(pending)
  BY ConcatProperties DEF ReceiveTyped
<1> DEFINE later == wire \o pending
<1> HIDE DEF later
<1>6. start \o later \in Seq(AnyByte) /\ Len(start \o later) = Len(start) + Len(later)
  <2>1. later \in Seq(AnyByte)
    BY <1>5 DEF later
  <2> QED
    BY <1>3, <2>1, ConcatProperties
<1>7. Unread = start \o later
  BY DEF Unread, start, later
<1> QED
  BY <1>1, <1>3, <1>4, <1>5, <1>6, <1>7 DEF start, later

\* The bytes there are begin with those of the next message.
LEMMA UnreadBegins ==
    ASSUME ReceiveTyped, InStep, received + Len(wire) > 0
    PROVE  /\ Len(delivered) < Len(sent)
           /\ NextMessage \in Messages
           /\ Unreturned # <<>>
           /\ Unread = BytesOf(NextMessage) \o FlattenSeq(Tail(Unreturned))
<1>1. Unread \in Seq(AnyByte) /\ Len(Unread) > 0
  BY UnreadType DEF InStep, ReceiveTyped
<1>2. Unread = FlattenSeq(Unreturned)
  BY DEF InStep
<1>3. Unreturned # <<>>
  <2> SUFFICES ASSUME Unreturned = <<>>
               PROVE  FALSE
    OBVIOUS
  <2>1. Unread = <<>>
    BY <1>2, FlattenEmpty
  <2> QED
    BY <1>1, <2>1
<1>4. Len(Unreturned) # 0
  BY <1>3, UnreturnedType, EmptySeq
<1>5. Len(delivered) < Len(sent) /\ 1 \in 1 .. Len(sent) - Len(delivered)
  BY <1>4, UnreturnedType
<1>6. NextMessage \in Messages
  <2>1. Len(delivered) + 1 \in 1 .. Len(sent)
    BY <1>5, UnreturnedType
  <2> QED
    BY <2>1, ElementOfSeq DEF NextMessage, ReceiveTyped
<1>7. Unreturned[1] = BytesOf(NextMessage)
  BY <1>5, UnreturnedType DEF NextMessage
<1>8. Head(Unreturned) = Unreturned[1]
  OBVIOUS
<1>9. FlattenSeq(Unreturned) = Head(Unreturned) \o FlattenSeq(Tail(Unreturned))
  BY <1>3, UnreturnedType, FlattenHead
<1> QED
  BY <1>2, <1>3, <1>5, <1>6, <1>7, <1>8, <1>9

LEMMA ExpectedIsMore ==
    ASSUME ReceiveTyped, InStep
    PROVE  /\ Expected \in Nat /\ received < Expected
           /\ HeaderSize \in Nat /\ HeaderSize > 0
           /\ payload_size # 0 => received >= HeaderSize /\ payload_size = NextMessage.size
           /\ payload_size = 0 => received < HeaderSize
<1>1. received \in Nat /\ payload_size \in Nat /\ HeaderSize \in Nat /\ HeaderSize > 0
  BY SwayIpcAssumption DEF ReceiveTyped
<1>2. received > 0 => received < HeaderSize + NextMessage.size
  BY DEF InStep
<1>3. payload_size = IF received < HeaderSize THEN 0 ELSE NextMessage.size
  BY DEF InStep
<1>4. CASE received < HeaderSize
  BY <1>1, <1>3, <1>4 DEF Expected
<1>5. CASE received >= HeaderSize
  BY <1>1, <1>2, <1>3, <1>5 DEF Expected
<1> QED
  BY <1>1, <1>4, <1>5

LEMMA GrownType ==
    ASSUME ReceiveTyped, InStep
    PROVE  /\ Grown \in Seq(AnyByte)
           /\ Len(Grown) \in Nat /\ DOMAIN Grown = 1 .. Len(Grown)
           /\ Len(Grown) >= Expected /\ Len(Grown) >= Len(buffer)
           /\ \A k \in 1 .. Len(buffer) : Grown[k] = buffer[k]
<1>1. Len(buffer) \in Nat /\ Expected \in Nat /\ buffer \in Seq(AnyByte) /\ DOMAIN buffer = 1 .. Len(buffer)
  BY ExpectedIsMore, LenProperties DEF ReceiveTyped
<1>2. CASE Len(buffer) >= Expected
  BY <1>1, <1>2 DEF Grown
<1>3. CASE ~(Len(buffer) >= Expected)
  <2> DEFINE size == Expected
             old == buffer
             grown == [k \in 1..size |-> IF k <= Len(old) THEN old[k] ELSE Byte(Junk, k)]
  <2>1. Grown = grown
    BY <1>3 DEF Grown
  <2>2. \A k \in 1 .. size : (IF k <= Len(old) THEN old[k] ELSE Byte(Junk, k)) \in AnyByte
    <3>1. \A k \in 1 .. size : k <= Len(old) => old[k] \in AnyByte
      BY <1>1, ElementOfSeq
    <3>2. \A k \in 1 .. size : Byte(Junk, k) \in AnyByte
      BY <1>1, ByteType
    <3> QED
      BY <3>1, <3>2
  <2>3. size \in Nat /\ Len(old) \in Nat /\ Len(old) <= size
    BY <1>1, <1>3
  <2> HIDE DEF size, old
  <2>4. grown \in Seq(AnyByte) /\ Len(grown) = size /\ DOMAIN grown = 1 .. size
    BY <2>2, <2>3
  <2>5. \A k \in 1 .. Len(old) : grown[k] = old[k]
    BY <2>3
  <2> HIDE DEF grown
  <2> QED
    BY <2>1, <2>3, <2>4, <2>5 DEF size, old
<1> QED
  BY <1>2, <1>3

(***************************************************************************)
(* What recv returns is stored after what was received before: no byte is  *)
(* lost or moved.  So the buffer begins like the next message.             *)
(***************************************************************************)
LEMMA StoreType ==
    ASSUME ReceiveTyped, InStep, NEW n \in 0 .. Len(wire), n <= Expected - received
    PROVE  /\ Store(n) \in Seq(AnyByte)
           /\ Len(Store(n)) >= received + n
           /\ \A k \in 1 .. received : Store(n)[k] = buffer[k]
           /\ \A k \in 1 .. n : Store(n)[received + k] = wire[k]
<1> DEFINE grown == Grown
           stored == Store(n)
<1>1. /\ received \in Nat /\ Expected \in Nat /\ Len(wire) \in Nat /\ n \in Nat
      /\ received + n <= Expected /\ received <= Len(buffer) /\ Len(buffer) \in Nat
  BY ExpectedIsMore, UnreadType DEF InStep, ReceiveTyped
<1>2. /\ grown \in Seq(AnyByte) /\ Len(grown) \in Nat /\ DOMAIN grown = 1 .. Len(grown)
      /\ Len(grown) >= Expected /\ \A k \in 1 .. received : grown[k] = buffer[k]
  BY <1>1, GrownType
<1>3. stored = [k \in 1 .. Len(grown) |->
                  IF k \in (received + 1)..(received + n) THEN wire[k - received] ELSE grown[k]]
  BY <1>2 DEF Store
<1> HIDE DEF grown, stored
<1>4. ASSUME NEW k \in 1 .. Len(grown)
      PROVE  (IF k \in (received + 1)..(received + n) THEN wire[k - received] ELSE grown[k]) \in AnyByte
  <2>1. grown[k] \in AnyByte
    BY <1>2, ElementOfSeq
  <2>2. CASE k \in (received + 1)..(received + n)
    <3>1. k - received \in 1 .. Len(wire)
      BY <1>1, <2>2
    <3>2. wire[k - received] \in AnyByte
      BY <3>1, ElementOfSeq DEF ReceiveTyped
    <3> QED
      BY <2>2, <3>2
  <2> QED
    BY <2>1, <2>2
<1>5. stored \in Seq(AnyByte) /\ Len(stored) = Len(grown)
  BY <1>2, <1>3, <1>4
<1>6. \A k \in 1 .. received : stored[k] = buffer[k]
  <2> SUFFICES ASSUME NEW k \in 1 .. received
               PROVE  stored[k] = buffer[k]
    OBVIOUS
  <2>1. k \in 1 .. Len(grown) /\ k \notin (received + 1)..(received + n)
    BY <1>1, <1>2
  <2> QED
    BY <1>2, <1>3, <2>1
<1>7. \A k \in 1 .. n : stored[received + k] = wire[k]
  <2> SUFFICES ASSUME NEW k \in 1 .. n
               PROVE  stored[received + k] = wire[k]
    OBVIOUS
  <2>1. received + k \in 1 .. Len(grown) /\ received + k \in (received + 1)..(received + n)
        /\ (received + k) - received = k
    BY <1>1, <1>2
  <2> QED
    BY <1>3, <2>1
<1> QED
  BY <1>1, <1>2, <1>5, <1>6, <1>7 DEF stored

LEMMA AnyBytesRegroup ==
    \A a, b, c \in Seq(AnyByte) : (a \o b) \o c = a \o (b \o c)
BY ConcatRegroups

LEMMA StoreKeepsUnread ==
    ASSUME ReceiveTyped, InStep, NEW n \in 0 .. Len(wire), n <= Expected - received
    PROVE  LET begin == SubSeq(Store(n), 1, received + n)
               rest  == SubSeq(wire, n + 1, Len(wire))
           IN  /\ begin \in Seq(AnyByte) /\ Len(begin) = received + n
               /\ \A k \in 1 .. received + n : begin[k] = Store(n)[k]
               /\ rest \in Seq(AnyByte)
               /\ begin \o (rest \o pending) = Unread
<1> DEFINE stored == Store(n)
           begin == SubSeq(stored, 1, received + n)
           old   == SubSeq(buffer, 1, received)
           taken == SubSeq(wire, 1, n)
           rest  == SubSeq(wire, n + 1, Len(wire))
<1>1. /\ stored \in Seq(AnyByte)
      /\ Len(stored) >= received + n
      /\ \A k \in 1 .. received : stored[k] = buffer[k]
      /\ \A k \in 1 .. n : stored[received + k] = wire[k]
  BY StoreType
<1>2. received \in Nat /\ n \in Nat /\ Len(wire) \in Nat /\ Len(stored) \in Nat /\ wire \in Seq(AnyByte)
      /\ pending \in Seq(AnyByte)
  BY <1>1, LenProperties DEF ReceiveTyped
<1> HIDE DEF stored
<1>3. old \in Seq(AnyByte) /\ Len(old) = received /\ \A k \in 1 .. received : old[k] = buffer[k]
  BY UnreadType DEF InStep
<1>4. begin \in Seq(AnyByte) /\ Len(begin) = received + n /\ \A k \in 1 .. received + n : begin[k] = stored[k]
  <2> DEFINE m == received + n
  <2>1. m \in Nat /\ \A k \in 1 .. m : stored[k] \in AnyByte
    BY <1>1, <1>2, ElementOfSeq
  <2> HIDE DEF m
  <2>2. SubSeq(stored, 1, m) \in Seq(AnyByte)
        /\ Len(SubSeq(stored, 1, m)) = (IF 1 <= m THEN (m - 1) + 1 ELSE 0)
        /\ \A k \in 1 .. (m - 1) + 1 : SubSeq(stored, 1, m)[k] = stored[(1 + k) - 1]
    BY <2>1, SubSeqProperties
  <2>3. Len(SubSeq(stored, 1, m)) = m /\ \A k \in 1 .. m : SubSeq(stored, 1, m)[k] = stored[k]
    BY <2>1, <2>2
  <2> QED
    BY <2>2, <2>3 DEF m
<1>5. taken \in Seq(AnyByte) /\ Len(taken) = n /\ \A k \in 1 .. n : taken[k] = wire[k]
  <2>1. \A k \in 1 .. n : wire[k] \in AnyByte
    BY <1>2, ElementOfSeq
  <2>2. taken \in Seq(AnyByte)
        /\ Len(taken) = (IF 1 <= n THEN (n - 1) + 1 ELSE 0)
        /\ \A k \in 1 .. (n - 1) + 1 : taken[k] = wire[(1 + k) - 1]
    BY <1>2, <2>1, SubSeqProperties
  <2> HIDE DEF taken
  <2> QED
    BY <1>2, <2>2
<1>6. rest \in Seq(AnyByte)
  <2>1. \A k \in n + 1 .. Len(wire) : wire[k] \in AnyByte
    BY <1>2, ElementOfSeq
  <2> QED
    BY <1>2, <2>1, SubSeqProperties
<1>7. taken \o rest = wire
  <2>1. 1 \in 1 .. Len(wire) + 1 /\ n \in 1 - 1 .. Len(wire) /\ Len(wire) \in n .. Len(wire)
    BY <1>2
  <2>2. taken \o rest = SubSeq(wire, 1, Len(wire))
    BY <1>2, <2>1, ConcatAdjacentSubSeq
  <2> QED
    BY <1>2, <2>2, SubSeqFull
<1> HIDE DEF begin, old, taken, rest
<1>8. begin = old \o taken
  <2>1. old \o taken \in Seq(AnyByte) /\ Len(old \o taken) = received + n
        /\ \A k \in 1 .. received + n : (old \o taken)[k] = IF k <= received THEN old[k] ELSE taken[k - received]
    BY <1>3, <1>5, ConcatProperties
  <2> DEFINE both == old \o taken
  <2> HIDE DEF both
  <2>2. ASSUME NEW k \in 1 .. received + n
        PROVE  begin[k] = both[k]
    <3>1. both[k] = IF k <= received THEN old[k] ELSE taken[k - received]
      BY <2>1 DEF both
    <3>2. CASE k <= received
      <4>1. k \in 1 .. received
        BY <1>2, <3>2
      <4> QED
        BY <1>1, <1>3, <1>4, <3>1, <3>2, <4>1
    <3>3. CASE ~(k <= received)
      <4>1. k - received \in 1 .. n /\ received + (k - received) = k
        BY <1>2, <3>3
      <4>2. stored[k] = wire[k - received]
        BY <1>1, <4>1
      <4> QED
        BY <1>4, <1>5, <3>1, <3>3, <4>1, <4>2
    <3> QED
      BY <3>2, <3>3
  <2>3. both \in Seq(AnyByte) /\ Len(both) = received + n
    BY <2>1 DEF both
  <2>4. begin = both
    BY <1>4, <2>2, <2>3, SeqEqual
  <2> QED
    BY <2>4 DEF both
<1>9. begin \o (rest \o pending) = Unread
  <2>1. Unread = old \o (wire \o pending)
    BY DEF Unread, old
  <2>2. (taken \o rest) \o pending = taken \o (rest \o pending)
    <3>1. taken \in Seq(AnyByte) /\ rest \in Seq(AnyByte) /\ pending \in Seq(AnyByte)
      BY <1>2, <1>5, <1>6
    <3> QED
      BY <3>1, AnyBytesRegroup, Zenon
  <2>3. rest \o pending \in Seq(AnyByte)
    BY <1>2, <1>6, ConcatProperties
  <2> DEFINE later == rest \o pending
  <2>4. later \in Seq(AnyByte)
    BY <2>3
  <2> HIDE DEF later
  <2>5. (old \o taken) \o later = old \o (taken \o later)
    BY <1>3, <1>5, <2>4, ConcatAssociative
  <2> QED
    BY <1>7, <1>8, <2>1, <2>2, <2>5 DEF later
<1> QED
  BY <1>4, <1>6, <1>9 DEF begin, rest, stored

\* The bytes that are there after Store are those of the next message.
LEMMA StoreIsNext ==
    ASSUME ReceiveTyped, InStep, NEW n \in 0 .. Len(wire), n <= Expected - received,
           received + n > 0
    PROVE  /\ Len(delivered) < Len(sent) /\ NextMessage \in Messages
           /\ \A k \in 1 .. received + n :
                k <= HeaderSize + NextMessage.size => Store(n)[k] = Byte(NextMessage, k)
<1>1. n \in Nat /\ received \in Nat /\ Len(wire) \in Nat /\ received + Len(wire) > 0
  BY LenProperties DEF ReceiveTyped
<1>2. /\ Len(delivered) < Len(sent)
      /\ NextMessage \in Messages
      /\ Unreturned # <<>>
      /\ Unread = BytesOf(NextMessage) \o FlattenSeq(Tail(Unreturned))
  BY <1>1, UnreadBegins
<1> DEFINE begin == SubSeq(Store(n), 1, received + n)
           later == SubSeq(wire, n + 1, Len(wire)) \o pending
           bytes == BytesOf(NextMessage)
           others == FlattenSeq(Tail(Unreturned))
<1>3. /\ begin \in Seq(AnyByte) /\ Len(begin) = received + n
      /\ \A k \in 1 .. received + n : begin[k] = Store(n)[k]
      /\ later \in Seq(AnyByte)
      /\ begin \o later = Unread
  BY StoreKeepsUnread, ConcatProperties DEF ReceiveTyped
<1>4. others \in Seq(AnyByte)
  <2>1. Tail(Unreturned) \in Seq(Seq(AnyByte))
    BY <1>2, UnreturnedType, HeadTailProperties
  <2> QED
    BY <2>1, FlattenType
<1>5. /\ bytes \in Seq(AnyByte) /\ Len(bytes) = HeaderSize + NextMessage.size
      /\ HeaderSize + NextMessage.size \in Nat
      /\ \A k \in 1 .. HeaderSize + NextMessage.size : bytes[k] = Byte(NextMessage, k)
  BY <1>2, BytesOfType
<1>6. begin \o later = bytes \o others
  BY <1>2, <1>3
<1>7. Len(later) \in Nat /\ Len(others) \in Nat
  BY <1>3, <1>4, LenProperties
<1> DEFINE len == HeaderSize + NextMessage.size
<1> HIDE DEF begin, later, bytes, others, len
<1>8. ASSUME NEW k \in 1 .. received + n, k <= len
      PROVE  Store(n)[k] = Byte(NextMessage, k)
  <2>1. (begin \o later)[k] = begin[k]
    <3>1. k \in 1 .. Len(begin) + Len(later) /\ k <= Len(begin)
      BY <1>1, <1>3, <1>7
    <3> QED
      BY <1>3, <3>1, ConcatProperties
  <2>2. (bytes \o others)[k] = bytes[k]
    <3>1. k \in 1 .. Len(bytes) + Len(others) /\ k <= Len(bytes)
      BY <1>1, <1>5, <1>7, <1>8 DEF len
    <3> QED
      BY <1>4, <1>5, <3>1, ConcatProperties
  <2>3. bytes[k] = Byte(NextMessage, k)
    <3>1. k \in 1 .. HeaderSize + NextMessage.size
      BY <1>1, <1>5, <1>8 DEF len
    <3> QED
      BY <1>5, <3>1
  <2> QED
    BY <1>3, <1>6, <2>1, <2>2, <2>3
<1> QED
  BY <1>2, <1>8 DEF len

LEMMA InitReceive == Init => ReceiveInv
<1> SUFFICES ASSUME Init
             PROVE  ReceiveInv
  OBVIOUS
<1>1. /\ sent = <<>> /\ pending = <<>> /\ wire = <<>> /\ buffer = <<>> /\ delivered = <<>>
      /\ received = 0 /\ payload_size = 0
  BY DEF Init
<1>2. ReceiveTyped
  BY <1>1, EmptySeq DEF ReceiveTyped
<1>3. SubSeq(buffer, 1, received) = <<>>
  BY <1>1, SubSeqEmpty
<1>4. Unread = <<>>
  <2>1. <<>> \o <<>> = <<>>
    OBVIOUS
  <2> QED
    BY <1>1, <1>3, <2>1 DEF Unread
<1>5. Len(Unreturned) = 0 /\ Unreturned \in Seq(Seq(AnyByte))
  <2>1. Len(sent) = 0 /\ Len(delivered) = 0
    BY <1>1
  <2> QED
    BY <1>2, <2>1, UnreturnedType
<1>6. FlattenSeq(Unreturned) = <<>>
  BY <1>5, EmptySeq, FlattenEmpty
<1>7. HeaderSize \in Nat /\ HeaderSize > 0
  BY SwayIpcAssumption
<1> QED
  BY <1>1, <1>2, <1>4, <1>6, <1>7 DEF ReceiveInv, InStep

\* Steps that leave the bytes alone; no step opens a closed socket.
LEMMA SameKeepsReceive ==
    ASSUME ReceiveInv, UNCHANGED <<sent, pending, wire, receiving>>, Live' => Live
    PROVE  ReceiveInv'
<1>1. UNCHANGED <<sent, pending, wire, buffer, received, payload_size, delivered>>
  BY DEF receiving
<1>2. ReceiveTyped'
  BY <1>1 DEF ReceiveInv, ReceiveTyped
<1>3. InStep => InStep'
  BY <1>1 DEF InStep, Unread, Unreturned, NextMessage
<1> QED
  BY <1>2, <1>3 DEF ReceiveInv

LEMMA SendKeepsReceive ==
    ASSUME ReceiveInv, NEW m \in Messages, Send(m)
    PROVE  ReceiveInv'
<1>1. /\ sent' = Append(sent, m) /\ pending' = pending \o BytesOf(m)
      /\ UNCHANGED <<wire, open, stage, buffer, received, payload_size, delivered>>
  BY DEF Send, receiving
<1>2. ReceiveTyped
  BY DEF ReceiveInv
<1>3. /\ sent' \in Seq(Messages) /\ Len(sent') = Len(sent) + 1
      /\ (\A k \in 1 .. Len(sent) : sent'[k] = sent[k]) /\ sent'[Len(sent) + 1] = m
      /\ Len(sent) \in Nat /\ Len(delivered) \in Nat /\ Len(delivered) <= Len(sent)
  BY <1>1, <1>2, AppendProperties, LenProperties DEF ReceiveTyped
<1>4. BytesOf(m) \in Seq(AnyByte)
  BY BytesOfType
<1>5. pending' \in Seq(AnyByte)
  BY <1>1, <1>2, <1>4, ConcatProperties DEF ReceiveTyped
<1>6. ReceiveTyped'
  BY <1>1, <1>2, <1>3, <1>5 DEF ReceiveTyped
<1>7. ASSUME InStep
      PROVE  InStep'
  <2>1. Unread' = Unread \o BytesOf(m)
    <3> DEFINE start == SubSeq(buffer, 1, received)
    <3>1. start \in Seq(AnyByte) /\ wire \in Seq(AnyByte) /\ pending \in Seq(AnyByte)
          /\ wire \o pending \in Seq(AnyByte)
      BY <1>2, <1>7, UnreadType DEF InStep, ReceiveTyped
    <3> HIDE DEF start
    <3>2. (wire \o pending) \o BytesOf(m) = wire \o (pending \o BytesOf(m))
      BY <1>4, <3>1, AnyBytesRegroup, Zenon
    <3>3. (start \o (wire \o pending)) \o BytesOf(m) = start \o ((wire \o pending) \o BytesOf(m))
      BY <1>4, <3>1, AnyBytesRegroup, Zenon
    <3>4. Unread = start \o (wire \o pending)
      BY DEF Unread, start
    <3>5. Unread' = start \o (wire \o (pending \o BytesOf(m)))
      BY <1>1 DEF Unread, start
    <3> QED
      BY <3>2, <3>3, <3>4, <3>5
  <2>2. Unreturned' = Append(Unreturned, BytesOf(m))
    <3> DEFINE len == Len(sent) - Len(delivered)
               more == Append(Unreturned, BytesOf(m))
    <3>1. /\ Unreturned \in Seq(Seq(AnyByte)) /\ Len(Unreturned) = len /\ len \in Nat
          /\ \A k \in 1 .. len : Unreturned[k] = BytesOf(sent[Len(delivered) + k])
      BY <1>2, UnreturnedType
    <3>2. /\ more \in Seq(Seq(AnyByte)) /\ Len(more) = len + 1
          /\ (\A k \in 1 .. len : more[k] = Unreturned[k]) /\ more[len + 1] = BytesOf(m)
      BY <1>4, <3>1, AppendProperties
    <3>3. Unreturned' \in Seq(Seq(AnyByte)) /\ Len(Unreturned') = Len(sent') - Len(delivered')
          /\ \A k \in 1 .. Len(sent') - Len(delivered') :
               Unreturned'[k] = BytesOf(sent'[Len(delivered') + k])
      <4>1. (ReceiveTyped => /\ Unreturned \in Seq(Seq(AnyByte))
                             /\ Len(Unreturned) = Len(sent) - Len(delivered)
                             /\ \A k \in 1 .. Len(sent) - Len(delivered) :
                                  Unreturned[k] = BytesOf(sent[Len(delivered) + k]))'
        BY UnreturnedType, PTL
      <4> QED
        BY <1>6, <4>1
    <3>4. Len(sent') - Len(delivered') = len + 1
      BY <1>1, <1>3
    <3>5. ASSUME NEW k \in 1 .. len + 1
          PROVE  Unreturned'[k] = more[k]
      <4>1. Unreturned'[k] = BytesOf(sent'[Len(delivered) + k])
        BY <1>1, <3>3, <3>4, <3>5
      <4>2. CASE k \in 1 .. len
        <5>1. Len(delivered) + k \in 1 .. Len(sent)
          BY <1>3, <4>2
        <5> QED
          BY <1>3, <3>1, <3>2, <4>1, <4>2, <5>1
      <4>3. CASE k = len + 1
        <5>1. Len(delivered) + k = Len(sent) + 1
          BY <1>3, <4>3
        <5> QED
          BY <1>3, <3>2, <4>1, <4>3, <5>1
      <4> QED
        BY <3>1, <4>2, <4>3
    <3> HIDE DEF more, len
    <3>6. Unreturned' = more
      BY <3>2, <3>3, <3>4, <3>5, SeqEqual
    <3> QED
      BY <3>6 DEF more
  <2>3. Unread' = FlattenSeq(Unreturned')
    <3>1. FlattenSeq(Append(Unreturned, BytesOf(m))) = FlattenSeq(Unreturned) \o BytesOf(m)
      BY <1>2, <1>4, UnreturnedType, FlattenAppend
    <3>2. Unread = FlattenSeq(Unreturned)
      BY <1>7 DEF InStep
    <3> QED
      BY <2>1, <2>2, <3>1, <3>2
  <2>4. received > 0 => NextMessage' = NextMessage
    <3>1. received > 0 => Len(delivered) < Len(sent)
      <4>1. received \in Nat /\ Len(wire) \in Nat
        BY <1>2, LenProperties DEF ReceiveTyped
      <4> QED
        BY <1>2, <1>7, <4>1, UnreadBegins
    <3>2. received > 0 => Len(delivered) + 1 \in 1 .. Len(sent)
      BY <1>3, <3>1
    <3> QED
      BY <1>1, <1>3, <3>2 DEF NextMessage
  <2>5. received \in Nat /\ HeaderSize \in Nat /\ HeaderSize > 0
    BY <1>2, SwayIpcAssumption DEF ReceiveTyped
  <2>6. /\ received <= Len(buffer)
        /\ received > 0 => received < HeaderSize + NextMessage'.size
        /\ payload_size = IF received < HeaderSize THEN 0 ELSE NextMessage'.size
    <3>1. CASE received > 0
      BY <1>7, <2>4, <3>1 DEF InStep
    <3>2. CASE received = 0
      BY <1>7, <2>5, <3>2 DEF InStep
    <3> QED
      BY <2>5, <3>1, <3>2
  <2> QED
    BY <1>1, <2>3, <2>6 DEF InStep
<1>8. Live' = Live
  BY <1>1 DEF Live
<1> QED
  BY <1>6, <1>7, <1>8 DEF ReceiveInv

LEMMA WriteKeepsReceive ==
    ASSUME ReceiveInv, Write
    PROVE  ReceiveInv'
<1>1. PICK n \in 1..Len(pending) :
        /\ wire' = wire \o SubSeq(pending, 1, n)
        /\ pending' = SubSeq(pending, n + 1, Len(pending))
  BY DEF Write
<1>2. UNCHANGED <<sent, open, stage, buffer, received, payload_size, delivered>>
  BY DEF Write, receiving
<1> DEFINE taken == SubSeq(pending, 1, n)
           rest  == SubSeq(pending, n + 1, Len(pending))
<1>3. pending \in Seq(AnyByte) /\ wire \in Seq(AnyByte) /\ Len(pending) \in Nat
  BY LenProperties DEF ReceiveInv, ReceiveTyped
<1>4. taken \in Seq(AnyByte)
  <2>1. \A k \in 1 .. n : pending[k] \in AnyByte
    BY <1>3, ElementOfSeq
  <2> QED
    BY <1>3, <2>1, SubSeqProperties
<1>5. rest \in Seq(AnyByte)
  <2>1. \A k \in n + 1 .. Len(pending) : pending[k] \in AnyByte
    BY <1>3, ElementOfSeq
  <2> QED
    BY <1>3, <2>1, SubSeqProperties
<1>6. taken \o rest = pending
  <2>1. 1 \in 1 .. Len(pending) + 1 /\ n \in 1 - 1 .. Len(pending) /\ Len(pending) \in n .. Len(pending)
    BY <1>3
  <2>2. taken \o rest = SubSeq(pending, 1, Len(pending))
    BY <1>3, <2>1, ConcatAdjacentSubSeq
  <2> QED
    BY <1>3, <2>2, SubSeqFull
<1> HIDE DEF taken, rest
<1>7. wire' = wire \o taken /\ pending' = rest
  BY <1>1 DEF taken, rest
<1>8. wire' \in Seq(AnyByte) /\ pending' \in Seq(AnyByte)
  BY <1>3, <1>4, <1>5, <1>7, ConcatProperties
<1>9. wire' \o pending' = wire \o pending
  <2>1. (wire \o taken) \o rest = wire \o (taken \o rest)
    BY <1>3, <1>4, <1>5, AnyBytesRegroup, Zenon
  <2> QED
    BY <1>6, <1>7, <2>1
<1>10. ReceiveTyped'
  BY <1>2, <1>8 DEF ReceiveInv, ReceiveTyped
<1>11. InStep => InStep'
  <2>1. Unread' = Unread
    BY <1>2, <1>9 DEF Unread
  <2> QED
    BY <1>2, <2>1 DEF InStep, Unreturned, NextMessage
<1>12. Live' = Live
  BY <1>2 DEF Live
<1> QED
  BY <1>10, <1>11, <1>12 DEF ReceiveInv

\* A closed socket is closed for good.
LEMMA CloseKeepsReceive ==
    ASSUME ReceiveInv, Close, UNCHANGED sway, received' \in Nat, payload_size' \in Nat
    PROVE  ReceiveInv' /\ ~Live'
<1>1. ~Live'
  BY DEF Close, Live
<1>2. buffer' \in Seq(AnyByte)
  BY EmptySeq DEF Close
<1>3. ReceiveTyped'
  BY <1>2 DEF Close, sway, ReceiveInv, ReceiveTyped
<1> QED
  BY <1>1, <1>3 DEF ReceiveInv

(***************************************************************************)
(* One call of recv.  Its facts are stated once for the steps that follow  *)
(* it: the message it belongs to is the next one, and its header, once     *)
(* there, tells that message's size.                                       *)
(***************************************************************************)
LEMMA TakeType ==
    ASSUME ReceiveInv, NEW n \in 0 .. Len(wire), Take(n)
    PROVE  /\ ReceiveTyped /\ InStep /\ Live
           /\ received \in Nat /\ n \in Nat /\ n <= Expected - received
           /\ HeaderSize \in Nat /\ HeaderSize > 0
           /\ UNCHANGED <<sent, pending, open>>
           /\ buffer' \in Seq(AnyByte) /\ wire' \in Seq(AnyByte)
           /\ Len(buffer') >= received + n
           /\ SubSeq(buffer', 1, received + n) \o (wire' \o pending) = Unread
<1>1. ReceiveTyped /\ InStep /\ Live
  BY DEF Take, Calling, Live, ReceiveInv
<1>2. n <= Expected - received /\ buffer' = Store(n) /\ wire' = SubSeq(wire, n + 1, Len(wire))
      /\ UNCHANGED <<sent, pending, open>>
  BY DEF Take, sway
<1>3. received \in Nat /\ n \in Nat
  BY <1>1, LenProperties DEF ReceiveTyped
<1> QED
  BY <1>1, <1>2, <1>3, ExpectedIsMore, StoreType, StoreKeepsUnread

LEMMA TakeIsNext ==
    ASSUME ReceiveInv, NEW n \in 0 .. Len(wire), Take(n), received + n > 0
    PROVE  /\ Len(delivered) < Len(sent) /\ NextMessage \in Messages
           /\ NextMessage.size \in Nat
           /\ \A k \in 1 .. received + n :
                k <= HeaderSize + NextMessage.size => buffer'[k] = Byte(NextMessage, k)
<1>1. ReceiveTyped /\ InStep /\ n <= Expected - received
  BY TakeType
<1>2. buffer' = Store(n)
  BY DEF Take
<1>3. /\ Len(delivered) < Len(sent) /\ NextMessage \in Messages
      /\ \A k \in 1 .. received + n :
           k <= HeaderSize + NextMessage.size => Store(n)[k] = Byte(NextMessage, k)
  BY <1>1, StoreIsNext
<1>4. NextMessage.size \in Nat
  BY <1>3, SwayIpcAssumption
<1> QED
  BY <1>2, <1>3, <1>4

\* A header that is complete is read right, whatever is received after it.
LEMMA TakeHeader ==
    ASSUME ReceiveInv, NEW n \in 0 .. Len(wire), Take(n), HasHeader(n)
    PROVE  /\ NextMessage \in Messages /\ NextMessage.size \in Nat
           /\ Len(delivered) < Len(sent)
           /\ buffer'[SizeAt].message = NextMessage
           /\ buffer'[TypeAt].message = NextMessage
           /\ payload_size = 0 => received + n = HeaderSize
           /\ payload_size # 0 => payload_size = NextMessage.size
<1>1. /\ received \in Nat /\ n \in Nat /\ n <= Expected - received
      /\ HeaderSize \in Nat /\ HeaderSize > 0
  BY TakeType
<1>2. received + n >= HeaderSize
  BY DEF HasHeader
<1>3. received + n > 0
  BY <1>1, <1>2
<1>4. /\ Len(delivered) < Len(sent) /\ NextMessage \in Messages
      /\ NextMessage.size \in Nat
      /\ \A k \in 1 .. received + n :
           k <= HeaderSize + NextMessage.size => buffer'[k] = Byte(NextMessage, k)
  BY <1>3, TakeIsNext
<1>5. SizeAt \in 1 .. HeaderSize /\ TypeAt \in 1 .. HeaderSize
  BY SwayIpcAssumption
<1>6. buffer'[SizeAt] = Byte(NextMessage, SizeAt) /\ buffer'[TypeAt] = Byte(NextMessage, TypeAt)
  BY <1>1, <1>2, <1>4, <1>5
<1>7. SizeAt \in Nat /\ TypeAt \in Nat
  BY <1>1, <1>5
<1>8. buffer'[SizeAt].message = NextMessage /\ buffer'[TypeAt].message = NextMessage
  BY <1>4, <1>6, <1>7, ByteType
<1>9. payload_size = 0 => received + n = HeaderSize
  BY <1>1, <1>2 DEF Expected
<1>10. payload_size # 0 => payload_size = NextMessage.size
  BY TakeType, ExpectedIsMore
<1> QED
  BY <1>4, <1>8, <1>9, <1>10

LEMMA RecvPartKeepsReceive ==
    ASSUME ReceiveInv, NEW n \in 0 .. Len(wire), RecvPart(n) \/ RecvHeader(n)
    PROVE  ReceiveInv'
<1>1. Take(n) /\ received' = received + n /\ delivered' = delivered
  BY DEF RecvPart, RecvHeader
<1>2. /\ ReceiveTyped /\ InStep /\ Live
      /\ received \in Nat /\ n \in Nat /\ n <= Expected - received
      /\ HeaderSize \in Nat /\ HeaderSize > 0
      /\ UNCHANGED <<sent, pending, open>>
      /\ buffer' \in Seq(AnyByte) /\ wire' \in Seq(AnyByte)
      /\ Len(buffer') >= received + n
      /\ SubSeq(buffer', 1, received + n) \o (wire' \o pending) = Unread
  BY <1>1, TakeType
<1>3. /\ payload_size' \in Nat
      /\ received' > 0 => received' < HeaderSize + NextMessage.size
      /\ payload_size' = IF received' < HeaderSize THEN 0 ELSE NextMessage.size
  <2>1. CASE RecvPart(n) /\ HasHeader(n)
    <3>1. payload_size' = payload_size /\ payload_size # 0 /\ received + n # Expected
      BY <2>1 DEF RecvPart
    <3>2. payload_size = NextMessage.size /\ NextMessage.size \in Nat
      BY <1>1, <2>1, <3>1, TakeHeader
    <3>3. received + n >= HeaderSize
      BY <2>1 DEF HasHeader
    <3>4. /\ received \in Nat /\ n \in Nat /\ HeaderSize \in Nat
          /\ received + n <= HeaderSize + payload_size
          /\ received + n # HeaderSize + payload_size
      BY <1>2, <3>1, <3>2 DEF Expected
    <3> QED
      BY <1>1, <3>1, <3>2, <3>3, <3>4
  <2>2. CASE RecvPart(n) /\ ~HasHeader(n)
    <3>1. payload_size' = payload_size /\ received + n < HeaderSize
      BY <1>2, <2>2 DEF RecvPart, HasHeader
    <3>2. payload_size = 0
      <4>1. received < HeaderSize
        BY <1>2, <3>1
      <4> QED
        BY <1>2, <4>1 DEF InStep
    <3>3. received + n > 0 => NextMessage.size \in Nat
      BY <1>1, TakeIsNext
    <3> QED
      BY <1>1, <1>2, <3>1, <3>2, <3>3
  <2>3. CASE RecvHeader(n)
    <3>1. HasHeader(n) /\ payload_size = 0 /\ payload_size' = buffer'[SizeAt].message.size
          /\ payload_size' \in 1..(SizeMax - HeaderSize)
      BY <2>3 DEF RecvHeader
    <3>2. payload_size' = NextMessage.size /\ NextMessage.size \in Nat /\ received + n = HeaderSize
      BY <1>1, <3>1, TakeHeader
    <3>3. payload_size' >= 1
      BY <3>1, SwayIpcAssumption
    <3> QED
      BY <1>1, <1>2, <3>2, <3>3
  <2> QED
    BY <2>1, <2>2, <2>3
<1>4. received' \in Nat
  BY <1>1, <1>2
<1>5. ReceiveTyped'
  BY <1>1, <1>2, <1>3, <1>4 DEF ReceiveTyped
<1>6. NextMessage' = NextMessage /\ Unreturned' = Unreturned
  BY <1>1, <1>2 DEF NextMessage, Unreturned
<1>7. Unread' = Unread
  BY <1>1, <1>2 DEF Unread
<1>8. InStep'
  <2>1. Unread = FlattenSeq(Unreturned) /\ received' <= Len(buffer')
    BY <1>1, <1>2 DEF InStep
  <2> QED
    BY <1>3, <1>6, <1>7, <2>1 DEF InStep
<1> QED
  BY <1>5, <1>8 DEF ReceiveInv

\* The message that is returned is the next one, with all of its payload.
LEMMA RecvLastReturnsNext ==
    ASSUME ReceiveInv, NEW n \in 0 .. Len(wire), RecvLast(n)
    PROVE  /\ Take(n)
           /\ Len(delivered) < Len(sent) /\ NextMessage \in Messages
           /\ NextMessage.size \in Nat
           /\ received + n = HeaderSize + NextMessage.size
           /\ delivered' = Append(delivered, AsReturned(NextMessage))
<1>1. /\ Take(n) /\ HasHeader(n)
      /\ IF payload_size = 0 THEN buffer'[SizeAt].message.size = 0
                             ELSE received + n = Expected
      /\ delivered' = Append(delivered,
              [size |-> payload_size,
               type |-> buffer'[TypeAt].message.type,
               payload |-> SubSeq(buffer', HeaderSize + 1, Expected)])
  BY DEF RecvLast
<1>2. /\ NextMessage \in Messages /\ NextMessage.size \in Nat
      /\ Len(delivered) < Len(sent)
      /\ buffer'[SizeAt].message = NextMessage
      /\ buffer'[TypeAt].message = NextMessage
      /\ payload_size = 0 => received + n = HeaderSize
      /\ payload_size # 0 => payload_size = NextMessage.size
  BY <1>1, TakeHeader
<1> DEFINE size == NextMessage.size
<1>3. payload_size = size
  BY <1>1, <1>2
<1>4. HeaderSize \in Nat /\ HeaderSize > 0 /\ received \in Nat /\ n \in Nat
      /\ buffer' \in Seq(AnyByte) /\ Len(buffer') >= received + n
  BY <1>1, TakeType
<1>5. received + n = HeaderSize + size
  <2>1. Expected = HeaderSize + payload_size
    BY DEF Expected
  <2>2. CASE payload_size = 0
    BY <1>2, <1>3, <1>4, <2>2
  <2>3. CASE payload_size # 0
    BY <1>1, <1>3, <2>1, <2>3
  <2> QED
    BY <2>2, <2>3
<1>6. SubSeq(buffer', HeaderSize + 1, Expected) = [k \in 1..size |-> Byte(NextMessage, HeaderSize + k)]
  <2> DEFINE bytes == SubSeq(buffer', HeaderSize + 1, HeaderSize + size)
             payload == [k \in 1..size |-> Byte(NextMessage, HeaderSize + k)]
  <2>1. Expected = HeaderSize + size
    BY <1>3 DEF Expected
  <2>2. \A k \in 1 .. HeaderSize + size : buffer'[k] = Byte(NextMessage, k)
    <3>1. received + n > 0
      BY <1>2, <1>4, <1>5
    <3>2. \A k \in 1 .. received + n : k <= HeaderSize + size => buffer'[k] = Byte(NextMessage, k)
      BY <1>1, <3>1, TakeIsNext
    <3> QED
      BY <1>2, <1>4, <1>5, <3>2
  <2>3. \A k \in HeaderSize + 1 .. HeaderSize + size : buffer'[k] \in AnyByte
    <3>1. \A k \in HeaderSize + 1 .. HeaderSize + size : k \in 1 .. Len(buffer')
      BY <1>2, <1>4, <1>5, LenProperties
    <3> QED
      BY <1>4, <3>1, ElementOfSeq
  <2>4. size \in Nat
    BY <1>2
  <2> HIDE DEF size
  <2>5. /\ bytes \in Seq(AnyByte)
        /\ Len(bytes) = (IF HeaderSize + 1 <= HeaderSize + size
                         THEN ((HeaderSize + size) - (HeaderSize + 1)) + 1 ELSE 0)
        /\ \A k \in 1 .. ((HeaderSize + size) - (HeaderSize + 1)) + 1 :
             bytes[k] = buffer'[((HeaderSize + 1) + k) - 1]
    BY <1>4, <2>3, <2>4, SubSeqProperties
  <2> HIDE DEF bytes
  <2>6. Len(bytes) = size /\ ((HeaderSize + size) - (HeaderSize + 1)) + 1 = size
    BY <1>4, <2>4, <2>5
  <2>7. ASSUME NEW k \in 1 .. size
        PROVE  bytes[k] = Byte(NextMessage, HeaderSize + k)
    <3>1. bytes[k] = buffer'[((HeaderSize + 1) + k) - 1]
      BY <2>5, <2>6
    <3>2. ((HeaderSize + 1) + k) - 1 = HeaderSize + k /\ HeaderSize + k \in 1 .. HeaderSize + size
      BY <1>4, <2>4
    <3> QED
      BY <2>2, <3>1, <3>2
  <2>8. bytes = [k \in 1 .. size |-> bytes[k]]
    BY <2>5, <2>6, LenProperties
  <2>9. bytes = payload
    BY <2>7, <2>8
  <2> QED
    BY <2>1, <2>9 DEF bytes
<1>7. AsReturned(NextMessage) =
        [size |-> payload_size,
         type |-> buffer'[TypeAt].message.type,
         payload |-> SubSeq(buffer', HeaderSize + 1, Expected)]
  BY <1>2, <1>3, <1>6 DEF AsReturned
<1> QED
  BY <1>1, <1>2, <1>5, <1>7

LEMMA RecvLastKeepsReceive ==
    ASSUME ReceiveInv, NEW n \in 0 .. Len(wire), RecvLast(n)
    PROVE  ReceiveInv'
<1>1. received' = 0 /\ payload_size' = 0
  BY DEF RecvLast
<1>2. /\ Take(n)
      /\ Len(delivered) < Len(sent) /\ NextMessage \in Messages
      /\ NextMessage.size \in Nat
      /\ received + n = HeaderSize + NextMessage.size
      /\ delivered' = Append(delivered, AsReturned(NextMessage))
  BY RecvLastReturnsNext
<1>3. /\ ReceiveTyped /\ InStep /\ Live
      /\ received \in Nat /\ n \in Nat /\ n <= Expected - received
      /\ HeaderSize \in Nat /\ HeaderSize > 0
      /\ UNCHANGED <<sent, pending, open>>
      /\ buffer' \in Seq(AnyByte) /\ wire' \in Seq(AnyByte)
      /\ Len(buffer') >= received + n
      /\ SubSeq(buffer', 1, received + n) \o (wire' \o pending) = Unread
  BY <1>2, TakeType
<1>4. /\ delivered' \in Seq(Returned) /\ Len(delivered') = Len(delivered) + 1
      /\ Len(delivered) \in Nat /\ Len(sent) \in Nat
  <2>1. AsReturned(NextMessage) \in Returned
    BY <1>2 DEF Returned
  <2> QED
    BY <1>2, <1>3, <2>1, AppendProperties, LenProperties DEF ReceiveTyped
<1>5. ReceiveTyped'
  BY <1>1, <1>2, <1>3, <1>4 DEF ReceiveTyped
<1> DEFINE begin == SubSeq(buffer', 1, received + n)
           later == wire' \o pending
           bytes == BytesOf(NextMessage)
           others == FlattenSeq(Tail(Unreturned))
<1>6. /\ bytes \in Seq(AnyByte) /\ Len(bytes) = HeaderSize + NextMessage.size
      /\ \A k \in 1 .. HeaderSize + NextMessage.size : bytes[k] = Byte(NextMessage, k)
  BY <1>2, BytesOfType
<1>7. Unreturned # <<>> /\ Unread = bytes \o others
  <2>1. received + Len(wire) > 0
    BY <1>2, <1>3, LenProperties DEF ReceiveTyped
  <2> QED
    BY <1>3, <2>1, UnreadBegins
<1>8. Tail(Unreturned) \in Seq(Seq(AnyByte)) /\ others \in Seq(AnyByte)
  <2>1. Tail(Unreturned) \in Seq(Seq(AnyByte))
    BY <1>3, <1>7, UnreturnedType, HeadTailProperties
  <2> QED
    BY <2>1, FlattenType
<1>9. later \in Seq(AnyByte)
  BY <1>3, ConcatProperties DEF ReceiveTyped
<1>10. begin = bytes
  <2>1. /\ begin \in Seq(AnyByte) /\ Len(begin) = received + n
        /\ \A k \in 1 .. received + n : begin[k] = buffer'[k]
    BY <1>2, <1>3, StoreKeepsUnread DEF Take
  <2>2. \A k \in 1 .. received + n : k <= HeaderSize + NextMessage.size => buffer'[k] = Byte(NextMessage, k)
    <3>1. received + n > 0
      BY <1>2, <1>3
    <3> QED
      BY <1>2, <3>1, TakeIsNext
  <2> DEFINE len == HeaderSize + NextMessage.size
  <2>3. len \in Nat /\ received + n = len
    BY <1>2, <1>3
  <2> HIDE DEF begin, bytes, len
  <2>4. \A k \in 1 .. len : begin[k] = bytes[k]
    <3>1. \A k \in 1 .. len : bytes[k] = Byte(NextMessage, k)
      BY <1>6 DEF len
    <3>2. \A k \in 1 .. len : k <= len => buffer'[k] = Byte(NextMessage, k)
      BY <2>2, <2>3 DEF len
    <3> QED
      BY <2>1, <2>3, <3>1, <3>2
  <2>5. Len(begin) = len /\ Len(bytes) = len
    BY <1>6, <2>1, <2>3 DEF len
  <2> QED
    BY <1>6, <2>1, <2>4, <2>5, SeqEqual
<1>11. Unread' = later
  <2>1. SubSeq(buffer', 1, received') = <<>>
    BY <1>1, SubSeqEmpty
  <2>2. Unread' = <<>> \o later
    BY <1>3, <2>1 DEF Unread
  <2> QED
    BY <1>9, <2>2, ConcatEmptySeq
<1>12. later = others
  <2>1. bytes \o later = bytes \o others
    BY <1>3, <1>7, <1>10
  <2> HIDE DEF bytes, later, others
  <2> QED
    BY <1>6, <1>8, <1>9, <2>1, ConcatSimplifications
<1>13. Unreturned' = Tail(Unreturned)
  <2> DEFINE len == Len(sent) - Len(delivered)
             fewer == Tail(Unreturned)
  <2>1. /\ Unreturned \in Seq(Seq(AnyByte)) /\ Len(Unreturned) = len /\ len \in Nat
        /\ \A k \in 1 .. len : Unreturned[k] = BytesOf(sent[Len(delivered) + k])
    BY <1>3, UnreturnedType
  <2>2. /\ fewer \in Seq(Seq(AnyByte)) /\ Len(fewer) = len - 1
        /\ \A k \in 1 .. len - 1 : fewer[k] = Unreturned[k + 1]
    BY <1>7, <2>1, HeadTailProperties
  <2>3. /\ Unreturned' \in Seq(Seq(AnyByte)) /\ Len(Unreturned') = Len(sent') - Len(delivered')
        /\ \A k \in 1 .. Len(sent') - Len(delivered') :
             Unreturned'[k] = BytesOf(sent'[Len(delivered') + k])
    <3>1. (ReceiveTyped => /\ Unreturned \in Seq(Seq(AnyByte))
                           /\ Len(Unreturned) = Len(sent) - Len(delivered)
                           /\ \A k \in 1 .. Len(sent) - Len(delivered) :
                                Unreturned[k] = BytesOf(sent[Len(delivered) + k]))'
      BY UnreturnedType, PTL
    <3> QED
      BY <1>5, <3>1
  <2>4. Len(sent') - Len(delivered') = len - 1
    BY <1>3, <1>4
  <2>5. ASSUME NEW k \in 1 .. len - 1
        PROVE  Unreturned'[k] = fewer[k]
    <3>1. Unreturned'[k] = BytesOf(sent[Len(delivered') + k])
      BY <1>3, <2>3, <2>4, <2>5
    <3>2. Len(delivered') + k = Len(delivered) + (k + 1)
      BY <1>4
    <3>3. k + 1 \in 1 .. len
      BY <2>1
    <3> QED
      BY <2>1, <2>2, <3>1, <3>2, <3>3
  <2> HIDE DEF fewer, len
  <2>6. Unreturned' = fewer
    BY <2>2, <2>3, <2>4, <2>5, SeqEqual
  <2> QED
    BY <2>6 DEF fewer
<1>14. InStep'
  <2>1. Unread' = FlattenSeq(Unreturned')
    BY <1>11, <1>12, <1>13
  <2>2. 0 <= Len(buffer')
    BY <1>3, LenProperties
  <2> QED
    BY <1>1, <1>3, <2>1, <2>2 DEF InStep
<1> QED
  BY <1>5, <1>14 DEF ReceiveInv

LEMMA ReceiveStep == ReceiveInv /\ [Next]_vars => ReceiveInv'
<1> SUFFICES ASSUME ReceiveInv, [Next]_vars
             PROVE  ReceiveInv'
  OBVIOUS
<1>1. ASSUME NEW m \in Messages, Send(m)
      PROVE  ReceiveInv'
  BY <1>1, SendKeepsReceive
<1>2. CASE Write
  BY <1>2, WriteKeepsReceive
<1>3. CASE HangUp \/ UNCHANGED vars
  BY <1>3, SameKeepsReceive DEF HangUp, vars, sway, Live
<1>4. CASE Open
  BY <1>4, SameKeepsReceive DEF Open, sway, Live
<1>5. CASE SwayIpcSend
  <2>1. UNCHANGED <<sent, pending, wire, receiving>> /\ (Live' => Live)
    BY <1>5 DEF SwayIpcSend, SendSome, SendBlocked, Writable, Killed, sway, Live
  <2> QED
    BY <2>1, SameKeepsReceive
<1>6. CASE Poll
  BY <1>6, SameKeepsReceive DEF Poll, sway, Live
<1>7. CASE SendFails
  BY <1>7, SameKeepsReceive DEF SendFails, sway, Live
<1>8. CASE GrowFails \/ RecvFails
  BY <1>8, CloseKeepsReceive DEF GrowFails, RecvFails, ReceiveInv, ReceiveTyped
<1>9. CASE NothingToRead
  <2>1. /\ UNCHANGED <<sent, pending, wire, open, received, payload_size, delivered>>
        /\ buffer' = Grown /\ Live
    BY <1>9 DEF NothingToRead, Calling, sway, Live
  <2>2. ReceiveTyped /\ InStep
    BY <2>1 DEF ReceiveInv
  <2>3. buffer' \in Seq(AnyByte) /\ Len(buffer') >= Len(buffer) /\ Len(buffer) \in Nat /\ Len(buffer') \in Nat
        /\ \A k \in 1 .. Len(buffer) : buffer'[k] = buffer[k]
    BY <2>1, <2>2, GrownType, LenProperties DEF ReceiveTyped
  <2>4. received \in Nat /\ received <= Len(buffer)
    BY <2>2 DEF ReceiveTyped, InStep
  <2>5. ReceiveTyped'
    BY <2>1, <2>2, <2>3 DEF ReceiveTyped
  <2>6. SubSeq(buffer', 1, received) = SubSeq(buffer, 1, received)
    <3>1. buffer \in Seq(AnyByte)
      BY <2>2 DEF ReceiveTyped
    <3>2. received <= Len(buffer') /\ \A k \in 1 .. received : buffer'[k] = buffer[k]
      BY <2>3, <2>4
    <3> QED
      BY <2>3, <2>4, <3>1, <3>2, SameBeginning
  <2>7. Unread' = Unread
    BY <2>1, <2>6 DEF Unread
  <2>8. received <= Len(buffer')
    BY <2>3, <2>4
  <2>9. InStep'
    BY <2>1, <2>2, <2>7, <2>8 DEF InStep, Unreturned, NextMessage
  <2> QED
    BY <2>5, <2>9 DEF ReceiveInv
<1>10. ASSUME NEW n \in 0 .. Len(wire), RecvPart(n) \/ RecvHeader(n)
       PROVE  ReceiveInv'
  BY <1>10, RecvPartKeepsReceive
<1>11. ASSUME NEW n \in 0 .. Len(wire), RecvLast(n)
       PROVE  ReceiveInv'
  BY <1>11, RecvLastKeepsReceive
<1>12. ASSUME NEW n \in 0 .. Len(wire), RecvTooBig(n)
       PROVE  ReceiveInv'
  <2>1. /\ received' = received + n /\ payload_size' = Store(n)[SizeAt].message.size
        /\ n <= Expected - received /\ HasHeader(n) /\ Close /\ UNCHANGED sway
    BY <1>12 DEF RecvTooBig
  <2>2. ReceiveTyped /\ InStep /\ received \in Nat
    BY <1>12 DEF RecvTooBig, Calling, Live, ReceiveInv, ReceiveTyped
  <2>3. n \in Nat /\ HeaderSize \in Nat /\ SizeAt \in 1 .. HeaderSize /\ SizeAt \in Nat
    BY SwayIpcAssumption
  <2>4. received + n >= HeaderSize
    BY <2>1 DEF HasHeader
  <2>5. NextMessage \in Messages /\ NextMessage.size \in Nat
        /\ \A k \in 1 .. received + n :
             k <= HeaderSize + NextMessage.size => Store(n)[k] = Byte(NextMessage, k)
    <3>1. received + n > 0
      BY <2>2, <2>3, <2>4
    <3> QED
      BY <2>1, <2>2, <3>1, StoreIsNext, SwayIpcAssumption
  <2>6. Store(n)[SizeAt] = Byte(NextMessage, SizeAt)
    BY <2>2, <2>3, <2>4, <2>5
  <2>7. payload_size' \in Nat
    BY <2>1, <2>3, <2>5, <2>6, ByteType
  <2>8. received' \in Nat
    BY <2>1, <2>2, <2>3
  <2> QED
    BY <2>1, <2>7, <2>8, CloseKeepsReceive
<1> QED
  BY <1>1, <1>2, <1>3, <1>4, <1>5, <1>6, <1>7, <1>8, <1>9, <1>10, <1>11, <1>12
     DEF Next, SwayIpcRecv

LEMMA ReceiveInvHolds == Spec => []ReceiveInv
<1>1. Init => ReceiveInv
  BY InitReceive
<1>2. ReceiveInv /\ [Next]_vars => ReceiveInv'
  BY ReceiveStep
<1> QED
  BY <1>1, <1>2, PTL DEF Spec

HungUpTyped == hung_up \in BOOLEAN

LEMMA HungUpType == Spec => []HungUpTyped
<1>1. Init => HungUpTyped
  BY DEF Init, HungUpTyped
<1>2. HungUpTyped /\ [Next]_vars => HungUpTyped'
  <2> SUFFICES ASSUME HungUpTyped, [Next]_vars
               PROVE  hung_up' \in {hung_up, TRUE}
    BY DEF HungUpTyped
  <2>1. CASE SwayIpcRecv
    BY <2>1 DEF SwayIpcRecv, NothingToRead, RecvPart, RecvHeader, RecvTooBig, RecvLast, Take, sway
  <2>2. CASE SwayIpcSend
    BY <2>2 DEF SwayIpcSend, SendSome, SendBlocked, Writable, Killed, sway
  <2> QED
    BY <2>1, <2>2 DEF Next, Send, Write, HangUp, Open, Poll, SendFails, GrowFails, RecvFails, sway, vars
<1> QED
  BY <1>1, <1>2, PTL DEF Spec

(***************************************************************************)
(* The state has its type; the buffer is used only while it is there, the  *)
(* loop that sends has a part to send, and no more messages are returned   *)
(* than were sent.                                                         *)
(***************************************************************************)
THEOREM TypeCorrect == Spec => []TypeOK
<1>1. SendInv /\ ReceiveInv /\ HungUpTyped => TypeOK
  BY DEF HungUpTyped, SendInv, Stages, ReceiveInv, ReceiveTyped, TypeOK
<1> QED
  BY <1>1, SendInvHolds, ReceiveInvHolds, HungUpType, PTL

(***************************************************************************)
(* However the stream is cut, what sway_ipc_recv has received is the       *)
(* beginning of the next message, byte for byte; payload_size is that      *)
(* message's as soon as its header is there, and 0 before; and nothing     *)
(* beyond the message has been taken from the socket.                      *)
(***************************************************************************)
THEOREM ExactFraming == Spec => []FramingIsExact
<1>1. ReceiveInv => FramingIsExact
  <2> SUFFICES ASSUME ReceiveInv, open, received > 0
               PROVE  /\ Len(delivered) < Len(sent)
                      /\ LET bytes == BytesOf(NextMessage)
                         IN  /\ received < Len(bytes) /\ received <= Len(buffer)
                             /\ SubSeq(buffer, 1, received) = SubSeq(bytes, 1, received)
                             /\ payload_size = IF received < HeaderSize THEN 0 ELSE NextMessage.size
    BY DEF FramingIsExact, NextMessage
  <2>1. ReceiveTyped /\ InStep
    BY DEF ReceiveInv, Live
  <2>2. received \in Nat /\ Len(wire) \in Nat /\ 0 \in 0 .. Len(wire)
    BY <2>1, LenProperties DEF ReceiveTyped
  <2>3. 0 <= Expected - received
    BY <2>1, <2>2, ExpectedIsMore
  <2>4. /\ Len(delivered) < Len(sent) /\ NextMessage \in Messages
        /\ \A k \in 1 .. received + 0 :
             k <= HeaderSize + NextMessage.size => Store(0)[k] = Byte(NextMessage, k)
    BY <2>1, <2>2, <2>3, StoreIsNext
  <2>5. \A k \in 1 .. received : Store(0)[k] = buffer[k]
    BY <2>1, <2>2, <2>3, StoreType
  <2> DEFINE bytes == BytesOf(NextMessage)
             len == HeaderSize + NextMessage.size
  <2>6. /\ len \in Nat /\ Len(bytes) = len
        /\ \A k \in 1 .. len : bytes[k] = Byte(NextMessage, k)
    BY <2>4, BytesOfType
  <2>7. /\ received <= Len(buffer) /\ received < len
        /\ payload_size = IF received < HeaderSize THEN 0 ELSE NextMessage.size
    BY <2>1 DEF InStep
  <2>8. \A k \in 1 .. received : k <= len => Store(0)[k] = Byte(NextMessage, k)
    BY <2>2, <2>4
  <2> HIDE DEF bytes, len
  <2>9. \A k \in 1 .. received : buffer[k] = bytes[k]
    BY <2>2, <2>5, <2>6, <2>7, <2>8
  <2>10. SubSeq(buffer, 1, received) = SubSeq(bytes, 1, received)
    <3>1. buffer \in Seq(AnyByte)
      BY <2>1 DEF ReceiveTyped
    <3>2. bytes \in Seq(AnyByte)
      BY <2>4, BytesOfType DEF bytes
    <3>3. received <= Len(bytes)
      BY <2>2, <2>6, <2>7
    <3> QED
      BY <2>2, <2>7, <2>9, <3>1, <3>2, <3>3, SameBeginning
  <2> QED
    BY <2>4, <2>6, <2>7, <2>10 DEF bytes
<1> QED
  BY <1>1, ReceiveInvHolds, PTL

-----------------------------------------------------------------------------
(***************************************************************************)
(* Refinement of MessageStream.  Sway's sending is its Send, the end of a  *)
(* call that returns a message its Deliver, a failure or a kill its Close; *)
(* everything else happens inside.                                         *)
(***************************************************************************)
Mapped == [k \in DOMAIN sent |-> AsReturned(sent[k])]

LEMMA InitRefines == Init => Stream!Init
<1> SUFFICES ASSUME Init
             PROVE  Stream!Init
  OBVIOUS
<1>1. sent = <<>> /\ delivered = <<>> /\ stage = "start" /\ open = FALSE
  BY DEF Init
<1>2. [k \in DOMAIN sent |-> AsReturned(sent[k])] = <<>>
  BY <1>1
<1> QED
  BY <1>1, <1>2 DEF Stream!Init

LEMMA SendRefines ==
    ASSUME sent \in Seq(Messages), NEW m \in Messages, Send(m)
    PROVE  Stream!Send(AsReturned(m))
<1>1. sent' = Append(sent, m) /\ UNCHANGED <<delivered, open, stage>>
  BY DEF Send, receiving
<1>2. /\ sent' \in Seq(Messages) /\ Len(sent') = Len(sent) + 1
      /\ (\A k \in 1 .. Len(sent) : sent'[k] = sent[k]) /\ sent'[Len(sent) + 1] = m
      /\ Len(sent) \in Nat /\ DOMAIN sent = 1 .. Len(sent) /\ DOMAIN sent' = 1 .. Len(sent) + 1
  BY <1>1, AppendProperties, LenProperties
<1> DEFINE len == Len(sent)
           more == Append(Mapped, AsReturned(m))
           mapped == [k \in DOMAIN sent' |-> AsReturned(sent'[k])]
<1>3. Mapped \in Seq(Returned) /\ Len(Mapped) = len /\ \A k \in 1 .. len : Mapped[k] = AsReturned(sent[k])
  <2>1. \A k \in 1 .. len : AsReturned(sent[k]) \in Returned
    BY ElementOfSeq DEF Returned
  <2>2. Mapped = [k \in 1 .. len |-> AsReturned(sent[k])] /\ len \in Nat
    BY <1>2 DEF Mapped
  <2> HIDE DEF len
  <2> QED
    BY <2>1, <2>2
<1>4. AsReturned(m) \in Returned
  BY DEF Returned
<1>5. /\ more \in Seq(Returned) /\ Len(more) = len + 1
      /\ (\A k \in 1 .. len : more[k] = Mapped[k]) /\ more[len + 1] = AsReturned(m)
  BY <1>3, <1>4, AppendProperties
<1>6. more = [k \in 1 .. len + 1 |-> more[k]]
  BY <1>5, LenProperties
<1>7. ASSUME NEW k \in 1 .. len + 1
      PROVE  more[k] = AsReturned(sent'[k])
  <2>1. CASE k \in 1 .. len
    BY <1>2, <1>3, <1>5, <2>1
  <2>2. CASE k = len + 1
    BY <1>2, <1>5, <2>2
  <2>3. len \in Nat
    BY <1>2
  <2> HIDE DEF len, more
  <2> QED
    BY <2>1, <2>2, <2>3
<1>8. mapped = [k \in 1 .. len + 1 |-> AsReturned(sent'[k])]
  BY <1>2
<1> HIDE DEF more, mapped, len
<1>9. mapped = more
  BY <1>6, <1>7, <1>8
<1>10. (open \/ stage = "start")' = (open \/ stage = "start")
  BY <1>1
<1> QED
  BY <1>1, <1>9, <1>10 DEF mapped, more, Mapped, Stream!Send

LEMMA DeliverRefines ==
    ASSUME ReceiveInv, NEW n \in 0 .. Len(wire), RecvLast(n)
    PROVE  Stream!Deliver
<1>1. /\ Take(n) /\ Len(delivered) < Len(sent)
      /\ delivered' = Append(delivered, AsReturned(NextMessage))
  BY RecvLastReturnsNext
<1>2. ReceiveTyped /\ open /\ UNCHANGED <<sent, open, stage>>
  BY <1>1, TakeType DEF RecvLast, Take, Calling, sway
<1>3. DOMAIN sent = 1 .. Len(sent) /\ Len(sent) \in Nat /\ Len(delivered) \in Nat
  BY <1>2, LenProperties DEF ReceiveTyped
<1>4. Len(Mapped) = Len(sent)
  BY <1>3 DEF Mapped
<1>5. Len(delivered) + 1 \in DOMAIN sent
  BY <1>1, <1>3
<1>6. Mapped[Len(delivered) + 1] = AsReturned(NextMessage)
  BY <1>5 DEF Mapped, NextMessage
<1>7. Len(delivered) < Len(Mapped) /\ delivered' = Append(delivered, Mapped[Len(delivered) + 1])
  BY <1>1, <1>4, <1>6
<1>8. Mapped' = Mapped
  BY <1>2 DEF Mapped
<1>9. (open \/ stage = "start") /\ (open \/ stage = "start")' = (open \/ stage = "start")
  BY <1>2
<1> QED
  BY <1>7, <1>8, <1>9 DEF Mapped, Stream!Deliver

LEMMA StepRefines ==
    SendInv /\ ReceiveInv /\ [Next]_vars => [Stream!Next]_(Stream!vars)
<1> SUFFICES ASSUME SendInv, ReceiveInv, [Next]_vars
             PROVE  [Stream!Next]_(Stream!vars)
  OBVIOUS
<1>1. CASE UNCHANGED <<sent, delivered>> /\ Live' = Live
  BY <1>1 DEF Stream!vars, Live
<1>2. CASE UNCHANGED <<sent, delivered>> /\ Live' = FALSE
  <2>1. Stream!Close
    BY <1>2 DEF Stream!Close, Live
  <2> QED
    BY <2>1 DEF Stream!Next
<1>3. ASSUME NEW m \in Messages, Send(m)
      PROVE  Stream!Next
  <2>1. Stream!Send(AsReturned(m))
    BY <1>3, SendRefines DEF ReceiveInv, ReceiveTyped
  <2> QED
    BY <2>1 DEF Stream!Next
<1>4. ASSUME NEW n \in 0 .. Len(wire), RecvLast(n)
      PROVE  Stream!Next
  BY <1>4, DeliverRefines DEF Stream!Next
<1>5. CASE Write \/ HangUp \/ UNCHANGED vars
  BY <1>1, <1>5 DEF Write, HangUp, vars, sway, receiving, Live
<1>6. CASE Open
  BY <1>1, <1>2, <1>6 DEF Open, sway, receiving, Live
<1>7. CASE SwayIpcSend
  <2>1. CASE Killed
    BY <1>2, <2>1 DEF Killed, sway, receiving, Live
  <2>2. CASE SendBlocked \/ Writable \/ \E n \in 1..(IF Sending THEN Len(Head(unsent)) ELSE 0) : SendSome(n)
    <3>1. stage \in {"send", "ready", "wait"} /\ stage' # "start" /\ open' = open /\ UNCHANGED <<sent, delivered>>
      BY <2>2 DEF SendBlocked, Writable, SendSome, Sending, sway, receiving
    <3>2. open
      BY <3>1 DEF SendInv
    <3> QED
      BY <1>1, <3>1, <3>2 DEF Live
  <2> QED
    BY <1>7, <2>1, <2>2 DEF SwayIpcSend
<1>8. CASE Poll
  BY <1>1, <1>8 DEF Poll, sway, receiving, Live
<1>9. CASE SendFails
  BY <1>2, <1>9 DEF SendFails, sway, receiving, Live
<1>10. CASE GrowFails \/ RecvFails
  BY <1>2, <1>10 DEF GrowFails, RecvFails, Close, sway, Live
<1>11. CASE NothingToRead
  BY <1>1, <1>11 DEF NothingToRead, Calling, sway, Live
<1>12. ASSUME NEW n \in 0 .. Len(wire), RecvPart(n) \/ RecvHeader(n)
       PROVE  [Stream!Next]_(Stream!vars)
  <2>1. open /\ open' = open /\ UNCHANGED <<sent, delivered>>
    BY <1>12 DEF RecvPart, RecvHeader, Take, Calling, sway
  <2> QED
    BY <1>1, <2>1 DEF Live
<1>13. ASSUME NEW n \in 0 .. Len(wire), RecvTooBig(n)
       PROVE  [Stream!Next]_(Stream!vars)
  BY <1>2, <1>13 DEF RecvTooBig, Close, sway, Live
<1> QED
  BY <1>3, <1>4, <1>5, <1>6, <1>7, <1>8, <1>9, <1>10, <1>11, <1>12, <1>13
     DEF Next, SwayIpcRecv

(***************************************************************************)
(* sway_ipc_recv keeps the promise of MessageStream: the messages of Sway  *)
(* are returned whole, once each, in order, none after the socket was      *)
(* closed, however the stream is cut and whatever fails.                   *)
(***************************************************************************)
THEOREM RefinesMessageStream == Spec => ReturnsTheStream
<1>1. Init => Stream!Init
  BY InitRefines
<1>2. SendInv /\ ReceiveInv /\ [Next]_vars => [Stream!Next]_(Stream!vars)
  BY StepRefines
<1> QED
  BY <1>1, <1>2, SendInvHolds, ReceiveInvHolds, PTL DEF Spec, ReturnsTheStream, Stream!Spec
=============================================================================
