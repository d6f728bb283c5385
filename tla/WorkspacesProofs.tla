-------------------------- MODULE WorkspacesProofs --------------------------
(***************************************************************************)
(* Proofs about the tracking of workspaces, for any set of workspaces and  *)
(* outputs and any number of changes.  Flagged: a selected configuration   *)
(* is drawn or flagged, whatever the stream says.  ListInv: types, and the *)
(* reply of Sway taking the place of the list.  CalmInv: while workspaces  *)
(* stay where they are, the last word on every output, in the list or in   *)
(* the stream, is what Sway shows.                                         *)
(***************************************************************************)
EXTENDS Workspaces, FiniteSetTheorems, SequenceTheorems, WellFoundedInduction, TLAPS

-----------------------------------------------------------------------------
(***************************************************************************)
(* The least element of a set, which is where a search ends.               *)
(***************************************************************************)
LEMMA LessIsWellFounded == IsWellFoundedOn({pair \in Nat \X Nat : pair[1] < pair[2]}, Nat)
  BY NatLessThanWellFounded DEF OpToRel

\* Every set of naturals has a least element, which is Min.
LEMMA MinIsLeast ==
    ASSUME NEW I \in SUBSET Nat, I # {}
    PROVE  Min(I) \in I /\ \A k \in I : Min(I) <= k
<1> DEFINE Less == {pair \in Nat \X Nat : pair[1] < pair[2]}
<1>1. IsWellFoundedOn(Less, Nat)
  BY LessIsWellFounded
<1> HIDE DEF Less
<1>2. PICK x \in I : \A y \in I : <<y, x>> \notin Less
  BY <1>1, WFMin
<1>3. ASSUME NEW y \in I
      PROVE  x <= y
  <2>1. y < x => <<y, x>> \in Less
    BY DEF Less
  <2> QED
    BY <1>2, <2>1
<1> QED
  BY <1>3 DEF Min

-----------------------------------------------------------------------------
(***************************************************************************)
(* The part of TypeOK that the argument needs.  An event about an output   *)
(* that does not exist changes nothing, so the contents of the stream do   *)
(* not matter.                                                             *)
(***************************************************************************)
OutputsTyped ==
    /\ selected \in [Outputs -> Selections]
    /\ config_change \in [Outputs -> BOOLEAN]
    /\ buffer_change \in [Outputs -> BOOLEAN]
    /\ drawn \in [Outputs -> Selections]

Flagged == OutputsTyped /\ SwitchesAreFlagged

LEMMA ConfigForType ==
    ASSUME NEW n
    PROVE  ConfigFor(n) \in Selections
BY DEF ConfigFor, Selections

LEMMA InitialConfigType ==
    ASSUME NEW o
    PROVE  InitialConfig(o) \in Selections
BY ConfigForType DEF InitialConfig, Selections

(***************************************************************************)
(* Steps that leave the outputs alone, and updates of an entry: a new      *)
(* selection is flagged in the same step.                                  *)
(***************************************************************************)
LEMMA UnchangedKeepsFlagged ==
    ASSUME Flagged, UNCHANGED <<outputs, drawn>>
    PROVE  Flagged'
BY DEF Flagged, OutputsTyped, SwitchesAreFlagged, Changed, outputs

LEMMA SelectKeepsFlagged ==
    ASSUME Flagged, UNCHANGED drawn,
           NEW n, NEW o, Select(n, o)
    PROVE  Flagged'
<1>1. CASE selected[o] = Absent
  BY <1>1, UnchangedKeepsFlagged DEF Select, outputs
<1>2. CASE selected[o] # Absent
  <2> DEFINE new == ConfigFor(n)
  <2>1. /\ selected' = [selected EXCEPT ![o] = new]
        /\ config_change' = [config_change EXCEPT ![o] = @ \/ selected[o] # new]
        /\ buffer_change' = buffer_change
    BY <1>2 DEF Select
  <2>2. new \in Selections
    BY ConfigForType
  <2> HIDE DEF new
  <2>3. OutputsTyped'
    <3>1. selected' \in [Outputs -> Selections]
      BY <2>1, <2>2 DEF Flagged, OutputsTyped
    <3>2. config_change' \in [Outputs -> BOOLEAN]
      BY <2>1, Zenon DEF Flagged, OutputsTyped
    <3> QED
      BY <2>1, <3>1, <3>2 DEF Flagged, OutputsTyped
  <2>4. ASSUME NEW p \in Outputs
        PROVE  config_change'[p] \/ buffer_change'[p] \/ drawn'[p] = selected'[p]
    <3>1. config_change[p] \/ buffer_change[p] \/ drawn[p] = selected[p]
      BY DEF Flagged, SwitchesAreFlagged, Changed
    <3>2. CASE p # o
      BY <2>1, <3>1, <3>2 DEF Flagged, OutputsTyped
    <3>3. CASE p = o
      <4>1. selected'[p] = new
        BY <2>1, <3>3 DEF Flagged, OutputsTyped
      <4>2. config_change'[p] = (config_change[p] \/ selected[p] # new)
        BY <2>1, <3>3, Zenon DEF Flagged, OutputsTyped
      <4> QED
        BY <2>1, <3>1, <4>1, <4>2
    <3> QED
      BY <3>2, <3>3
  <2> QED
    BY <2>3, <2>4 DEF Flagged, SwitchesAreFlagged, Changed
<1> QED
  BY <1>1, <1>2

LEMMA UpdateKeepsFlagged ==
    ASSUME Flagged, UNCHANGED drawn,
           NEW fixed, NEW n, NEW o, UpdateWorkspace(fixed, n, o)
    PROVE  Flagged'
BY SelectKeepsFlagged, UnchangedKeepsFlagged DEF UpdateWorkspace

LEMMA LoseKeepsFlagged ==
    ASSUME Flagged, UNCHANGED drawn,
           NEW fixed, NEW n, NEW o, LoseWorkspace(fixed, n, o)
    PROVE  Flagged'
BY UnchangedKeepsFlagged DEF LoseWorkspace

-----------------------------------------------------------------------------
(***************************************************************************)
(* One step for each action that touches the outputs.                      *)
(***************************************************************************)
LEMMA SwayKeepsFlagged ==
    ASSUME Flagged, Sway
    PROVE  Flagged'
<1>1. UNCHANGED <<outputs, drawn>>
  BY DEF Sway, SwayServes, SwayFocuses, SwayMoves, SwayCreates
<1> QED
  BY <1>1, UnchangedKeepsFlagged

LEMMA LoopKeepsFlagged ==
    ASSUME Flagged, Loop
    PROVE  Flagged'
<1>1. CASE StartReceiving \/ StartReply \/ TruncateList \/ StopReceiving
  <2>1. UNCHANGED <<outputs, drawn>>
    BY <1>1 DEF StartReceiving, StartReply, TruncateList, StopReceiving
  <2> QED
    BY <2>1, UnchangedKeepsFlagged
<1>2. CASE HandleEvent
  BY <1>2, UpdateKeepsFlagged, LoseKeepsFlagged DEF HandleEvent
<1>3. CASE HandleReplyEntry
  BY <1>3, UpdateKeepsFlagged, LoseKeepsFlagged DEF HandleReplyEntry
<1>4. CASE Render
  BY <1>4 DEF Render, Flagged, OutputsTyped, SwitchesAreFlagged, Changed
<1> QED
  BY <1>1, <1>2, <1>3, <1>4 DEF Loop

LEMMA OutputEventsKeepFlagged ==
    ASSUME Flagged,
           NEW o \in Outputs, ConfigureOutput(o) \/ DestroyOutput(o)
    PROVE  Flagged'
<1>1. CASE ConfigureOutput(o)
  <2>1. InitialConfig(o) \in Selections
    BY InitialConfigType
  <2> QED
    BY <1>1, <2>1
       DEF ConfigureOutput, Flagged, OutputsTyped, SwitchesAreFlagged, Changed
<1>2. CASE DestroyOutput(o)
  <2>1. Absent \in Selections
    BY DEF Selections
  <2> QED
    BY <1>2, <2>1
       DEF DestroyOutput, Flagged, OutputsTyped, SwitchesAreFlagged, Changed
<1> QED
  BY <1>1, <1>2

LEMMA FlaggedHolds == Spec => []Flagged
<1>1. Init => Flagged
  BY DEF Init, Flagged, OutputsTyped, SwitchesAreFlagged, Selections
<1>2. Flagged /\ [Next]_vars => Flagged'
  BY SwayKeepsFlagged, LoopKeepsFlagged, OutputEventsKeepFlagged,
     UnchangedKeepsFlagged
     DEF Next, vars
<1> QED
  BY <1>1, <1>2, PTL DEF Spec

(***************************************************************************)
(* No selection is forgotten: whichever handler made it, in whatever order *)
(* replies, events and changes of outputs arrive, an output shows the      *)
(* configuration selected for it or is flagged to be drawn.                *)
(***************************************************************************)
THEOREM SwitchesFlagged == Spec => []SwitchesAreFlagged
<1>1. Init => Flagged
  BY DEF Init, Flagged, OutputsTyped, SwitchesAreFlagged, Selections
<1>2. Flagged /\ [Next]_vars => Flagged'
  BY SwayKeepsFlagged, LoopKeepsFlagged, OutputEventsKeepFlagged,
     UnchangedKeepsFlagged
     DEF Next, vars
<1>3. Flagged => SwitchesAreFlagged
  BY DEF Flagged
<1> QED
  BY <1>1, <1>2, <1>3, PTL DEF Spec

-----------------------------------------------------------------------------
(***************************************************************************)
(* What the operators on lists return.                                     *)
(***************************************************************************)
LEMMA MatchFinds ==
    ASSUME NEW list \in Seq(Entry), NEW fixed \in Nat, NEW n, NEW o
    PROVE  LET i == Match(list, fixed, n, o)
           IN  \/ /\ i = 0
                  /\ \A k \in fixed + 1 .. Len(list) :
                       list[k].name # n /\ list[k].output # o
               \/ /\ i \in fixed + 1 .. Len(list)
                  /\ list[i].name = n \/ list[i].output = o
<1> DEFINE I == {k \in fixed + 1 .. Len(list) : list[k].name = n \/ list[k].output = o}
<1>1. Match(list, fixed, n, o) = IF I # {} THEN Min(I) ELSE 0
  BY DEF Match, SelectInSubSeq
<1>2. I \in SUBSET Nat
  BY LenProperties
<1>3. CASE I # {}
  <2>1. Min(I) \in I
    BY <1>2, <1>3, MinIsLeast
  <2> QED
    BY <1>1, <1>3, <2>1
<1>4. CASE I = {}
  BY <1>1, <1>4
<1> QED
  BY <1>3, <1>4

LEMMA WithoutIsShorter ==
    ASSUME NEW list \in Seq(Entry), NEW i \in 0 .. Len(list)
    PROVE  /\ Without(list, i) \in Seq(Entry)
           /\ Len(Without(list, i)) = IF i = 0 THEN Len(list) ELSE Len(list) - 1
           /\ \A k \in 1 .. Len(Without(list, i)) :
                Without(list, i)[k] = IF i = 0 \/ k < i THEN list[k] ELSE list[k + 1]
<1>0. Len(list) \in Nat /\ \A k \in 1 .. Len(list) : list[k] \in Entry
  BY LenProperties, ElementOfSeq
<1>1. CASE i = 0
  BY <1>0, <1>1 DEF Without
<1>2. CASE i # 0
  <2> DEFINE front == SubSeq(list, 1, i - 1)
             rear == SubSeq(list, i + 1, Len(list))
  <2>1. /\ front \in Seq(Entry) /\ Len(front) = i - 1
        /\ \A k \in 1 .. i - 1 : front[k] = list[k]
    BY <1>0, <1>2, SubSeqProperties
  <2>2. /\ rear \in Seq(Entry) /\ Len(rear) = Len(list) - i
        /\ \A k \in 1 .. Len(list) - i : rear[k] = list[k + i]
    <3>1. \A k \in i + 1 .. Len(list) : list[k] \in Entry
      BY <1>0
    <3> HIDE DEF rear
    <3>2. /\ rear \in Seq(Entry)
          /\ Len(rear) = IF i + 1 <= Len(list) THEN Len(list) - (i + 1) + 1 ELSE 0
          /\ \A k \in 1 .. Len(list) - (i + 1) + 1 : rear[k] = list[i + 1 + k - 1]
      BY <1>0, <3>1, SubSeqProperties DEF rear
    <3> QED
      BY <1>0, <3>2
  <2>3. Without(list, i) = front \o rear
    BY <1>2 DEF Without, RemoveAt
  <2> HIDE DEF front, rear
  <2>4. /\ front \o rear \in Seq(Entry)
        /\ Len(front \o rear) = Len(front) + Len(rear)
        /\ \A k \in 1 .. Len(front) + Len(rear) :
             (front \o rear)[k] = IF k <= Len(front) THEN front[k] ELSE rear[k - Len(front)]
    BY <2>1, <2>2, ConcatProperties
  <2>5. Len(front \o rear) = Len(list) - 1
    BY <1>0, <1>2, <2>1, <2>2, <2>4
  <2>6. ASSUME NEW k \in 1 .. Len(list) - 1
        PROVE  (front \o rear)[k] = IF k < i THEN list[k] ELSE list[k + 1]
    <3>1. CASE k < i
      BY <1>0, <2>1, <2>2, <2>4, <3>1
    <3>2. CASE ~(k < i)
      <4>1. (front \o rear)[k] = rear[k - (i - 1)] /\ k - (i - 1) \in 1 .. Len(list) - i
        BY <1>0, <1>2, <2>1, <2>2, <2>4, <3>2
      <4>2. (k - (i - 1)) + i = k + 1
        OBVIOUS
      <4> QED
        BY <2>2, <3>2, <4>1, <4>2
    <3> QED
      BY <3>1, <3>2
  <2> QED
    BY <1>2, <2>3, <2>4, <2>5, <2>6
<1> QED
  BY <1>1, <1>2

LEMMA UpdatedInserts ==
    ASSUME NEW list \in Seq(Entry), NEW fixed \in 0 .. Len(list),
           NEW n \in Names, NEW o \in Outputs
    PROVE  LET i == Match(list, fixed, n, o)
               new == Updated(list, fixed, n, o)
           IN  /\ new \in Seq(Entry)
               /\ Len(new) = IF i = 0 THEN Len(list) + 1 ELSE Len(list)
               /\ \A k \in 1 .. Len(new) :
                    new[k] = IF k <= fixed THEN list[k]
                             ELSE IF k = fixed + 1 THEN [name |-> n, output |-> o]
                             ELSE IF i = 0 \/ k <= i THEN list[k - 1]
                             ELSE list[k]
<1> DEFINE i == Match(list, fixed, n, o)
           rest == Without(list, i)
           entry == [name |-> n, output |-> o]
           front == SubSeq(rest, 1, fixed)
           rear == SubSeq(rest, fixed + 1, Len(rest))
<1>1. Len(list) \in Nat
  BY LenProperties
<1>2. i = 0 \/ i \in fixed + 1 .. Len(list)
  BY <1>1, MatchFinds
<1> HIDE DEF i
<1>3. /\ rest \in Seq(Entry)
      /\ Len(rest) = IF i = 0 THEN Len(list) ELSE Len(list) - 1
      /\ \A k \in 1 .. Len(rest) :
           rest[k] = IF i = 0 \/ k < i THEN list[k] ELSE list[k + 1]
  BY <1>1, <1>2, WithoutIsShorter
<1>4. Updated(list, fixed, n, o) = front \o <<entry>> \o rear
  <2>1. (fixed + 1) - 1 = fixed
    OBVIOUS
  <2> QED
    BY <2>1 DEF Updated, InsertAt, i
<1> HIDE DEF rest
<1>5. Len(rest) \in Nat /\ fixed <= Len(rest) /\ \A k \in 1 .. Len(rest) : rest[k] \in Entry
  BY <1>1, <1>2, <1>3, ElementOfSeq
<1>6. /\ front \in Seq(Entry) /\ Len(front) = fixed
      /\ \A k \in 1 .. fixed : front[k] = rest[k]
  <2>1. \A k \in 1 .. fixed : rest[k] \in Entry
    BY <1>5
  <2> HIDE DEF front
  <2>2. /\ front \in Seq(Entry)
        /\ Len(front) = IF 1 <= fixed THEN fixed - 1 + 1 ELSE 0
        /\ \A k \in 1 .. fixed - 1 + 1 : front[k] = rest[1 + k - 1]
    BY <2>1, SubSeqProperties DEF front
  <2> QED
    BY <1>5, <2>2
<1>7. /\ rear \in Seq(Entry) /\ Len(rear) = Len(rest) - fixed
      /\ \A k \in 1 .. Len(rest) - fixed : rear[k] = rest[fixed + k]
  <2>1. \A k \in fixed + 1 .. Len(rest) : rest[k] \in Entry
    BY <1>5
  <2> HIDE DEF rear
  <2>2. /\ rear \in Seq(Entry)
        /\ Len(rear) = IF fixed + 1 <= Len(rest) THEN Len(rest) - (fixed + 1) + 1 ELSE 0
        /\ \A k \in 1 .. Len(rest) - (fixed + 1) + 1 : rear[k] = rest[fixed + 1 + k - 1]
    BY <1>5, <2>1, SubSeqProperties DEF rear
  <2> QED
    BY <1>5, <2>2
<1>8. entry \in Entry
  BY DEF Entry
<1> HIDE DEF front, rear, entry
<1>9. /\ front \o <<entry>> \in Seq(Entry)
      /\ Len(front \o <<entry>>) = fixed + 1
      /\ \A k \in 1 .. fixed + 1 :
           (front \o <<entry>>)[k] = IF k <= fixed THEN front[k] ELSE entry
  BY <1>6, <1>8, ConcatProperties
<1> DEFINE new == front \o <<entry>> \o rear
           begin == front \o <<entry>>
<1>10. new = begin \o rear
  OBVIOUS
<1> HIDE DEF begin, new
<1>11. /\ new \in Seq(Entry)
       /\ Len(new) = Len(rest) + 1
       /\ \A k \in 1 .. Len(rest) + 1 :
            new[k] = IF k <= fixed + 1 THEN begin[k] ELSE rear[k - (fixed + 1)]
  <2>1. begin \in Seq(Entry) /\ Len(begin) = fixed + 1
    BY <1>9 DEF begin
  <2>2. /\ begin \o rear \in Seq(Entry)
        /\ Len(begin \o rear) = Len(begin) + Len(rear)
        /\ \A k \in 1 .. Len(begin) + Len(rear) :
             (begin \o rear)[k] = IF k <= Len(begin) THEN begin[k] ELSE rear[k - Len(begin)]
    BY <1>7, <2>1, ConcatProperties
  <2> QED
    BY <1>5, <1>7, <1>10, <2>1, <2>2
<1>12. Len(new) = IF i = 0 THEN Len(list) + 1 ELSE Len(list)
  BY <1>1, <1>3, <1>11
<1>13. ASSUME NEW k \in 1 .. Len(new)
       PROVE  new[k] = IF k <= fixed THEN list[k]
                       ELSE IF k = fixed + 1 THEN entry
                       ELSE IF i = 0 \/ k <= i THEN list[k - 1]
                       ELSE list[k]
  <2>1. k \in 1 .. Len(rest) + 1
    BY <1>11
  <2>2. CASE k <= fixed
    <3>1. new[k] = rest[k]
      BY <1>6, <1>9, <1>11, <2>1, <2>2 DEF begin
    <3>2. k \in 1 .. Len(rest) /\ (i = 0 \/ k < i)
      BY <1>2, <1>5, <2>2
    <3> QED
      BY <1>3, <2>2, <3>1, <3>2
  <2>3. CASE k = fixed + 1
    <3>1. ~(k <= fixed) /\ k <= fixed + 1 /\ k \in 1 .. fixed + 1
      BY <2>3
    <3>2. new[k] = entry
      BY <1>9, <1>11, <2>1, <3>1 DEF begin
    <3> QED
      BY <2>3, <3>1, <3>2
  <2>4. CASE k > fixed + 1
    <3>1. new[k] = rear[k - (fixed + 1)]
      BY <1>11, <2>1, <2>4
    <3>2. k - (fixed + 1) \in 1 .. Len(rest) - fixed
      BY <1>5, <2>1, <2>4
    <3>3. new[k] = rest[k - 1]
      <4>1. rear[k - (fixed + 1)] = rest[fixed + (k - (fixed + 1))]
        BY <1>7, <3>2
      <4>2. fixed + (k - (fixed + 1)) = k - 1
        OBVIOUS
      <4> QED
        BY <3>1, <4>1, <4>2
    <3>4. k - 1 \in 1 .. Len(rest)
      BY <1>5, <2>1, <2>4
    <3>5. rest[k - 1] = IF i = 0 \/ k - 1 < i THEN list[k - 1] ELSE list[k]
      <4>1. (k - 1) + 1 = k
        OBVIOUS
      <4> QED
        BY <1>3, <3>4, <4>1
    <3>6. i = 0 \/ (k - 1 < i <=> k <= i)
      BY <1>2
    <3> QED
      BY <2>4, <3>3, <3>5, <3>6
  <2> QED
    BY <2>2, <2>3, <2>4
<1>14. Updated(list, fixed, n, o) = new /\ Match(list, fixed, n, o) = i
       /\ [name |-> n, output |-> o] = entry
  BY <1>4 DEF new, i, entry
<1> QED
  BY <1>11, <1>12, <1>13, <1>14

\* A reply of Sway lists every output once, with its visible workspace.
LEMMA ListsOfVisible ==
    ASSUME visible \in [Outputs -> Names],
           NEW list \in SetToSeqs({[name |-> visible[o], output |-> o] : o \in Outputs})
    PROVE  /\ list \in Seq(Entry)
           /\ \A k \in DOMAIN list : list[k].name = visible[list[k].output]
           /\ \A j, k \in DOMAIN list : list[j].output = list[k].output => j = k
           /\ \A o \in Outputs : \E k \in DOMAIN list :
                list[k] = [name |-> visible[o], output |-> o]
<1> DEFINE shown == [o \in Outputs |-> [name |-> visible[o], output |-> o]]
           S == {[name |-> visible[o], output |-> o] : o \in Outputs}
<1>1. shown \in Surjection(Outputs, S)
  BY DEF Surjection
<1>2. IsFiniteSet(S)
  BY <1>1, FS_Surjection, WorkspacesAssumption
<1>3. S \subseteq Entry
  BY DEF Entry
<1>4. \A e \in S : e.name = visible[e.output]
  OBVIOUS
<1> HIDE DEF S
<1>5. Cardinality(S) \in Nat
  BY <1>2, FS_CardinalityType
<1> DEFINE D == 1 .. Cardinality(S)
<1>6. list \in [D -> S] /\ \A i, j \in D : i # j => list[i] # list[j]
  BY DEF SetToSeqs, S
<1>7. IsFiniteSet(D) /\ Cardinality(D) = Cardinality(S)
  BY <1>5, FS_Interval
<1>8. list \in Seq(S)
  BY <1>5, <1>6, SeqDef
<1>9. list \in Injection(D, S)
  BY <1>6 DEF Injection, IsInjective
<1>10. list \in Surjection(D, S)
  <2> HIDE DEF D
  <2> QED
    BY <1>2, <1>7, <1>9, FS_Injection
<1>11. \A o \in Outputs : \E k \in DOMAIN list :
         list[k] = [name |-> visible[o], output |-> o]
  <2> SUFFICES ASSUME NEW o \in Outputs
               PROVE  \E k \in DOMAIN list : list[k] = [name |-> visible[o], output |-> o]
    OBVIOUS
  <2>1. [name |-> visible[o], output |-> o] \in S
    BY DEF S
  <2> QED
    BY <1>6, <1>10, <2>1 DEF Surjection
<1>12. \A k \in DOMAIN list : list[k] \in S
  BY <1>6
<1>13. \A d, e \in S : d.output = e.output => d = e
  BY DEF S
<1>14. \A j, k \in DOMAIN list : list[j].output = list[k].output => j = k
  BY <1>6, <1>12, <1>13
<1>15. list \in Seq(Entry)
  BY <1>3, <1>8, SeqMonotonic
<1> QED
  BY <1>4, <1>11, <1>12, <1>14, <1>15

-----------------------------------------------------------------------------
(***************************************************************************)
(* The list of workspaces.  Between the replies `last` is 0, so that an    *)
(* event is matched against the whole list; and the requests are served in *)
(* the order of main.                                                      *)
(***************************************************************************)
StreamMessages ==
    [type: {"event"}, name: Names, output: Outputs]
    \union [type: {"workspaces"}, list: Seq(Entry)]

SwayTyped ==
    /\ home \in [Names -> Outputs]
    /\ visible \in [Outputs -> Names]
    /\ focused \in Outputs
    /\ requests \in {<<"subscribe", "get_workspaces">>, <<"get_workspaces">>, <<>>}
    /\ changes \in 0 .. MaxChanges
    /\ stream \in Seq(StreamMessages)

LoopTyped ==
    /\ calm \in BOOLEAN
    /\ stage \in {"dispatch", "receive", "reply", "render"}
    /\ workspaces \in Seq(Entry)
    /\ reply \in Seq(Entry)
    /\ last \in 0 .. Len(reply)
    /\ output_events \in 0 .. MaxOutputEvents

OutsideReply == stage # "reply" => last = 0 /\ reply = <<>>

ListInv == SwayTyped /\ LoopTyped /\ OutsideReply /\ ReplyPrefix

LEMMA InitListInv == Init => ListInv
<1> USE WorkspacesAssumption
<1>1. Init => SwayTyped
  BY DEF Init, SwayTyped
<1>2. Init => LoopTyped /\ OutsideReply /\ ReplyPrefix
  BY DEF Init, LoopTyped, OutsideReply, ReplyPrefix
<1> QED
  BY <1>1, <1>2 DEF ListInv

LEMMA ReportIsTyped ==
    ASSUME stream \in Seq(StreamMessages), NEW n \in Names, NEW o \in Outputs, Report(n, o)
    PROVE  stream' \in Seq(StreamMessages)
<1>1. [type |-> "event", name |-> n, output |-> o] \in StreamMessages
  BY DEF StreamMessages
<1> QED
  BY <1>1 DEF Report

LEMMA SwayKeepsListInv ==
    ASSUME ListInv, Sway
    PROVE  ListInv'
<1> USE WorkspacesAssumption
<1>1. UNCHANGED <<stage, workspaces, reply, last, output_events>> /\ calm' \in BOOLEAN
  BY DEF Sway, SwayServes, SwayFocuses, SwayMoves, SwayCreates, ListInv, LoopTyped
<1>2. (LoopTyped /\ OutsideReply /\ ReplyPrefix)'
  BY <1>1 DEF ListInv, LoopTyped, OutsideReply, ReplyPrefix
<1>3. SwayTyped'
  <2> USE DEF ListInv, SwayTyped
  <2>1. CASE SwayServes
    <3>1. requests' \in {<<"subscribe", "get_workspaces">>, <<"get_workspaces">>, <<>>}
      <4>1. Tail(<<"subscribe", "get_workspaces">>) = <<"get_workspaces">>
            /\ Tail(<<"get_workspaces">>) = <<>>
        OBVIOUS
      <4>2. requests # <<>> /\ requests' = Tail(requests)
        BY <2>1 DEF SwayServes
      <4>3. CASE requests = <<"subscribe", "get_workspaces">>
        BY <4>1, <4>2, <4>3
      <4>4. CASE requests = <<"get_workspaces">>
        BY <4>1, <4>2, <4>4
      <4> QED
        BY <4>2, <4>3, <4>4
    <3>2. stream' \in Seq(StreamMessages)
      <4>1. CASE UNCHANGED stream
        BY <4>1
      <4>2. ASSUME NEW list \in SetToSeqs({[name |-> visible[o], output |-> o] : o \in Outputs}),
                   stream' = Append(stream, [type |-> "workspaces", list |-> list])
            PROVE  stream' \in Seq(StreamMessages)
        <5>1. list \in Seq(Entry)
          BY ListsOfVisible
        <5>2. [type |-> "workspaces", list |-> list] \in StreamMessages
          BY <5>1 DEF StreamMessages
        <5> QED
          BY <4>2, <5>2
      <4> QED
        BY <2>1, <4>1, <4>2 DEF SwayServes
    <3>3. UNCHANGED <<home, visible, focused, changes>>
      BY <2>1 DEF SwayServes
    <3> QED
      BY <3>1, <3>2, <3>3
  <2>2. ASSUME NEW n \in Names, SwayFocuses(n)
        PROVE  SwayTyped'
    <3>1. home[n] \in Outputs
      OBVIOUS
    <3>2. stream' \in Seq(StreamMessages)
      BY <2>2, <3>1, ReportIsTyped DEF SwayFocuses
    <3> QED
      BY <2>2, <3>1, <3>2 DEF SwayFocuses
  <2>3. ASSUME NEW n \in Names, SwayCreates(n)
        PROVE  SwayTyped'
    <3>1. home[n] \in Outputs
      OBVIOUS
    <3>2. stream' \in Seq(StreamMessages)
      BY <2>3, <3>1, ReportIsTyped DEF SwayCreates
    <3> QED
      BY <2>3, <3>2 DEF SwayCreates
  <2>4. ASSUME NEW n \in Names, NEW o \in Outputs, SwayMoves(n, o)
        PROVE  SwayTyped'
    <3>1. stream' \in Seq(StreamMessages)
      BY <2>4, ReportIsTyped DEF SwayMoves
    <3>2. PICK rest \in Names :
            visible' = [p \in Outputs |-> IF p = o THEN n
                                          ELSE IF visible[p] = n THEN rest ELSE visible[p]]
      BY <2>4 DEF SwayMoves
    <3>3. visible' \in [Outputs -> Names]
      BY <3>2
    <3>4. home' \in [Names -> Outputs] /\ focused' \in Outputs
          /\ changes' \in 0 .. MaxChanges /\ UNCHANGED requests
      BY <2>4 DEF SwayMoves
    <3> QED
      BY <3>1, <3>3, <3>4
  <2> QED
    BY <2>1, <2>2, <2>3, <2>4 DEF Sway
<1> QED
  BY <1>2, <1>3 DEF ListInv

\* What an update does to the list that it leaves alone in front, and one
\* that is lost.
LEMMA UpdateKeepsFront ==
    ASSUME workspaces \in Seq(Entry), NEW fixed \in 0 .. Len(workspaces),
           NEW n \in Names, NEW o \in Outputs, UpdateWorkspace(fixed, n, o)
    PROVE  /\ workspaces' \in Seq(Entry)
           /\ Len(workspaces') >= fixed + 1
           /\ \A k \in 1 .. fixed : workspaces'[k] = workspaces[k]
           /\ workspaces'[fixed + 1] = [name |-> n, output |-> o]
<1> DEFINE i == Match(workspaces, fixed, n, o)
           new == Updated(workspaces, fixed, n, o)
<1>1. Len(workspaces) \in Nat
  BY LenProperties
<1>2. i = 0 \/ i \in fixed + 1 .. Len(workspaces)
  BY <1>1, MatchFinds
<1>3. workspaces' = Updated(workspaces, fixed, n, o)
  BY DEF UpdateWorkspace
<1>4. /\ new \in Seq(Entry)
      /\ Len(new) = IF i = 0 THEN Len(workspaces) + 1 ELSE Len(workspaces)
      /\ \A k \in 1 .. Len(new) :
           new[k] = IF k <= fixed THEN workspaces[k]
                    ELSE IF k = fixed + 1 THEN [name |-> n, output |-> o]
                    ELSE IF i = 0 \/ k <= i THEN workspaces[k - 1]
                    ELSE workspaces[k]
  BY UpdatedInserts
<1> HIDE DEF i, new
<1>5. Len(new) \in Nat /\ fixed \in Nat /\ Len(new) >= fixed + 1
  BY <1>1, <1>2, <1>4
<1>6. /\ \A k \in 1 .. fixed : new[k] = workspaces[k]
      /\ new[fixed + 1] = [name |-> n, output |-> o]
  <2>1. ASSUME NEW k \in 1 .. fixed
        PROVE  new[k] = workspaces[k]
    <3>1. k \in 1 .. Len(new) /\ k <= fixed
      BY <1>5
    <3> QED
      BY <1>4, <3>1
  <2>2. fixed + 1 \in 1 .. Len(new) /\ ~(fixed + 1 <= fixed)
    BY <1>5
  <2>3. new[fixed + 1] = [name |-> n, output |-> o]
    BY <1>4, <2>2
  <2> QED
    BY <2>1, <2>3
<1>7. workspaces' = new
  BY <1>3 DEF new
<1> QED
  BY <1>4, <1>5, <1>6, <1>7

LEMMA LossKeepsFront ==
    ASSUME workspaces \in Seq(Entry), NEW fixed \in 0 .. Len(workspaces),
           NEW n, NEW o, LoseWorkspace(fixed, n, o)
    PROVE  workspaces' \in Seq(Entry)
<1>1. Len(workspaces) \in Nat
  BY LenProperties
<1>2. Match(workspaces, fixed, n, o) \in 0 .. Len(workspaces)
  BY <1>1, MatchFinds
<1> QED
  BY <1>2, WithoutIsShorter DEF LoseWorkspace

LEMMA LoopKeepsListInv ==
    ASSUME ListInv, Loop
    PROVE  ListInv'
<1> USE DEF ListInv, LoopTyped, SwayTyped, OutsideReply, ReplyPrefix, sway
<1>1. CASE StartReceiving
  BY <1>1 DEF StartReceiving
<1>2. CASE StopReceiving
  BY <1>2 DEF StopReceiving
<1>3. CASE Render
  BY <1>3 DEF Render
<1>4. CASE HandleEvent
  <2> DEFINE event == Head(stream)
  <2>1. /\ event \in StreamMessages /\ event.type = "event"
        /\ Tail(stream) \in Seq(StreamMessages)
    BY <1>4, HeadTailProperties DEF HandleEvent
  <2>2. event.name \in Names /\ event.output \in Outputs
    BY <2>1 DEF StreamMessages
  <2>3. /\ stream' = Tail(stream) /\ last = 0 /\ reply = <<>>
        /\ UNCHANGED <<sway, stage, reply, last, output_events>>
    BY <1>4 DEF HandleEvent
  <2>4. 0 \in 0 .. Len(workspaces)
    BY LenProperties
  <2>5. \/ UpdateWorkspace(0, event.name, event.output) /\ UNCHANGED calm
        \/ LoseWorkspace(0, event.name, event.output)
    BY <1>4 DEF HandleEvent
  <2> HIDE DEF event
  <2>6. workspaces' \in Seq(Entry) /\ calm' \in BOOLEAN
    <3>1. CASE UpdateWorkspace(0, event.name, event.output) /\ UNCHANGED calm
      BY <2>2, <2>4, <3>1, UpdateKeepsFront
    <3>2. CASE LoseWorkspace(0, event.name, event.output)
      BY <2>4, <3>2, LossKeepsFront DEF LoseWorkspace
    <3> QED
      BY <2>5, <3>1, <3>2
  <2>7. Len(workspaces') \in Nat
    BY <2>6, LenProperties
  <2> QED
    BY <2>1, <2>3, <2>6, <2>7
<1>5. CASE StartReply
  <2>1. /\ Head(stream) \in StreamMessages /\ Head(stream).type = "workspaces"
        /\ Tail(stream) \in Seq(StreamMessages)
    BY <1>5, HeadTailProperties DEF StartReply
  <2>2. Head(stream).list \in Seq(Entry)
    BY <2>1 DEF StreamMessages
  <2>3. last = 0 /\ last \in 0 .. Len(Head(stream).list)
    BY <1>5, <2>2, LenProperties DEF StartReply
  <2> QED
    BY <1>5, <2>1, <2>2, <2>3 DEF StartReply
<1>6. CASE HandleReplyEntry
  <2> DEFINE entry == reply[last + 1]
  <2>1. last \in 0 .. Len(workspaces) /\ last + 1 \in 1 .. Len(reply) /\ Len(workspaces) \in Nat
    BY <1>6, LenProperties DEF HandleReplyEntry
  <2>2. entry \in Entry
    BY <2>1, ElementOfSeq
  <2>3. entry.name \in Names /\ entry.output \in Outputs
        /\ entry = [name |-> entry.name, output |-> entry.output]
    BY <2>2 DEF Entry
  <2>4. UNCHANGED <<sway, stream, output_events>> /\ stage = "reply"
    BY <1>6 DEF HandleReplyEntry
  <2>5. \/ /\ UpdateWorkspace(last, entry.name, entry.output)
           /\ last' = last + 1
           /\ UNCHANGED <<calm, stage, reply>>
        \/ /\ LoseWorkspace(last, entry.name, entry.output)
           /\ EndReply
    BY <1>6 DEF HandleReplyEntry
  <2> HIDE DEF entry
  <2>6. CASE /\ UpdateWorkspace(last, entry.name, entry.output)
             /\ last' = last + 1
             /\ UNCHANGED <<calm, stage, reply>>
    <3>1. /\ workspaces' \in Seq(Entry)
          /\ Len(workspaces') >= last + 1
          /\ \A k \in 1 .. last : workspaces'[k] = workspaces[k]
          /\ workspaces'[last + 1] = entry
      BY <2>1, <2>3, <2>6, UpdateKeepsFront
    <3>2. \A k \in 1 .. last + 1 : workspaces'[k] = reply[k]
      BY <2>1, <3>1 DEF entry
    <3> QED
      BY <2>1, <2>4, <2>6, <3>1, <3>2
  <2>7. CASE /\ LoseWorkspace(last, entry.name, entry.output)
             /\ EndReply
    <3>1. workspaces' \in Seq(Entry)
      BY <2>1, <2>7, LossKeepsFront
    <3>2. Len(workspaces') \in Nat /\ calm' \in BOOLEAN
      BY <2>7, <3>1, LenProperties DEF LoseWorkspace
    <3> QED
      BY <2>4, <2>7, <3>1, <3>2 DEF EndReply
  <2> QED
    BY <2>5, <2>6, <2>7
<1>7. CASE TruncateList
  <2>1. last \in Nat /\ Len(workspaces) \in Nat
        /\ \A k \in 1 .. last : workspaces[k] \in Entry
    BY LenProperties, ElementOfSeq
  <2>2. SubSeq(workspaces, 1, last) \in Seq(Entry)
    BY <2>1, SubSeqProperties
  <2>3. workspaces' \in Seq(Entry) /\ Len(workspaces') \in Nat
    BY <1>7, <2>2, LenProperties DEF TruncateList
  <2> QED
    BY <1>7, <2>3 DEF TruncateList, EndReply
<1> QED
  BY <1>1, <1>2, <1>3, <1>4, <1>5, <1>6, <1>7 DEF Loop

LEMMA OutputEventsKeepListInv ==
    ASSUME ListInv, NEW o \in Outputs, ConfigureOutput(o) \/ DestroyOutput(o)
    PROVE  ListInv'
<1> USE DEF ListInv, LoopTyped, SwayTyped, OutsideReply, ReplyPrefix, sway
<1>1. /\ UNCHANGED <<sway, calm, stream, stage, workspaces, reply, last>>
      /\ output_events' \in 0 .. MaxOutputEvents
  BY WorkspacesAssumption DEF ConfigureOutput, DestroyOutput
<1> QED
  BY <1>1

LEMMA ListStep == ListInv /\ [Next]_vars => ListInv'
<1> SUFFICES ASSUME ListInv, [Next]_vars
             PROVE  ListInv'
  OBVIOUS
<1>1. CASE UNCHANGED vars
  BY <1>1 DEF vars, sway, ListInv, LoopTyped, SwayTyped, OutsideReply, ReplyPrefix
<1> QED
  BY <1>1, SwayKeepsListInv, LoopKeepsListInv, OutputEventsKeepListInv DEF Next

LEMMA ListInvHolds == Spec => []ListInv
  BY InitListInv, ListStep, PTL DEF Spec

\* The type invariant, for any workspaces, outputs and bounds.
THEOREM TypeCorrect == Spec => []TypeOK
<1>1. Flagged /\ ListInv => TypeOK
  <2> SUFFICES ASSUME Flagged, ListInv
               PROVE  TypeOK
    OBVIOUS
  <2>1. requests \in Seq({"subscribe", "get_workspaces"})
    <3> DEFINE R == {"subscribe", "get_workspaces"}
    <3>1. <<"subscribe", "get_workspaces">> \in Seq(R) /\ <<"get_workspaces">> \in Seq(R)
          /\ <<>> \in Seq(R)
      OBVIOUS
    <3>2. requests \in {<<"subscribe", "get_workspaces">>, <<"get_workspaces">>, <<>>}
      BY DEF ListInv, SwayTyped
    <3> HIDE DEF R
    <3>3. requests \in Seq(R)
      BY <3>1, <3>2
    <3> QED
      BY <3>3 DEF R
  <2>2. /\ selected \in [Outputs -> Selections]
        /\ config_change \in [Outputs -> BOOLEAN]
        /\ buffer_change \in [Outputs -> BOOLEAN]
        /\ drawn \in [Outputs -> Selections]
    BY DEF Flagged, OutputsTyped
  <2> QED
    BY <2>1, <2>2 DEF ListInv, SwayTyped, LoopTyped, TypeOK, StreamMessages
<1> QED
  BY FlaggedHolds, ListInvHolds, <1>1, PTL

\* While handle_sway_workspaces works through a reply, whatever the old list
\* held, the part of the list up to `last` is what it has handled.
THEOREM ReplyInPlace == Spec => []ReplyPrefix
<1>1. ListInv => ReplyPrefix
  BY DEF ListInv
<1> QED
  BY ListInvHolds, <1>1, PTL

\* A reply that is handled to its end leaves exactly the list it reports, for
\* any old list and any reply.
THEOREM ReplyIsKept == Spec => ReplyIsExact
<1>1. ListInv /\ [Next]_vars =>
        [(stage = "reply" /\ stage' = "receive" /\ last = Len(reply))
            => workspaces' = reply]_vars
  <2> SUFFICES ASSUME ListInv, Next, stage = "reply", stage' = "receive", last = Len(reply)
               PROVE  workspaces' = reply
    OBVIOUS
  <2>1. last \in Nat /\ Len(workspaces) \in Nat /\ Len(workspaces) >= last
        /\ \A k \in 1 .. last : workspaces[k] = reply[k] /\ workspaces[k] \in Entry
    BY LenProperties, ElementOfSeq DEF ListInv, LoopTyped, ReplyPrefix
  <2>2. TruncateList
    <3>1. ~Sway /\ \A o \in Outputs : ~ConfigureOutput(o) /\ ~DestroyOutput(o)
      BY DEF Sway, SwayServes, SwayFocuses, SwayMoves, SwayCreates, ConfigureOutput,
             DestroyOutput
    <3>2. ~HandleReplyEntry
      BY <2>1 DEF HandleReplyEntry
    <3> QED
      BY <3>1, <3>2 DEF Next, Loop, StartReceiving, HandleEvent, StartReply,
                        StopReceiving, Render
  <2>3. workspaces' = SubSeq(workspaces, 1, last)
    BY <2>2 DEF TruncateList
  <2>4. /\ workspaces' \in Seq(Entry)
        /\ Len(workspaces') = last
        /\ \A k \in 1 .. last : workspaces'[k] = reply[k]
    <3>1. /\ SubSeq(workspaces, 1, last) \in Seq(Entry)
          /\ Len(SubSeq(workspaces, 1, last)) = IF 1 <= last THEN last - 1 + 1 ELSE 0
          /\ \A k \in 1 .. last - 1 + 1 :
               SubSeq(workspaces, 1, last)[k] = workspaces[1 + k - 1]
      BY <2>1, SubSeqProperties
    <3> QED
      BY <2>1, <2>3, <3>1
  <2> QED
    BY <2>4, SeqEqual DEF ListInv, LoopTyped
<1> QED
  BY ListInvHolds, <1>1, PTL DEF Spec, ReplyIsExact

-----------------------------------------------------------------------------
(***************************************************************************)
(* In calm.  Every list is one of workspaces at home, one for each output, *)
(* so an update replaces the entry of its own output and no other.  What   *)
(* Sway shows is told by the last message about an output, or, if none is  *)
(* left to handle, by the list of workspaces; while a reply is handled, by *)
(* that.                                                                   *)
(***************************************************************************)
Shows(list, n, o) == \E k \in DOMAIN list : list[k] = [name |-> n, output |-> o]

Distinct(list) ==
    \A j, k \in DOMAIN list : list[j].output = list[k].output => j = k

AtHome(list) == \A k \in DOMAIN list : HomeOf[list[k].name] = list[k].output

Tells(message, n, o) ==
    \/ message.type = "event" /\ message.name = n /\ message.output = o
    \/ message.type = "workspaces" /\ Shows(message.list, n, o)

SilentAfter(j, o) ==
    \A i \in DOMAIN stream : i > j => \A n \in Names : ~Tells(stream[i], n, o)

NobodyMoved ==
    /\ home = HomeOf
    /\ \A o \in Outputs : HomeOf[visible[o]] = o

ListsAreSound ==
    /\ AtHome(workspaces) /\ Distinct(workspaces)
    /\ AtHome(reply) /\ Distinct(reply)

StreamIsSound ==
    \A j \in DOMAIN stream :
        /\ stream[j].type = "event" => HomeOf[stream[j].name] = stream[j].output
        /\ stream[j].type = "workspaces" =>
            /\ AtHome(stream[j].list) /\ Distinct(stream[j].list)
            /\ \A o \in Outputs : \E n \in Names : Shows(stream[j].list, n, o)

Handled == IF stage = "reply" THEN reply ELSE workspaces

LastWordIsTrue ==
    requests = <<>> => \A o \in Outputs :
        /\ \A j \in DOMAIN stream : \A n \in Names :
             Tells(stream[j], n, o) /\ SilentAfter(j, o) => n = visible[o]
        /\ SilentAfter(0, o) => Shows(Handled, visible[o], o)

SelectionsFollow ==
    \A o \in Outputs : \A n \in Names :
        Shows(workspaces, n, o) => selected[o] \in {Absent, ConfigFor(n)}

SoundInv == NobodyMoved /\ ListsAreSound /\ StreamIsSound

SyncInv == SoundInv /\ LastWordIsTrue /\ SelectionsFollow

CalmInv == calm => SyncInv

LEMMA UpdatedIsSound ==
    ASSUME NEW list \in Seq(Entry), AtHome(list), Distinct(list),
           NEW fixed \in 0 .. Len(list), NEW n \in Names, NEW o \in Outputs,
           HomeOf[n] = o, \A k \in 1 .. fixed : list[k].output # o
    PROVE  LET new == Updated(list, fixed, n, o)
           IN  /\ AtHome(new) /\ Distinct(new)
               /\ Shows(new, n, o)
               /\ \A m \in Names, p \in Outputs :
                    p # o => (Shows(new, m, p) <=> Shows(list, m, p))
               /\ \A m \in Names : Shows(new, m, o) => m = n
               /\ ~IsNews(list, fixed, n, o) => Shows(list, n, o)
<1> DEFINE i == Match(list, fixed, n, o)
           new == Updated(list, fixed, n, o)
           entry == [name |-> n, output |-> o]
           Old(k) == IF k <= fixed \/ (i # 0 /\ k > i) THEN k ELSE k - 1
<1>1. /\ Len(list) \in Nat /\ DOMAIN list = 1 .. Len(list)
      /\ \A k \in DOMAIN list : list[k] \in Entry
      /\ entry \in Entry /\ entry.name = n /\ entry.output = o
  BY LenProperties, ElementOfSeq DEF Entry
<1>2. \/ i = 0 /\ \A k \in DOMAIN list : list[k].output # o
      \/ i \in fixed + 1 .. Len(list) /\ list[i].output = o
  <2>1. \/ i = 0 /\ \A k \in fixed + 1 .. Len(list) : list[k].output # o
        \/ /\ i \in fixed + 1 .. Len(list)
           /\ list[i].name = n \/ list[i].output = o
    BY <1>1, MatchFinds
  <2>2. CASE i = 0 /\ \A k \in fixed + 1 .. Len(list) : list[k].output # o
    BY <1>1, <2>2
  <2>3. CASE /\ i \in fixed + 1 .. Len(list)
             /\ list[i].name = n \/ list[i].output = o
    BY <1>1, <2>3 DEF AtHome
  <2> QED
    BY <2>1, <2>2, <2>3
<1>3. /\ new \in Seq(Entry)
      /\ Len(new) = IF i = 0 THEN Len(list) + 1 ELSE Len(list)
      /\ \A k \in 1 .. Len(new) :
           new[k] = IF k <= fixed THEN list[k]
                    ELSE IF k = fixed + 1 THEN entry
                    ELSE IF i = 0 \/ k <= i THEN list[k - 1]
                    ELSE list[k]
  BY UpdatedInserts
<1>4. ~IsNews(list, fixed, n, o) => i > 0 /\ list[i] = entry
  BY DEF IsNews
<1> HIDE DEF i, new, entry
<1>5. Len(new) \in Nat /\ DOMAIN new = 1 .. Len(new) /\ fixed + 1 \in DOMAIN new
      /\ fixed \in Nat
  BY <1>1, <1>2, <1>3, LenProperties
<1>6. new[fixed + 1] = entry
  <2>1. ~(fixed + 1 <= fixed)
    BY <1>5
  <2> QED
    BY <1>3, <1>5, <2>1
<1>7. ASSUME NEW k \in DOMAIN new, k # fixed + 1
      PROVE  Old(k) \in DOMAIN list /\ Old(k) # i /\ new[k] = list[Old(k)]
             /\ list[Old(k)].output # o
  <2>1. Old(k) \in DOMAIN list /\ Old(k) # i
    BY <1>1, <1>2, <1>3, <1>5, <1>7
  <2>2. new[k] = list[Old(k)]
    BY <1>1, <1>2, <1>3, <1>5, <1>7
  <2> HIDE DEF Old
  <2> QED
    BY <1>2, <1>1, <2>1, <2>2 DEF Distinct
<1>8. ASSUME NEW j \in DOMAIN new, NEW k \in DOMAIN new,
             j # fixed + 1, k # fixed + 1, Old(j) = Old(k)
      PROVE  j = k
  BY <1>1, <1>2, <1>5, <1>8
<1>9. ASSUME NEW l \in DOMAIN list, l # i
      PROVE  \E k \in DOMAIN new : k # fixed + 1 /\ Old(k) = l
  <2>1. CASE l <= fixed \/ (i # 0 /\ l > i)
    <3>1. l \in DOMAIN new /\ l # fixed + 1 /\ Old(l) = l
      BY <1>1, <1>2, <1>3, <1>5, <2>1
    <3> QED
      BY <3>1
  <2>2. CASE ~(l <= fixed \/ (i # 0 /\ l > i))
    <3>1. l + 1 \in DOMAIN new /\ l + 1 # fixed + 1 /\ Old(l + 1) = l
      BY <1>1, <1>2, <1>3, <1>5, <1>9, <2>2
    <3> QED
      BY <3>1
  <2> QED
    BY <2>1, <2>2
<1> HIDE DEF Old
<1>10. AtHome(new)
  BY <1>1, <1>6, <1>7 DEF AtHome
<1>11. Distinct(new)
  <2> SUFFICES ASSUME NEW j \in DOMAIN new, NEW k \in DOMAIN new,
                      new[j].output = new[k].output
               PROVE  j = k
    BY DEF Distinct
  <2>1. CASE j = fixed + 1 \/ k = fixed + 1
    BY <1>1, <1>6, <1>7, <2>1
  <2>2. CASE j # fixed + 1 /\ k # fixed + 1
    BY <1>7, <1>8, <2>2 DEF Distinct
  <2> QED
    BY <2>1, <2>2
<1>12. Shows(new, n, o)
  BY <1>5, <1>6 DEF Shows, entry
<1>13. ASSUME NEW m \in Names, Shows(new, m, o)
       PROVE  m = n
  <2>1. PICK k \in DOMAIN new : new[k] = [name |-> m, output |-> o]
    BY <1>13 DEF Shows
  <2>2. k = fixed + 1
    BY <1>7, <2>1
  <2> QED
    BY <1>1, <1>6, <2>1, <2>2
<1>14. ASSUME NEW m \in Names, NEW p \in Outputs, p # o
       PROVE  Shows(new, m, p) <=> Shows(list, m, p)
  <2>1. ASSUME Shows(new, m, p)
        PROVE  Shows(list, m, p)
    <3>1. PICK k \in DOMAIN new : new[k] = [name |-> m, output |-> p]
      BY <2>1 DEF Shows
    <3>2. k # fixed + 1
      BY <1>1, <1>6, <1>14, <3>1
    <3> QED
      BY <1>7, <3>1, <3>2 DEF Shows
  <2>2. ASSUME Shows(list, m, p)
        PROVE  Shows(new, m, p)
    <3>1. PICK l \in DOMAIN list : list[l] = [name |-> m, output |-> p]
      BY <2>2 DEF Shows
    <3>2. l # i
      BY <1>1, <1>2, <1>14, <3>1
    <3>3. PICK k \in DOMAIN new : k # fixed + 1 /\ Old(k) = l
      BY <1>9, <3>2
    <3> QED
      BY <1>7, <3>1, <3>3 DEF Shows
  <2> QED
    BY <2>1, <2>2
<1>15. ASSUME ~IsNews(list, fixed, n, o)
       PROVE  Shows(list, n, o)
  <2>1. i \in DOMAIN list /\ list[i] = entry
    BY <1>1, <1>2, <1>4, <1>15
  <2> QED
    BY <2>1 DEF Shows, entry
<1>16. Updated(list, fixed, n, o) = new
  BY DEF new
<1> QED
  BY <1>10, <1>11, <1>12, <1>13, <1>14, <1>15, <1>16

LEMMA InitSync == Init => SyncInv
<1> USE DEF Init
<1>1. Init => NobodyMoved /\ ListsAreSound /\ StreamIsSound
  BY DEF NobodyMoved, ListsAreSound, StreamIsSound, AtHome, Distinct
<1>2. Init => LastWordIsTrue /\ SelectionsFollow
  BY DEF LastWordIsTrue, SelectionsFollow, Shows
<1> QED
  BY <1>1, <1>2 DEF SyncInv, SoundInv

(***************************************************************************)
(* Sway appends to the stream.  Whatever was the last word on an output is *)
(* it still, unless the new message is about that output.                  *)
(***************************************************************************)
LEMMA AppendKeepsStream ==
    ASSUME ListInv, NEW m \in StreamMessages, stream' = Append(stream, m)
    PROVE  /\ Len(stream) \in Nat
           /\ DOMAIN stream = 1 .. Len(stream)
           /\ DOMAIN stream' = 1 .. Len(stream) + 1
           /\ stream'[Len(stream) + 1] = m
           /\ \A j \in DOMAIN stream : stream'[j] = stream[j]
           /\ \A j \in Nat : \A o : SilentAfter(j, o)' =>
                SilentAfter(j, o) /\ (j < Len(stream) + 1 => \A n \in Names : ~Tells(m, n, o))
<1>1. /\ stream \in Seq(StreamMessages)
  BY DEF ListInv, SwayTyped
<1>2. /\ Len(stream) \in Nat
      /\ DOMAIN stream = 1 .. Len(stream)
      /\ DOMAIN stream' = 1 .. Len(stream) + 1
      /\ stream'[Len(stream) + 1] = m
      /\ \A j \in DOMAIN stream : stream'[j] = stream[j]
  BY <1>1, AppendProperties, LenProperties
<1>3. ASSUME NEW j \in Nat, NEW o, SilentAfter(j, o)'
      PROVE  SilentAfter(j, o) /\ (j < Len(stream) + 1 => \A n \in Names : ~Tells(m, n, o))
  <2>1. \A i \in DOMAIN stream' : i > j => \A n \in Names : ~Tells(stream'[i], n, o)
    BY <1>3 DEF SilentAfter, Tells, Shows
  <2>2. ASSUME NEW i \in DOMAIN stream, i > j, NEW n \in Names
        PROVE  ~Tells(stream[i], n, o)
    <3>1. i \in DOMAIN stream' /\ stream'[i] = stream[i]
      BY <1>2
    <3> QED
      BY <2>1, <2>2, <3>1
  <2>3. SilentAfter(j, o)
    BY <2>2 DEF SilentAfter
  <2>4. ASSUME j < Len(stream) + 1
        PROVE  \A n \in Names : ~Tells(m, n, o)
    <3>1. Len(stream) + 1 \in DOMAIN stream' /\ Len(stream) + 1 > j
      BY <1>2, <2>4
    <3> QED
      BY <1>2, <2>1, <3>1
  <2> QED
    BY <2>3, <2>4
<1> QED
  BY <1>2, <1>3

LEMMA SwayKeepsSync ==
    ASSUME ListInv, SyncInv, Sway, calm'
    PROVE  SyncInv'
<1> DEFINE List == SetToSeqs({[name |-> visible[o], output |-> o] : o \in Outputs})
<1>1. /\ UNCHANGED <<stage, workspaces, reply, selected>>
      /\ UNCHANGED home
  BY DEF Sway, SwayServes, SwayFocuses, SwayMoves, SwayCreates, outputs
<1>2. (ListsAreSound /\ SelectionsFollow)'
  BY <1>1 DEF SyncInv, SoundInv, ListsAreSound, SelectionsFollow, AtHome, Distinct, Shows
<1>3. UNCHANGED Handled
  BY <1>1 DEF Handled
<1>4. visible \in [Outputs -> Names] /\ home \in [Names -> Outputs]
      /\ stream \in Seq(StreamMessages)
  BY DEF ListInv, SwayTyped
<1> HIDE DEF List
<1>5. CASE SwayServes /\ Head(requests) = "subscribe"
  <2>1. UNCHANGED <<stream, visible, home>> /\ requests = <<"subscribe", "get_workspaces">>
        /\ requests' = Tail(requests)
    BY <1>5 DEF SwayServes, ListInv, SwayTyped
  <2>2. requests' # <<>>
    BY <2>1
  <2> QED
    BY <1>2, <2>1, <2>2
       DEF SyncInv, SoundInv, NobodyMoved, StreamIsSound, LastWordIsTrue, AtHome, Distinct, Shows
<1>6. CASE SwayServes /\ Head(requests) # "subscribe"
  <2>1. PICK list \in List : stream' = Append(stream, [type |-> "workspaces", list |-> list])
    BY <1>6 DEF SwayServes, List
  <2> DEFINE m == [type |-> "workspaces", list |-> list]
  <2>2. /\ list \in Seq(Entry)
        /\ \A k \in DOMAIN list : list[k].name = visible[list[k].output]
        /\ Distinct(list)
        /\ \A o \in Outputs : Shows(list, visible[o], o)
    BY <1>4, ListsOfVisible DEF List, Shows, Distinct
  <2>3. m \in StreamMessages /\ m.type = "workspaces" /\ m.list = list
    BY <2>2 DEF StreamMessages
  <2>4. /\ Len(stream) \in Nat
        /\ DOMAIN stream = 1 .. Len(stream)
        /\ DOMAIN stream' = 1 .. Len(stream) + 1
        /\ stream'[Len(stream) + 1] = m
        /\ \A j \in DOMAIN stream : stream'[j] = stream[j]
        /\ \A j \in Nat : \A o : SilentAfter(j, o)' =>
             SilentAfter(j, o) /\ (j < Len(stream) + 1 => \A n \in Names : ~Tells(m, n, o))
    BY <2>1, <2>3, AppendKeepsStream
  <2>5. UNCHANGED visible
    BY <1>6 DEF SwayServes
  <2> HIDE DEF m
  <2>6. ASSUME NEW n \in Names, NEW o \in Outputs
        PROVE  Tells(m, n, o) <=> n = visible[o]
    <3>1. Tells(m, n, o) <=> Shows(list, n, o)
      BY <2>3 DEF Tells
    <3>2. Shows(list, n, o) => n = visible[o]
      BY <2>2 DEF Shows
    <3> QED
      BY <2>2, <3>1, <3>2
  <2>7. NobodyMoved'
    BY <1>1, <2>5 DEF SyncInv, SoundInv, NobodyMoved
  <2>8. AtHome(list)
    <3>1. \A k \in DOMAIN list : list[k].output \in Outputs
      <4>1. \A k \in DOMAIN list : list[k] \in Entry
        BY <2>2, LenProperties, ElementOfSeq
      <4> QED
        BY <4>1 DEF Entry
    <3> QED
      BY <2>2, <3>1 DEF AtHome, SyncInv, SoundInv, NobodyMoved
  <2>9. StreamIsSound'
    <3>1. ASSUME NEW j \in DOMAIN stream'
          PROVE  /\ stream'[j].type = "event" => HomeOf[stream'[j].name] = stream'[j].output
                 /\ stream'[j].type = "workspaces" =>
                      /\ AtHome(stream'[j].list) /\ Distinct(stream'[j].list)
                      /\ \A o \in Outputs : \E n \in Names : Shows(stream'[j].list, n, o)
      <4>1. CASE j \in DOMAIN stream
        BY <2>4, <4>1 DEF SyncInv, SoundInv, StreamIsSound
      <4>2. CASE j = Len(stream) + 1
        <5>1. stream'[j].type = "workspaces" /\ stream'[j].list = list
          BY <2>3, <2>4, <4>2
        <5>2. \A o \in Outputs : \E n \in Names : Shows(list, n, o)
          BY <1>4, <2>2
        <5> QED
          BY <2>2, <2>8, <5>1, <5>2
      <4> QED
        BY <2>4, <4>1, <4>2
    <3> QED
      BY <3>1 DEF StreamIsSound, AtHome, Distinct, Shows
  <2>10. ASSUME NEW o \in Outputs
         PROVE  /\ \A j \in DOMAIN stream' : \A n \in Names :
                     Tells(stream'[j], n, o) /\ SilentAfter(j, o)' => n = visible'[o]
                /\ ~SilentAfter(0, o)'
    <3>1. visible[o] \in Names /\ Tells(m, visible[o], o)
      BY <1>4, <2>6
    <3>2. ~SilentAfter(0, o)'
      BY <2>4, <3>1
    <3>3. ASSUME NEW j \in DOMAIN stream', NEW n \in Names,
                 Tells(stream'[j], n, o), SilentAfter(j, o)'
          PROVE  n = visible'[o]
      <4>1. ~(j < Len(stream) + 1)
        BY <2>4, <3>1, <3>3
      <4>2. j = Len(stream) + 1
        BY <2>4, <4>1
      <4> QED
        BY <2>4, <2>5, <2>6, <3>3, <4>2
    <3> QED
      BY <3>2, <3>3
  <2>11. LastWordIsTrue'
    BY <2>10 DEF LastWordIsTrue, Tells, Shows
  <2> QED
    BY <1>2, <2>7, <2>9, <2>11 DEF SyncInv, SoundInv
<1>7. ASSUME NEW w \in Names, SwayFocuses(w)
      PROVE  SyncInv'
  <2> DEFINE p == home[w]
             m == [type |-> "event", name |-> w, output |-> p]
  <2>1. /\ visible' = [visible EXCEPT ![p] = w]
        /\ Report(w, p)
        /\ UNCHANGED requests
        /\ p \in Outputs /\ HomeOf[w] = p
    BY <1>4, <1>7 DEF SwayFocuses, SyncInv, SoundInv, NobodyMoved
  <2>2. m \in StreamMessages /\ m.type = "event" /\ m.name = w /\ m.output = p
    BY <2>1 DEF StreamMessages
  <2>3. stream' = Append(stream, m) \/ (~Subscribed /\ stream' = stream)
    BY <2>1 DEF Report
  <2> HIDE DEF p, m
  <2>4. NobodyMoved'
    BY <1>1, <1>4, <2>1 DEF SyncInv, SoundInv, NobodyMoved
  <2>5. CASE ~Subscribed /\ stream' = stream
    <3>1. requests # <<>>
      BY <2>5 DEF Subscribed, ToSet
    <3>2. StreamIsSound' /\ LastWordIsTrue'
      BY <2>1, <2>5, <3>1
         DEF SyncInv, SoundInv, StreamIsSound, LastWordIsTrue, AtHome, Distinct, Shows
    <3> QED
      BY <1>2, <2>4, <3>2 DEF SyncInv, SoundInv
  <2>6. CASE stream' = Append(stream, m)
    <3>1. /\ Len(stream) \in Nat
          /\ DOMAIN stream = 1 .. Len(stream)
          /\ DOMAIN stream' = 1 .. Len(stream) + 1
          /\ stream'[Len(stream) + 1] = m
          /\ \A j \in DOMAIN stream : stream'[j] = stream[j]
          /\ \A j \in Nat : \A o : SilentAfter(j, o)' =>
               SilentAfter(j, o) /\ (j < Len(stream) + 1 => \A n \in Names : ~Tells(m, n, o))
      BY <2>2, <2>6, AppendKeepsStream
    <3>2. \A n \in Names, o \in Outputs : Tells(m, n, o) <=> n = w /\ o = p
      BY <2>2 DEF Tells
    <3>3. StreamIsSound'
      <4>1. ASSUME NEW j \in DOMAIN stream'
            PROVE  /\ stream'[j].type = "event" => HomeOf[stream'[j].name] = stream'[j].output
                   /\ stream'[j].type = "workspaces" =>
                        /\ AtHome(stream'[j].list) /\ Distinct(stream'[j].list)
                        /\ \A o \in Outputs : \E n \in Names : Shows(stream'[j].list, n, o)
        <5>1. CASE j \in DOMAIN stream
          BY <3>1, <5>1 DEF SyncInv, SoundInv, StreamIsSound
        <5>2. CASE j = Len(stream) + 1
          BY <2>1, <2>2, <3>1, <5>2
        <5> QED
          BY <3>1, <5>1, <5>2
      <4> QED
        BY <4>1 DEF StreamIsSound, AtHome, Distinct, Shows
    <3>4. ASSUME requests = <<>>, NEW o \in Outputs
          PROVE  /\ \A j \in DOMAIN stream' : \A n \in Names :
                      Tells(stream'[j], n, o) /\ SilentAfter(j, o)' => n = visible'[o]
                 /\ SilentAfter(0, o)' => Shows(Handled, visible'[o], o)
      <4>1. /\ \A j \in DOMAIN stream : \A n \in Names :
                 Tells(stream[j], n, o) /\ SilentAfter(j, o) => n = visible[o]
            /\ SilentAfter(0, o) => Shows(Handled, visible[o], o)
        BY <3>4 DEF SyncInv, LastWordIsTrue
      <4>2. o # p => visible'[o] = visible[o]
        BY <1>4, <2>1
      <4>3. visible'[p] = w
        BY <1>4, <2>1
      <4>4. SilentAfter(0, o)' => Shows(Handled, visible'[o], o)
        <5> SUFFICES ASSUME SilentAfter(0, o)'
                     PROVE  Shows(Handled, visible'[o], o)
          OBVIOUS
        <5>1. SilentAfter(0, o) /\ ~Tells(m, w, o)
          BY <3>1
        <5>2. o # p
          BY <3>2, <5>1
        <5> QED
          BY <4>1, <4>2, <5>1, <5>2
      <4>5. ASSUME NEW j \in DOMAIN stream', NEW n \in Names,
                   Tells(stream'[j], n, o), SilentAfter(j, o)'
            PROVE  n = visible'[o]
        <5>1. CASE j = Len(stream) + 1
          BY <3>1, <3>2, <4>3, <4>5, <5>1
        <5>2. CASE j # Len(stream) + 1
          <6>1. j \in DOMAIN stream /\ j \in Nat /\ j < Len(stream) + 1
            BY <3>1, <5>2
          <6>2. SilentAfter(j, o) /\ ~Tells(m, w, o)
            BY <3>1, <4>5, <6>1
          <6>3. o # p
            BY <3>2, <6>2
          <6> QED
            BY <3>1, <4>1, <4>2, <4>5, <6>1, <6>2, <6>3
        <5> QED
          BY <5>1, <5>2
      <4> QED
        BY <4>4, <4>5
    <3>5. LastWordIsTrue'
      BY <1>3, <2>1, <3>4 DEF LastWordIsTrue, Tells, Shows
    <3> QED
      BY <1>2, <2>4, <3>3, <3>5 DEF SyncInv, SoundInv
  <2> QED
    BY <2>3, <2>5, <2>6
<1>8. ASSUME NEW w \in Names, SwayCreates(w) \/ \E o \in Outputs : SwayMoves(w, o)
      PROVE  SyncInv'
  BY <1>8 DEF SwayCreates, SwayMoves
<1> QED
  BY <1>5, <1>6, <1>7, <1>8 DEF Sway

(***************************************************************************)
(* The loop takes messages off the stream.                                 *)
(***************************************************************************)
LEMMA TailKeepsStream ==
    ASSUME ListInv, SyncInv, stream # <<>>, stream' = Tail(stream)
    PROVE  /\ StreamIsSound'
           /\ UNCHANGED visible => \A o \in Outputs :
                \A j \in DOMAIN stream' : \A n \in Names :
                  requests = <<>> /\ Tells(stream'[j], n, o) /\ SilentAfter(j, o)' =>
                    n = visible'[o]
           /\ \A o : SilentAfter(0, o)' => SilentAfter(1, o)
           /\ 1 \in DOMAIN stream /\ stream[1] = Head(stream)
<1>1. stream \in Seq(StreamMessages)
  BY DEF ListInv, SwayTyped
<1>2. /\ Len(stream) \in Nat \ {0}
      /\ DOMAIN stream = 1 .. Len(stream)
      /\ DOMAIN stream' = 1 .. Len(stream) - 1
      /\ \A j \in DOMAIN stream' : stream'[j] = stream[j + 1]
      /\ stream[1] = Head(stream)
  <2>1. /\ Len(stream) \in Nat \ {0} /\ DOMAIN stream = 1 .. Len(stream)
        /\ Tail(stream) \in Seq(StreamMessages)
        /\ Len(Tail(stream)) = Len(stream) - 1
        /\ \A j \in 1 .. Len(Tail(stream)) : Tail(stream)[j] = stream[j + 1]
    BY <1>1, EmptySeq, LenProperties, HeadTailProperties
  <2>2. DOMAIN Tail(stream) = 1 .. Len(Tail(stream))
    BY <2>1, LenProperties
  <2>3. stream[1] = Head(stream)
    BY <1>1
  <2> QED
    BY <2>1, <2>2, <2>3
<1>3. \A j \in DOMAIN stream' : j + 1 \in DOMAIN stream /\ j \in Nat
  BY <1>2
<1>4. StreamIsSound'
  <2>1. ASSUME NEW j \in DOMAIN stream'
        PROVE  /\ stream'[j].type = "event" => HomeOf[stream'[j].name] = stream'[j].output
               /\ stream'[j].type = "workspaces" =>
                    /\ AtHome(stream'[j].list) /\ Distinct(stream'[j].list)
                    /\ \A o \in Outputs : \E n \in Names : Shows(stream'[j].list, n, o)
    <3>1. j + 1 \in DOMAIN stream /\ stream'[j] = stream[j + 1]
      BY <1>2, <1>3
    <3> QED
      BY <3>1 DEF SyncInv, SoundInv, StreamIsSound
  <2> QED
    BY <2>1 DEF StreamIsSound, AtHome, Distinct, Shows
<1>5. ASSUME NEW j \in Nat, NEW o, SilentAfter(j, o)'
      PROVE  SilentAfter(j + 1, o)
  <2>1. \A i \in DOMAIN stream' : i > j => \A n \in Names : ~Tells(stream'[i], n, o)
    BY <1>5 DEF SilentAfter, Tells, Shows
  <2> SUFFICES ASSUME NEW i \in DOMAIN stream, i > j + 1, NEW n \in Names
               PROVE  ~Tells(stream[i], n, o)
    BY DEF SilentAfter
  <2>2. i - 1 \in DOMAIN stream' /\ i - 1 > j /\ (i - 1) + 1 = i
    BY <1>2
  <2>3. stream'[i - 1] = stream[i]
    BY <1>2, <2>2
  <2> QED
    BY <2>1, <2>2, <2>3
<1>6. ASSUME UNCHANGED visible, NEW o \in Outputs, NEW j \in DOMAIN stream', NEW n \in Names,
             requests = <<>>, Tells(stream'[j], n, o), SilentAfter(j, o)'
      PROVE  n = visible'[o]
  <2>1. j + 1 \in DOMAIN stream /\ stream'[j] = stream[j + 1] /\ SilentAfter(j + 1, o)
    BY <1>2, <1>3, <1>5, <1>6
  <2>2. Tells(stream[j + 1], n, o)
    BY <1>6, <2>1
  <2> QED
    BY <1>6, <2>1, <2>2 DEF SyncInv, LastWordIsTrue
<1>7. ASSUME NEW o, SilentAfter(0, o)'
      PROVE  SilentAfter(1, o)
  BY <1>5, <1>7
<1> QED
  BY <1>2, <1>4, <1>6, <1>7

\* An update in calm: the entry of its own output is replaced, and the
\* selection follows it.
LEMMA UpdateKeepsSync ==
    ASSUME OutputsTyped, ListInv, SyncInv, NEW fixed \in 0 .. Len(workspaces),
           NEW n \in Names, NEW o \in Outputs,
           HomeOf[n] = o, \A k \in 1 .. fixed : workspaces[k].output # o,
           UpdateWorkspace(fixed, n, o)
    PROVE  /\ AtHome(workspaces)' /\ Distinct(workspaces)' /\ SelectionsFollow'
           /\ Shows(workspaces', n, o)
           /\ \A m \in Names, p \in Outputs :
                p # o => (Shows(workspaces', m, p) <=> Shows(workspaces, m, p))
<1> DEFINE new == Updated(workspaces, fixed, n, o)
<1>1. workspaces' = new
  BY DEF UpdateWorkspace
<1>2. workspaces \in Seq(Entry) /\ AtHome(workspaces) /\ Distinct(workspaces)
  BY DEF ListInv, LoopTyped, SyncInv, SoundInv, ListsAreSound
<1>3. /\ AtHome(new) /\ Distinct(new)
      /\ Shows(new, n, o)
      /\ \A m \in Names, p \in Outputs :
           p # o => (Shows(new, m, p) <=> Shows(workspaces, m, p))
      /\ \A m \in Names : Shows(new, m, o) => m = n
      /\ ~IsNews(workspaces, fixed, n, o) => Shows(workspaces, n, o)
  BY <1>2, UpdatedIsSound
<1> HIDE DEF new
<1>4. selected' \in [Outputs -> Selections] /\ \A p \in Outputs : p # o => selected'[p] = selected[p]
  <2>1. CASE UNCHANGED outputs
    BY <2>1 DEF OutputsTyped, outputs
  <2>2. CASE selected' = [selected EXCEPT ![o] = ConfigFor(n)]
    BY <2>2, ConfigForType DEF OutputsTyped
  <2> QED
    BY <2>1, <2>2 DEF UpdateWorkspace, Select
<1>5. selected'[o] \in {Absent, ConfigFor(n)}
  <2>1. CASE IsNews(workspaces, fixed, n, o)
    <3>1. Select(n, o)
      BY <2>1 DEF UpdateWorkspace
    <3>2. CASE selected[o] = Absent
      BY <3>1, <3>2 DEF Select, outputs
    <3>3. CASE selected[o] # Absent
      BY <3>1, <3>3 DEF Select, OutputsTyped
    <3> QED
      BY <3>2, <3>3
  <2>2. CASE ~IsNews(workspaces, fixed, n, o)
    <3>1. UNCHANGED selected
      BY <2>2 DEF UpdateWorkspace, outputs
    <3> QED
      BY <1>3, <2>2, <3>1 DEF SyncInv, SelectionsFollow
  <2> QED
    BY <2>1, <2>2
<1>6. ASSUME NEW p \in Outputs, NEW m \in Names, Shows(new, m, p)
      PROVE  selected'[p] \in {Absent, ConfigFor(m)}
  <2>1. CASE p = o
    BY <1>3, <1>5, <1>6, <2>1
  <2>2. CASE p # o
    BY <1>3, <1>4, <1>6, <2>2 DEF SyncInv, SelectionsFollow
  <2> QED
    BY <2>1, <2>2
<1>7. SelectionsFollow'
  BY <1>1, <1>6 DEF SelectionsFollow, Shows, ConfigFor
<1> QED
  BY <1>1, <1>3, <1>7 DEF AtHome, Distinct, Shows

LEMMA HandleEventKeepsSync ==
    ASSUME OutputsTyped, ListInv, SyncInv, HandleEvent, calm'
    PROVE  SyncInv'
<1> DEFINE event == Head(stream)
<1>1. /\ stream # <<>> /\ stream' = Tail(stream) /\ event.type = "event"
      /\ stage = "receive" /\ last = 0
      /\ UNCHANGED <<home, visible, requests, stage, reply, last>>
  BY DEF HandleEvent, sway, ListInv, OutsideReply
<1>2. event.name \in Names /\ event.output \in Outputs
  <2>1. event \in StreamMessages
    BY <1>1, HeadTailProperties DEF ListInv, SwayTyped
  <2> QED
    BY <1>1, <2>1 DEF StreamMessages
<1>3. 1 \in DOMAIN stream /\ stream[1] = event
  BY <1>1, TailKeepsStream
<1>4. HomeOf[event.name] = event.output
  BY <1>1, <1>3 DEF SyncInv, SoundInv, StreamIsSound
<1>5. UpdateWorkspace(0, event.name, event.output)
  BY DEF HandleEvent, LoseWorkspace
<1>6. 0 \in 0 .. Len(workspaces)
  BY LenProperties DEF ListInv, LoopTyped
<1> HIDE DEF event
<1>7. /\ AtHome(workspaces)' /\ Distinct(workspaces)' /\ SelectionsFollow'
      /\ Shows(workspaces', event.name, event.output)
      /\ \A m \in Names, p \in Outputs : p # event.output =>
           (Shows(workspaces', m, p) <=> Shows(workspaces, m, p))
  BY <1>2, <1>4, <1>5, <1>6, UpdateKeepsSync
<1>8. SoundInv'
  BY <1>1, <1>7, TailKeepsStream
     DEF SyncInv, SoundInv, NobodyMoved, ListsAreSound, AtHome, Distinct
<1>9. ASSUME requests = <<>>, NEW o \in Outputs, SilentAfter(0, o)'
      PROVE  Shows(workspaces', visible[o], o)
  <2>1. SilentAfter(1, o)
    BY <1>1, <1>9, TailKeepsStream
  <2>2. CASE o = event.output
    <3>1. Tells(stream[1], event.name, o)
      BY <1>1, <1>3, <2>2 DEF Tells
    <3>2. event.name = visible[o]
      BY <1>2, <1>3, <1>9, <2>1, <3>1 DEF SyncInv, LastWordIsTrue
    <3> QED
      BY <1>7, <2>2, <3>2 DEF Shows
  <2>3. CASE o # event.output
    <3>1. \A m \in Names : ~Tells(stream[1], m, o)
      BY <1>1, <1>3, <2>3 DEF Tells
    <3>2. SilentAfter(0, o)
      <4> SUFFICES ASSUME NEW i \in DOMAIN stream, NEW m \in Names, i > 0
                   PROVE  ~Tells(stream[i], m, o)
        BY DEF SilentAfter
      <4>1. i \in Nat /\ (i = 1 \/ i > 1)
        BY LenProperties DEF ListInv, SwayTyped
      <4> QED
        BY <2>1, <3>1, <4>1 DEF SilentAfter
    <3>3. Shows(workspaces, visible[o], o)
      BY <1>1, <1>9, <3>2 DEF SyncInv, LastWordIsTrue, Handled
    <3>4. visible[o] \in Names
      BY DEF ListInv, SwayTyped
    <3> QED
      BY <1>7, <2>3, <3>3, <3>4
  <2> QED
    BY <2>2, <2>3
<1>10. LastWordIsTrue'
  <2>1. \A o \in Outputs : \A j \in DOMAIN stream' : \A n \in Names :
          requests = <<>> /\ Tells(stream'[j], n, o) /\ SilentAfter(j, o)' => n = visible'[o]
    BY <1>1, TailKeepsStream
  <2>2. Handled' = workspaces'
    BY <1>1 DEF Handled
  <2> QED
    BY <1>1, <1>9, <2>1, <2>2 DEF LastWordIsTrue, Tells, Shows
<1> QED
  BY <1>7, <1>8, <1>10 DEF SyncInv

LEMMA StartReplyKeepsSync ==
    ASSUME ListInv, SyncInv, StartReply
    PROVE  SyncInv'
<1>1. /\ stream # <<>> /\ stream' = Tail(stream) /\ Head(stream).type = "workspaces"
      /\ stage' = "reply" /\ reply' = Head(stream).list
      /\ UNCHANGED <<home, visible, requests, workspaces, selected>>
  BY DEF StartReply, sway, outputs
<1>2. 1 \in DOMAIN stream /\ stream[1] = Head(stream)
  BY <1>1, TailKeepsStream
<1>3. /\ AtHome(reply') /\ Distinct(reply')
      /\ \A o \in Outputs : \E n \in Names : Shows(reply', n, o)
  BY <1>1, <1>2 DEF SyncInv, SoundInv, StreamIsSound
<1>4. SoundInv'
  BY <1>1, <1>3, TailKeepsStream
     DEF SyncInv, SoundInv, NobodyMoved, ListsAreSound, AtHome, Distinct
<1>5. SelectionsFollow'
  BY <1>1 DEF SyncInv, SelectionsFollow, Shows
<1>6. ASSUME requests = <<>>, NEW o \in Outputs, SilentAfter(0, o)'
      PROVE  Shows(reply', visible[o], o)
  <2>1. SilentAfter(1, o)
    BY <1>1, <1>6, TailKeepsStream
  <2>2. PICK n \in Names : Shows(reply', n, o)
    BY <1>3
  <2>3. Tells(stream[1], n, o)
    BY <1>1, <1>2, <2>2 DEF Tells
  <2>4. n = visible[o]
    BY <1>2, <1>6, <2>1, <2>3 DEF SyncInv, LastWordIsTrue
  <2> QED
    BY <2>2, <2>4
<1>7. LastWordIsTrue'
  <2>1. \A o \in Outputs : \A j \in DOMAIN stream' : \A n \in Names :
          requests = <<>> /\ Tells(stream'[j], n, o) /\ SilentAfter(j, o)' => n = visible'[o]
    BY <1>1, TailKeepsStream
  <2>2. Handled' = reply'
    BY <1>1 DEF Handled
  <2> QED
    BY <1>1, <1>6, <2>1, <2>2 DEF LastWordIsTrue, Tells, Shows
<1> QED
  BY <1>4, <1>5, <1>7 DEF SyncInv

LEMMA HandleReplyEntryKeepsSync ==
    ASSUME OutputsTyped, ListInv, SyncInv, HandleReplyEntry, calm'
    PROVE  SyncInv'
<1> DEFINE entry == reply[last + 1]
<1>1. /\ UpdateWorkspace(last, entry.name, entry.output)
      /\ UNCHANGED <<home, visible, requests, stream, stage, reply>>
      /\ stage = "reply" /\ last < Len(reply)
  BY DEF HandleReplyEntry, LoseWorkspace, sway
<1>2. /\ last \in Nat /\ Len(reply) \in Nat /\ last \in 0 .. Len(workspaces)
      /\ DOMAIN reply = 1 .. Len(reply) /\ last + 1 \in DOMAIN reply
  BY <1>1, LenProperties DEF ListInv, LoopTyped, ReplyPrefix
<1>3. entry.name \in Names /\ entry.output \in Outputs /\ HomeOf[entry.name] = entry.output
  <2>1. entry \in Entry
    BY <1>2, ElementOfSeq DEF ListInv, LoopTyped
  <2> QED
    BY <1>2, <2>1 DEF Entry, SyncInv, SoundInv, ListsAreSound, AtHome
<1>4. \A k \in 1 .. last : workspaces[k].output # entry.output
  <2> SUFFICES ASSUME NEW k \in 1 .. last
               PROVE  workspaces[k].output # entry.output
    OBVIOUS
  <2>1. workspaces[k] = reply[k] /\ k \in DOMAIN reply /\ k # last + 1
    BY <1>2, <1>1 DEF ListInv, ReplyPrefix
  <2> QED
    BY <1>2, <2>1 DEF SyncInv, SoundInv, ListsAreSound, Distinct
<1> HIDE DEF entry
<1>5. AtHome(workspaces)' /\ Distinct(workspaces)' /\ SelectionsFollow'
  BY <1>1, <1>2, <1>3, <1>4, UpdateKeepsSync
<1>6. SoundInv' /\ LastWordIsTrue'
  BY <1>1, <1>5
     DEF SyncInv, SoundInv, NobodyMoved, ListsAreSound, StreamIsSound, LastWordIsTrue,
         AtHome, Distinct, Shows, Tells, SilentAfter, Handled
<1> QED
  BY <1>5, <1>6 DEF SyncInv

LEMMA TruncateListKeepsSync ==
    ASSUME ListInv, SyncInv, TruncateList
    PROVE  SyncInv'
<1>1. /\ stage = "reply" /\ stage' = "receive" /\ last = Len(reply)
      /\ workspaces' = SubSeq(workspaces, 1, last) /\ reply' = <<>>
      /\ UNCHANGED <<home, visible, requests, stream, selected>>
  BY DEF TruncateList, EndReply, sway, outputs
<1>2. /\ last \in Nat /\ Len(workspaces) \in Nat /\ last <= Len(workspaces)
      /\ DOMAIN reply = 1 .. last /\ DOMAIN workspaces = 1 .. Len(workspaces)
      /\ \A k \in 1 .. last : workspaces[k] = reply[k] /\ workspaces[k] \in Entry
  BY <1>1, LenProperties, ElementOfSeq DEF ListInv, LoopTyped, ReplyPrefix
<1>3. DOMAIN workspaces' = 1 .. last /\ \A k \in 1 .. last : workspaces'[k] = reply[k]
  <2>1. /\ SubSeq(workspaces, 1, last) \in Seq(Entry)
        /\ Len(SubSeq(workspaces, 1, last)) = IF 1 <= last THEN last - 1 + 1 ELSE 0
        /\ \A k \in 1 .. last - 1 + 1 :
             SubSeq(workspaces, 1, last)[k] = workspaces[1 + k - 1]
    BY <1>2, SubSeqProperties
  <2>2. DOMAIN workspaces' = 1 .. Len(workspaces')
    BY <1>1, <2>1, LenProperties
  <2> QED
    BY <1>1, <1>2, <2>1, <2>2
<1>4. (ListsAreSound /\ StreamIsSound /\ NobodyMoved)'
  BY <1>1, <1>2, <1>3
     DEF SyncInv, SoundInv, ListsAreSound, StreamIsSound, NobodyMoved, AtHome, Distinct, Shows
<1>5. SelectionsFollow'
  <2>1. \A n, o : Shows(workspaces', n, o) => Shows(workspaces, n, o)
    BY <1>2, <1>3 DEF Shows
  <2> QED
    BY <1>1, <2>1 DEF SyncInv, SelectionsFollow, Shows
<1>6. LastWordIsTrue'
  <2>1. \A n, o : Shows(reply, n, o) => Shows(workspaces', n, o)
    BY <1>2, <1>3 DEF Shows
  <2>2. Handled = reply /\ Handled' = workspaces'
    BY <1>1 DEF Handled
  <2> QED
    BY <1>1, <2>1, <2>2 DEF SyncInv, LastWordIsTrue, SilentAfter, Tells, Shows
<1> QED
  BY <1>4, <1>5, <1>6 DEF SyncInv, SoundInv

LEMMA SameKeepsSync ==
    ASSUME SyncInv, UNCHANGED <<home, visible, requests, stream, workspaces, reply>>,
           stage' = "reply" <=> stage = "reply",
           SelectionsFollow'
    PROVE  SyncInv'
  BY DEF SyncInv, SoundInv, NobodyMoved, ListsAreSound, StreamIsSound, LastWordIsTrue,
         AtHome, Distinct, Shows, Tells, SilentAfter, Handled

LEMMA LoopKeepsSync ==
    ASSUME OutputsTyped, ListInv, SyncInv, Loop, calm'
    PROVE  SyncInv'
<1>1. CASE StartReceiving \/ StopReceiving \/ Render
  <2>1. /\ UNCHANGED <<home, visible, requests, stream, workspaces, reply, selected>>
        /\ stage' = "reply" <=> stage = "reply"
    BY <1>1 DEF StartReceiving, StopReceiving, Render, sway, outputs
  <2>2. SelectionsFollow'
    BY <2>1 DEF SyncInv, SelectionsFollow, Shows
  <2> QED
    BY <2>1, <2>2, SameKeepsSync
<1> QED
  BY <1>1, HandleEventKeepsSync, StartReplyKeepsSync, HandleReplyEntryKeepsSync,
     TruncateListKeepsSync DEF Loop

\* An output that is configured anew takes the only entry it has.
LEMMA OutputEventsKeepSync ==
    ASSUME OutputsTyped, ListInv, SyncInv,
           NEW p \in Outputs, ConfigureOutput(p) \/ DestroyOutput(p)
    PROVE  SyncInv'
<1>1. /\ UNCHANGED <<home, visible, requests, stream, workspaces, reply, stage>>
      /\ selected' = [selected EXCEPT ![p] = InitialConfig(p)]
         \/ selected' = [selected EXCEPT ![p] = Absent]
  BY DEF ConfigureOutput, DestroyOutput, sway
<1>2. ASSUME NEW n \in Names, Shows(workspaces, n, p)
      PROVE  InitialConfig(p) = ConfigFor(n)
  <2> DEFINE I == {k \in 1 .. Len(workspaces) : workspaces[k].output = p}
             i == SelectInSeq(workspaces, LAMBDA e : e.output = p)
  <2>1. DOMAIN workspaces = 1 .. Len(workspaces) /\ Len(workspaces) \in Nat
    BY LenProperties DEF ListInv, LoopTyped
  <2>2. i = IF I # {} THEN Min(I) ELSE 0
    BY DEF SelectInSeq
  <2>3. PICK k \in DOMAIN workspaces : workspaces[k] = [name |-> n, output |-> p]
    BY <1>2 DEF Shows
  <2>4. k \in I /\ I \in SUBSET Nat
    BY <2>1, <2>3
  <2>5. Min(I) \in I
    BY <2>4, MinIsLeast
  <2>6. Min(I) = k
    BY <2>1, <2>3, <2>5 DEF SyncInv, SoundInv, ListsAreSound, Distinct
  <2>7. i = k /\ i # 0
    BY <2>1, <2>2, <2>4, <2>6
  <2>8. InitialConfig(p) = IF i = 0 THEN Default ELSE ConfigFor(workspaces[i].name)
    BY DEF InitialConfig
  <2> HIDE DEF i
  <2> QED
    BY <2>3, <2>7, <2>8
<1>3. ASSUME NEW o \in Outputs, NEW n \in Names, Shows(workspaces, n, o)
      PROVE  selected'[o] \in {Absent, ConfigFor(n)}
  <2>1. CASE o = p
    BY <1>1, <1>2, <1>3, <2>1 DEF OutputsTyped
  <2>2. CASE o # p
    BY <1>1, <1>3, <2>2 DEF OutputsTyped, SyncInv, SelectionsFollow
  <2> QED
    BY <2>1, <2>2
<1>4. SelectionsFollow'
  BY <1>1, <1>3 DEF SelectionsFollow, Shows, ConfigFor
<1> QED
  BY <1>1, <1>4, SameKeepsSync

LEMMA CalmInvHolds == Spec => []CalmInv
<1>1. Init => CalmInv
  BY InitSync DEF CalmInv
<1>2. Flagged /\ ListInv /\ CalmInv /\ [Next]_vars => CalmInv'
  <2> SUFFICES ASSUME OutputsTyped, ListInv, CalmInv, [Next]_vars, calm'
               PROVE  SyncInv'
    BY DEF CalmInv, Flagged
  <2>1. calm /\ SyncInv
    <3>1. calm
      BY DEF Next, vars, Sway, SwayServes, SwayFocuses, SwayMoves, SwayCreates, Loop,
             StartReceiving, HandleEvent, StartReply, HandleReplyEntry, TruncateList,
             StopReceiving, Render, LoseWorkspace, ConfigureOutput, DestroyOutput
    <3> QED
      BY <3>1 DEF CalmInv
  <2>2. CASE UNCHANGED vars
    <3>1. SelectionsFollow'
      BY <2>1, <2>2 DEF SyncInv, SelectionsFollow, Shows, vars, outputs
    <3> QED
      BY <2>1, <2>2, <3>1, SameKeepsSync DEF vars, sway
  <2>3. CASE Next
    BY <2>1, <2>3, SwayKeepsSync, LoopKeepsSync, OutputEventsKeepSync DEF Next
  <2> QED
    BY <2>2, <2>3
<1> QED
  BY FlaggedHolds, ListInvHolds, <1>1, <1>2, PTL DEF Spec

\* As long as workspaces stay on their outputs, events are about what is
\* shown and memory suffices, update_workspace keeps one entry for each
\* output, whatever order replies and events come in.
THEOREM OneEntry == Spec => []OneEntryPerOutput
<1>1. CalmInv => OneEntryPerOutput
  BY DEF CalmInv, SyncInv, SoundInv, ListsAreSound, Distinct, OneEntryPerOutput
<1> QED
  BY CalmInvHolds, <1>1, PTL

\* The list that main asks for and the events it subscribes to, in whatever
\* way they interleave with what the user does, leave every known output with
\* the configuration of the workspace it shows, once all is handled.
THEOREM OutputsInSync == Spec => []EveryOutputInSync
<1>1. ListInv /\ CalmInv => EveryOutputInSync
  <2> SUFFICES ASSUME ListInv, SyncInv, Quiet, NEW o \in Outputs
               PROVE  selected[o] \in {Absent, ConfigFor(visible[o])}
    BY DEF CalmInv, EveryOutputInSync
  <2>1. SilentAfter(0, o) /\ Handled = workspaces /\ requests = <<>>
    BY DEF Quiet, SilentAfter, Handled
  <2>2. Shows(workspaces, visible[o], o)
    BY <2>1 DEF SyncInv, LastWordIsTrue
  <2>3. visible[o] \in Names
    BY DEF ListInv, SwayTyped
  <2> QED
    BY <2>2, <2>3 DEF SyncInv, SelectionsFollow
<1> QED
  BY ListInvHolds, CalmInvHolds, <1>1, PTL
=============================================================================
