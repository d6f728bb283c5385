--------------------------- MODULE MainLoopProofs ---------------------------
(***************************************************************************)
(* Proofs about the loop of main, for any number of events and messages    *)
(* and whether or not system calls fail: its type invariant, that every    *)
(* announced read is answered, and that poll never sleeps on work that is  *)
(* not done.                                                               *)
(***************************************************************************)
EXTENDS MainLoop, TLAPS

(***************************************************************************)
(* What makes the properties inductive.  SleepsWithNothingToDo speaks of   *)
(* poll alone; but events are never left undispatched between two steps,   *)
(* and nothing becomes dirty from the render stage to the next poll.       *)
(***************************************************************************)
NothingQueued == queued = 0

NothingDirty ==
    pc \in {"start", "prepare", "flush", "wait", "poll", "read"} => ~dirty

PollIsFlushed == pc = "poll" => outgoing = 0 \/ ~connected

Inv ==
    /\ TypeOK
    /\ ReadsAreMatched
    /\ NothingQueued
    /\ NothingDirty
    /\ PollIsFlushed

LEMMA InitInv == Init => Inv
<1> SUFFICES ASSUME Init
             PROVE  Inv
  OBVIOUS
<1>1. sent \in Seq(MessageTypes) /\ delivered \in Seq(MessageTypes)
  BY DEF Init, Sway!Init
<1>2. connected \in BOOLEAN /\ room \in BOOLEAN /\ open \in BOOLEAN
      /\ sway_gone \in BOOLEAN /\ watched \in BOOLEAN
      /\ {dirty, exit_on_reload} \subseteq BOOLEAN
  BY DEF Init, Sway!Init
<1>3. TypeOK
  BY <1>1, <1>2, MainLoopAssumption DEF Init, TypeOK, Stages
<1> QED
  BY <1>3 DEF Init, Inv, ReadsAreMatched, NothingQueued, NothingDirty, PollIsFlushed

-----------------------------------------------------------------------------
(***************************************************************************)
(* The steps of the compositor and of Sway.                                *)
(***************************************************************************)
LEMMA OthersKeepInv ==
    ASSUME Inv, Others
    PROVE  Inv'
<1> USE MainLoopAssumption
        DEF Inv, TypeOK, Stages, ReadsAreMatched, NothingQueued, NothingDirty,
            PollIsFlushed, compositor, stream, library, main
<1>1. CASE CompositorSends
  BY <1>1 DEF CompositorSends
<1>2. CASE CompositorReads
  BY <1>2 DEF CompositorReads
<1>3. CASE CompositorLeaves
  BY <1>3 DEF CompositorLeaves
<1>4. ASSUME NEW type \in MessageTypes, SwaySends(type)
      PROVE  Inv'
  <2>1. sent' \in Seq(MessageTypes)
    BY <1>4 DEF SwaySends, Sway!Send
  <2> QED
    BY <1>4, <2>1 DEF SwaySends, Sway!Send
<1>5. CASE SwayLeaves
  BY <1>5 DEF SwayLeaves
<1> QED
  BY <1>1, <1>2, <1>3, <1>4, <1>5 DEF Others

(***************************************************************************)
(* The steps of main up to poll: the read is announced in PrepareRead, and *)
(* answered by whoever leaves the loop before it.                          *)
(***************************************************************************)
LEMMA StepsToPollKeepInv ==
    ASSUME Inv,
           \/ Start \/ CannotStart \/ PrepareRead
           \/ \E n \in 0..outgoing : Flush(n)
           \/ Wait \/ FlushBroken \/ CancelReadAndExit
    PROVE  Inv'
<1> USE MainLoopAssumption
        DEF Inv, TypeOK, Stages, ReadsAreMatched, NothingQueued, NothingDirty,
            PollIsFlushed, compositor, stream, library, main
<1>1. CASE Start
  <2>1. sent' \in Seq(MessageTypes) /\ delivered' \in Seq(MessageTypes)
        /\ open' \in BOOLEAN /\ watched' \in BOOLEAN
    BY <1>1 DEF Start, Sway!Close
  <2>2. outgoing' \in Nat
    BY <1>1 DEF Start
  <2> QED
    BY <1>1, <2>1, <2>2 DEF Start
<1>2. CASE CannotStart
  BY <1>2 DEF CannotStart
<1>3. CASE PrepareRead
  BY <1>3 DEF PrepareRead
<1>4. ASSUME NEW n \in 0..outgoing, Flush(n)
      PROVE  Inv'
  <2>1. outgoing' \in Nat /\ (n = outgoing => outgoing' = 0)
    BY <1>4 DEF Flush
  <2> QED
    BY <1>4, <2>1 DEF Flush, AfterPart
<1>5. CASE Wait
  BY <1>5 DEF Wait
<1>6. CASE FlushBroken
  BY <1>6 DEF FlushBroken, AfterEpipe
<1>7. CASE CancelReadAndExit
  BY <1>7 DEF CancelReadAndExit
<1> QED
  BY <1>1, <1>2, <1>3, <1>4, <1>5, <1>6, <1>7

(***************************************************************************)
(* The steps of main from poll on.                                         *)
(***************************************************************************)
LEMMA StepsFromPollKeepInv ==
    ASSUME Inv,
           \/ Poll \/ ReadEvents \/ ReadFails \/ CancelRead
           \/ Receive \/ ReceiveFails \/ EndReceive \/ Render \/ Exit
    PROVE  Inv'
<1> USE MainLoopAssumption
        DEF Inv, TypeOK, Stages, ReadsAreMatched, NothingQueued, NothingDirty,
            PollIsFlushed, compositor, stream, library, main
<1>1. CASE Poll
  BY <1>1 DEF Poll
<1>2. CASE ReadEvents
  BY <1>2 DEF ReadEvents, DispatchPending
<1>3. CASE ReadFails
  BY <1>3 DEF ReadFails
<1>4. CASE CancelRead
  BY <1>4 DEF CancelRead
<1>5. CASE Receive
  <2>1. sent[Len(delivered) + 1] \in MessageTypes
    BY <1>5 DEF Receive, Sway!Deliver
  <2>2. delivered' \in Seq(MessageTypes)
    BY <1>5, <2>1 DEF Receive, Sway!Deliver
  <2>3. dirty' \in BOOLEAN /\ pc' \in {"receive", "exit"} /\ pc = "receive"
    BY <1>5 DEF Receive, Receiving, Obey
  <2> QED
    BY <1>5, <2>2, <2>3 DEF Receive, Sway!Deliver
<1>6. CASE ReceiveFails
  BY <1>6 DEF ReceiveFails, Receiving, Sway!Close
<1>7. CASE EndReceive
  BY <1>7 DEF EndReceive
<1>8. CASE Render
  <2>1. outgoing' \in Nat
    BY <1>8 DEF Render
  <2>2. {dirty', exit_on_reload'} \subseteq BOOLEAN
    BY <1>8 DEF Render
  <2> QED
    BY <1>8, <2>1, <2>2 DEF Render
<1>9. CASE Exit
  BY <1>9 DEF Exit, Sway!Close
<1> QED
  BY <1>1, <1>2, <1>3, <1>4, <1>5, <1>6, <1>7, <1>8, <1>9

LEMMA StepsKeepInv == Inv /\ [Next]_vars => Inv'
<1> SUFFICES ASSUME Inv, [Next]_vars
             PROVE  Inv'
  OBVIOUS
<1>1. CASE Next
  BY <1>1, OthersKeepInv, StepsToPollKeepInv, StepsFromPollKeepInv DEF Next, Main
<1>2. CASE UNCHANGED vars
  BY <1>2 DEF vars, compositor, stream, library, main, Inv, TypeOK,
              ReadsAreMatched, NothingQueued, NothingDirty, PollIsFlushed
<1> QED
  BY <1>1, <1>2

-----------------------------------------------------------------------------
LEMMA InvHolds == Spec => []Inv
<1> QED
  BY InitInv, StepsKeepInv, PTL DEF Spec

(***************************************************************************)
(* The state of the loop stays typed.                                      *)
(***************************************************************************)
THEOREM TypeCorrect == Spec => []TypeOK
<1>1. Inv => TypeOK
  BY DEF Inv
<1> QED
  BY InvHolds, <1>1, PTL

(***************************************************************************)
(* Every read announced to libwayland is answered by a read or a           *)
(* cancellation, once, on every path through the loop and out of it.       *)
(***************************************************************************)
THEOREM ReadsMatched == Spec => []ReadsAreMatched
<1>1. Inv => ReadsAreMatched
  BY DEF Inv
<1> QED
  BY InvHolds, <1>1, PTL

(***************************************************************************)
(* main never falls asleep on events not dispatched, changes not drawn or  *)
(* requests it could still send.                                           *)
(***************************************************************************)
THEOREM SleepsOnNothing == Spec => []SleepsWithNothingToDo
<1>1. Inv => SleepsWithNothingToDo
  BY DEF Inv, SleepsWithNothingToDo, NothingQueued, NothingDirty, PollIsFlushed
<1> QED
  BY InvHolds, <1>1, PTL
=============================================================================
