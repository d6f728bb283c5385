------------------------------ MODULE Messages ------------------------------
(***************************************************************************)
(* handle_sway_workspaces and handle_sway_workspace_event (main.c): how a  *)
(* message of Sway is read with the tokenizer of json.c and becomes calls  *)
(* of update_workspace (module Workspaces).  A step is one round of a loop *)
(* of the handler.  Strings are decoded in place: what has been read of    *)
(* the message is overwritten with the names found in it.                  *)
(*                                                                         *)
(* Each behaviour handles one message; nothing but what the calls leave is *)
(* kept between messages.                                                  *)
(***************************************************************************)
EXTENDS Json

(***************************************************************************)
(* A message is "intact"; or "cut" short; or "changed" in one byte; or has *)
(* "any" text as the value of a member that the handlers do not know.  Of  *)
(* the first two it is known which calls of update_workspace, and whether  *)
(* an exit, it asked for before it was damaged.                            *)
(***************************************************************************)
CONSTANTS
    Inputs,         \* the messages: [type, payload, kind, calls, exit], see below
    NULL,           \* no name
    ExitOnReload,   \* --exit-on-reload
    AllocMayFail    \* whether update_workspace may fail

ASSUME MessagesAssumption ==
    /\ \A i \in Inputs :
        /\ i.type \in {"workspaces", "event"}
        /\ i.kind \in {"intact", "cut", "changed", "any"}
        /\ i.payload \in Seq(Byte)
    /\ ExitOnReload \in BOOLEAN
    /\ AllocMayFail \in BOOLEAN

VARIABLES
    input,          \* the message
    stage,          \* the loop the handler is in
    buffer,         \* the payload, as it is now
    s,              \* the tokenizer
    json_buffer,    \* where the next string is written
    name, output,   \* where they have been written, or NULL
    visible,        \* whether the workspace is
    update,         \* whether the event is of a kind that matters
    calls,          \* of update_workspace
    refused,        \* whether one has failed
    trimmed,        \* whether the rest of the old list has been removed
    exit,           \* state->exit
    error           \* what the handler returns

found == <<name, output, visible, update>>
parser == <<buffer, s, json_buffer>>
result == <<calls, refused, trimmed, exit, error>>
vars == <<input, stage, parser, found, result>>

-----------------------------------------------------------------------------
Text ==
    [name    |-> <<110, 97, 109, 101>>,
     output  |-> <<111, 117, 116, 112, 117, 116>>,
     visible |-> <<118, 105, 115, 105, 98, 108, 101>>,
     change  |-> <<99, 104, 97, 110, 103, 101>>,
     current |-> <<99, 117, 114, 114, 101, 110, 116>>,
     init    |-> <<105, 110, 105, 116>>,
     focus   |-> <<102, 111, 99, 117, 115>>,
     move    |-> <<109, 111, 118, 101>>,
     rename  |-> <<114, 101, 110, 97, 109, 101>>,
     reload  |-> <<114, 101, 108, 111, 97, 100>>]

\* One word after the other is tried, each on the state the one before has
\* left; the first that is there, or "" if none is.
TryWord(tried, word, is_key) ==
    LET u == String(buffer, tried.s, Text[word], is_key)
    IN  IF tried.word # "" THEN tried
        ELSE [word |-> IF u.ok THEN word ELSE "", s |-> u]

TryEach(t, words, is_key) ==
    LET tried[k \in 0..Len(words)] ==
            IF k = 0 THEN [word |-> "", s |-> t]
            ELSE TryWord(tried[k - 1], words[k], is_key)
    IN  tried[Len(words)]

TryKeys(keys) == TryEach(s, keys, TRUE)

\* The string at p of the buffer, up to the terminating 0.
CString(p) ==
    SubSeq(buffer, p, (CHOOSE q \in p..Len(buffer) :
        /\ buffer[q] = 0
        /\ \A r \in p..(q - 1) : buffer[r] # 0) - 1)

Return(e) == stage' = "done" /\ error' = e

\* return s.err ? s.err : "..."
ReturnOr(t, complaint) == Return(IF t.err # None THEN t.err ELSE complaint)

Parse(t) == s' = t /\ UNCHANGED <<buffer, json_buffer>>

\* A string is read into a variable, behind those that have been read.
\* Mutant: all are written to the same place.
ReadOver(t, complaint) ==
    \E r \in {GetString(buffer, t, json_buffer)} :
        /\ s' = r.s
        /\ buffer' = r.d
        /\ UNCHANGED json_buffer
        /\ IF r.s.ok THEN UNCHANGED <<stage, error>> ELSE ReturnOr(r.s, complaint)

Read(t, complaint) ==
    \E r \in {GetString(buffer, t, json_buffer)} :
        /\ s' = r.s
        /\ buffer' = r.d
        /\ json_buffer' = json_buffer + r.size
        /\ IF r.s.ok THEN UNCHANGED <<stage, error>> ELSE ReturnOr(r.s, complaint)

UpdateWorkspace ==
    /\ calls' = Append(calls, [name |-> CString(name), output |-> CString(output)])
    /\ refused' \in {FALSE, AllocMayFail}

-----------------------------------------------------------------------------
(***************************************************************************)
(* handle_sway_workspaces.                                                 *)
(***************************************************************************)
OpenReply ==
    /\ stage = "start"
    /\ input.type = "workspaces"
    /\ LET t == Begin(buffer, JsonInit(buffer), OpenList)
       IN  /\ Parse(t)
           /\ IF t.ok THEN stage' = "list" /\ UNCHANGED error
              ELSE ReturnOr(t, "no list")
    /\ UNCHANGED <<found, calls, refused, trimmed, exit>>

EndReply ==
    /\ stage = "list"
    /\ LET t == End(buffer, s, CloseList)
       IN  /\ t.ok
           /\ Parse(t)
           /\ Return(t.err)
    /\ trimmed' = TRUE
    /\ UNCHANGED <<found, calls, refused, exit>>

OpenElement ==
    /\ stage = "list"
    /\ ~End(buffer, s, CloseList).ok
    /\ LET t == Begin(buffer, s, OpenObject)
       IN  /\ Parse(t)
           /\ IF t.ok THEN stage' = "element" /\ UNCHANGED error
              ELSE ReturnOr(t, "no object")
    /\ name' = NULL
    /\ output' = NULL
    /\ visible' = FALSE
    /\ UNCHANGED <<update, calls, refused, trimmed, exit>>

Usable == name # NULL /\ output # NULL /\ visible

CloseElement ==
    /\ stage = "element"
    /\ LET t == End(buffer, s, CloseObject)
       IN  t.ok /\ Parse(t)
    /\ IF Usable THEN UpdateWorkspace ELSE UNCHANGED <<calls, refused>>
    /\ IF refused' THEN Return(None) ELSE stage' = "list" /\ UNCHANGED error
    /\ UNCHANGED <<found, trimmed, exit>>

\* What has been found is not looked for again.
Wanted ==
    LET If(missing, word) == IF missing THEN <<word>> ELSE <<>>
    IN  If(name = NULL, "name") \o If(output = NULL, "output") \o If(~visible, "visible")

ElementMember ==
    /\ stage = "element"
    /\ ~End(buffer, s, CloseObject).ok
    /\ \E key \in {TryKeys(Wanted)} :
       LET istrue == Match(buffer, key.s, TrueText)
       IN  \/ /\ key.word = "name"
              /\ Read(key.s, "no string")
              /\ name' = json_buffer
              /\ UNCHANGED <<output, visible>>
           \/ /\ key.word = "output"
              /\ Read(key.s, "no string")
              /\ output' = json_buffer
              /\ UNCHANGED <<name, visible>>
           \/ /\ key.word = "visible"
              /\ Parse(IF istrue.ok THEN istrue ELSE SkipValue(buffer, istrue))
              /\ visible' = istrue.ok
              /\ UNCHANGED <<name, output, stage, error>>
           \/ /\ key.word = ""
              /\ Parse(SkipKeyValuePair(buffer, key.s))
              /\ UNCHANGED <<name, output, visible, stage, error>>
    /\ UNCHANGED <<update, calls, refused, trimmed, exit>>

-----------------------------------------------------------------------------
(***************************************************************************)
(* handle_sway_workspace_event.                                            *)
(***************************************************************************)
OpenEvent ==
    /\ stage = "start"
    /\ input.type = "event"
    /\ LET t == Begin(buffer, JsonInit(buffer), OpenObject)
       IN  /\ Parse(t)
           /\ IF t.ok THEN stage' = "event" /\ UNCHANGED error
              ELSE ReturnOr(t, "no object")
    /\ UNCHANGED <<found, calls, refused, trimmed, exit>>

\* Whether there was memory to merge the event makes no difference.
CloseEvent ==
    /\ stage = "event"
    /\ LET t == End(buffer, s, CloseObject)
       IN  /\ t.ok
           /\ Parse(t)
           /\ Return(t.err)
    /\ IF name # NULL /\ output # NULL /\ update
       THEN UpdateWorkspace ELSE UNCHANGED <<calls, refused>>
    /\ UNCHANGED <<found, trimmed, exit>>

\* A change of another kind ends it, and a reload perhaps the program.
Change(t) ==
    \E kind \in {TryEach(t, <<"init", "focus", "move", "rename">>, FALSE)} :
        IF kind.word # ""
        THEN Parse(kind.s) /\ update' = TRUE /\ UNCHANGED <<stage, exit, error>>
        ELSE \E end \in {IF ExitOnReload THEN String(buffer, kind.s, Text["reload"], FALSE)
                         ELSE No(kind.s)} :
                /\ Parse(end)
                /\ Return(end.err)
                /\ exit' = end.ok
                /\ UNCHANGED update

EventMember ==
    /\ stage = "event"
    /\ ~End(buffer, s, CloseObject).ok
    /\ \E key \in {TryKeys(<<"change", "current">>)} :
       LET object == Begin(buffer, key.s, OpenObject)
       IN  \/ /\ key.word = "change"
              /\ Change(key.s)
           \/ /\ key.word = "current"
              /\ Parse(object)
              /\ IF object.ok THEN stage' = "current" /\ UNCHANGED error
                 ELSE ReturnOr(object, "no object")
              /\ UNCHANGED <<update, exit>>
           \/ /\ key.word = ""
              /\ Parse(SkipKeyValuePair(buffer, key.s))
              /\ UNCHANGED <<update, stage, exit, error>>
    /\ UNCHANGED <<name, output, visible, calls, refused, trimmed>>

CloseCurrent ==
    /\ stage = "current"
    /\ LET t == End(buffer, s, CloseObject)
       IN  t.ok /\ Parse(t)
    /\ stage' = "event"
    /\ UNCHANGED <<found, result>>

CurrentMember ==
    /\ stage = "current"
    /\ ~End(buffer, s, CloseObject).ok
    /\ \E key \in {TryKeys(<<"name", "output">>)} :
        \/ /\ key.word = "name"
           /\ Read(key.s, "no string")
           /\ name' = json_buffer
           /\ UNCHANGED output
        \/ /\ key.word = "output"
           /\ Read(key.s, "no string")
           /\ output' = json_buffer
           /\ UNCHANGED name
        \/ /\ key.word = ""
           /\ Parse(SkipKeyValuePair(buffer, key.s))
           /\ UNCHANGED <<name, output, stage, error>>
    /\ UNCHANGED <<visible, update, calls, refused, trimmed, exit>>

-----------------------------------------------------------------------------
Init ==
    /\ input \in Inputs
    /\ stage = "start"
    /\ buffer = input.payload
    /\ s = JsonInit(buffer)
    /\ json_buffer = 1
    /\ name = NULL /\ output = NULL /\ visible = FALSE /\ update = FALSE
    /\ calls = <<>> /\ refused = FALSE /\ trimmed = FALSE /\ exit = FALSE /\ error = None

Handle ==
    \/ OpenReply \/ EndReply \/ OpenElement \/ CloseElement \/ ElementMember
    \/ OpenEvent \/ CloseEvent \/ EventMember \/ CloseCurrent \/ CurrentMember

\* The handler has returned to main.
Terminating == stage = "done" /\ UNCHANGED vars

Next == (Handle /\ UNCHANGED input) \/ Terminating

Spec == Init /\ [][Next]_vars

-----------------------------------------------------------------------------
(***************************************************************************)
(* Properties.                                                             *)
(***************************************************************************)
Done == stage = "done"

(***************************************************************************)
(* A message as Sway sends it is understood: exactly the workspaces it     *)
(* reports are merged, under exactly their names, in order, wherever the   *)
(* members stand and whatever else is there, and without complaint; a      *)
(* reload ends the program if that is asked for.  Only out of memory the   *)
(* rest of a reply is left undone, and with it the old list.               *)
(***************************************************************************)
IntactIsUnderstood ==
    Done /\ input.kind = "intact" =>
        /\ error = None
        /\ exit = input.exit
        /\ IsPrefix(calls, input.calls)
        /\ calls = input.calls \/ refused
        /\ trimmed <=> input.type = "workspaces" /\ ~refused

(***************************************************************************)
(* A message that ends too early is not taken for a complete one: what is  *)
(* merged of it is the beginning of what it was about, nothing is made up  *)
(* at the place where it ends, and the error is reported.  Two exceptions: *)
(* memory that ran out, and an event that calls for no update, because its *)
(* kind is of no interest or because it ends before that is known.         *)
(***************************************************************************)
CutIsNoticed ==
    Done /\ input.kind = "cut" =>
        /\ IsPrefix(calls, input.calls)
        /\ exit => input.exit
        /\ error # None \/ refused \/ (input.type = "event" /\ ~update)

(***************************************************************************)
(* Decoding in place loses nothing.  It never reaches what has not been    *)
(* read: the write position stays behind the tokenizer's, which stays      *)
(* inside the document, whose rest is as it was received.  And a string    *)
(* that has been found is not written over, and ends, before the write     *)
(* position, so that update_workspace reads nothing of the message itself. *)
(***************************************************************************)
BufferIsIntact ==
    /\ s.cur <= s.end /\ s.end <= Len(buffer) + 1
    /\ json_buffer <= s.cur
    /\ SubSeq(buffer, s.cur, s.end - 1) = SubSeq(input.payload, s.cur, s.end - 1)
    /\ ~Done => \A p \in {name, output} \ {NULL} :
                    \E q \in p..(json_buffer - 1) : buffer[q] = 0

(***************************************************************************)
(* The handlers' loops ignore the results of skipping, and do not test for *)
(* errors; yet every round takes something from the message, or leaves a   *)
(* loop at its end: however broken it is, the handler returns.             *)
(***************************************************************************)
Depth == [done |-> 0, start |-> 1, list |-> 1, event |-> 1, element |-> 2, current |-> 2]
Left == s.end - s.cur

EveryRoundAdvances ==
    [][Left' < Left \/ (Left' = Left /\ Depth[stage'] < Depth[stage])]_vars
=============================================================================
