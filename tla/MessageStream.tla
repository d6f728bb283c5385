---------------------------- MODULE MessageStream ----------------------------
(***************************************************************************)
(* What the client side of the Sway IPC promises to main.c (sway-ipc.h):   *)
(* the messages Sway has sent are received whole, once each, in the order  *)
(* they were sent, until the connection is lost for good.                  *)
(***************************************************************************)
EXTENDS Naturals, Sequences

CONSTANT Messages

VARIABLES
    sent,       \* the messages of Sway
    delivered,  \* those sway_ipc_recv has returned
    open        \* whether the socket is open

vars == <<sent, delivered, open>>

Init == sent = <<>> /\ delivered = <<>> /\ open = TRUE

Send(m) ==
    /\ sent' = Append(sent, m)
    /\ UNCHANGED <<delivered, open>>

Deliver ==
    /\ open
    /\ Len(delivered) < Len(sent)
    /\ delivered' = Append(delivered, sent[Len(delivered) + 1])
    /\ UNCHANGED <<sent, open>>

Close ==
    /\ open' = FALSE
    /\ UNCHANGED <<sent, delivered>>

Next == (\E m \in Messages : Send(m)) \/ Deliver \/ Close

Spec == Init /\ [][Next]_vars
=============================================================================
