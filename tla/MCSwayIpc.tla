------------------------------ MODULE MCSwayIpc ------------------------------
(***************************************************************************)
(* Constants for model-checking SwayIpc: messages without payload, with    *)
(* payloads of two lengths, and with one that overflows SizeMax; a header  *)
(* of three bytes.                                                         *)
(***************************************************************************)
EXTENDS SwayIpc

Message(size, type) == [size |-> size, type |-> type]

MCMessages == {Message(0, "other"), Message(1, "event"), Message(2, "reply"),
               Message(5, "event")}

\* SUBSCRIBE has a payload, GET_WORKSPACES has none.
MCRequests == <<2, 0>>

MCJunk == Message(1, "junk")
=============================================================================
