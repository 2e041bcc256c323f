----------------------------- MODULE MCMsgLoader -----------------------------
(* Constants of the runs of MsgLoader. *)
EXTENDS MsgLoader

MCKinds == {"tx", "unknown"}

=============================================================================
