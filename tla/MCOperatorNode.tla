--------------------------- MODULE MCOperatorNode ---------------------------
(* Constants of the runs of OperatorNode. *)
EXTENDS OperatorNode

MCKinds == {"tx", "order"}

\* with transfers to oneself
MCKindsSelf == {"tx", "self", "order"}

=============================================================================
