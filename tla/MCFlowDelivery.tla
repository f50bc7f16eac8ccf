--------------------------- MODULE MCFlowDelivery ---------------------------
(* Instances of FlowDelivery for TLC. *)
EXTENDS FlowDelivery
=============================================================================
