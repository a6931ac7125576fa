----------------------------- MODULE MCDhanOrders -----------------------------
(* Small instances of DhanOrders for TLC. *)
EXTENDS DhanOrders

\* A plan of a full child and the rest of the quantity.
UnevenQty == <<2, 1>>
=============================================================================
