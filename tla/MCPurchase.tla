----------------------------- MODULE MCPurchase -----------------------------
(* A model-checking instance of Purchase: requests on one purchase, one after the other. *)
EXTENDS Purchase
=============================================================================
