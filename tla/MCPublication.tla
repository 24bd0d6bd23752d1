---------------------------- MODULE MCPublication ----------------------------
(* A model-checking instance of Publication: two overlapping runs on one content id. *)
EXTENDS Publication
=============================================================================
