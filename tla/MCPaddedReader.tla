--------------------------- MODULE MCPaddedReader ---------------------------
(* A model-checking instance of PaddedReader: every resource up to two blocks and a byte,
   of bytes that a padding length could be taken for. *)
EXTENDS PaddedReader

CONSTANT MaxLen   \* bound on the length of a resource

MCInputs == UNION {[1..n -> {0, 2}] : n \in 0..MaxLen}
=============================================================================
