--------------------------- MODULE MCStatusServer ---------------------------
(* Model-checking instances of StatusServer. *)
EXTENDS StatusServer, TLC

\* Goroutines are interchangeable, and so are devices (safety runs only).
Symmetry == Permutations(Workers) \cup Permutations(Devices)
=============================================================================
