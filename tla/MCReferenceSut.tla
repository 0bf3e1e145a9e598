--------------------------- MODULE MCReferenceSut ---------------------------
(* Symmetry for the instances of ReferenceSut that check no liveness. *)
EXTENDS ReferenceSut, TLC

Symmetry ==
    Permutations(Order) \cup Permutations(Auth) \cup Permutations(Thread)

=============================================================================
