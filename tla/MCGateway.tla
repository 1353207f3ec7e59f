----------------------------- MODULE MCGateway -----------------------------
(* Instances of Gateway small enough for TLC. *)
EXTENDS Gateway, TLC

Symmetry == Permutations(Ips)
=============================================================================
