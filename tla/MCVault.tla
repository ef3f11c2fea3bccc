------------------------------ MODULE MCVault ------------------------------
(* Small instances of Vault. *)
EXTENDS Vault, TLC

CONSTANTS p1, p2, w1, w2, x1

Symmetry == Permutations(Clients) \cup Permutations(Slots)
============================================================================
