-------------------------------- MODULE Filters ------------------------------
(***************************************************************************)
(* What Array.filter keeps of a list: the elements at some positions, in   *)
(* the order of the list.  The n-th element kept is the one with n kept    *)
(* positions up to its own.                                                *)
(***************************************************************************)
EXTENDS Integers, FiniteSets

Rank(at, i) == Cardinality({j \in at : j <= i})

KeptAt(s, at) == [n \in 1..Cardinality(at) |-> s[CHOOSE i \in at : Rank(at, i) = n]]

=============================================================================
