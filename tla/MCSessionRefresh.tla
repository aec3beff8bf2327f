-------------------------- MODULE MCSessionRefresh --------------------------
(***************************************************************************)
(* TLC instances of SessionRefresh: requests are symmetric.                *)
(***************************************************************************)
EXTENDS SessionRefresh, TLC

Symmetry == Permutations(Requests)

=============================================================================
