-------------------------- MODULE MCSignedRequests --------------------------
(* SignedRequests with the names of the clients as a symmetry set for TLC. *)
EXTENDS SignedRequests, TLC

Symmetry == Permutations(Clients)

=============================================================================
