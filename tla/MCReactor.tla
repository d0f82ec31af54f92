----------------------------- MODULE MCReactor ------------------------------
(* Reactor with interchangeable requests, for TLC. *)
EXTENDS Reactor, TLC

RequestSymmetry == Permutations(Requests)

=============================================================================
