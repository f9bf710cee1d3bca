--------------------------- MODULE MCOfferNonces ---------------------------
(* Model values for OfferNonces.                                           *)
EXTENDS OfferNonces, TLC

CONSTANT t1

(* A transfer that is offered twice.                                        *)
OfOne == [n \in Nonces |-> t1]

(* Nonces and handlers are interchangeable.                                 *)
NonceSymmetry == Permutations(Nonces) \cup Permutations(Handlers)

=============================================================================
