------------------------------ MODULE MCPairing ------------------------------
(* Model values for Pairing.                                               *)
EXTENDS Pairing, TLC

(* Requests and devices are interchangeable.                                *)
PairingSymmetry == Permutations(Requests) \cup Permutations(Devices)

=============================================================================
