------------------------- MODULE MCDestinationCommit -------------------------
(* DestinationCommit for TLC: transfers are interchangeable.                *)
EXTENDS DestinationCommit, TLC

TransferSymmetry == Permutations(Transfers)

=============================================================================
