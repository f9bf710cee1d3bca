-------------------------- MODULE MCTransferSender --------------------------
(* Instances of TransferSender for TLC.                                    *)
EXTENDS TransferSender, TLC

WorkerSymmetry == Permutations(Workers)

=============================================================================
