------------------------- MODULE MCTransferReceiver -------------------------
(* Instances of TransferReceiver for TLC.                                  *)
EXTENDS TransferReceiver, TLC

CONSTANTS c1, c2

(* c1 is file 1, c2 is file 2.                                             *)
TwoFiles == (c1 :> 1) @@ (c2 :> 2)

(* c1 is file 1; file 2 is empty.                                          *)
OneAndEmpty == c1 :> 1

=============================================================================
