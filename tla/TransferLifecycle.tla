------------------------- MODULE TransferLifecycle -------------------------
(***************************************************************************)
(* What the documents promise of an incoming transfer.  Its states and      *)
(* decisions are those of docs/transfer-ui.md (no file bytes before the     *)
(* user accepts; either side can cancel a transfer that is not over; a      *)
(* transfer that is over stays in the history until it is cleared) and      *)
(* docs/transfer-protocol.md (files are committed only while verifying, and *)
(* Completed follows the last of them).  The promise about single steps is  *)
(* for requests that come one after the other; what is left when they       *)
(* overlap is Disorderly.  TransferReceiver implements this specification.  *)
(***************************************************************************)
CONSTANT Files

VARIABLES
    status,     \* the state of the transfer
    accepted,   \* the user has accepted it
    moved,      \* files at their destination
    spoiled,    \* those of them whose bytes are not the manifest's
    orderly     \* no two requests have overlapped yet

lifecycleVars == <<status, accepted, moved, spoiled, orderly>>

Statuses == {"Absent", "Queued", "Receiving", "Paused", "Verifying", "Completed",
             "Cancelled", "Failed"}

(* The states that may follow each state.                                  *)
Follows ==
    [Absent    |-> {"Queued"},
     Queued    |-> {"Receiving", "Cancelled"},
     Receiving |-> {"Paused", "Verifying", "Cancelled"},
     Paused    |-> {"Receiving", "Cancelled"},
     Verifying |-> {"Receiving", "Completed", "Failed", "Cancelled"},
     Failed    |-> {"Receiving", "Cancelled", "Absent"},
     Completed |-> {"Absent"},
     Cancelled |-> {"Absent"}]

LifecycleInit ==
    /\ status = "Absent" /\ accepted = FALSE
    /\ moved = {} /\ spoiled = {} /\ orderly = TRUE

Decide ==
    /\ orderly /\ status = "Queued"
    /\ accepted' = TRUE
    /\ UNCHANGED <<status, moved, spoiled, orderly>>

Become(s) ==
    /\ orderly /\ s \in Follows[status]
    /\ s = "Receiving" => accepted
    /\ s = "Completed" => moved = Files
    /\ status' = s
    /\ UNCHANGED <<accepted, moved, spoiled, orderly>>

Move(f) ==
    /\ orderly /\ status = "Verifying"
    /\ moved' = moved \cup {f}
    /\ UNCHANGED <<status, accepted, spoiled, orderly>>

(* A request comes while another one is being served.                      *)
Overlap ==
    /\ orderly /\ orderly' = FALSE
    /\ \/ UNCHANGED accepted
       \/ status = "Queued" /\ accepted' = TRUE
    /\ UNCHANGED <<status, moved, spoiled>>

(* What holds even from then on: a file is moved only for a transfer the    *)
(* user accepted, and Completed means that every file was.                 *)
Disorderly ==
    /\ ~orderly /\ UNCHANGED orderly
    /\ accepted => accepted'
    /\ moved \subseteq moved' /\ (moved' # moved => accepted)
    /\ status' \in Statuses /\ (status' = "Completed" => moved' = Files)
    /\ spoiled' \subseteq moved'

LifecycleNext ==
    \/ Decide \/ Overlap \/ Disorderly
    \/ \E s \in Statuses : Become(s)
    \/ \E f \in Files : Move(f)

LifecycleSpec == LifecycleInit /\ [][LifecycleNext]_lifecycleVars

=============================================================================
