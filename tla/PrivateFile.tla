---------------------------- MODULE PrivateFile ----------------------------
(***************************************************************************)
(* The way both identity.go (atomicWritePrivateFile) and settings/store.go  *)
(* (save) replace a file: a temporary file is written, synced and renamed,  *)
(* and the result is chmod-ed.  A reader finds the old contents or the new. *)
(* An error before the rename leaves the old ones; if the chmod fails the   *)
(* caller is told of an error although the file HAS changed.               *)
(***************************************************************************)

Outcome == {"written", "refused", "writtenButRefused"}
Succeeded(outcome) == outcome = "written"
Replaced(outcome) == outcome # "refused"

=============================================================================
