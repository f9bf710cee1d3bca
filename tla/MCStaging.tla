------------------------------ MODULE MCStaging ------------------------------
EXTENDS Staging, TLC

(* Goroutines of one kind are interchangeable, and so are the files.        *)
StagingSymmetry == Permutations(Uploads) \cup Permutations(Managers)
                   \cup Permutations(Paths)

(* A client that is neither orderly nor careful is promised nothing but     *)
(* ActiveIsExact, which does not depend on it: it is not followed further.  *)
Promised == orderly \/ careful

(* What is only looked at while the client is orderly, or careful, does not *)
(* tell states apart once it is not: it never is again, and no action reads *)
(* promoted or removed.                                                     *)
PromisedView ==
    <<session, disk, active, pc, path, handle, names, roots, acked, client,
      IF careful THEN promoted ELSE {}, IF orderly THEN removed ELSE {}>>

=============================================================================
