-------------------------- MODULE DestinationCommit --------------------------
(***************************************************************************)
(* How Finalize moves a verified file into the folder the user has chosen:  *)
(* the check of Accept, resolveConflict, which looks for a free name one     *)
(* Lstat at a time, and commitFile, which renames the .part to that name or *)
(* copies it (src/backend/internal/transfer/files.go, service.go).           *)
(*                                                                         *)
(* All transfers deliver a file of the same name into the same folder: files *)
(* with other names do not meet.  Path 0 is that name, path i is "name (i)". *)
(* Meanwhile the user, or another program, works in the folder.  A step is   *)
(* one file operation; nothing locks the folder from one to the next.        *)
(***************************************************************************)
EXTENDS Integers

CONSTANTS
    Transfers,  \* incoming transfers
    user,       \* whoever else writes in the folder
    MaxSuffix   \* the last suffix resolveConflict tries (9999 in the code)

ASSUME CommitAssumption == user \notin Transfers /\ MaxSuffix \in Nat

VARIABLES
    policy,      \* policy[t] is t's ConflictPolicy
    pc,          \* where Accept and Finalize of t are
    at,          \* at[t]: the suffix resolveConflict has come to
    target,      \* target[t]: the path it has chosen
    folder,      \* folder[p] is what lies at path p
    output,      \* output[t]: the path of the file t is copying to, or -1 if it
                 \* copies to none or that file has lost its name
    shared,      \* history: whose target another commit, then under way, has
                 \* chosen too
    released     \* history: whose target the user, or a transfer that was to
                 \* overwrite it, has changed after it was chosen

commit == <<policy, at, target>>
vars == <<policy, pc, at, target, folder, output, shared, released>>

Policies == {"prompt", "rename", "overwrite"}
Paths == 0..MaxSuffix

(* What lies at a path: nothing, a directory, a file, the beginning of one, *)
(* or a file that two transfers have written to; and whose it is.           *)
Entry == [by : Transfers \cup {user},
          kind : {"nothing", "directory", "file", "partial", "mixed"}]
Nothing == [by |-> user, kind |-> "nothing"]
File(t) == [by |-> t, kind |-> "file"]
Exists(p) == folder[p] # Nothing

Committing == {"resolve", "look", "remove", "rename", "open", "copy", "removeSource"}

Init ==
    /\ policy = [t \in Transfers |-> "prompt"]
    /\ pc = [t \in Transfers |-> "offered"]
    /\ at = [t \in Transfers |-> 0]
    /\ target = [t \in Transfers |-> 0]
    /\ folder \in [Paths -> {Nothing, File(user)}]
    /\ output = [t \in Transfers |-> -1]
    /\ shared = {}
    /\ released = {}

Goto(t, step) == pc' = [pc EXCEPT ![t] = step]

(* Path p holds another entry.  A file that is replaced or removed lives on  *)
(* without a name for those who are writing to it.                          *)
Put(p, entry) ==
    /\ folder' = [folder EXCEPT ![p] = entry]
    /\ output' = [t \in Transfers |-> IF output[t] = p THEN -1 ELSE output[t]]

(* t changes path p: it was another transfer's that t is to overwrite.       *)
Claim(t, p) ==
    released' = released \cup
        {o \in Transfers \ {t} : policy[t] = "overwrite" /\ target[o] = p}

Fail(t) ==
    /\ Goto(t, "failed")
    /\ output' = [output EXCEPT ![t] = -1]

-----------------------------------------------------------------------------
(* Accept with a policy; "prompt" is refused if the name is taken.          *)
Accept(t) ==
    /\ pc[t] = "offered"
    /\ \E p \in Policies :
          /\ p = "prompt" => ~Exists(0)
          /\ policy' = [policy EXCEPT ![t] = p]
    /\ Goto(t, "receiving")
    /\ UNCHANGED <<at, target, folder, output, shared, released>>

(* All chunks have arrived and are verified: the second loop of Finalize.    *)
(* The .part stays until t is delivered.                                    *)
BeginCommit(t) ==
    /\ pc[t] = "receiving"
    /\ Goto(t, "resolve")
    /\ at' = [at EXCEPT ![t] = 0]
    /\ UNCHANGED <<policy, target, folder, output, shared, released>>

(* resolveConflict returns the path that t has come to.                     *)
Choose(t) ==
    LET others == {o \in Transfers \ {t} :
                      pc[o] \in Committing \ {"resolve"} /\ target[o] = at[t]}
    IN  /\ target' = [target EXCEPT ![t] = at[t]]
        /\ shared' = IF others = {} THEN shared \ {t}
                     ELSE shared \cup others \cup {t}
        /\ released' = released \ {t}

(* Mutant of ResolveConflict: nobody looks whether "name (1)" is free.       *)
ResolveConflictOnce(t) ==
    /\ pc[t] = "resolve"
    /\ \/ /\ ~Exists(at[t]) \/ policy[t] = "overwrite" \/ at[t] > 0
          /\ Choose(t)
          /\ Goto(t, IF policy[t] = "overwrite" THEN "look" ELSE "rename")
          /\ UNCHANGED at
       \/ /\ Exists(at[t]) /\ policy[t] = "rename" /\ at[t] = 0 /\ MaxSuffix > 0
          /\ at' = [at EXCEPT ![t] = 1]
          /\ UNCHANGED <<pc, target, shared, released>>
       \/ /\ Goto(t, "failed")
          /\ UNCHANGED <<at, target, shared, released>>
    /\ UNCHANGED <<policy, folder, output>>

(* resolveConflict, one Lstat.  It fails if the name is taken and the policy *)
(* is "prompt", if no suffix is free, or if the Lstat fails; so does Finalize *)
(* if the directory of the path cannot be made.                             *)
ResolveConflict(t) ==
    /\ pc[t] = "resolve"
    /\ \/ /\ ~Exists(at[t]) \/ policy[t] = "overwrite"
          /\ Choose(t)
          /\ Goto(t, IF policy[t] = "overwrite" THEN "look" ELSE "rename")
          /\ UNCHANGED at
       \/ /\ Exists(at[t]) /\ policy[t] = "rename" /\ at[t] < MaxSuffix
          /\ at' = [at EXCEPT ![t] = @ + 1]
          /\ UNCHANGED <<pc, target, shared, released>>
       \/ /\ Goto(t, "failed")
          /\ UNCHANGED <<at, target, shared, released>>
    /\ UNCHANGED <<policy, folder, output>>

(* commitFile, if it is to overwrite, first looks: it refuses a directory.    *)
LookAtTarget(t) ==
    /\ pc[t] = "look"
    /\ \/ ~Exists(target[t]) /\ Goto(t, "rename") /\ UNCHANGED output
       \/ /\ Exists(target[t]) /\ folder[target[t]].kind # "directory"
          /\ Goto(t, "remove") /\ UNCHANGED output
       \/ Fail(t)
    /\ UNCHANGED <<commit, folder, shared, released>>

(* Then os.Remove takes away whatever lies there by now, an empty directory  *)
(* too, and fails if nothing does.                                          *)
Remove(t) ==
    /\ pc[t] = "remove"
    /\ \/ /\ Exists(target[t])
          /\ Put(target[t], Nothing)
          /\ Claim(t, target[t])
          /\ Goto(t, "rename")
       \/ Fail(t) /\ UNCHANGED <<folder, released>>
    /\ UNCHANGED <<commit, shared>>

(* os.Rename replaces a file without asking; it fails on a directory and     *)
(* across file systems, and commitFile then copies.                         *)
Rename(t) ==
    /\ pc[t] = "rename"
    /\ \/ /\ folder[target[t]].kind # "directory"
          /\ Put(target[t], File(t))
          /\ Claim(t, target[t])
          /\ Goto(t, "delivered")
       \/ Goto(t, "open") /\ UNCHANGED <<folder, output, released>>
    /\ UNCHANGED <<commit, shared>>

(* os.OpenFile: exclusively, or truncating what is there.                   *)
Open(t) ==
    /\ pc[t] = "open"
    /\ \/ /\ ~Exists(target[t]) \/ policy[t] = "overwrite"
          /\ folder[target[t]].kind # "directory"
          /\ folder' = [folder EXCEPT ![target[t]] = [by |-> t, kind |-> "partial"]]
          /\ output' = [output EXCEPT ![t] = target[t]]
          /\ Claim(t, target[t])
          /\ Goto(t, "copy")
       \/ Fail(t) /\ UNCHANGED <<folder, released>>
    /\ UNCHANGED <<commit, shared>>

(* Mutant of Copy: the error of the copy is not looked at.                  *)
CopyIgnoresError(t) ==
    /\ pc[t] = "copy"
    /\ \/ UNCHANGED folder
       \/ /\ output[t] # -1
          /\ folder' = [folder EXCEPT ![output[t]].kind = "file"]
    /\ output' = [output EXCEPT ![t] = -1]
    /\ Goto(t, "removeSource")
    /\ UNCHANGED <<commit, shared, released>>

(* The copy and its Sync and Close.  A failure leaves what was written.      *)
Copy(t) ==
    /\ pc[t] = "copy"
    /\ \/ /\ IF output[t] = -1 THEN UNCHANGED folder
             ELSE folder' = [folder EXCEPT ![output[t]].kind =
                                IF @ = "partial" /\ folder[output[t]].by = t
                                THEN "file" ELSE "mixed"]
          /\ output' = [output EXCEPT ![t] = -1]
          /\ Goto(t, "removeSource")
       \/ Fail(t) /\ UNCHANGED folder
    /\ UNCHANGED <<commit, shared, released>>

RemoveSource(t) ==
    /\ pc[t] = "removeSource"
    /\ Goto(t, "delivered") \/ Goto(t, "failed")
    /\ UNCHANGED <<commit, folder, output, shared, released>>

(* The user's Retry: the transfer is Receiving again, with its .part.       *)
Retry(t) ==
    /\ pc[t] = "failed"
    /\ Goto(t, "receiving")
    /\ UNCHANGED <<commit, folder, output, shared, released>>

(* The process dies; recover makes the transfers it was verifying Receiving. *)
Crash ==
    /\ pc' = [t \in Transfers |-> IF pc[t] \in Committing THEN "receiving" ELSE pc[t]]
    /\ output' = [t \in Transfers |-> -1]
    /\ UNCHANGED <<commit, folder, shared, released>>

(* The user, or another program, creates or removes something.              *)
UserChanges(p) ==
    /\ \/ /\ ~Exists(p)
          /\ \E kind \in {"file", "directory"} : Put(p, [by |-> user, kind |-> kind])
       \/ Exists(p) /\ Put(p, Nothing)
    /\ released' = released \cup {t \in Transfers : target[t] = p}
    /\ UNCHANGED <<commit, pc, shared>>

CommitStep(t) ==
    \/ BeginCommit(t) \/ ResolveConflict(t) \/ LookAtTarget(t) \/ Remove(t)
    \/ Rename(t) \/ Open(t) \/ Copy(t) \/ RemoveSource(t)

Next ==
    \/ Crash
    \/ \E p \in Paths : UserChanges(p)
    \/ \E t \in Transfers : Accept(t) \/ CommitStep(t) \/ Retry(t)

Spec == Init /\ [][Next]_vars

-----------------------------------------------------------------------------
(* Properties.                                                             *)

TypeOK ==
    /\ policy \in [Transfers -> Policies]
    /\ pc \in [Transfers -> Committing \cup
                  {"offered", "receiving", "failed", "delivered"}]
    /\ at \in [Transfers -> Paths] /\ target \in [Transfers -> Paths]
    /\ folder \in [Paths -> Entry]
    /\ output \in [Transfers -> Paths \cup {-1}]
    /\ shared \subseteq Transfers /\ released \subseteq Transfers

(* Nobody has come in t's way between resolveConflict and the end of         *)
(* commitFile, to which the code has no answer, nor taken the file away.    *)
InTurn(t) == t \notin shared \cup released

(* commitFile returns nil only when the whole file lies at the path that    *)
(* resolveConflict has chosen, and there it stays, whatever other transfers *)
(* with the same name are under way, fail in a copy or are tried again.     *)
DeliveredIsThere ==
    \A t \in Transfers :
        pc[t] = "delivered" /\ InTurn(t) => folder[target[t]] = File(t)

(* A commit that is not to overwrite changes nothing that exists, be it the *)
(* user's, another transfer's, or what an earlier attempt of its own left.  *)
KeepsWhatExists(t) ==
    \A p \in Paths :
        Exists(p) /\ output[t] # p => folder'[p] = folder[p]

KeepBothKeeps ==
    [][\A t \in Transfers :
          /\ pc[t] \in Committing /\ pc'[t] # pc[t] /\ pc'[t] # "receiving"
          /\ policy[t] # "overwrite" /\ InTurn(t)
          => KeepsWhatExists(t)]_vars

=============================================================================
