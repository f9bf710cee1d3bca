----------------------- MODULE DestinationCommitProofs -----------------------
(***************************************************************************)
(* Proofs about DestinationCommit, for any number of transfers and any     *)
(* limit on the suffixes.  A path that a transfer has chosen alone is free *)
(* until it is taken, and a transfer that comes later meets it as taken or *)
(* is one that was asked to overwrite it.                                  *)
(***************************************************************************)
EXTENDS DestinationCommit, TLAPS

Pending == {"look", "remove", "rename", "open", "copy", "removeSource"}

(* Only an attempt that was asked to overwrite removes first.              *)
PolicyInv ==
    \A t \in Transfers : pc[t] \in {"look", "remove"} => policy[t] = "overwrite"

(* A file that is written to under a name is the one its commit has chosen.  *)
OutputInv ==
    \A t \in Transfers : output[t] # -1 => pc[t] = "copy" /\ output[t] = target[t]

(* What lies at the target of t while nobody has come in its way.          *)
PlaceInv ==
    \A t \in Transfers : InTurn(t) =>
        /\ pc[t] \in {"rename", "open"} => folder[target[t]] = Nothing
        /\ pc[t] = "copy" => /\ output[t] = target[t]
                             /\ folder[target[t]] = [by |-> t, kind |-> "partial"]
        /\ pc[t] \in {"removeSource", "delivered"} => folder[target[t]] = File(t)

(* Whoever else has chosen that path is about to overwrite what is there.  *)
AloneInv ==
    \A t, o \in Transfers :
        /\ t # o /\ InTurn(t) /\ pc[t] \in Pending \cup {"delivered"}
        /\ pc[o] \in Pending /\ target[o] = target[t]
        => pc[t] = "delivered" /\ policy[o] = "overwrite" /\ output[o] = -1

CommitInv == TypeOK /\ PolicyInv /\ OutputInv /\ PlaceInv /\ AloneInv

(* The types of the parts that the steps below use.                        *)
LEMMA Parts ==
    ASSUME CommitInv
    PROVE  /\ policy \in [Transfers -> Policies]
           /\ at \in [Transfers -> Paths] /\ target \in [Transfers -> Paths]
           /\ folder \in [Paths -> Entry]
           /\ output \in [Transfers -> Paths \cup {-1}]
           /\ \A p \in Paths : p # -1
BY CommitAssumption DEF CommitInv, TypeOK, Paths

(* Only t goes to another step.                                            *)
LEMMA GotoEffect ==
    ASSUME CommitInv, NEW t \in Transfers, NEW step, Goto(t, step)
    PROVE  pc'[t] = step /\ \A o \in Transfers : o # t => pc'[o] = pc[o]
BY DEF Goto, CommitInv, TypeOK

(* The entries that a commit leaves.                                       *)
LEMMA Entries ==
    ASSUME NEW t \in Transfers
    PROVE  /\ Nothing \in Entry /\ File(t) \in Entry
           /\ [by |-> t, kind |-> "partial"] \in Entry
           /\ File(t) # Nothing /\ Nothing.kind = "nothing"
BY DEF Nothing, File, Entry

(* A new entry at a path, and who loses the name of its file.              *)
LEMMA PutEffect ==
    ASSUME CommitInv, NEW p \in Paths, NEW entry \in Entry, Put(p, entry)
    PROVE  /\ folder' \in [Paths -> Entry]
           /\ output' \in [Transfers -> Paths \cup {-1}]
           /\ folder'[p] = entry
           /\ \A q \in Paths : q # p => folder'[q] = folder[q]
           /\ \A o \in Transfers :
                 output'[o] = IF output[o] = p THEN -1 ELSE output[o]
BY Parts DEF Put

(* Accept touches nothing but the policy of a transfer that has no target. *)
LEMMA AcceptStep ==
    ASSUME CommitInv, NEW t \in Transfers, Accept(t)
    PROVE  CommitInv'
<1>1. TypeOK'
  BY CommitAssumption
     DEF CommitInv, TypeOK, Policies, Paths, Entry, Nothing, File,
            Committing, Accept, Goto, commit, PolicyInv, OutputInv, PlaceInv,
            AloneInv
<1>2. PolicyInv'
  BY CommitAssumption
     DEF CommitInv, PolicyInv, Policies, Accept, Goto, commit, TypeOK,
            OutputInv, PlaceInv, AloneInv
<1>3. OutputInv'
  BY CommitAssumption
     DEF CommitInv, OutputInv, Paths, Accept, Policies, Goto, commit, TypeOK,
            PolicyInv, PlaceInv, AloneInv
<1>4. PlaceInv'
  BY CommitAssumption
     DEF CommitInv, PlaceInv, InTurn, File, Nothing, Pending, Paths, Accept,
            Policies, Goto, commit, TypeOK, PolicyInv, OutputInv, AloneInv
<1>5. AloneInv'
  BY CommitAssumption
     DEF CommitInv, AloneInv, InTurn, Pending, Committing, File, Nothing,
            Exists, Paths, Accept, Policies, Goto, commit, TypeOK, PolicyInv,
            OutputInv, PlaceInv
<1> QED BY <1>1, <1>2, <1>3, <1>4, <1>5 DEF CommitInv

(* A Finalize that begins has no target yet.                               *)
LEMMA BeginCommitStep ==
    ASSUME CommitInv, NEW t \in Transfers, BeginCommit(t)
    PROVE  CommitInv'
<1>1. TypeOK'
  BY CommitAssumption
     DEF CommitInv, TypeOK, Policies, Paths, Entry, Nothing, File,
            Committing, BeginCommit, Goto, commit, PolicyInv, OutputInv,
            PlaceInv, AloneInv
<1>2. PolicyInv'
  BY CommitAssumption
     DEF CommitInv, PolicyInv, Policies, BeginCommit, Goto, commit, TypeOK,
            OutputInv, PlaceInv, AloneInv
<1>3. OutputInv'
  BY CommitAssumption
     DEF CommitInv, OutputInv, Paths, BeginCommit, Goto, commit, TypeOK,
            PolicyInv, PlaceInv, AloneInv
<1>4. PlaceInv'
  BY CommitAssumption
     DEF CommitInv, PlaceInv, InTurn, File, Nothing, Pending, Paths,
            BeginCommit, Goto, commit, TypeOK, PolicyInv, OutputInv, AloneInv
<1>5. AloneInv'
  BY CommitAssumption
     DEF CommitInv, AloneInv, InTurn, Pending, Committing, File, Nothing,
            Exists, Paths, BeginCommit, Goto, commit, TypeOK, PolicyInv,
            OutputInv, PlaceInv
<1> QED BY <1>1, <1>2, <1>3, <1>4, <1>5 DEF CommitInv

(* A path that is chosen is free or to be overwritten, and shared is set.  *)
LEMMA ResolveConflictStep ==
    ASSUME CommitInv, NEW t \in Transfers, ResolveConflict(t)
    PROVE  CommitInv'
<1>1. TypeOK'
  <2>1. pc' \in [Transfers -> Committing \cup
                   {"offered", "receiving", "failed", "delivered"}]
    BY DEF CommitInv, TypeOK, ResolveConflict, Goto, Committing
  <2>2. at' \in [Transfers -> Paths]
    <3>1. \/ at' = at
          \/ at[t] < MaxSuffix /\ at' = [at EXCEPT ![t] = @ + 1]
      BY DEF ResolveConflict
    <3>2. at[t] < MaxSuffix => at[t] + 1 \in Paths
      BY Parts, CommitAssumption DEF Paths
    <3> QED BY <3>1, <3>2, Parts
  <2>3. target' \in [Transfers -> Paths] /\ shared' \subseteq Transfers
        /\ released' \subseteq Transfers
    BY Parts DEF CommitInv, TypeOK, ResolveConflict, Choose
  <2> QED
    BY <2>1, <2>2, <2>3 DEF CommitInv, TypeOK, ResolveConflict
<1>2. PolicyInv'
  BY CommitAssumption
     DEF CommitInv, PolicyInv, Policies, ResolveConflict, Choose, Exists,
            Goto, commit, TypeOK, OutputInv, PlaceInv, AloneInv
<1>3. OutputInv'
  BY CommitAssumption
     DEF CommitInv, OutputInv, Paths, ResolveConflict, Choose, Exists, Goto,
            commit, TypeOK, PolicyInv, PlaceInv, AloneInv
<1>4. PlaceInv'
  BY CommitAssumption
     DEF CommitInv, PlaceInv, InTurn, File, Nothing, Pending, Paths,
            ResolveConflict, Choose, Exists, Goto, commit, TypeOK, PolicyInv,
            OutputInv, AloneInv
<1>5. AloneInv'
  <2> SUFFICES ASSUME NEW a \in Transfers, NEW o \in Transfers, a # o,
                      InTurn(a)', pc'[a] \in Pending \cup {"delivered"},
                      pc'[o] \in Pending, target'[o] = target'[a]
               PROVE  pc'[a] = "delivered" /\ policy'[o] = "overwrite"
                      /\ output'[o] = -1
    BY DEF AloneInv

  <2>1. CASE /\ ~Exists(at[t]) \/ policy[t] = "overwrite"
             /\ Choose(t)
             /\ Goto(t, IF policy[t] = "overwrite" THEN "look" ELSE "rename")
             /\ UNCHANGED <<at, policy, folder, output>>
    <3>1. CASE a = t
      <4>1. target[o] = at[t] /\ pc[o] \in Pending
        BY <2>1, <3>1, Parts DEF Choose, Goto, CommitInv, TypeOK
      <4> QED BY <2>1, <3>1, <4>1 DEF Choose, InTurn, Pending, Committing
    <3>2. CASE o = t
      <4>1. target[a] = at[t] /\ pc[a] \in Pending \cup {"delivered"} /\ pc'[a] = pc[a]
            /\ target'[a] = target[a]
        BY <2>1, <3>2, Parts DEF Choose, Goto, CommitInv, TypeOK
      <4>2. pc[a] = "delivered"
        BY <2>1, <3>2, <4>1 DEF Choose, InTurn, Pending, Committing
      <4>3. InTurn(a)
        BY <2>1, <3>2, <4>1, <4>2 DEF Choose, InTurn
      <4>4. folder[at[t]] = File(a)
        BY <4>1, <4>2, <4>3 DEF CommitInv, PlaceInv
      <4>5. Exists(at[t])
        BY <4>4, Entries DEF Exists
      <4>6. output[t] = -1
        BY DEF CommitInv, OutputInv, ResolveConflict
      <4> QED BY <2>1, <3>2, <4>1, <4>2, <4>5, <4>6
    <3>3. CASE a # t /\ o # t
      <4>1. pc'[a] = pc[a] /\ pc'[o] = pc[o] /\ target'[a] = target[a]
            /\ target'[o] = target[o]
        BY <2>1, <3>3, Parts DEF Choose, Goto, CommitInv, TypeOK
      <4>2. InTurn(a)
        BY <2>1, <3>3 DEF Choose, InTurn
      <4> QED BY <2>1, <4>1, <4>2 DEF CommitInv, AloneInv
    <3> QED BY <3>1, <3>2, <3>3
  <2>2. CASE UNCHANGED <<target, shared, released, policy, folder, output>>
             /\ (pc' = pc \/ Goto(t, "failed"))
    <3>1. pc'[a] = pc[a] /\ pc'[o] = pc[o] /\ target[a] = target[o] /\ InTurn(a)
      BY <2>2 DEF Goto, InTurn, Pending, CommitInv, TypeOK
    <3> QED BY <2>2, <3>1 DEF CommitInv, AloneInv
  <2> QED BY <2>1, <2>2 DEF ResolveConflict
<1> QED BY <1>1, <1>2, <1>3, <1>4, <1>5 DEF CommitInv

(* The look changes nothing; a path that it finds free is free.            *)
LEMMA LookAtTargetStep ==
    ASSUME CommitInv, NEW t \in Transfers, LookAtTarget(t)
    PROVE  CommitInv'
<1>1. UNCHANGED <<policy, at, target, folder, shared, released>>
  BY DEF LookAtTarget, commit
<1>2. \/ pc'[t] = "rename" /\ folder[target[t]] = Nothing
      \/ pc'[t] \in {"remove", "failed"}
  BY GotoEffect DEF LookAtTarget, Fail, Exists
<1>3. \A o \in Transfers : o # t => pc'[o] = pc[o]
  BY GotoEffect DEF LookAtTarget, Fail
<1>4. output' = output \/ output' = [output EXCEPT ![t] = -1]
  BY DEF LookAtTarget, Fail
<1>5. pc' \in [Transfers -> Committing \cup
                 {"offered", "receiving", "failed", "delivered"}]
  BY DEF CommitInv, TypeOK, LookAtTarget, Fail, Goto, Committing
<1>6. \A o \in Transfers : InTurn(o)' <=> InTurn(o)
  BY <1>1 DEF InTurn
<1>7. TypeOK'
  BY <1>1, <1>4, <1>5 DEF CommitInv, TypeOK
<1>8. PolicyInv'
  BY <1>1, <1>2, <1>3 DEF CommitInv, PolicyInv, LookAtTarget
<1>9. output[t] = -1 /\ output' = output
  <2>1. output[t] = -1
    BY DEF CommitInv, OutputInv, LookAtTarget
  <2> QED BY <1>4, <2>1, Parts
<1>10. OutputInv'
  BY <1>1, <1>2, <1>3, <1>9 DEF CommitInv, OutputInv
<1>11. PlaceInv'
  BY <1>1, <1>2, <1>3, <1>6, <1>9 DEF CommitInv, PlaceInv
<1>12. AloneInv'
  BY <1>1, <1>2, <1>3, <1>6, <1>9 DEF CommitInv, AloneInv, LookAtTarget, Pending
<1> QED BY <1>7, <1>8, <1>10, <1>11, <1>12 DEF CommitInv

(* What is overwritten belongs to nobody in turn any longer.               *)
LEMMA RemoveStep ==
    ASSUME CommitInv, NEW t \in Transfers, Remove(t)
    PROVE  CommitInv'
<1>1. TypeOK'
  <2>1. target[t] \in Paths
    BY Parts
  <2>2. Put(target[t], Nothing) => folder' \in [Paths -> Entry]
                              /\ output' \in [Transfers -> Paths \cup {-1}]
    BY <2>1, PutEffect, Entries
  <2>3. pc' \in [Transfers -> Committing \cup
                   {"offered", "receiving", "failed", "delivered"}]
    BY DEF CommitInv, TypeOK, Remove, Fail, Goto, Committing
  <2>4. Fail(t) => output' \in [Transfers -> Paths \cup {-1}]
    BY Parts DEF Fail
  <2> QED
    BY <2>1, <2>2, <2>3, <2>4 DEF CommitInv, TypeOK, Remove, Claim, commit
<1>2. PolicyInv'
  BY CommitAssumption
     DEF CommitInv, PolicyInv, Policies, Remove, Put, Claim, Fail, Goto,
            commit, TypeOK, OutputInv, PlaceInv, AloneInv
<1>3. OutputInv'
  BY CommitAssumption
     DEF CommitInv, OutputInv, Paths, Remove, Put, Claim, Fail, Goto, commit,
            TypeOK, PolicyInv, PlaceInv, AloneInv
<1>4. PlaceInv'
  <2> SUFFICES ASSUME NEW a \in Transfers, InTurn(a)'
               PROVE  /\ pc'[a] \in {"rename", "open"} => folder'[target'[a]] = Nothing
                      /\ pc'[a] = "copy" => /\ output'[a] = target'[a]
                            /\ folder'[target'[a]] = [by |-> a, kind |-> "partial"]
                      /\ pc'[a] \in {"removeSource", "delivered"} =>
                            folder'[target'[a]] = File(a)
    BY DEF PlaceInv
  <2>1. target' = target /\ target[a] \in Paths /\ target[t] \in Paths
        /\ InTurn(a) /\ policy[t] = "overwrite"
    BY Parts DEF Remove, Claim, commit, InTurn, CommitInv, PolicyInv
  <2>2. CASE a = t
    <3>1. \/ pc'[t] = "failed"
          \/ pc'[t] = "rename" /\ folder'[target[t]] = Nothing
      <4>1. CASE Fail(t)
        BY <4>1, GotoEffect DEF Fail
      <4>2. CASE Put(target[t], Nothing) /\ Goto(t, "rename")
        BY <2>1, <4>2, PutEffect, Entries, GotoEffect
      <4> QED BY <4>1, <4>2 DEF Remove
    <3> QED BY <2>1, <2>2, <3>1
  <2>3. CASE a # t
    <3>1. pc'[a] = pc[a]
      BY <2>3 DEF Remove, Fail, Goto, CommitInv, TypeOK
    <3>2. CASE \/ Put(target[t], Nothing) /\ target[a] # target[t]
               \/ Fail(t) /\ UNCHANGED folder
      <4>1. folder'[target[a]] = folder[target[a]]
            /\ (pc[a] = "copy" => output'[a] = output[a])
        <5>1. CASE Put(target[t], Nothing) /\ target[a] # target[t]
          <6>1. pc[a] = "copy" => output[a] = target[a]
            BY <2>1 DEF CommitInv, PlaceInv
          <6> QED BY <2>1, <5>1, <6>1, PutEffect, Entries
        <5>2. CASE Fail(t) /\ UNCHANGED folder
          BY <2>3, <5>2, Parts DEF Fail
        <5> QED BY <3>2, <5>1, <5>2
      <4> QED BY <2>1, <3>1, <4>1 DEF CommitInv, PlaceInv
    <3>3. CASE target[a] = target[t] /\ Claim(t, target[t])
      <4>1. a \in released'
        BY <2>1, <2>3, <3>3 DEF Claim
      <4> QED BY <4>1 DEF InTurn
    <3> QED BY <3>2, <3>3 DEF Remove
  <2> QED BY <2>2, <2>3
<1>5. AloneInv'
  <2> SUFFICES ASSUME NEW a \in Transfers, NEW o \in Transfers, a # o,
                      InTurn(a)', pc'[a] \in Pending \cup {"delivered"},
                      pc'[o] \in Pending, target'[o] = target'[a]
               PROVE  pc'[a] = "delivered" /\ policy'[o] = "overwrite"
                      /\ output'[o] = -1
    BY DEF AloneInv

  <2>1. target[t] \in Paths /\ UNCHANGED <<policy, target, shared>>
        /\ released \subseteq released'
    BY Parts DEF Remove, Claim, commit
  <2>2. target[o] = target[a] /\ InTurn(a)
        /\ pc[a] \in Pending \cup {"delivered"} /\ pc[o] \in Pending
        /\ (pc'[a] = "delivered" <=> pc[a] = "delivered")
    BY <2>1 DEF Remove, Fail, Goto, InTurn, Pending, CommitInv, TypeOK
  <2>3. pc[a] = "delivered" /\ policy[o] = "overwrite" /\ output[o] = -1
    BY <2>2 DEF CommitInv, AloneInv
  <2>4. output'[o] = -1
    BY <2>1, <2>3, Parts DEF Remove, Put, Fail
  <2> QED BY <2>1, <2>2, <2>3, <2>4
<1> QED BY <1>1, <1>2, <1>3, <1>4, <1>5 DEF CommitInv

(* The file takes a path that nobody in turn holds.                        *)
LEMMA RenameStep ==
    ASSUME CommitInv, NEW t \in Transfers, Rename(t)
    PROVE  CommitInv'
<1>1. TypeOK'
  <2>1. target[t] \in Paths
    BY Parts
  <2>2. Put(target[t], File(t)) => folder' \in [Paths -> Entry]
                              /\ output' \in [Transfers -> Paths \cup {-1}]
    BY <2>1, PutEffect, Entries
  <2>3. pc' \in [Transfers -> Committing \cup
                   {"offered", "receiving", "failed", "delivered"}]
    BY DEF CommitInv, TypeOK, Rename, Goto, Committing
  <2> QED
    BY <2>1, <2>2, <2>3 DEF CommitInv, TypeOK, Rename, Claim, commit
<1>2. PolicyInv'
  BY CommitAssumption
     DEF CommitInv, PolicyInv, Policies, Rename, Put, Claim, Goto, commit,
            TypeOK, OutputInv, PlaceInv, AloneInv
<1>3. OutputInv'
  BY CommitAssumption
     DEF CommitInv, OutputInv, Paths, Rename, Put, Claim, Goto, commit,
            TypeOK, PolicyInv, PlaceInv, AloneInv
<1>4. PlaceInv'
  BY CommitAssumption
     DEF CommitInv, PlaceInv, InTurn, File, Nothing, Pending, Paths, Rename,
            Put, Claim, Goto, commit, TypeOK, PolicyInv, OutputInv, AloneInv
<1>5. AloneInv'
  BY CommitAssumption
     DEF CommitInv, AloneInv, InTurn, Pending, Committing, File, Nothing,
            Exists, Paths, Rename, Put, Claim, Goto, commit, TypeOK,
            PolicyInv, OutputInv, PlaceInv
<1> QED BY <1>1, <1>2, <1>3, <1>4, <1>5 DEF CommitInv

(* The copy begins at a path that nobody in turn holds.                    *)
LEMMA OpenStep ==
    ASSUME CommitInv, NEW t \in Transfers, Open(t)
    PROVE  CommitInv'
<1>1. TypeOK'
  <2>1. target[t] \in Paths
    BY Parts
  <2>2. folder' \in [Paths -> Entry]
    BY <2>1, Entries, Parts DEF Open
  <2>3. pc' \in [Transfers -> Committing \cup
                   {"offered", "receiving", "failed", "delivered"}]
    BY DEF CommitInv, TypeOK, Open, Fail, Goto, Committing
  <2>4. output' \in [Transfers -> Paths \cup {-1}]
    BY <2>1, Parts DEF Open, Fail
  <2> QED
    BY <2>2, <2>3, <2>4 DEF CommitInv, TypeOK, Open, Claim, commit
<1>2. PolicyInv'
  BY CommitAssumption
     DEF CommitInv, PolicyInv, Policies, Open, Claim, Fail, Exists, Goto,
            commit, TypeOK, OutputInv, PlaceInv, AloneInv
<1>3. OutputInv'
  <2>1. target' = target
    BY DEF Open, commit
  <2>2. \A o \in Transfers : o # t => pc'[o] = pc[o] /\ output'[o] = output[o]
    BY Parts, GotoEffect DEF Open, Fail
  <2>3. \/ pc'[t] = "copy" /\ output'[t] = target[t]
        \/ output'[t] = -1
    BY Parts, GotoEffect DEF Open, Fail
  <2> QED BY <2>1, <2>2, <2>3 DEF CommitInv, OutputInv
<1>4. PlaceInv'
  BY CommitAssumption
     DEF CommitInv, PlaceInv, InTurn, File, Nothing, Pending, Paths, Open,
            Claim, Fail, Exists, Goto, commit, TypeOK, PolicyInv, OutputInv,
            AloneInv
<1>5. AloneInv'
  <2> SUFFICES ASSUME NEW a \in Transfers, NEW o \in Transfers, a # o,
                      InTurn(a)', pc'[a] \in Pending \cup {"delivered"},
                      pc'[o] \in Pending, target'[o] = target'[a]
               PROVE  pc'[a] = "delivered" /\ policy'[o] = "overwrite"
                      /\ output'[o] = -1
    BY DEF AloneInv

  <2>1. target[t] \in Paths /\ UNCHANGED <<policy, target, shared>>
        /\ released \subseteq released'
    BY Parts DEF Open, Claim, commit
  <2>2. target[o] = target[a] /\ InTurn(a)
        /\ pc[a] \in Pending \cup {"delivered"} /\ pc[o] \in Pending
        /\ (pc'[a] = "delivered" <=> pc[a] = "delivered")
    BY <2>1 DEF Open, Fail, Goto, InTurn, Pending, CommitInv, TypeOK
  <2>3. pc[a] = "delivered" /\ policy[o] = "overwrite" /\ output[o] = -1
    BY <2>2 DEF CommitInv, AloneInv
  <2>4. output'[o] = -1
    <3>1. CASE o = t
      <4>1. Claim(t, target[t]) => a \in released'
        BY <2>2, <2>3, <3>1 DEF Claim
      <4>2. Fail(t)
        BY <4>1 DEF Open, InTurn
      <4> QED BY <3>1, <4>2, Parts DEF Fail
    <3>2. CASE o # t
      BY <2>3, <3>2, Parts DEF Open, Fail
    <3> QED BY <3>1, <3>2
  <2> QED BY <2>1, <2>2, <2>3, <2>4
<1> QED BY <1>1, <1>2, <1>3, <1>4, <1>5 DEF CommitInv

(* The copy of a transfer in turn is written by nobody else.               *)
LEMMA CopyStep ==
    ASSUME CommitInv, NEW t \in Transfers, Copy(t)
    PROVE  CommitInv'
<1>1. TypeOK'
  <2>1. folder' \in [Paths -> Entry]
    <3>1. output[t] # -1 => output[t] \in Paths /\ folder[output[t]] \in Entry
      BY Parts
    <3>2. \A kind \in {"file", "mixed"} : output[t] # -1 =>
             [folder[output[t]] EXCEPT !.kind = kind] \in Entry
      BY <3>1 DEF Entry
    <3>3. \/ folder' = folder
          \/ /\ output[t] # -1
             /\ \E kind \in {"file", "mixed"} :
                   folder' = [folder EXCEPT ![output[t]].kind = kind]
      BY DEF Copy
    <3> QED BY <3>1, <3>2, <3>3, Parts
  <2>2. pc' \in [Transfers -> Committing \cup
                   {"offered", "receiving", "failed", "delivered"}]
    BY DEF CommitInv, TypeOK, Copy, Fail, Goto, Committing
  <2>3. output' \in [Transfers -> Paths \cup {-1}]
    BY Parts DEF Copy, Fail
  <2> QED
    BY <2>1, <2>2, <2>3 DEF CommitInv, TypeOK, Copy, commit
<1>2. PolicyInv'
  BY CommitAssumption
     DEF CommitInv, PolicyInv, Policies, Copy, Fail, Goto, commit, TypeOK,
            OutputInv, PlaceInv, AloneInv
<1>3. OutputInv'
  BY CommitAssumption
     DEF CommitInv, OutputInv, Paths, Copy, Fail, Goto, commit, TypeOK,
            PolicyInv, PlaceInv, AloneInv
<1>4. PlaceInv'
  <2> SUFFICES ASSUME NEW a \in Transfers, InTurn(a)'
               PROVE  /\ pc'[a] \in {"rename", "open"} => folder'[target'[a]] = Nothing
                      /\ pc'[a] = "copy" => /\ output'[a] = target'[a]
                            /\ folder'[target'[a]] = [by |-> a, kind |-> "partial"]
                      /\ pc'[a] \in {"removeSource", "delivered"} =>
                            folder'[target'[a]] = File(a)
    BY DEF PlaceInv
  <2>1. UNCHANGED <<target, shared, released, policy>> /\ InTurn(a)
    BY DEF Copy, commit, InTurn
  <2>2. CASE a = t
    <3>1. pc'[a] \in {"removeSource", "failed"}
      BY <2>2 DEF Copy, Goto, Fail, CommitInv, TypeOK
    <3>2. output[t] = target[t] /\ target[t] \in Paths /\ output[t] # -1
          /\ folder[target[t]] = [by |-> t, kind |-> "partial"]
      BY <2>1, <2>2, Parts DEF Copy, CommitInv, PlaceInv
    <3>3. pc'[a] = "removeSource" =>
             folder' = [folder EXCEPT ![target[t]].kind = "file"]
      BY <2>2, <3>2 DEF Copy, Goto, Fail, CommitInv, TypeOK
    <3>4. pc'[a] = "removeSource" => folder'[target[t]] = File(t)
      BY <3>2, <3>3, Parts DEF File
    <3> QED BY <2>1, <2>2, <3>1, <3>4
  <2>3. CASE a # t
    <3>1. pc'[a] = pc[a] /\ output'[a] = output[a]
      BY <2>3, Parts DEF Copy, Goto, Fail, CommitInv, TypeOK
    <3>2. pc[a] \in Pending \cup {"delivered"} /\ output[t] # -1 =>
             output[t] # target[a]
      BY <2>1, <2>3 DEF Copy, CommitInv, OutputInv, AloneInv, Pending
    <3>3. pc[a] \in Pending \cup {"delivered"} =>
             folder'[target[a]] = folder[target[a]]
      BY <3>2, Parts DEF Copy
    <3> QED BY <2>1, <3>1, <3>3 DEF CommitInv, PlaceInv, Pending
  <2> QED BY <2>2, <2>3
<1>5. AloneInv'
  BY CommitAssumption
     DEF CommitInv, AloneInv, InTurn, Pending, Committing, File, Nothing,
            Exists, Paths, Copy, Fail, Goto, commit, TypeOK, PolicyInv,
            OutputInv, PlaceInv
<1> QED BY <1>1, <1>2, <1>3, <1>4, <1>5 DEF CommitInv

(* The source goes only after the copy is whole.                           *)
LEMMA RemoveSourceStep ==
    ASSUME CommitInv, NEW t \in Transfers, RemoveSource(t)
    PROVE  CommitInv'
<1>1. TypeOK'
  BY CommitAssumption
     DEF CommitInv, TypeOK, Policies, Paths, Entry, Nothing, File,
            Committing, RemoveSource, Goto, commit, PolicyInv, OutputInv,
            PlaceInv, AloneInv
<1>2. PolicyInv'
  BY CommitAssumption
     DEF CommitInv, PolicyInv, Policies, RemoveSource, Goto, commit, TypeOK,
            OutputInv, PlaceInv, AloneInv
<1>3. OutputInv'
  BY CommitAssumption
     DEF CommitInv, OutputInv, Paths, RemoveSource, Goto, commit, TypeOK,
            PolicyInv, PlaceInv, AloneInv
<1>4. PlaceInv'
  BY CommitAssumption
     DEF CommitInv, PlaceInv, InTurn, File, Nothing, Pending, Paths,
            RemoveSource, Goto, commit, TypeOK, PolicyInv, OutputInv,
            AloneInv
<1>5. AloneInv'
  BY CommitAssumption
     DEF CommitInv, AloneInv, InTurn, Pending, Committing, File, Nothing,
            Exists, Paths, RemoveSource, Goto, commit, TypeOK, PolicyInv,
            OutputInv, PlaceInv
<1> QED BY <1>1, <1>2, <1>3, <1>4, <1>5 DEF CommitInv

(* Another attempt begins without a target.                                *)
LEMMA RetryStep ==
    ASSUME CommitInv, NEW t \in Transfers, Retry(t)
    PROVE  CommitInv'
<1>1. TypeOK'
  BY CommitAssumption
     DEF CommitInv, TypeOK, Policies, Paths, Entry, Nothing, File,
            Committing, Retry, Goto, commit, PolicyInv, OutputInv, PlaceInv,
            AloneInv
<1>2. PolicyInv'
  BY CommitAssumption
     DEF CommitInv, PolicyInv, Policies, Retry, Goto, commit, TypeOK,
            OutputInv, PlaceInv, AloneInv
<1>3. OutputInv'
  BY CommitAssumption
     DEF CommitInv, OutputInv, Paths, Retry, Goto, commit, TypeOK, PolicyInv,
            PlaceInv, AloneInv
<1>4. PlaceInv'
  BY CommitAssumption
     DEF CommitInv, PlaceInv, InTurn, File, Nothing, Pending, Paths, Retry,
            Goto, commit, TypeOK, PolicyInv, OutputInv, AloneInv
<1>5. AloneInv'
  BY CommitAssumption
     DEF CommitInv, AloneInv, InTurn, Pending, Committing, File, Nothing,
            Exists, Paths, Retry, Goto, commit, TypeOK, PolicyInv, OutputInv,
            PlaceInv
<1> QED BY <1>1, <1>2, <1>3, <1>4, <1>5 DEF CommitInv

(* Whose target the user changes is out of turn.                           *)
LEMMA UserChangesStep ==
    ASSUME CommitInv, NEW p \in Paths, UserChanges(p)
    PROVE  CommitInv'
<1>1. TypeOK'
  <2>1. PICK entry \in Entry : Put(p, entry)
    BY CommitAssumption DEF UserChanges, Entry, Nothing
  <2>2. folder' \in [Paths -> Entry] /\ output' \in [Transfers -> Paths \cup {-1}]
    BY <2>1, PutEffect
  <2> QED BY <2>2 DEF CommitInv, TypeOK, UserChanges, commit
<1>2. PolicyInv'
  BY CommitAssumption
     DEF CommitInv, PolicyInv, Policies, UserChanges, Put, Exists, Goto,
            commit, TypeOK, OutputInv, PlaceInv, AloneInv
<1>3. OutputInv'
  BY CommitAssumption
     DEF CommitInv, OutputInv, Paths, UserChanges, Put, Exists, Goto, commit,
            TypeOK, PolicyInv, PlaceInv, AloneInv
<1>4. PlaceInv'
  BY CommitAssumption
     DEF CommitInv, PlaceInv, InTurn, File, Nothing, Pending, Paths,
            UserChanges, Put, Exists, Goto, commit, TypeOK, PolicyInv,
            OutputInv, AloneInv
<1>5. AloneInv'
  BY CommitAssumption
     DEF CommitInv, AloneInv, InTurn, Pending, Committing, File, Nothing,
            Exists, Paths, UserChanges, Put, Goto, commit, TypeOK, PolicyInv,
            OutputInv, PlaceInv
<1> QED BY <1>1, <1>2, <1>3, <1>4, <1>5 DEF CommitInv

(* A dead process has chosen no path and writes to none.                   *)
LEMMA CrashStep ==
    ASSUME CommitInv, Crash
    PROVE  CommitInv'
<1>1. TypeOK'
  BY CommitAssumption
     DEF CommitInv, TypeOK, Policies, Paths, Entry, Nothing, File,
            Committing, Crash, Goto, commit, PolicyInv, OutputInv, PlaceInv,
            AloneInv
<1>2. PolicyInv'
  BY CommitAssumption
     DEF CommitInv, PolicyInv, Policies, Crash, Goto, commit, TypeOK,
            OutputInv, PlaceInv, AloneInv
<1>3. OutputInv'
  BY CommitAssumption
     DEF CommitInv, OutputInv, Paths, Crash, Goto, commit, TypeOK, PolicyInv,
            PlaceInv, AloneInv
<1>4. PlaceInv'
  BY CommitAssumption
     DEF CommitInv, PlaceInv, InTurn, File, Nothing, Pending, Paths, Crash,
            Goto, commit, TypeOK, PolicyInv, OutputInv, AloneInv
<1>5. AloneInv'
  BY CommitAssumption
     DEF CommitInv, AloneInv, InTurn, Pending, Committing, File, Nothing,
            Exists, Paths, Crash, Goto, commit, TypeOK, PolicyInv, OutputInv,
            PlaceInv
<1> QED BY <1>1, <1>2, <1>3, <1>4, <1>5 DEF CommitInv

(* The initial states satisfy the invariant.                               *)
LEMMA InitInv == Init => CommitInv
BY CommitAssumption DEF Init, CommitInv, TypeOK, PolicyInv, OutputInv, PlaceInv,
   AloneInv, Policies, Paths, Entry, Nothing, File, Committing, Pending

(* Every step keeps it.                                                    *)
LEMMA NextInv == CommitInv /\ [Next]_vars => CommitInv'
<1> SUFFICES ASSUME CommitInv, [Next]_vars PROVE CommitInv'
  OBVIOUS
<1>1. CASE UNCHANGED vars
  BY <1>1 DEF vars, CommitInv, TypeOK, PolicyInv, OutputInv, PlaceInv, AloneInv,
     InTurn
<1>2. CASE Crash
  BY <1>2, CrashStep
<1>3. ASSUME NEW p \in Paths, UserChanges(p) PROVE CommitInv'
  BY <1>3, UserChangesStep
<1>4. ASSUME NEW t \in Transfers, Accept(t) \/ CommitStep(t) \/ Retry(t)
      PROVE  CommitInv'
  BY <1>4, AcceptStep, BeginCommitStep, ResolveConflictStep, LookAtTargetStep,
     RemoveStep, RenameStep, OpenStep, CopyStep, RemoveSourceStep, RetryStep DEF CommitStep
<1> QED BY <1>1, <1>2, <1>3, <1>4 DEF Next

(* The invariant of the commits, for any number of transfers.              *)
THEOREM CommitInvariant == Spec => []CommitInv
BY InitInv, NextInv, PTL DEF Spec

(* The variables keep their types.                                         *)
THEOREM TypeCorrect == Spec => []TypeOK
<1>1. CommitInv => TypeOK
  BY DEF CommitInv
<1> QED BY <1>1, CommitInvariant, PTL

(* A transfer that reports its file delivered has it at the chosen path.   *)
THEOREM DeliveredFileIsThere == Spec => []DeliveredIsThere
<1>1. CommitInv => DeliveredIsThere
  BY DEF CommitInv, PlaceInv, DeliveredIsThere
<1> QED BY <1>1, CommitInvariant, PTL

(* A commit with "rename" or "prompt" leaves what exists as it is.         *)
THEOREM KeepBothKeepsFiles == Spec => KeepBothKeeps
<1> DEFINE Kept == \A t \in Transfers :
          /\ pc[t] \in Committing /\ pc'[t] # pc[t] /\ pc'[t] # "receiving"
          /\ policy[t] # "overwrite" /\ InTurn(t)
          => KeepsWhatExists(t)
<1>1. CommitInv /\ [Next]_vars => [Kept]_vars
  <2> SUFFICES ASSUME CommitInv, Next, NEW t \in Transfers,
                      pc[t] \in Committing, pc'[t] # pc[t], pc'[t] # "receiving",
                      policy[t] # "overwrite", InTurn(t),
                      NEW p \in Paths, Exists(p), output[t] # p
               PROVE  folder'[p] = folder[p]
    BY DEF KeepsWhatExists
  <2>1. CommitStep(t)
    <3>1. ~Crash
      BY DEF Crash, CommitInv, TypeOK
    <3>2. \A q \in Paths : ~UserChanges(q)
      BY DEF UserChanges
    <3>3. ~Accept(t) /\ ~Retry(t)
      BY DEF Accept, Retry, Committing
    <3>4. \A o \in Transfers : o # t => ~Accept(o) /\ ~Retry(o) /\ ~CommitStep(o)
      <4> SUFFICES ASSUME NEW o \in Transfers, o # t,
                          Accept(o) \/ Retry(o) \/ CommitStep(o)
                   PROVE  FALSE
        OBVIOUS
      <4>1. UNCHANGED pc \/ \E step : Goto(o, step)
        BY DEF Accept, Retry, CommitStep, BeginCommit, ResolveConflict,
           LookAtTarget, Remove, Rename, Open, Copy, RemoveSource, Fail
      <4> QED BY <4>1, GotoEffect
    <3> QED BY <3>1, <3>2, <3>3, <3>4 DEF Next
  <2>2. target[t] \in Paths
    BY Parts
  <2>3. CASE Rename(t)
    <3>1. folder[target[t]] = Nothing
      BY <2>3 DEF Rename, CommitInv, PlaceInv
    <3>2. p # target[t]
      BY <3>1 DEF Exists
    <3> QED BY <2>2, <2>3, <3>2, PutEffect, Entries DEF Rename
  <2>4. CASE Open(t)
    <3>1. folder[target[t]] = Nothing
      BY <2>4 DEF Open, CommitInv, PlaceInv
    <3>2. p # target[t]
      BY <3>1 DEF Exists
    <3> QED BY <2>2, <2>4, <3>2, Parts DEF Open
  <2>5. CASE Copy(t)
    BY <2>5, Parts DEF Copy
  <2>6. CASE Remove(t)
    BY <2>6 DEF Remove, CommitInv, PolicyInv
  <2>7. CASE BeginCommit(t) \/ ResolveConflict(t) \/ LookAtTarget(t) \/ RemoveSource(t)
    BY <2>7 DEF BeginCommit, ResolveConflict, LookAtTarget, RemoveSource
  <2> QED BY <2>1, <2>3, <2>4, <2>5, <2>6, <2>7 DEF CommitStep
<1> QED BY <1>1, CommitInvariant, PTL DEF Spec, KeepBothKeeps

=============================================================================
