------------------------ MODULE TransferSenderProofs ------------------------
(***************************************************************************)
(* Proofs about TransferSender, for any number of workers, user requests    *)
(* and transfers, any concurrency limit, with crashes and failures or       *)
(* without: what Completed stands for, that no busy transfer is left alone, *)
(* and that a paused one stays paused.                                      *)
(***************************************************************************)
EXTENDS TransferSender, FiniteSetTheorems, TLAPS

(* The goroutines are of two kinds.                                         *)
LEMMA Kinds ==
    /\ \A w \in Workers : w \in Procs /\ w \notin Users
    /\ \A u \in Users : u \in Procs /\ u \notin Workers
BY SenderAssumption DEF Procs

(* A copy of a row with another status is a row.                            *)
LEMMA WithStatus ==
    ASSUME NEW r \in Row, NEW s \in Running \cup Terminal \cup {"Absent", "Queued", "Paused"}
    PROVE  /\ [r EXCEPT !.status = s] \in Row
           /\ [r EXCEPT !.status = s].status = s
BY DEF Row

(* What the receiver's row reads after one field of it has changed.          *)
LEMMA StatusSet ==
    ASSUME remote \in [Transfers -> Remote], NEW t \in Transfers,
           NEW s \in {"Absent", "Queued", "Receiving"} \cup Terminal,
           remote' = [remote EXCEPT ![t].status = s]
    PROVE  /\ remote' \in [Transfers -> Remote]
           /\ \A q \in Transfers : q # t => remote'[q] = remote[q]
           /\ remote'[t].status = s /\ remote'[t].have = remote[t].have
<1> DEFINE r == [remote[t] EXCEPT !.status = s]
<1>1. r \in Remote /\ r.status = s /\ r.have = remote[t].have
  BY DEF Remote
<1>2. remote' = [remote EXCEPT ![t] = r]
  OBVIOUS
<1> HIDE DEF r
<1> QED
  BY <1>1, <1>2

LEMMA HaveSet ==
    ASSUME remote \in [Transfers -> Remote], NEW t \in Transfers, NEW c \in Chunks,
           remote' = [remote EXCEPT ![t].have = @ \cup {c}]
    PROVE  /\ remote' \in [Transfers -> Remote]
           /\ \A q \in Transfers : q # t => remote'[q] = remote[q]
           /\ remote'[t].status = remote[t].status
<1> DEFINE r == [remote[t] EXCEPT !.have = @ \cup {c}]
<1>1. r \in Remote /\ r.status = remote[t].status
  BY DEF Remote
<1>2. remote' = [remote EXCEPT ![t] = r]
  OBVIOUS
<1> HIDE DEF r
<1> QED
  BY <1>1, <1>2

(* What a function gives for a finite set is no more than that set.         *)
LEMMA ImageBound ==
    ASSUME NEW S, IsFiniteSet(S), NEW T, NEW f \in [S -> T]
    PROVE  LET I == {f[x] : x \in S}
           IN  IsFiniteSet(I) /\ Cardinality(I) <= Cardinality(S)
<1> DEFINE I == {f[x] : x \in S}
<1>1. f \in Surjection(S, I)
  BY DEF Surjection
<1> QED
  BY <1>1, FS_Surjection

(* Of two finite sets together, no more than of both apart.                 *)
LEMMA UnionBound ==
    ASSUME NEW S, NEW T, IsFiniteSet(S), IsFiniteSet(T)
    PROVE  /\ IsFiniteSet(S \cup T)
           /\ Cardinality(S \cup T) <= Cardinality(S) + Cardinality(T)
<1>1. IsFiniteSet(S \cap T)
  BY FS_Subset
<1>2. Cardinality(S) \in Nat /\ Cardinality(T) \in Nat /\ Cardinality(S \cap T) \in Nat
  BY <1>1, FS_CardinalityType
<1>3. /\ IsFiniteSet(S \cup T)
      /\ Cardinality(S \cup T) = Cardinality(S) + Cardinality(T) - Cardinality(S \cap T)
  BY FS_Union
<1> QED
  BY <1>2, <1>3

(* There are more session tokens than rows and goroutines: one is free once *)
(* recover has nothing left to save.                                       *)
LEMMA FreshTokenIsNew ==
    ASSUME TypeOK, stale = {}, NEW w \in Workers, copy[w].token = "none"
    PROVE  FreshToken \in Tokens
<1> DEFINE r == [t \in Transfers |-> row[t].token]
           m == [t \in Transfers |-> remote[t].token]
           c == [p \in Procs |-> copy[p].token]
           R == {r[t] : t \in Transfers}
           M == {m[t] : t \in Transfers}
           C == {c[p] : p \in Procs}
           S == {x[2].token : x \in stale}
           H == R \cup M \cup C
           K == Tokens \cup {"none"}
<1>f. IsFiniteSet(Transfers) /\ Cardinality(Transfers) = NumTransfers
  BY FS_Interval, SenderAssumption DEF Transfers
<1>p. IsFiniteSet(Procs) /\ Cardinality(Procs) \in Nat
  BY SenderAssumption, FS_CardinalityType DEF Procs
<1>d. r \in [Transfers -> K] /\ m \in [Transfers -> K] /\ c \in [Procs -> K]
  BY DEF TypeOK, Row, Remote
<1>h. HeldTokens = H
  BY DEF HeldTokens
<1>n. "none" \in H
  BY Kinds
<1> HIDE DEF r, m, c
<1>1. IsFiniteSet(R) /\ Cardinality(R) <= NumTransfers
  <2>1. IsFiniteSet(R) /\ Cardinality(R) <= Cardinality(Transfers)
    BY <1>f, <1>d, ImageBound
  <2> QED
    BY <2>1, <1>f
<1>2. IsFiniteSet(M) /\ Cardinality(M) <= NumTransfers
  <2>1. IsFiniteSet(M) /\ Cardinality(M) <= Cardinality(Transfers)
    BY <1>f, <1>d, ImageBound
  <2> QED
    BY <2>1, <1>f
<1>3. IsFiniteSet(C) /\ Cardinality(C) <= Cardinality(Procs)
  BY <1>p, <1>d, ImageBound
<1> HIDE DEF R, M, C
<1>4. IsFiniteSet(R \cup M) /\ Cardinality(R \cup M) <= Cardinality(R) + Cardinality(M)
  BY <1>1, <1>2, UnionBound
<1>5. IsFiniteSet(H) /\ Cardinality(H) <= Cardinality(R \cup M) + Cardinality(C)
  BY <1>3, <1>4, UnionBound
<1>6. Cardinality(R) \in Nat /\ Cardinality(M) \in Nat /\ Cardinality(C) \in Nat
      /\ Cardinality(R \cup M) \in Nat /\ Cardinality(H) \in Nat
  BY <1>1, <1>2, <1>3, <1>4, <1>5, FS_CardinalityType
<1>7. Cardinality(H) <= 2 * NumTransfers + Cardinality(Procs)
  BY <1>1, <1>2, <1>3, <1>4, <1>5, <1>6, <1>p, SenderAssumption
<1> HIDE DEF H
<1>8. ASSUME Tokens \subseteq H PROVE FALSE
  <2>1. IsFiniteSet(Tokens) /\ IsFiniteSet(Tokens \cup {"none"})
        /\ Cardinality(Tokens \cup {"none"}) = Cardinality(Tokens) + 1
    BY <1>5, <1>8, FS_Subset, FS_AddElement, SenderAssumption
  <2>2. Cardinality(Tokens \cup {"none"}) <= Cardinality(H)
    BY <1>5, <1>8, <1>n, FS_Subset
  <2>3. Cardinality(Tokens) \in Nat
    BY <2>1, FS_CardinalityType
  <2> QED
    BY <2>1, <2>2, <2>3, <1>7, <1>6, <1>p, SenderAssumption DEF Procs
<1>9. \E k \in Tokens : k \notin HeldTokens
  BY <1>8, <1>h
<1> QED
  BY <1>9 DEF FreshToken

-----------------------------------------------------------------------------
(* Types.                                                                  *)

(* The types of what the goroutines share, and of their locals.             *)
SharedOK ==
    /\ row \in [Transfers -> Row]
    /\ queued \in 0..NumTransfers
    /\ requests \in 0..MaxRequests
    /\ active \in [Transfers -> SUBSET Workers]
    /\ mu \in {{}} \cup {{u} : u \in Users}
    /\ progressMu \in {{}} \cup {{p} : p \in Procs}
    /\ boot \in {"recover", "run"}
    /\ stale \subseteq Transfers \X Row
    /\ remote \in [Transfers -> Remote]
    /\ consent \subseteq Transfers
    /\ aborted \subseteq Transfers

PcOK ==
    /\ pc \in [Procs -> WorkerStep \cup UserStep]
    /\ \A w \in Workers : pc[w] \in WorkerStep
    /\ \A u \in Users : pc[u] \in UserStep

LocalsOK ==
    /\ id \in [Procs -> Transfers]
    /\ copy \in [Procs -> Row]
    /\ current \in [Workers -> Row]
    /\ todo \in [Workers -> SUBSET Chunks]
    /\ ctx \in [Workers -> {"live", "cancelled"}]
    /\ err \in [Workers -> {"none", "error", "canceled"}]
    /\ cmd \in [Users -> Command]

LEMMA TypeParts == TypeOK <=> SharedOK /\ PcOK /\ LocalsOK
BY DEF TypeOK, SharedOK, PcOK, LocalsOK

(* A goroutine goes to a step of its kind.                                  *)
LEMMA WorkerPc ==
    ASSUME PcOK, NEW w \in Workers, NEW s \in WorkerStep, Goto(w, s)
    PROVE  PcOK'
BY Kinds DEF PcOK, Goto

LEMMA UserPc ==
    ASSUME PcOK, NEW u \in Users, NEW s \in UserStep, Goto(u, s)
    PROVE  PcOK'
BY Kinds DEF PcOK, Goto

LEMMA AbsentIsRow == AbsentRow \in Row /\ 1 \in Transfers
BY SenderAssumption DEF AbsentRow, Row, Transfers

(* The end of processOutbound, of a worker's goroutine and of a request.    *)
LEMMA EndWithTypes ==
    ASSUME PcOK, LocalsOK, NEW w \in Workers,
           NEW e \in {"none", "error", "canceled"}, EndWith(w, e)
    PROVE  PcOK' /\ LocalsOK'
<1>1. PcOK'
  BY WorkerPc DEF EndWith, WorkerStep
<1>2. LocalsOK'
  BY Kinds, AbsentIsRow DEF EndWith, LocalsOK
<1> QED
  BY <1>1, <1>2

LEMMA WorkerExitTypes ==
    ASSUME PcOK, LocalsOK, NEW w \in Workers, WorkerExit(w)
    PROVE  PcOK' /\ LocalsOK'
<1>1. PcOK'
  BY WorkerPc DEF WorkerExit, WorkerStep
<1>2. LocalsOK'
  BY Kinds, AbsentIsRow DEF WorkerExit, LocalsOK
<1> QED
  BY <1>1, <1>2

LEMMA UserReturnTypes ==
    ASSUME PcOK, LocalsOK, NEW u \in Users, UserReturn(u),
           ctx' \in [Workers -> {"live", "cancelled"}]
    PROVE  PcOK' /\ LocalsOK'
<1>1. PcOK'
  BY UserPc DEF UserReturn, UserStep
<1>2. LocalsOK'
  BY Kinds, AbsentIsRow DEF UserReturn, LocalsOK, Command
<1> QED
  BY <1>1, <1>2

LEMMA CancelContextTypes ==
    ASSUME LocalsOK, NEW t, CancelContext(t)
    PROVE  ctx' \in [Workers -> {"live", "cancelled"}]
BY DEF CancelContext, LocalsOK

LEMMA StartTypes ==
    ASSUME SharedOK, PcOK, LocalsOK, NEW w \in Workers, Start(w)
    PROVE  SharedOK' /\ PcOK' /\ LocalsOK'
<1>1. SharedOK'
  BY Kinds DEF Start, SharedOK, At, counts, locks, process, peer
<1>2. PcOK'
  BY WorkerPc DEF Start, WorkerStep
<1>3. LocalsOK'
  BY Kinds DEF Start, SharedOK, LocalsOK, At, counts, locks, process, peer
<1> QED
  BY <1>1, <1>2, <1>3

LEMMA SendOfferTypes ==
    ASSUME SharedOK, PcOK, LocalsOK, NEW w \in Workers, SendOffer(w)
    PROVE  SharedOK' /\ PcOK' /\ LocalsOK'
<1>1. SharedOK'
  BY Kinds DEF SendOffer, EndWith, LocalsOK, Row, Remote, SharedOK, At, counts,
     locks, process
<1>2. PcOK' /\ LocalsOK'
  <2>1. CASE EndWith(w, "error")
    BY <2>1, EndWithTypes
  <2>2. CASE ~EndWith(w, "error")
    <3>1. PcOK'
      BY <2>2, WorkerPc DEF SendOffer, WorkerStep
    <3>2. LocalsOK'
      BY <2>2, Kinds DEF SendOffer, SharedOK, LocalsOK, At, counts, locks, process
    <3> QED
      BY <3>1, <3>2
  <2> QED
    BY <2>1, <2>2
<1> QED
  BY <1>1, <1>2

LEMMA ApprovedTypes ==
    ASSUME SharedOK, PcOK, LocalsOK, NEW w \in Workers, Approved(w)
    PROVE  SharedOK' /\ PcOK' /\ LocalsOK'
<1>1. SharedOK'
  BY Kinds DEF Approved, SharedOK, At, counts, locks, process, peer
<1>2. PcOK'
  BY WorkerPc DEF Approved, WorkerStep
<1>3. LocalsOK'
  BY Kinds DEF Approved, SharedOK, Missing, LocalsOK, At, counts, locks, process,
     peer
<1> QED
  BY <1>1, <1>2, <1>3

LEMMA RefreshTypes ==
    ASSUME SharedOK, PcOK, LocalsOK, NEW w \in Workers, Refresh(w)
    PROVE  SharedOK' /\ PcOK' /\ LocalsOK'
<1>1. SharedOK'
  BY Kinds DEF Refresh, SharedOK, At, counts, process, peer
<1>2. PcOK'
  BY WorkerPc DEF Refresh, WorkerStep
<1>3. LocalsOK'
  BY Kinds, AbsentIsRow DEF Refresh, SharedOK, LocalsOK, At, counts, process, peer
<1> QED
  BY <1>1, <1>2, <1>3

LEMMA RefreshSaveTypes ==
    ASSUME SharedOK, PcOK, LocalsOK, NEW w \in Workers, RefreshSave(w)
    PROVE  SharedOK' /\ PcOK' /\ LocalsOK'
<1>1. SharedOK'
  BY Kinds DEF RefreshSave, LocalsOK, SharedOK, At, counts, process, peer
<1>2. PcOK'
  BY WorkerPc DEF RefreshSave, WorkerStep
<1>3. LocalsOK'
  BY Kinds, AbsentIsRow DEF RefreshSave, SharedOK, LocalsOK, At, counts, process,
     peer
<1> QED
  BY <1>1, <1>2, <1>3

LEMMA RefreshFailsTypes ==
    ASSUME SharedOK, PcOK, LocalsOK, NEW w \in Workers, RefreshFails(w)
    PROVE  SharedOK' /\ PcOK' /\ LocalsOK'
<1>1. SharedOK'
  BY Kinds DEF RefreshFails, SharedOK, At, counts, process, peer
<1>2. PcOK'
  BY WorkerPc DEF RefreshFails, WorkerStep
<1>3. LocalsOK'
  BY Kinds, AbsentIsRow DEF RefreshFails, SharedOK, LocalsOK, At, counts, process,
     peer
<1> QED
  BY <1>1, <1>2, <1>3

LEMMA LatestTypes ==
    ASSUME SharedOK, PcOK, LocalsOK, NEW w \in Workers, Latest(w)
    PROVE  SharedOK' /\ PcOK' /\ LocalsOK'
<1>1. SharedOK'
  BY Kinds DEF Latest, SharedOK, At, counts, locks, process, peer
<1>2. PcOK'
  BY WorkerPc DEF Latest, WorkerStep
<1>3. LocalsOK'
  BY Kinds DEF Latest, SharedOK, LocalsOK, At, counts, locks, process, peer
<1> QED
  BY <1>1, <1>2, <1>3

LEMMA EndedTypes ==
    ASSUME SharedOK, PcOK, LocalsOK, NEW w \in Workers, Ended(w)
    PROVE  SharedOK' /\ PcOK' /\ LocalsOK'
<1>1. SharedOK'
  BY Kinds DEF Ended, EndWith, SharedOK, At, counts, locks, process, peer
<1>2. PcOK' /\ LocalsOK'
  BY EndWithTypes DEF Ended
<1> QED
  BY <1>1, <1>2

LEMMA CanceledTypes ==
    ASSUME SharedOK, PcOK, LocalsOK, NEW w \in Workers, Canceled(w)
    PROVE  SharedOK' /\ PcOK' /\ LocalsOK'
<1>1. SharedOK'
  BY Kinds DEF Canceled, EndWith, SharedOK, counts, locks, process, peer
<1>2. PcOK' /\ LocalsOK'
  BY EndWithTypes DEF Canceled
<1> QED
  BY <1>1, <1>2

LEMMA WorkerErrorTypes ==
    ASSUME SharedOK, PcOK, LocalsOK, NEW w \in Workers, WorkerError(w)
    PROVE  SharedOK' /\ PcOK' /\ LocalsOK'
<1>1. SharedOK'
  BY Kinds DEF WorkerError, EndWith, SharedOK, counts, locks, process, peer
<1>2. PcOK' /\ LocalsOK'
  BY EndWithTypes DEF WorkerError
<1> QED
  BY <1>1, <1>2

LEMMA FinishCompletedTypes ==
    ASSUME SharedOK, PcOK, LocalsOK, NEW w \in Workers, FinishCompleted(w)
    PROVE  SharedOK' /\ PcOK' /\ LocalsOK'
<1>1. SharedOK'
  BY Kinds, WithStatus DEF FinishCompleted, EndWith, LocalsOK, Running, Terminal,
     SharedOK, At, counts, locks, process, peer
<1>2. PcOK' /\ LocalsOK'
  BY EndWithTypes DEF FinishCompleted
<1> QED
  BY <1>1, <1>2

LEMMA SendChunkTypes ==
    ASSUME SharedOK, PcOK, LocalsOK, NEW w \in Workers, SendChunk(w)
    PROVE  SharedOK' /\ PcOK' /\ LocalsOK'
<1>1. SharedOK'
  <2>1. remote' \in [Transfers -> Remote]
    <3>1. PICK c \in todo[w] : PutChunk(w, c)
      BY DEF SendChunk
    <3> QED
      BY <3>1, HaveSet, Kinds DEF PutChunk, SharedOK, LocalsOK
  <2> QED
    BY <2>1 DEF SendChunk, EndWith, SharedOK, counts, locks, process
<1>2. PcOK' /\ LocalsOK'
  <2>1. CASE EndWith(w, "error")
    BY <2>1, EndWithTypes
  <2>2. CASE ~EndWith(w, "error")
    <3>1. Goto(w, "refresh")
      BY <2>2 DEF SendChunk
    <3>2. PcOK'
      BY <3>1, WorkerPc DEF WorkerStep
    <3>3. LocalsOK'
      BY <2>2, Kinds DEF SendChunk, LocalsOK
    <3> QED
      BY <3>2, <3>3
  <2> QED
    BY <2>1, <2>2
<1> QED
  BY <1>1, <1>2

LEMMA CompleteTypes ==
    ASSUME SharedOK, PcOK, LocalsOK, NEW w \in Workers, Complete(w)
    PROVE  SharedOK' /\ PcOK' /\ LocalsOK'
<1>1. SharedOK'
  <2>1. remote' \in [Transfers -> Remote]
    BY StatusSet, Kinds DEF Complete, SharedOK, LocalsOK, Terminal
  <2> QED
    BY <2>1 DEF Complete, EndWith, SharedOK, counts, locks, process
<1>2. PcOK' /\ LocalsOK'
  <2>1. CASE EndWith(w, "error")
    BY <2>1, EndWithTypes
  <2>2. CASE ~EndWith(w, "error")
    <3>1. Goto(w, "latest")
      BY <2>2 DEF Complete
    <3>2. PcOK'
      BY <3>1, WorkerPc DEF WorkerStep
    <3>3. LocalsOK'
      BY <2>2, Kinds DEF Complete, LocalsOK
    <3> QED
      BY <3>2, <3>3
  <2> QED
    BY <2>1, <2>2
<1> QED
  BY <1>1, <1>2

LEMMA EndTypes ==
    ASSUME SharedOK, PcOK, LocalsOK, NEW w \in Workers, End(w)
    PROVE  SharedOK' /\ PcOK' /\ LocalsOK'
<1>1. SharedOK'
  BY Kinds DEF End, LocalsOK, SharedOK, At, counts, locks, process, peer
<1>2. PcOK' /\ LocalsOK'
  <2>1. CASE WorkerExit(w)
    BY <2>1, WorkerExitTypes
  <2>2. CASE ~WorkerExit(w)
    <3>1. Goto(w, "failRead")
      BY <2>2 DEF End
    <3>2. PcOK'
      BY <3>1, WorkerPc DEF WorkerStep
    <3>3. LocalsOK'
      BY <2>2 DEF End, LocalsOK, SharedOK
    <3> QED
      BY <3>2, <3>3
  <2> QED
    BY <2>1, <2>2
<1> QED
  BY <1>1, <1>2

LEMMA FailReadTypes ==
    ASSUME SharedOK, PcOK, LocalsOK, NEW w \in Workers, FailRead(w)
    PROVE  SharedOK' /\ PcOK' /\ LocalsOK'
<1>1. SharedOK'
  BY Kinds DEF FailRead, LocalsOK, SharedOK, At, counts, locks, process, peer
<1>2. PcOK' /\ LocalsOK'
  <2>1. CASE WorkerExit(w)
    BY <2>1, WorkerExitTypes
  <2>2. CASE ~WorkerExit(w)
    <3>1. Goto(w, "failSave")
      BY <2>2 DEF FailRead
    <3>2. PcOK'
      BY <3>1, WorkerPc DEF WorkerStep
    <3>3. LocalsOK'
      BY <2>2, Kinds DEF FailRead, LocalsOK, SharedOK
    <3> QED
      BY <3>2, <3>3
  <2> QED
    BY <2>1, <2>2
<1> QED
  BY <1>1, <1>2

LEMMA FailSaveTypes ==
    ASSUME SharedOK, PcOK, LocalsOK, NEW w \in Workers, FailSave(w)
    PROVE  SharedOK' /\ PcOK' /\ LocalsOK'
<1>1. SharedOK'
  <2>1. [current[w] EXCEPT !.status = "Failed"] \in Row
    BY WithStatus DEF LocalsOK, Terminal
  <2>2. row' \in [Transfers -> Row] /\ aborted' \subseteq Transfers
    BY <2>1, Kinds DEF FailSave, SharedOK, LocalsOK
  <2> QED
    BY <2>2 DEF FailSave, SharedOK, counts, locks, process, peer
<1>2. PcOK' /\ LocalsOK'
  BY WorkerExitTypes DEF FailSave
<1> QED
  BY <1>1, <1>2

LEMMA LockMuTypes ==
    ASSUME SharedOK, PcOK, LocalsOK, NEW u \in Users, NEW t \in Transfers,
           NEW c \in {"pause", "resume", "retry"}, LockMu(u, c, t)
    PROVE  SharedOK' /\ PcOK' /\ LocalsOK'
<1>1. SharedOK'
  BY SenderAssumption DEF LockMu, NewRequest, SharedOK, process, peer
<1>2. PcOK'
  BY UserPc DEF LockMu, UserStep
<1>3. LocalsOK'
  BY Kinds DEF LockMu, LocalsOK, Command
<1> QED
  BY <1>1, <1>2, <1>3

LEMMA CancelTypes ==
    ASSUME SharedOK, PcOK, LocalsOK, NEW u \in Users, NEW t \in Transfers, Cancel(u, t)
    PROVE  SharedOK' /\ PcOK' /\ LocalsOK'
<1>1. SharedOK'
  BY SenderAssumption DEF Cancel, NewRequest, SharedOK, locks, process, peer
<1>2. PcOK'
  BY UserPc DEF Cancel, UserStep
<1>3. LocalsOK'
  BY Kinds, CancelContextTypes DEF Cancel, LocalsOK, Command
<1> QED
  BY <1>1, <1>2, <1>3

(* What a request saves is a row.                                           *)
LEMMA ToIsStatus ==
    ASSUME NEW c \in {"pause", "resume", "retry"}
    PROVE  To(c) \in {"Paused", "Resuming", "Queued"}
BY DEF To

LEMMA LockedReadTypes ==
    ASSUME SharedOK, PcOK, LocalsOK, NEW u \in Users, UserInv, LockedRead(u)
    PROVE  SharedOK' /\ PcOK' /\ LocalsOK'
<1>1. SharedOK'
  BY Kinds DEF LockedRead, UserReturn, SharedOK, At, counts, process, peer
<1>2. PcOK' /\ LocalsOK'
  <2>1. CASE UserReturn(u)
    BY <2>1, UserReturnTypes DEF LockedRead, LocalsOK
  <2>2. CASE ~UserReturn(u)
    <3>1. Goto(u, "lockedSave")
      BY <2>2 DEF LockedRead
    <3>2. PcOK'
      BY <3>1, UserPc DEF UserStep
    <3>3. LocalsOK'
      <4>1. To(cmd[u]) \in Running \cup Terminal \cup {"Absent", "Queued", "Paused"}
        BY ToIsStatus DEF LockedRead, At, UserInv, Running
      <4>2. row[id[u]] \in Row
        BY Kinds DEF SharedOK, LocalsOK
      <4>3. [row[id[u]] EXCEPT !.status = To(cmd[u])] \in Row
        BY <4>1, <4>2, WithStatus
      <4> QED
        BY <2>2, <4>3, Kinds DEF LockedRead, LocalsOK
    <3> QED
      BY <3>2, <3>3
  <2> QED
    BY <2>1, <2>2
<1> QED
  BY <1>1, <1>2

LEMMA LockedSaveTypes ==
    ASSUME SharedOK, PcOK, LocalsOK, NEW u \in Users, UserInv, LockedSave(u)
    PROVE  SharedOK' /\ PcOK' /\ LocalsOK'
<1>1. SharedOK'
  BY Kinds DEF LockedSave, LocalsOK, SharedOK, At, counts, process, peer
<1>2. PcOK' /\ LocalsOK'
  <2>1. ctx' \in [Workers -> {"live", "cancelled"}]
    BY CancelContextTypes DEF LockedSave, LocalsOK
  <2> QED
    BY <2>1, UserReturnTypes DEF LockedSave
<1> QED
  BY <1>1, <1>2

LEMMA CancelReadTypes ==
    ASSUME SharedOK, PcOK, LocalsOK, NEW u \in Users, UserInv, CancelRead(u)
    PROVE  SharedOK' /\ PcOK' /\ LocalsOK'
<1>1. SharedOK'
  BY Kinds DEF CancelRead, UserReturn, SharedOK, At, counts, locks, process, peer
<1>2. PcOK' /\ LocalsOK'
  <2>1. CASE UserReturn(u)
    BY <2>1, UserReturnTypes DEF CancelRead, LocalsOK
  <2>2. CASE ~UserReturn(u)
    <3>1. Goto(u, "cancelSave")
      BY <2>2 DEF CancelRead
    <3>2. PcOK'
      BY <3>1, UserPc DEF UserStep
    <3>3. LocalsOK'
      <4>1. [row[id[u]] EXCEPT !.status = "Cancelled"] \in Row
        BY WithStatus, Kinds DEF SharedOK, LocalsOK, Terminal
      <4> QED
        BY <2>2, <4>1, Kinds DEF CancelRead, LocalsOK
    <3> QED
      BY <3>2, <3>3
  <2> QED
    BY <2>1, <2>2
<1> QED
  BY <1>1, <1>2

LEMMA CancelSaveTypes ==
    ASSUME SharedOK, PcOK, LocalsOK, NEW u \in Users, UserInv, CancelSave(u)
    PROVE  SharedOK' /\ PcOK' /\ LocalsOK'
<1>1. SharedOK'
  BY Kinds DEF CancelSave, LocalsOK, SharedOK, At, counts, locks, process, peer
<1>2. PcOK' /\ LocalsOK'
  <2>1. CASE UserReturn(u)
    BY <2>1, UserReturnTypes DEF CancelSave, LocalsOK
  <2>2. CASE ~UserReturn(u)
    <3>1. Goto(u, "notify")
      BY <2>2 DEF CancelSave
    <3>2. PcOK'
      BY <3>1, UserPc DEF UserStep
    <3>3. LocalsOK'
      BY <2>2 DEF CancelSave, LocalsOK
    <3> QED
      BY <3>2, <3>3
  <2> QED
    BY <2>1, <2>2
<1> QED
  BY <1>1, <1>2

LEMMA NotifyTypes ==
    ASSUME SharedOK, PcOK, LocalsOK, NEW u \in Users, UserInv, Notify(u)
    PROVE  SharedOK' /\ PcOK' /\ LocalsOK'
<1>1. SharedOK'
  <2>1. remote' \in [Transfers -> Remote]
    BY StatusSet, Kinds DEF Notify, SharedOK, LocalsOK, Terminal
  <2> QED
    BY <2>1 DEF Notify, SharedOK, counts, locks, process
<1>2. PcOK' /\ LocalsOK'
  BY UserReturnTypes DEF Notify, LocalsOK
<1> QED
  BY <1>1, <1>2

(* SaveTransfer of a worker's row.                                          *)
LEMMA SaveTypes ==
    ASSUME SharedOK, PcOK, LocalsOK, NEW w \in Workers, NEW step, NEW r \in Row,
           NEW next \in WorkerStep, Save(w, step, r, next)
    PROVE  SharedOK' /\ PcOK' /\ LocalsOK'
<1>1. SharedOK'
  BY Kinds DEF Save, SharedOK, LocalsOK, counts, locks, process, peer
<1>2. PcOK'
  BY WorkerPc DEF Save
<1>3. LocalsOK'
  BY Kinds DEF Save, LocalsOK
<1> QED
  BY <1>1, <1>2, <1>3

(* The steps of no one goroutine.                                           *)
LEMMA QueueTypes ==
    ASSUME SharedOK, PcOK, LocalsOK, Queue PROVE SharedOK' /\ PcOK' /\ LocalsOK'
<1>1. [AbsentRow EXCEPT !.status = "Queued"] \in Row
  BY AbsentIsRow, WithStatus
<1>2. queued + 1 \in 0..NumTransfers
  BY SenderAssumption DEF Queue, SharedOK
<1>3. SharedOK'
  BY <1>1, <1>2 DEF Queue, SharedOK, locks, process, peer
<1>4. PcOK' /\ LocalsOK'
  BY DEF Queue, PcOK, LocalsOK, goroutines
<1> QED
  BY <1>3, <1>4

LEMMA DispatchTypes ==
    ASSUME SharedOK, PcOK, LocalsOK, Dispatch PROVE SharedOK' /\ PcOK' /\ LocalsOK'
<1>1. PICK f \in [Started -> {w \in Workers : At(w, "idle")}] :
         LET new == {f[t] : t \in Started}
             task(w) == CHOOSE t \in Started : f[t] = w
         IN  /\ active' = [t \in Transfers |-> IF t \in Started THEN {f[t]} ELSE active[t]]
             /\ pc' = [p \in Procs |-> IF p \in new THEN "start" ELSE pc[p]]
             /\ id' = [p \in Procs |-> IF p \in new THEN task(p) ELSE id[p]]
  BY DEF Dispatch
<1> DEFINE new == {f[t] : t \in Started}
           task(w) == CHOOSE t \in Started : f[t] = w
<1>2. new \subseteq Workers /\ Started \subseteq Transfers
  BY DEF Started, Eligible
<1>3. \A p \in new : task(p) \in Started
  OBVIOUS
<1>4. active' \in [Transfers -> SUBSET Workers]
  BY <1>1 DEF SharedOK
<1>5. SharedOK'
  BY <1>4 DEF Dispatch, SharedOK, counts, locks, process, peer
<1>6. id' \in [Procs -> Transfers]
  BY <1>1, <1>2, <1>3 DEF LocalsOK
<1>7. LocalsOK'
  BY <1>6 DEF Dispatch, LocalsOK
<1>8. PcOK'
  BY <1>1, <1>2, Kinds DEF PcOK, WorkerStep
<1> QED
  BY <1>5, <1>7, <1>8

LEMMA DeleteHistoryTypes ==
    ASSUME SharedOK, PcOK, LocalsOK, DeleteHistory
    PROVE  SharedOK' /\ PcOK' /\ LocalsOK'
<1>1. SharedOK'
  BY AbsentIsRow DEF DeleteHistory, SharedOK, counts, locks, process, peer
<1>2. PcOK' /\ LocalsOK'
  BY DEF DeleteHistory, PcOK, LocalsOK, goroutines
<1> QED
  BY <1>1, <1>2

LEMMA RecoverTypes ==
    ASSUME SharedOK, PcOK, LocalsOK, RecoverList \/ RecoverSave \/ RecoverFails
    PROVE  SharedOK' /\ PcOK' /\ LocalsOK'
<1>1. CASE RecoverList
  <2>1. \A t \in Transfers : [row[t] EXCEPT !.status = "Queued"] \in Row
    BY WithStatus DEF SharedOK
  <2>2. stale' \subseteq Transfers \X Row
    BY <1>1, <2>1 DEF RecoverList
  <2> QED
    BY <1>1, <2>2 DEF RecoverList, SharedOK, PcOK, LocalsOK, counts, locks, peer,
       goroutines
<1>2. CASE RecoverSave
  <2>1. PICK x \in stale : row' = [row EXCEPT ![x[1]] = x[2]] /\ stale' = stale \ {x}
    BY <1>2 DEF RecoverSave
  <2>2. x[1] \in Transfers /\ x[2] \in Row
    BY DEF SharedOK
  <2> QED
    BY <1>2, <2>1, <2>2 DEF RecoverSave, SharedOK, PcOK, LocalsOK, counts, locks,
       peer, goroutines
<1>3. CASE RecoverFails
  <2>1. {x[1] : x \in stale} \subseteq Transfers
    BY DEF SharedOK
  <2> QED
    BY <1>3, <2>1 DEF RecoverFails, SharedOK, PcOK, LocalsOK, counts, locks, peer,
       goroutines
<1> QED
  BY <1>1, <1>2, <1>3

LEMMA CrashTypes ==
    ASSUME SharedOK, PcOK, LocalsOK, Crash PROVE SharedOK' /\ PcOK' /\ LocalsOK'
<1>1. SharedOK'
  BY DEF Crash, SharedOK, counts, peer
<1>2. PcOK'
  BY Kinds DEF Crash, PcOK, WorkerStep, UserStep
<1>3. LocalsOK'
  BY AbsentIsRow DEF Crash, LocalsOK, Command
<1> QED
  BY <1>1, <1>2, <1>3

LEMMA DecideTypes ==
    ASSUME SharedOK, PcOK, LocalsOK, NEW t \in Transfers,
           PeerAccepts(t) \/ PeerDeclines(t) \/ PeerCancels(t) \/ PeerRetries(t)
    PROVE  SharedOK' /\ PcOK' /\ LocalsOK'
<1>1. remote' \in [Transfers -> Remote] /\ consent' \subseteq Transfers
  BY StatusSet DEF PeerAccepts, PeerDeclines, PeerCancels, PeerRetries, Decide,
     SharedOK, Terminal
<1>2. UNCHANGED <<row, counts, active, locks, goroutines, process, aborted>>
  BY DEF PeerAccepts, PeerDeclines, PeerCancels, PeerRetries, Decide
<1> QED
  BY <1>1, <1>2 DEF SharedOK, PcOK, LocalsOK, counts, locks, goroutines, process

(* The five rows processOutbound saves.                                     *)
LEMMA SavedRows ==
    ASSUME SenderInv, NEW w \in Workers
    PROVE  /\ [copy[w] EXCEPT !.status = "Preparing"] \in Row
           /\ [copy[w] EXCEPT !.files = TRUE] \in Row
           /\ [copy[w] EXCEPT !.files = TRUE].status = copy[w].status
           /\ ~At(w, "idle") =>
                  LET r == [copy[w] EXCEPT !.status = "Connecting",
                                !.token = IF @ = "none" THEN FreshToken ELSE @]
                  IN  r \in Row /\ r.status = "Connecting"
           /\ [copy[w] EXCEPT !.status = "Negotiating"] \in Row
           /\ [copy[w] EXCEPT !.status = "Sending"] \in Row
<1>1. copy[w] \in Row
  BY Kinds DEF SenderInv, TypeOK
<1>2. ASSUME ~At(w, "idle")
      PROVE  (IF copy[w].token = "none" THEN FreshToken ELSE copy[w].token)
                \in Tokens \cup {"none"}
  <2>1. stale = {}
    BY <1>2 DEF SenderInv, StartInv
  <2> QED
    BY <1>1, <2>1, FreshTokenIsNew DEF SenderInv, Row
<1>3. /\ [copy[w] EXCEPT !.files = TRUE] \in Row
      /\ [copy[w] EXCEPT !.files = TRUE].status = copy[w].status
  BY <1>1 DEF Row
<1>4. ASSUME ~At(w, "idle")
      PROVE  LET r == [copy[w] EXCEPT !.status = "Connecting",
                           !.token = IF @ = "none" THEN FreshToken ELSE @]
             IN  r \in Row /\ r.status = "Connecting"
  <2> DEFINE c == [copy[w] EXCEPT !.status = "Connecting"]
             k == IF copy[w].token = "none" THEN FreshToken ELSE copy[w].token
  <2>1. c \in Row /\ c.status = "Connecting" /\ c.token = copy[w].token
    BY <1>1 DEF Row, Running
  <2>2. k \in Tokens \cup {"none"}
    BY <1>2, <1>4
  <2>3. [c EXCEPT !.token = k] \in Row /\ [c EXCEPT !.token = k].status = "Connecting"
    <3> HIDE DEF c, k
    <3> QED
      BY <2>1, <2>2 DEF Row
  <2> QED
    BY <2>1, <2>3
<1>5. /\ [copy[w] EXCEPT !.status = "Preparing"] \in Row
      /\ [copy[w] EXCEPT !.status = "Negotiating"] \in Row
      /\ [copy[w] EXCEPT !.status = "Sending"] \in Row
  BY <1>1, WithStatus DEF Running
<1> QED
  BY <1>3, <1>4, <1>5

LEMMA SaveFamilyTypes ==
    ASSUME SenderInv, NEW w \in Workers,
           Prepare(w) \/ BuildManifest(w) \/ Connect(w) \/ Negotiate(w) \/ StartSending(w)
    PROVE  SharedOK' /\ PcOK' /\ LocalsOK'
<1>p. SharedOK /\ PcOK /\ LocalsOK
  BY TypeParts DEF SenderInv
<1>1. CASE Prepare(w)
  BY <1>1, <1>p, SavedRows, SaveTypes DEF Prepare, WorkerStep
<1>2. CASE BuildManifest(w)
  BY <1>2, <1>p, SavedRows, SaveTypes DEF BuildManifest, WorkerStep
<1>3. CASE Connect(w)
  <2>1. ~At(w, "idle")
    BY <1>3 DEF Connect, Save, At
  <2> QED
    BY <1>3, <1>p, <2>1, SavedRows, SaveTypes DEF Connect, WorkerStep
<1>4. CASE Negotiate(w)
  BY <1>4, <1>p, SavedRows, SaveTypes DEF Negotiate, WorkerStep
<1>5. CASE StartSending(w)
  BY <1>5, <1>p, SavedRows, SaveTypes DEF StartSending, WorkerStep
<1> QED
  BY <1>1, <1>2, <1>3, <1>4, <1>5

LEMMA TypeStep ==
    ASSUME SenderInv, [Next]_vars PROVE TypeOK'
<1>p. SharedOK /\ PcOK /\ LocalsOK /\ UserInv
  BY TypeParts DEF SenderInv
<1> SUFFICES SharedOK' /\ PcOK' /\ LocalsOK'
  BY DEF SharedOK, PcOK, LocalsOK, TypeOK
<1>1. ASSUME NEW w \in Workers, WorkerStepFree(w) \/ WorkerStepLocked(w)
      PROVE  SharedOK' /\ PcOK' /\ LocalsOK'
  BY <1>1, <1>p, SaveFamilyTypes, StartTypes, SendOfferTypes, ApprovedTypes,
     EndedTypes, SendChunkTypes, RefreshTypes, RefreshSaveTypes, RefreshFailsTypes,
     CompleteTypes, LatestTypes, FinishCompletedTypes, CanceledTypes,
     WorkerErrorTypes, EndTypes, FailReadTypes, FailSaveTypes DEF WorkerStepFree,
     WorkerStepLocked
<1>2. ASSUME NEW u \in Users, UserRequest(u) \/ UserStepFree(u) \/ UserStepLocked(u)
      PROVE  SharedOK' /\ PcOK' /\ LocalsOK'
  BY <1>2, <1>p, LockMuTypes, CancelTypes, LockedReadTypes, LockedSaveTypes,
     CancelReadTypes, CancelSaveTypes, NotifyTypes DEF UserRequest, UserStepFree,
     UserStepLocked
<1>3. ASSUME Queue \/ Dispatch \/ DeleteHistory \/ Crash
                \/ RecoverList \/ RecoverSave \/ RecoverFails
      PROVE  SharedOK' /\ PcOK' /\ LocalsOK'
  BY <1>3, <1>p, QueueTypes, DispatchTypes, DeleteHistoryTypes, CrashTypes,
     RecoverTypes
<1>4. CASE UNCHANGED vars
  BY <1>4, <1>p DEF vars, counts, goroutines, SharedOK, PcOK, LocalsOK
<1> QED
  BY <1>1, <1>2, <1>3, <1>4, <1>p, DecideTypes DEF Next

-----------------------------------------------------------------------------
(* The steps of processOutbound, of a worker that leaves, and of a user's   *)
(* request change the invariant's parts in one way each.  These predicates  *)
(* say what such a step does, pointwise, and the lemmas after them that it   *)
(* preserves the parts.                                                    *)

(* Nobody but p moves; only the row of t may change.                        *)
OthersWait(p) ==
    /\ \A q \in Procs : q # p => /\ pc'[q] = pc[q] /\ id'[q] = id[q]
                                 /\ copy'[q] = copy[q]
    /\ \A v \in Workers : v # p => current'[v] = current[v] /\ err'[v] = err[v]
    /\ \A u \in Users : u # p => cmd'[u] = cmd[u]
ContextsKept == \A v \in Workers : ctx'[v] = ctx[v]
OtherRowsKept(t) == \A q \in Transfers : q # t => row'[q] = row[q]

(* A mutex that somebody else holds stays with him.                         *)
OthersHold(p) ==
    /\ \A q \in Procs : (q # p /\ mu = {q}) => mu' = {q}
    /\ \A q \in Procs : (q # p /\ progressMu = {q}) => progressMu' = {q}

(* The receiver may go on, but what is completed stays so.                  *)
RemoteGoesOn ==
    /\ RemoteInv'
    /\ \A t \in Transfers : remote[t].status = "Completed" =>
           remote'[t].status = "Completed"

(* Worker w goes on inside processOutbound or returns from it.  The row it  *)
(* saves is one of its stages, a Completed that the receiver has confirmed, *)
(* or the row that refreshProgress has read.                                *)
SavesRow(w) ==
    \/ row'[id[w]].status \in Running \ {"Resuming"}
    \/ row'[id[w]].status = "Completed" /\ remote[id[w]].status = "Completed"
    \/ pc[w] = "refreshSave" /\ row'[id[w]] = current[w]

Work(w) ==
    /\ OthersWait(w) /\ ContextsKept /\ OtherRowsKept(id[w]) /\ OthersHold(w)
    /\ UNCHANGED <<queued, active, boot, stale, aborted>>
    /\ RemoteGoesOn
    /\ id'[w] = id[w]
    /\ pc[w] \notin {"idle", "end", "failRead", "failSave"}
    /\ pc'[w] \notin {"idle", "failRead", "failSave"}
    /\ row'[id[w]] = row[id[w]] \/ (Live(w) /\ SavesRow(w))
    /\ (Live(w) /\ row'[id[w]].status \in Running) => WillSave(w)'
    /\ pc'[w] = "manifest" => copy'[w].status = "Preparing"
    /\ pc'[w] \in {"latest", "finish"} => remote'[id[w]].status = "Completed"
    /\ pc'[w] = "refreshSave" =>
           /\ progressMu' = {w}
           /\ current'[w] = row[id[w]] /\ row'[id[w]] = row[id[w]]

(* Who is about to save a row under progressMu is alone there.              *)
LEMMA OneHolder ==
    ASSUME SenderInv, NEW p \in Procs, NEW q \in Procs,
           pc[p] \in {"refreshSave", "lockedSave"}, pc[q] \in {"refreshSave", "lockedSave"}
    PROVE  p = q
<1>1. ASSUME NEW r \in Procs, pc[r] \in {"refreshSave", "lockedSave"}
      PROVE  progressMu = {r}
  BY <1>1 DEF SenderInv, TypeOK, LockInv, Procs, WorkerStep, UserStep
<1>2. progressMu = {p} /\ progressMu = {q}
  BY <1>1
<1> QED
  BY <1>2

LEMMA WorkKeeps ==
    ASSUME SenderInv, TypeOK', NEW w \in Workers, Work(w)
    PROVE  SenderInv'
<1> USE Kinds DEF OthersWait, ContextsKept
<1>i. /\ w \in Procs /\ id[w] \in Transfers /\ id[w] <= queued
      /\ boot = "run" /\ stale = {}
  BY DEF SenderInv, TypeOK, QueuedInv, StartInv, Work, At
<1>t. id \in [Procs -> Transfers] /\ queued \in Nat /\ Transfers \subseteq Nat
  BY DEF SenderInv, TypeOK, Transfers
<1>a. \A v \in Workers : AtWork(v)' => AtWork(v)
  BY DEF Work, AtWork, Live
<1>b. \A v \in Workers : v # w => (WillSave(v) => WillSave(v)')
  BY DEF WillSave, AtWork, Live, Work
<1>r. ASSUME NEW p \in Procs, pc[p] \in {"refreshSave", "lockedSave"}, p # w
      PROVE  pc[w] # "refreshSave"
  BY <1>r, OneHolder
<1>1. StartInv'
  BY <1>i DEF StartInv, Work
<1>2. QueuedInv'
  BY <1>i, <1>t DEF SenderInv, QueuedInv, Work, OtherRowsKept, At
<1>3. MapInv'
  BY DEF SenderInv, TypeOK, MapInv, Work
<1>4. LockInv'
  BY DEF SenderInv, LockInv, Work, OthersHold
<1>5. UserInv'
  <2> SUFFICES ASSUME NEW u \in Users, pc[u] = "lockedSave", cmd[u] = "retry"
               PROVE  row'[id[u]].status # "Paused"
    BY DEF SenderInv, UserInv, Work
  <2>1. row[id[u]].status # "Paused" /\ pc[w] # "refreshSave" /\ id[u] \in Transfers
    BY <1>r, <1>t DEF SenderInv, UserInv
  <2> QED
    BY <2>1 DEF Work, OtherRowsKept, SavesRow, Running
<1>6. RemoteInv'
  BY DEF Work, RemoteGoesOn
<1>7. ConfirmInv'
  <2> SUFFICES ASSUME NEW v \in Workers
               PROVE  /\ pc'[v] = "manifest" => copy'[v].status = "Preparing"
                      /\ (pc'[v] \in {"latest", "finish"}
                            \/ (pc'[v] = "refreshSave" /\ current'[v].status = "Completed"))
                         => remote'[id'[v]].status = "Completed"
    BY DEF ConfirmInv
  <2>1. CASE v # w
    <3>1. pc'[v] = pc[v] /\ copy'[v] = copy[v] /\ current'[v] = current[v]
          /\ id'[v] = id[v] /\ id[v] \in Transfers
      BY <2>1, <1>t DEF Work
    <3> QED
      BY <3>1 DEF SenderInv, ConfirmInv, Work, RemoteGoesOn
  <2>2. CASE v = w
    BY <2>2, <1>i DEF SenderInv, CompletedIsConfirmed, Work, RemoteGoesOn
  <2> QED
    BY <2>1, <2>2
<1>8. CompletedIsConfirmed'
  <2>1. ASSUME NEW t \in Transfers, row'[t].status = "Completed"
        PROVE  remote'[t].status = "Completed"
    <3>1. CASE row'[t] = row[t]
      BY <2>1, <3>1 DEF SenderInv, CompletedIsConfirmed, Work, RemoteGoesOn
    <3>2. CASE row'[t] # row[t]
      <4>1. t = id[w] /\ SavesRow(w)
        BY <3>2, <1>i DEF Work, OtherRowsKept
      <4> QED
        BY <2>1, <4>1 DEF SavesRow, Running, SenderInv, ConfirmInv, Work,
           RemoteGoesOn
    <3> QED
      BY <3>1, <3>2
  <2> QED
    BY <2>1 DEF CompletedIsConfirmed, Work, RemoteGoesOn, RemoteInv
<1>9. BusyInv'
  <2> SUFFICES ASSUME NEW t \in Transfers, row'[t].status \in Running \ {"Resuming"}
               PROVE  Attended(t)'
    BY DEF BusyInv
  <2>1. CASE t = id[w] /\ Live(w)
    BY <2>1, <1>i DEF Work, Attended
  <2>2. CASE t # id[w] \/ ~Live(w)
    <3>1. Attended(t)
      BY <2>2 DEF SenderInv, BusyInv, Work, OtherRowsKept
    <3>2. ASSUME NEW v \in Workers, id[v] = t, WillSave(v)
          PROVE  id'[v] = t /\ WillSave(v)'
      BY <2>2, <3>2, <1>b DEF Work, WillSave, AtWork
    <3> QED
      BY <3>1, <3>2 DEF Attended, WillCancel, Work
  <2> QED
    BY <2>1, <2>2
<1>10. PausedInv'
  <2>1. \A t \in Transfers : Unattended(t) => Unattended(t)'
    BY <1>a DEF Unattended, Work
  <2>2. ASSUME NEW t \in Transfers, row'[t].status = "Paused"
        PROVE  Unattended(t)'
    BY <2>1, <2>2 DEF SenderInv, PausedInv, Work, OtherRowsKept, SavesRow, Running
  <2>3. ASSUME NEW v \in Workers, pc'[v] = "refreshSave", current'[v].status = "Paused"
        PROVE  Unattended(id[v])' /\ row'[id'[v]].status \notin {"Queued", "Resuming"}
    <3>1. CASE v = w
      BY <2>1, <2>3, <3>1, <1>i DEF SenderInv, PausedInv, Work
    <3>2. CASE v # w
      <4>1. pc[v] = "refreshSave" /\ current[v].status = "Paused" /\ id'[v] = id[v]
            /\ id[v] \in Transfers
        BY <2>3, <3>2, <1>t DEF Work
      <4>2. Unattended(id[v]) /\ row[id[v]].status \notin {"Queued", "Resuming"}
        BY <4>1 DEF SenderInv, PausedInv
      <4>3. pc[w] # "refreshSave"
        BY <1>r, <3>2, <4>1
      <4> QED
        BY <2>1, <4>1, <4>2, <4>3 DEF Work, OtherRowsKept, SavesRow, Running
    <3> QED
      BY <3>1, <3>2
  <2> QED
    BY <2>2, <2>3 DEF PausedInv, Work
<1> QED
  BY <1>1, <1>2, <1>3, <1>4, <1>5, <1>6, <1>7, <1>8, <1>9, <1>10 DEF SenderInv

(* The shape of the state, for the steps below.                             *)
LEMMA Shape ==
    ASSUME SenderInv
    PROVE  /\ DOMAIN pc = Procs /\ DOMAIN id = Procs /\ DOMAIN copy = Procs
           /\ pc = [p \in Procs |-> pc[p]] /\ id = [p \in Procs |-> id[p]]
           /\ copy = [p \in Procs |-> copy[p]]
           /\ current = [w \in Workers |-> current[w]] /\ err = [w \in Workers |-> err[w]]
           /\ ctx = [w \in Workers |-> ctx[w]] /\ cmd = [u \in Users |-> cmd[u]]
           /\ row = [t \in Transfers |-> row[t]] /\ active = [t \in Transfers |-> active[t]]
           /\ \A p \in Procs : id[p] \in Transfers
           /\ RemoteInv
BY DEF SenderInv, TypeOK

LEMMA StartWorks ==
    ASSUME SenderInv, NEW w \in Workers, Start(w) PROVE Work(w)
<1>1. OthersWait(w) /\ ContextsKept
  BY Shape, Kinds DEF Start, OthersWait, ContextsKept, Goto
<1>2. OtherRowsKept(id[w]) /\ OthersHold(w)
  BY Shape, Kinds DEF Start, OtherRowsKept, OthersHold, locks
<1>3. RemoteGoesOn
  BY Shape DEF Start, RemoteGoesOn, RemoteInv, peer
<1>4. UNCHANGED <<queued, active, boot, stale, aborted>>
  BY Shape DEF Start, counts, process
<1> QED
  BY <1>1, <1>2, <1>3, <1>4, Shape, Kinds DEF Start, Work, SavesRow, WillSave,
     AtWork, Live, At, Goto

LEMMA SendOfferWorks ==
    ASSUME SenderInv, NEW w \in Workers, SendOffer(w) PROVE Work(w)
<1>1. OthersWait(w) /\ ContextsKept
  BY Shape, Kinds DEF SendOffer, EndWith, OthersWait, ContextsKept, Goto
<1>2. OtherRowsKept(id[w]) /\ OthersHold(w)
  BY Shape, Kinds DEF SendOffer, EndWith, OtherRowsKept, OthersHold, locks
<1>3. RemoteGoesOn
  BY Shape DEF SendOffer, EndWith, RemoteGoesOn, RemoteInv
<1>4. UNCHANGED <<queued, active, boot, stale, aborted>>
  BY Shape DEF SendOffer, EndWith, counts, process
<1> QED
  BY <1>1, <1>2, <1>3, <1>4, Shape, Kinds DEF SendOffer, EndWith, Work, SavesRow,
     WillSave, AtWork, Live, At, Goto

LEMMA ApprovedWorks ==
    ASSUME SenderInv, NEW w \in Workers, Approved(w) PROVE Work(w)
<1>1. OthersWait(w) /\ ContextsKept
  BY Shape, Kinds DEF Approved, OthersWait, ContextsKept, Goto
<1>2. OtherRowsKept(id[w]) /\ OthersHold(w)
  BY Shape, Kinds DEF Approved, OtherRowsKept, OthersHold, locks
<1>3. RemoteGoesOn
  BY Shape DEF Approved, RemoteGoesOn, RemoteInv, peer
<1>4. UNCHANGED <<queued, active, boot, stale, aborted>>
  BY Shape DEF Approved, counts, process
<1> QED
  BY <1>1, <1>2, <1>3, <1>4, Shape, Kinds DEF Approved, Work, SavesRow, WillSave,
     AtWork, Live, At, Goto

LEMMA EndedWorks ==
    ASSUME SenderInv, NEW w \in Workers, Ended(w) PROVE Work(w)
<1>1. OthersWait(w) /\ ContextsKept
  BY Shape, Kinds DEF Ended, EndWith, OthersWait, ContextsKept, Goto
<1>2. OtherRowsKept(id[w]) /\ OthersHold(w)
  BY Shape, Kinds DEF Ended, EndWith, OtherRowsKept, OthersHold, locks
<1>3. RemoteGoesOn
  BY Shape DEF Ended, EndWith, RemoteGoesOn, RemoteInv, peer
<1>4. UNCHANGED <<queued, active, boot, stale, aborted>>
  BY Shape DEF Ended, EndWith, counts, process
<1> QED
  BY <1>1, <1>2, <1>3, <1>4, Shape, Kinds DEF Ended, EndWith, Work, SavesRow,
     WillSave, AtWork, Live, At, Goto

LEMMA SendChunkWorks ==
    ASSUME SenderInv, NEW w \in Workers, SendChunk(w) PROVE Work(w)
<1>1. OthersWait(w) /\ ContextsKept
  BY Shape, Kinds DEF SendChunk, EndWith, OthersWait, ContextsKept, Goto
<1>2. OtherRowsKept(id[w]) /\ OthersHold(w)
  BY Shape, Kinds DEF SendChunk, EndWith, OtherRowsKept, OthersHold, locks
<1>3. RemoteGoesOn
  <2>1. PICK c \in todo[w] : PutChunk(w, c)
    BY DEF SendChunk
  <2>2. /\ \A t \in Transfers : t # id[w] => remote'[t] = remote[t]
        /\ remote'[id[w]].status = remote[id[w]].status
        /\ remote[id[w]].status = "Receiving"
    BY <2>1, HaveSet, Shape, Kinds DEF PutChunk, SenderInv, TypeOK
  <2>3. consent' = consent
    BY DEF SendChunk
  <2> QED
    BY <2>2, <2>3, Shape DEF RemoteGoesOn, RemoteInv
<1>4. UNCHANGED <<queued, active, boot, stale, aborted>>
  BY Shape DEF SendChunk, EndWith, counts, process
<1> QED
  BY <1>1, <1>2, <1>3, <1>4, Shape, Kinds DEF SendChunk, EndWith, Work, SavesRow,
     WillSave, AtWork, Live, At, Goto

LEMMA RefreshWorks ==
    ASSUME SenderInv, NEW w \in Workers, Refresh(w) PROVE Work(w)
<1>1. OthersWait(w) /\ ContextsKept
  BY Shape, Kinds DEF Refresh, OthersWait, ContextsKept, Goto
<1>2. OtherRowsKept(id[w]) /\ OthersHold(w)
  BY Shape, Kinds DEF Refresh, OtherRowsKept, OthersHold, Free
<1>3. RemoteGoesOn
  BY Shape DEF Refresh, RemoteGoesOn, RemoteInv, peer
<1>4. UNCHANGED <<queued, active, boot, stale, aborted>>
  BY Shape DEF Refresh, counts, process
<1> QED
  BY <1>1, <1>2, <1>3, <1>4, Shape, Kinds DEF Refresh, Work, SavesRow, WillSave,
     AtWork, Live, At, Goto

LEMMA RefreshSaveWorks ==
    ASSUME SenderInv, NEW w \in Workers, RefreshSave(w) PROVE Work(w)
<1>1. OthersWait(w) /\ ContextsKept
  BY Shape, Kinds DEF RefreshSave, OthersWait, ContextsKept, Goto
<1>2. OtherRowsKept(id[w]) /\ OthersHold(w)
  <2>1. progressMu = {w}
    BY DEF RefreshSave, SenderInv, LockInv, At
  <2> QED
    BY <2>1, Shape, Kinds DEF RefreshSave, OtherRowsKept, OthersHold
<1>3. RemoteGoesOn
  BY Shape DEF RefreshSave, RemoteGoesOn, RemoteInv, peer
<1>4. UNCHANGED <<queued, active, boot, stale, aborted>>
  BY Shape DEF RefreshSave, counts, process
<1> QED
  BY <1>1, <1>2, <1>3, <1>4, Shape, Kinds DEF RefreshSave, Work, SavesRow,
     WillSave, AtWork, Live, At, Goto

LEMMA RefreshFailsWorks ==
    ASSUME SenderInv, NEW w \in Workers, RefreshFails(w) PROVE Work(w)
<1>1. OthersWait(w) /\ ContextsKept
  BY Shape, Kinds DEF RefreshFails, OthersWait, ContextsKept, Goto
<1>2. OtherRowsKept(id[w]) /\ OthersHold(w)
  BY Shape, Kinds DEF RefreshFails, OtherRowsKept, OthersHold
<1>3. RemoteGoesOn
  BY Shape DEF RefreshFails, RemoteGoesOn, RemoteInv, peer
<1>4. UNCHANGED <<queued, active, boot, stale, aborted>>
  BY Shape DEF RefreshFails, counts, process
<1> QED
  BY <1>1, <1>2, <1>3, <1>4, Shape, Kinds DEF RefreshFails, Work, SavesRow,
     WillSave, AtWork, Live, At, Goto

LEMMA CompleteWorks ==
    ASSUME SenderInv, NEW w \in Workers, Complete(w) PROVE Work(w)
<1>1. OthersWait(w) /\ ContextsKept
  BY Shape, Kinds DEF Complete, EndWith, OthersWait, ContextsKept, Goto
<1>2. OtherRowsKept(id[w]) /\ OthersHold(w)
  BY Shape, Kinds DEF Complete, EndWith, OtherRowsKept, OthersHold, locks
<1>3. RemoteGoesOn
  <2>1. /\ remote[id[w]].status = "Receiving" /\ consent' = consent
        /\ remote[id[w]].have # Chunks => remote'[id[w]].status = "Failed"
    BY StatusSet, Shape, Kinds DEF Complete, SenderInv, TypeOK, Terminal
  <2>2. /\ \A t \in Transfers : t # id[w] => remote'[t] = remote[t]
        /\ remote'[id[w]].have = remote[id[w]].have
    BY StatusSet, Shape, Kinds DEF Complete, SenderInv, TypeOK, Terminal
  <2> QED
    BY <2>1, <2>2, Shape DEF RemoteGoesOn, RemoteInv
<1>4. UNCHANGED <<queued, active, boot, stale, aborted>>
  BY Shape DEF Complete, EndWith, counts, process
<1>5. Goto(w, "latest") => remote'[id[w]].status = "Completed"
  BY StatusSet, Shape, Kinds DEF Complete, EndWith, Goto, SenderInv, TypeOK,
     Terminal
<1> QED
  BY <1>1, <1>2, <1>3, <1>4, <1>5, Shape, Kinds DEF Complete, EndWith, Work,
     SavesRow, WillSave, AtWork, Live, At, Goto

LEMMA LatestWorks ==
    ASSUME SenderInv, NEW w \in Workers, Latest(w) PROVE Work(w)
<1>1. OthersWait(w) /\ ContextsKept
  BY Shape, Kinds DEF Latest, OthersWait, ContextsKept, Goto
<1>2. OtherRowsKept(id[w]) /\ OthersHold(w)
  BY Shape, Kinds DEF Latest, OtherRowsKept, OthersHold, locks
<1>3. RemoteGoesOn
  BY Shape DEF Latest, RemoteGoesOn, RemoteInv, peer
<1>4. UNCHANGED <<queued, active, boot, stale, aborted>>
  BY Shape DEF Latest, counts, process
<1> QED
  BY <1>1, <1>2, <1>3, <1>4, Shape, Kinds DEF Latest, Work, SavesRow, WillSave,
     AtWork, Live, At, Goto, SenderInv, ConfirmInv, peer

LEMMA FinishCompletedWorks ==
    ASSUME SenderInv, NEW w \in Workers, FinishCompleted(w) PROVE Work(w)
<1>1. OthersWait(w) /\ ContextsKept
  BY Shape, Kinds DEF FinishCompleted, EndWith, OthersWait, ContextsKept, Goto
<1>2. OtherRowsKept(id[w]) /\ OthersHold(w)
  BY Shape, Kinds DEF FinishCompleted, EndWith, OtherRowsKept, OthersHold, locks
<1>3. RemoteGoesOn
  BY Shape DEF FinishCompleted, EndWith, RemoteGoesOn, RemoteInv, peer
<1>4. UNCHANGED <<queued, active, boot, stale, aborted>>
  BY Shape DEF FinishCompleted, EndWith, counts, process
<1>5. row'[id[w]].status = "Completed" /\ remote[id[w]].status = "Completed"
  <2>1. [current[w] EXCEPT !.status = "Completed"].status = "Completed"
    BY WithStatus DEF SenderInv, TypeOK, Terminal
  <2> QED
    BY <2>1, Shape, Kinds DEF FinishCompleted, SenderInv, ConfirmInv, At
<1> QED
  BY <1>1, <1>2, <1>3, <1>4, <1>5, Shape, Kinds DEF FinishCompleted, EndWith,
     Work, SavesRow, WillSave, AtWork, Live, At, Goto, Running

LEMMA CanceledWorks ==
    ASSUME SenderInv, NEW w \in Workers, Canceled(w) PROVE Work(w)
<1>1. OthersWait(w) /\ ContextsKept
  BY Shape, Kinds DEF Canceled, EndWith, OthersWait, ContextsKept, Goto
<1>2. OtherRowsKept(id[w]) /\ OthersHold(w)
  BY Shape, Kinds DEF Canceled, EndWith, OtherRowsKept, OthersHold, locks
<1>3. RemoteGoesOn
  BY Shape DEF Canceled, EndWith, RemoteGoesOn, RemoteInv, peer
<1>4. UNCHANGED <<queued, active, boot, stale, aborted>>
  BY Shape DEF Canceled, EndWith, counts, process
<1> QED
  BY <1>1, <1>2, <1>3, <1>4, Shape, Kinds DEF Canceled, EndWith, Work, SavesRow,
     WillSave, AtWork, Live, Goto, WatchesContext

LEMMA WorkerErrorWorks ==
    ASSUME SenderInv, NEW w \in Workers, WorkerError(w) PROVE Work(w)
<1>1. OthersWait(w) /\ ContextsKept
  BY Shape, Kinds DEF WorkerError, EndWith, OthersWait, ContextsKept, Goto
<1>2. OtherRowsKept(id[w]) /\ OthersHold(w)
  BY Shape, Kinds DEF WorkerError, EndWith, OtherRowsKept, OthersHold, locks
<1>3. RemoteGoesOn
  BY Shape DEF WorkerError, EndWith, RemoteGoesOn, RemoteInv, peer
<1>4. UNCHANGED <<queued, active, boot, stale, aborted>>
  BY Shape DEF WorkerError, EndWith, counts, process
<1> QED
  BY <1>1, <1>2, <1>3, <1>4, Shape, Kinds DEF WorkerError, EndWith, Work,
     SavesRow, WillSave, AtWork, Live, Goto, WatchesContext

(* The five SaveTransfer calls of a worker.                                 *)
LEMMA SaveWorks ==
    ASSUME SenderInv, NEW w \in Workers, NEW step, NEW r, NEW next, Save(w, step, r, next),
           r.status \in Running \ {"Resuming"},
           step \notin {"idle", "end", "failRead", "failSave"},
           next \in {"manifest", "connect", "negotiate", "offer", "chunk"},
           next = "manifest" => r.status = "Preparing"
    PROVE  Work(w)
<1>1. OthersWait(w) /\ ContextsKept
  BY Shape, Kinds DEF Save, OthersWait, ContextsKept, Goto
<1>2. OtherRowsKept(id[w]) /\ OthersHold(w)
  BY Shape, Kinds DEF Save, OtherRowsKept, OthersHold, locks
<1>3. RemoteGoesOn
  BY Shape DEF Save, RemoteGoesOn, RemoteInv, peer
<1>4. UNCHANGED <<queued, active, boot, stale, aborted>>
  BY DEF Save, counts, process
<1>5. /\ row'[id[w]] = r /\ copy'[w] = r /\ pc[w] = step /\ pc'[w] = next
      /\ id'[w] = id[w] /\ Live(w) /\ ctx' = ctx
  BY Shape, Kinds DEF Save, At, Goto
<1>6. WillSave(w)'
  BY <1>5 DEF WillSave, AtWork, Live
<1> QED
  BY <1>1, <1>2, <1>3, <1>4, <1>5, <1>6 DEF Work, SavesRow

LEMMA SaveFamilyWorks ==
    ASSUME SenderInv, NEW w \in Workers,
           Prepare(w) \/ BuildManifest(w) \/ Connect(w) \/ Negotiate(w) \/ StartSending(w)
    PROVE  Work(w)
<1>1. copy[w] \in Row
  BY Kinds DEF SenderInv, TypeOK
<1>2. CASE Prepare(w)
  BY <1>1, <1>2, WithStatus, SaveWorks DEF Prepare, Running
<1>3. CASE BuildManifest(w)
  <2>1. copy[w].status = "Preparing"
    BY <1>3 DEF BuildManifest, Save, At, SenderInv, ConfirmInv
  <2> QED
    BY <1>3, <2>1, SavedRows, SaveWorks DEF BuildManifest, Running
<1>4. CASE Connect(w)
  <2>1. ~At(w, "idle")
    BY <1>4 DEF Connect, Save, At
  <2> QED
    BY <1>4, <2>1, SavedRows, SaveWorks DEF Connect, Running
<1>5. CASE Negotiate(w)
  BY <1>1, <1>5, WithStatus, SaveWorks DEF Negotiate, Running
<1>6. CASE StartSending(w)
  BY <1>1, <1>6, WithStatus, SaveWorks DEF StartSending, Running
<1> QED
  BY <1>2, <1>3, <1>4, <1>5, <1>6

-----------------------------------------------------------------------------
(* A worker whose processOutbound has returned takes its transfer out of    *)
(* the map and, after an error, fails the row.                              *)
Leave(w) ==
    /\ OthersWait(w) /\ OtherRowsKept(id[w])
    /\ \A v \in Workers : v # w => ctx'[v] = ctx[v]
    /\ UNCHANGED <<queued, mu, progressMu, boot, stale, remote, consent>>
    /\ aborted \subseteq aborted'
    /\ pc[w] \in {"end", "failRead", "failSave"}
    /\ pc'[w] \in {"idle", "failRead", "failSave"}
    /\ pc'[w] # "idle" => id'[w] = id[w]
    /\ \A t \in Transfers : active'[t] \subseteq active[t] /\ w \notin active'[t]
    /\ row'[id[w]] = row[id[w]] \/ row'[id[w]].status = "Failed"
    /\ (WillSave(w) /\ row'[id[w]].status \in Running \ {"Resuming"}) =>
           id[w] \in aborted' \/ pc'[w] \in {"failRead", "failSave"}

LEMMA LeaveKeeps ==
    ASSUME SenderInv, TypeOK', NEW w \in Workers, Leave(w)
    PROVE  SenderInv'
<1> USE Kinds DEF OthersWait
<1>i. /\ w \in Procs /\ id[w] \in Transfers /\ id[w] <= queued
      /\ boot = "run" /\ stale = {}
  BY DEF SenderInv, TypeOK, QueuedInv, StartInv, Leave, At
<1>t. id \in [Procs -> Transfers] /\ queued \in Nat /\ Transfers \subseteq Nat
  BY DEF SenderInv, TypeOK, Transfers
<1>a. \A v \in Workers : AtWork(v)' => AtWork(v) /\ v # w
  BY DEF Leave, AtWork, Live
<1>b. \A v \in Workers : v # w => (WillSave(v) => WillSave(v)')
  BY DEF WillSave, AtWork, Live, Leave
<1>1. StartInv'
  BY <1>i DEF StartInv, Leave
<1>2. QueuedInv'
  BY <1>i, <1>t DEF SenderInv, QueuedInv, Leave, OtherRowsKept, At
<1>3. MapInv'
  <2> SUFFICES ASSUME NEW t \in Transfers, NEW v \in active'[t]
               PROVE  id'[v] = t /\ pc'[v] \notin {"idle", "failRead", "failSave"}
    BY DEF MapInv
  <2>1. v \in active[t] /\ v # w /\ v \in Workers
    BY DEF Leave, SenderInv, TypeOK
  <2> QED
    BY <2>1 DEF SenderInv, MapInv, Leave
<1>4. LockInv'
  BY DEF SenderInv, LockInv, Leave
<1>5. UserInv'
  <2> SUFFICES ASSUME NEW u \in Users, pc[u] = "lockedSave", cmd[u] = "retry"
               PROVE  row'[id[u]].status # "Paused"
    BY DEF SenderInv, UserInv, Leave
  <2>1. row[id[u]].status # "Paused" /\ id[u] \in Transfers
    BY <1>t DEF SenderInv, UserInv
  <2> QED
    BY <2>1 DEF Leave, OtherRowsKept
<1>6. RemoteInv'
  BY DEF SenderInv, Leave, RemoteInv
<1>7. ConfirmInv'
  BY DEF SenderInv, ConfirmInv, Leave
<1>8. CompletedIsConfirmed'
  BY DEF SenderInv, CompletedIsConfirmed, Leave, OtherRowsKept
<1>9. BusyInv'
  <2> SUFFICES ASSUME NEW t \in Transfers, row'[t].status \in Running \ {"Resuming"}
               PROVE  Attended(t)'
    BY DEF BusyInv
  <2>1. Attended(t)
    BY DEF SenderInv, BusyInv, Leave, OtherRowsKept, Running
  <2>2. CASE t = id[w] /\ WillSave(w)
    <3>1. t \in aborted' \/ (id'[w] = t /\ WillSave(w)')
      BY <2>2 DEF Leave, WillSave
    <3> QED
      BY <3>1 DEF Attended
  <2>3. CASE t # id[w] \/ ~WillSave(w)
    <3>1. ASSUME NEW v \in Workers, id[v] = t, WillSave(v)
          PROVE  id'[v] = t /\ WillSave(v)'
      BY <2>3, <3>1, <1>b DEF Leave
    <3> QED
      BY <2>1, <3>1 DEF Attended, WillCancel, Leave
  <2> QED
    BY <2>2, <2>3
<1>10. PausedInv'
  <2>1. \A t \in Transfers : Unattended(t) => Unattended(t)'
    BY <1>a DEF Unattended, Leave
  <2>2. ASSUME NEW t \in Transfers, row'[t].status = "Paused"
        PROVE  Unattended(t)'
    BY <2>1, <2>2 DEF SenderInv, PausedInv, Leave, OtherRowsKept
  <2>3. ASSUME NEW v \in Workers, pc'[v] = "refreshSave", current'[v].status = "Paused"
        PROVE  Unattended(id[v])' /\ row'[id'[v]].status \notin {"Queued", "Resuming"}
    <3>1. pc[v] = "refreshSave" /\ current[v].status = "Paused" /\ id'[v] = id[v]
          /\ id[v] \in Transfers
      BY <2>3, <1>t DEF Leave
    <3>2. Unattended(id[v]) /\ row[id[v]].status \notin {"Queued", "Resuming"}
      BY <3>1 DEF SenderInv, PausedInv
    <3> QED
      BY <2>1, <3>1, <3>2 DEF Leave, OtherRowsKept
  <2> QED
    BY <2>2, <2>3 DEF PausedInv
<1> QED
  BY <1>1, <1>2, <1>3, <1>4, <1>5, <1>6, <1>7, <1>8, <1>9, <1>10 DEF SenderInv

LEMMA EndLeaves ==
    ASSUME SenderInv, NEW w \in Workers, End(w) PROVE Leave(w)
<1>1. OthersWait(w) /\ (\A v \in Workers : v # w => ctx'[v] = ctx[v])
  <2>1. CASE WorkerExit(w)
    BY <2>1, Shape, Kinds DEF WorkerExit, OthersWait, Goto
  <2>2. CASE ~WorkerExit(w)
    BY <2>2, Shape, Kinds DEF End, OthersWait, Goto
  <2> QED
    BY <2>1, <2>2
<1>2. \A t \in Transfers : active'[t] \subseteq active[t] /\ w \notin active'[t]
  BY Shape DEF End, SenderInv, MapInv
<1> QED
  BY <1>1, <1>2, Shape, Kinds DEF End, WorkerExit, Leave, OtherRowsKept, WillSave,
     AtWork, At, Goto, counts, locks, process, peer

LEMMA FailReadLeaves ==
    ASSUME SenderInv, NEW w \in Workers, FailRead(w) PROVE Leave(w)
<1>1. OthersWait(w) /\ (\A v \in Workers : v # w => ctx'[v] = ctx[v])
  <2>1. CASE WorkerExit(w)
    BY <2>1, Shape, Kinds DEF WorkerExit, OthersWait, Goto
  <2>2. CASE ~WorkerExit(w)
    BY <2>2, Shape, Kinds DEF FailRead, OthersWait, Goto
  <2> QED
    BY <2>1, <2>2
<1>2. \A t \in Transfers : active'[t] \subseteq active[t] /\ w \notin active'[t]
  BY Shape DEF FailRead, SenderInv, MapInv, At
<1> QED
  BY <1>1, <1>2, Shape, Kinds DEF FailRead, WorkerExit, Leave, OtherRowsKept,
     WillSave, AtWork, At, Goto, counts, locks, process, peer, Running

LEMMA FailSaveLeaves ==
    ASSUME SenderInv, NEW w \in Workers, FailSave(w) PROVE Leave(w)
<1>1. OthersWait(w) /\ (\A v \in Workers : v # w => ctx'[v] = ctx[v])
  BY Shape, Kinds DEF FailSave, WorkerExit, OthersWait, Goto
<1>2. \A t \in Transfers : active'[t] \subseteq active[t] /\ w \notin active'[t]
  BY Shape DEF FailSave, SenderInv, MapInv, At
<1>3. [current[w] EXCEPT !.status = "Failed"].status = "Failed"
  BY WithStatus DEF SenderInv, TypeOK, Terminal
<1> QED
  BY <1>1, <1>2, <1>3, Shape, Kinds DEF FailSave, WorkerExit, Leave,
     OtherRowsKept, WillSave, AtWork, At, Goto, counts, locks, process, peer, Running

-----------------------------------------------------------------------------
(* A goroutine serving a user's request.  The contexts that it cancels are  *)
(* those of a transfer that it pauses, is about to cancel, or leaves with   *)
(* an error.                                                               *)
SavesRequest(u) ==
    /\ pc[u] \in {"lockedSave", "cancelSave"}
    /\ row'[id[u]].status \in {"Paused", "Resuming", "Queued", "Cancelled"}
    /\ pc[u] = "cancelSave" => row'[id[u]].status = "Cancelled"
    /\ row'[id[u]].status = "Paused" => \A v \in active[id[u]] : ctx'[v] = "cancelled"

Serve(u) ==
    /\ OthersWait(u) /\ OtherRowsKept(id[u]) /\ OthersHold(u) /\ RemoteGoesOn
    /\ UNCHANGED <<queued, active, boot, stale>>
    /\ aborted \subseteq aborted'
    /\ \A v \in Workers : ctx'[v] = ctx[v] \/
          /\ ctx'[v] = "cancelled"
          /\ \/ id[v] \in aborted'
             \/ row'[id[v]].status = "Paused"
             \/ id'[u] = id[v] /\ WillCancel(u)'
    /\ row'[id[u]] = row[id[u]] \/ SavesRequest(u)
    /\ WillCancel(u) => \/ id'[u] = id[u] /\ WillCancel(u)'
                        \/ id[u] \in aborted'
                        \/ row'[id[u]].status \notin Running
    /\ pc'[u] \in {"lockProgress", "lockedSave"} =>
           mu' = {u} /\ cmd'[u] \in {"pause", "resume", "retry"}
    /\ pc'[u] \in {"lockedSave", "cancelSave"} => row[id'[u]].status # "Absent"
    /\ pc'[u] = "lockedSave" =>
           /\ progressMu' = {u} /\ copy'[u].status = To(cmd'[u])
           /\ row' = row
           /\ cmd'[u] = "retry" => row[id'[u]].status # "Paused"
    /\ pc'[u] = "cancelSave" => copy'[u].status = "Cancelled"

LEMMA ServeKeeps ==
    ASSUME SenderInv, TypeOK', NEW u \in Users, Serve(u)
    PROVE  SenderInv'
<1> USE Kinds DEF OthersWait
<1>i. u \in Procs /\ id[u] \in Transfers
  BY DEF SenderInv, TypeOK
<1>t. /\ id \in [Procs -> Transfers] /\ queued \in Nat /\ Transfers \subseteq Nat
      /\ \A p \in Procs : id[p] \in Transfers /\ id'[p] \in Transfers
  BY DEF SenderInv, TypeOK, Transfers
<1>w. \A v \in Workers : /\ v # u /\ pc'[v] = pc[v] /\ id'[v] = id[v]
                          /\ copy'[v] = copy[v] /\ current'[v] = current[v]
                          /\ err'[v] = err[v]
  BY DEF Serve
<1>a. \A v \in Workers : AtWork(v)' => AtWork(v)
  BY <1>w DEF Serve, AtWork, Live
<1>b. \A v \in Workers : ctx'[v] = ctx[v] => (WillSave(v) => WillSave(v)')
  BY <1>w DEF WillSave, AtWork, Live
<1>1. StartInv'
  BY <1>w DEF SenderInv, StartInv, Serve, At
<1>2. QueuedInv'
  <2>1. \A t \in Transfers : t > queued' => row'[t].status = "Absent"
    BY <1>i, <1>t DEF SenderInv, QueuedInv, Serve, OtherRowsKept, SavesRequest
  <2>2. \A v \in Workers : ~At(v, "idle")' => id'[v] <= queued'
    BY <1>w DEF SenderInv, QueuedInv, Serve, At
  <2>3. \A v \in Users : pc'[v] \in {"lockedSave", "cancelSave"} => id'[v] <= queued'
    <3> SUFFICES ASSUME NEW v \in Users, pc'[v] \in {"lockedSave", "cancelSave"}
                 PROVE  id'[v] <= queued
      BY DEF Serve
    <3>1. CASE v = u
      <4>1. row[id'[u]].status # "Absent"
        BY <3>1 DEF Serve
      <4>2. id'[u] \in Transfers /\ id'[u] \in Nat /\ queued \in Nat
        BY <1>t
      <4> QED
        BY <3>1, <4>1, <4>2 DEF SenderInv, QueuedInv
    <3>2. CASE v # u
      BY <3>2 DEF SenderInv, QueuedInv, Serve
    <3> QED
      BY <3>1, <3>2
  <2> QED
    BY <2>1, <2>2, <2>3 DEF QueuedInv
<1>3. MapInv'
  BY <1>w DEF SenderInv, TypeOK, MapInv, Serve
<1>4. LockInv'
  BY <1>w DEF SenderInv, LockInv, Serve, OthersHold
<1>5. UserInv'
  <2>1. ASSUME NEW v \in Users, pc'[v] = "lockedSave", cmd'[v] = "retry"
        PROVE  row'[id'[v]].status # "Paused"
    <3>1. CASE v = u
      BY <2>1, <3>1 DEF Serve
    <3>2. CASE v # u
      <4>1. pc[v] = "lockedSave" /\ id'[v] = id[v] /\ row[id[v]].status # "Paused"
        BY <2>1, <3>2 DEF Serve, SenderInv, UserInv
      <4>2. pc[u] # "lockedSave"
        BY <3>2, <4>1, OneHolder
      <4> QED
        <5>1. id[v] \in Transfers
          BY <1>t
        <5>2. row'[id[v]] = row[id[v]] \/ row'[id[v]].status = "Cancelled"
          BY <4>2, <5>1 DEF Serve, OtherRowsKept, SavesRequest
        <5> QED
          BY <4>1, <5>2
    <3> QED
      BY <3>1, <3>2
  <2>2. ASSUME NEW v \in Users
        PROVE  /\ pc'[v] \in {"lockProgress", "lockedSave"} =>
                      cmd'[v] \in {"pause", "resume", "retry"}
               /\ pc'[v] = "lockedSave" => copy'[v].status = To(cmd'[v])
               /\ pc'[v] = "cancelSave" => copy'[v].status = "Cancelled"
    BY DEF SenderInv, UserInv, Serve
  <2> QED
    BY <2>1, <2>2 DEF UserInv, To
<1>6. RemoteInv'
  BY DEF Serve, RemoteGoesOn
<1>7. ConfirmInv'
  BY <1>w, <1>t DEF SenderInv, ConfirmInv, Serve, RemoteGoesOn
<1>8. CompletedIsConfirmed'
  <2>1. ASSUME NEW t \in Transfers, row'[t].status = "Completed"
        PROVE  remote'[t].status = "Completed"
    BY <2>1 DEF SenderInv, CompletedIsConfirmed, Serve, OtherRowsKept,
       SavesRequest, RemoteGoesOn
  <2> QED
    BY <2>1 DEF CompletedIsConfirmed, Serve, RemoteGoesOn, RemoteInv
<1>9. BusyInv'
  <2> SUFFICES ASSUME NEW t \in Transfers, row'[t].status \in Running \ {"Resuming"}
               PROVE  Attended(t)'
    BY DEF BusyInv
  <2>1. Attended(t)
    BY DEF SenderInv, BusyInv, Serve, OtherRowsKept, SavesRequest, Running
  <2>2. CASE boot = "recover" \/ (\E x \in stale : x[1] = t) \/ t \in aborted
    BY <2>2 DEF Attended, Serve
  <2>3. ASSUME NEW v \in Workers, id[v] = t, WillSave(v)
        PROVE  Attended(t)'
    <3>1. CASE ctx'[v] = ctx[v]
      BY <2>3, <3>1, <1>b, <1>w DEF Attended
    <3>2. CASE ctx'[v] # ctx[v]
      <4>1. t \in aborted' \/ (id'[u] = t /\ WillCancel(u)')
        BY <2>3, <3>2 DEF Serve, Running
      <4> QED
        BY <4>1 DEF Attended
    <3> QED
      BY <3>1, <3>2
  <2>4. ASSUME NEW v \in Users, id[v] = t, WillCancel(v)
        PROVE  Attended(t)'
    <3>1. \/ id'[v] = t /\ WillCancel(v)'
          \/ t \in aborted'
      BY <2>4 DEF Serve, WillCancel
    <3> QED
      BY <3>1 DEF Attended
  <2> QED
    BY <2>1, <2>2, <2>3, <2>4 DEF Attended
<1>10. PausedInv'
  <2>1. \A t \in Transfers : Unattended(t) => Unattended(t)'
    BY <1>a, <1>w DEF Unattended, Serve
  <2>2. ASSUME NEW t \in Transfers, row'[t].status = "Paused"
        PROVE  Unattended(t)'
    <3>1. CASE row'[t] = row[t]
      BY <2>1, <2>2, <3>1 DEF SenderInv, PausedInv
    <3>2. CASE row'[t] # row[t]
      <4>1. \A v \in active[t] : ctx'[v] = "cancelled"
        BY <2>2, <3>2 DEF Serve, OtherRowsKept, SavesRequest
      <4> QED
        BY <4>1 DEF Unattended, AtWork, Live, Serve
    <3> QED
      BY <3>1, <3>2
  <2>3. ASSUME NEW v \in Workers, pc'[v] = "refreshSave", current'[v].status = "Paused"
        PROVE  Unattended(id[v])' /\ row'[id'[v]].status \notin {"Queued", "Resuming"}
    <3>1. pc[v] = "refreshSave" /\ current[v].status = "Paused" /\ id'[v] = id[v]
          /\ id[v] \in Transfers /\ v # u
      BY <2>3, <1>t, <1>w
    <3>2. Unattended(id[v]) /\ row[id[v]].status \notin {"Queued", "Resuming"}
      BY <3>1 DEF SenderInv, PausedInv
    <3>3. pc[u] # "lockedSave"
      BY <3>1, OneHolder
    <3> QED
      BY <2>1, <3>1, <3>2, <3>3 DEF Serve, OtherRowsKept, SavesRequest
  <2> QED
    BY <2>2, <2>3, <1>w DEF PausedInv
<1> QED
  BY <1>1, <1>2, <1>3, <1>4, <1>5, <1>6, <1>7, <1>8, <1>9, <1>10 DEF SenderInv

(* The user's own part of the state, when the request ends.                 *)
LEMMA Returned ==
    ASSUME SenderInv, NEW u \in Users, UserReturn(u)
    PROVE  /\ OthersWait(u) /\ pc'[u] = "idle"
           /\ ~WillCancel(u)'
BY Shape, Kinds DEF UserReturn, OthersWait, Goto, WillCancel

LEMMA LockMuServes ==
    ASSUME SenderInv, NEW u \in Users, NEW t \in Transfers,
           NEW c \in {"pause", "resume", "retry"}, LockMu(u, c, t)
    PROVE  Serve(u)
<1>1. OthersWait(u)
  BY Shape, Kinds DEF LockMu, OthersWait, Goto
<1>2. OtherRowsKept(id[u]) /\ OthersHold(u) /\ RemoteGoesOn
  BY Shape DEF LockMu, OtherRowsKept, OthersHold, RemoteGoesOn, RemoteInv, Free,
     peer
<1>3. pc[u] = "idle" /\ pc'[u] = "lockProgress" /\ cmd'[u] = c
  BY Shape, Kinds DEF LockMu, NewRequest, At, Goto
<1> QED
  BY <1>1, <1>2, <1>3 DEF LockMu, Serve, WillCancel, process

(* The contexts that the cancel function in the map of t reaches.           *)
LEMMA Reaches ==
    ASSUME SenderInv, NEW t \in Transfers, CancelContext(t)
    PROVE  /\ \A v \in Workers : ctx'[v] = ctx[v] \/ (ctx'[v] = "cancelled" /\ id[v] = t)
           /\ \A v \in active[t] : ctx'[v] = "cancelled"
BY DEF CancelContext, SenderInv, MapInv, TypeOK

LEMMA CancelServes ==
    ASSUME SenderInv, NEW u \in Users, NEW t \in Transfers, Cancel(u, t)
    PROVE  Serve(u)
<1>1. OthersWait(u)
  BY Shape, Kinds DEF Cancel, OthersWait, Goto
<1>2. OtherRowsKept(id[u]) /\ OthersHold(u) /\ RemoteGoesOn
  BY Shape DEF Cancel, OtherRowsKept, OthersHold, RemoteGoesOn, RemoteInv, locks,
     peer
<1>3. pc[u] = "idle" /\ pc'[u] = "cancelRead" /\ id'[u] = t
  BY Shape, Kinds DEF Cancel, NewRequest, At, Goto
<1>4. \A v \in Workers : ctx'[v] = ctx[v] \/ (ctx'[v] = "cancelled" /\ id[v] = t)
  BY Reaches DEF Cancel
<1> QED
  BY <1>1, <1>2, <1>3, <1>4 DEF Cancel, Serve, WillCancel, process

LEMMA LockedReadServes ==
    ASSUME SenderInv, NEW u \in Users, LockedRead(u) PROVE Serve(u)
<1>1. mu = {u} /\ cmd[u] \in {"pause", "resume", "retry"} /\ pc[u] = "lockProgress"
  BY DEF LockedRead, SenderInv, LockInv, UserInv, At
<1>2. OtherRowsKept(id[u]) /\ RemoteGoesOn
  BY Shape DEF LockedRead, OtherRowsKept, RemoteGoesOn, RemoteInv, peer
<1>3. CASE UserReturn(u)
  <2>1. OthersWait(u) /\ pc'[u] = "idle" /\ OthersHold(u) /\ ctx' = ctx
    BY <1>1, <1>3, Returned DEF LockedRead, OthersHold, Free
  <2> QED
    BY <1>1, <1>2, <2>1 DEF LockedRead, Serve, WillCancel, counts, process
<1>4. CASE ~UserReturn(u)
  <2>1. row[id[u]].status \in From(cmd[u])
    BY <1>4 DEF LockedRead
  <2>2. OthersWait(u)
    BY <1>4, Shape, Kinds DEF LockedRead, OthersWait, Goto
  <2>3. OthersHold(u)
    BY <1>4 DEF LockedRead, OthersHold, Free
  <2>4. /\ pc'[u] = "lockedSave" /\ id'[u] = id[u] /\ cmd'[u] = cmd[u] /\ mu' = mu
        /\ progressMu' = {u} /\ ctx' = ctx
    BY <1>4, Shape, Kinds DEF LockedRead, Goto
  <2>5. copy'[u].status = To(cmd'[u])
    <3>1. To(cmd[u]) \in {"Paused", "Resuming", "Queued"} /\ row[id[u]] \in Row
      BY <1>1, ToIsStatus, Shape, Kinds DEF SenderInv, TypeOK
    <3>2. [row[id[u]] EXCEPT !.status = To(cmd[u])].status = To(cmd[u])
      BY <3>1, WithStatus DEF Running
    <3> QED
      BY <1>4, <2>4, <3>2, Shape, Kinds DEF LockedRead
  <2>6. /\ cmd[u] = "retry" => row[id[u]].status # "Paused"
        /\ row[id[u]].status # "Absent"
    BY <1>1, <2>1 DEF From, Running
  <2> QED
    BY <1>1, <1>2, <2>2, <2>3, <2>4, <2>5, <2>6 DEF LockedRead, Serve, WillCancel,
       counts, process
<1> QED
  BY <1>3, <1>4

LEMMA LockedSaveServes ==
    ASSUME SenderInv, NEW u \in Users, LockedSave(u) PROVE Serve(u)
<1>1. /\ mu = {u} /\ progressMu = {u} /\ pc[u] = "lockedSave"
      /\ copy[u].status = To(cmd[u]) /\ cmd[u] \in {"pause", "resume", "retry"}
      /\ id[u] \in Transfers
  BY Shape, Kinds DEF LockedSave, SenderInv, LockInv, UserInv, At
<1>2. OtherRowsKept(id[u]) /\ RemoteGoesOn
  BY Shape, <1>1 DEF LockedSave, OtherRowsKept, RemoteGoesOn, RemoteInv, peer
<1>3. OthersWait(u) /\ pc'[u] = "idle"
  BY Returned DEF LockedSave
<1>4. OthersHold(u)
  BY <1>1 DEF OthersHold
<1>5. copy[u].status \in {"Paused", "Resuming", "Queued"}
      /\ (copy[u].status = "Paused" => cmd[u] = "pause")
  BY <1>1 DEF To
<1>6. /\ row' = [row EXCEPT ![id[u]] = copy[u]] \/ (row' = row /\ id[u] \in aborted')
      /\ aborted \subseteq aborted'
  BY DEF LockedSave
<1>7. CASE cmd[u] = "pause"
  <2>1. /\ \A v \in Workers : ctx'[v] = ctx[v] \/ (ctx'[v] = "cancelled" /\ id[v] = id[u])
        /\ \A v \in active[id[u]] : ctx'[v] = "cancelled"
    BY <1>1, <1>7, Reaches DEF LockedSave
  <2>2. id[u] \in aborted' \/ row'[id[u]].status = "Paused"
    BY <1>1, <1>6, <1>7, Shape DEF To
  <2>3. row'[id[u]] = row[id[u]] \/ SavesRequest(u)
    BY <1>1, <1>5, <1>6, <2>1, Shape DEF SavesRequest
  <2> QED
    BY <1>1, <1>2, <1>3, <1>4, <1>6, <2>1, <2>2, <2>3 DEF LockedSave, Serve,
       WillCancel, counts, process
<1>8. CASE cmd[u] # "pause"
  <2>1. ctx' = ctx
    BY <1>8 DEF LockedSave
  <2>2. row'[id[u]] = row[id[u]] \/ SavesRequest(u)
    BY <1>1, <1>5, <1>6, <1>8, Shape DEF SavesRequest
  <2> QED
    BY <1>1, <1>2, <1>3, <1>4, <1>6, <2>1, <2>2 DEF LockedSave, Serve, WillCancel,
       counts, process
<1> QED
  BY <1>7, <1>8

LEMMA CancelReadServes ==
    ASSUME SenderInv, NEW u \in Users, CancelRead(u) PROVE Serve(u)
<1>1. pc[u] = "cancelRead" /\ row' = row /\ ctx' = ctx /\ id[u] \in Transfers
  BY Shape, Kinds DEF CancelRead, At
<1>2. OtherRowsKept(id[u]) /\ RemoteGoesOn /\ OthersHold(u)
  BY Shape DEF CancelRead, OtherRowsKept, RemoteGoesOn, RemoteInv, OthersHold,
     locks, peer
<1>3. CASE UserReturn(u)
  <2>1. OthersWait(u) /\ pc'[u] = "idle"
    BY <1>3, Returned
  <2>2. row[id[u]].status \in {"Absent", "Completed", "Cancelled"} \/ pc'[u] = "cancelSave"
    BY Shape, Kinds DEF CancelRead, Goto
  <2> QED
    BY <1>1, <1>2, <2>1, <2>2 DEF CancelRead, Serve, Running, counts, process
<1>4. CASE ~UserReturn(u)
  <2>1. row[id[u]].status # "Absent"
    BY <1>4 DEF CancelRead
  <2>2. OthersWait(u)
    BY <1>4, Shape, Kinds DEF CancelRead, OthersWait, Goto
  <2>3. pc'[u] = "cancelSave" /\ id'[u] = id[u]
    BY <1>4, Shape, Kinds DEF CancelRead, Goto
  <2>4. copy'[u].status = "Cancelled"
    <3>1. [row[id[u]] EXCEPT !.status = "Cancelled"].status = "Cancelled"
      BY WithStatus, <1>1 DEF SenderInv, TypeOK, Terminal
    <3> QED
      BY <1>4, <3>1, Shape, Kinds DEF CancelRead
  <2> QED
    BY <1>1, <1>2, <2>1, <2>2, <2>3, <2>4 DEF CancelRead, Serve, WillCancel,
       counts, process
<1> QED
  BY <1>3, <1>4

LEMMA CancelSaveServes ==
    ASSUME SenderInv, NEW u \in Users, CancelSave(u) PROVE Serve(u)
<1>1. pc[u] = "cancelSave" /\ ctx' = ctx /\ id[u] \in Transfers
      /\ copy[u].status = "Cancelled"
  BY Shape, Kinds DEF CancelSave, At, SenderInv, UserInv
<1>2. OtherRowsKept(id[u]) /\ RemoteGoesOn /\ OthersHold(u)
  BY Shape, <1>1 DEF CancelSave, OtherRowsKept, RemoteGoesOn, RemoteInv,
     OthersHold, locks, peer
<1>3. OthersWait(u) /\ pc'[u] \in {"idle", "notify"}
  <2>1. CASE UserReturn(u)
    BY <2>1, Returned
  <2>2. CASE ~UserReturn(u)
    BY <2>2, Shape, Kinds DEF CancelSave, OthersWait, Goto
  <2> QED
    BY <2>1, <2>2
<1>4. /\ row'[id[u]].status = "Cancelled" \/ (row' = row /\ id[u] \in aborted')
      /\ aborted \subseteq aborted'
  BY <1>1, Shape DEF CancelSave
<1> QED
  BY <1>1, <1>2, <1>3, <1>4 DEF CancelSave, Serve, SavesRequest, Running, counts,
     process

LEMMA NotifyServes ==
    ASSUME SenderInv, NEW u \in Users, Notify(u) PROVE Serve(u)
<1>1. pc[u] = "notify" /\ row' = row /\ ctx' = ctx /\ id[u] \in Transfers
      /\ consent' = consent
  BY Shape, Kinds DEF Notify, At
<1>2. RemoteGoesOn
  <2>1. CASE remote' = remote
    BY <2>1, <1>1, Shape DEF RemoteGoesOn, RemoteInv
  <2>2. CASE remote' # remote
    <3>1. /\ \A t \in Transfers : t # id[u] => remote'[t] = remote[t]
          /\ remote'[id[u]].status = "Cancelled" /\ remote[id[u]].status # "Completed"
      BY <1>1, <2>2, StatusSet DEF Notify, SenderInv, TypeOK, Terminal
    <3> QED
      BY <3>1, <1>1, Shape DEF RemoteGoesOn, RemoteInv
  <2> QED
    BY <2>1, <2>2
<1>3. OtherRowsKept(id[u]) /\ OthersHold(u)
  BY DEF Notify, OtherRowsKept, OthersHold, locks
<1>4. OthersWait(u) /\ pc'[u] = "idle"
  BY Returned DEF Notify
<1> QED
  BY <1>1, <1>2, <1>3, <1>4 DEF Notify, Serve, WillCancel, counts, process

-----------------------------------------------------------------------------
(* The steps of the process and of the receiver's user.                     *)

(* Parts that a step leaves alone because it changes none of their state.   *)
GoroutinesKept == UNCHANGED <<pc, id, copy, current, ctx, err, cmd>>

LEMMA QueueKeeps ==
    ASSUME SenderInv, TypeOK', Queue PROVE SenderInv'
<1>1. /\ GoroutinesKept /\ queued' = queued + 1 /\ queued < NumTransfers
      /\ UNCHANGED <<active, mu, progressMu, boot, stale, remote, consent, aborted>>
  BY DEF Queue, goroutines, locks, process, peer, GoroutinesKept
<1>2. /\ queued \in Nat /\ Transfers \subseteq Nat /\ queued + 1 \in Transfers
      /\ \A p \in Procs : id[p] \in Transfers
      /\ \A x \in stale : x[1] \in Transfers
  BY SenderAssumption, <1>1 DEF SenderInv, TypeOK, Transfers
<1>3. /\ row'[queued + 1].status = "Queued"
      /\ \A t \in Transfers : t # queued + 1 => row'[t] = row[t]
  BY <1>2, AbsentIsRow, WithStatus DEF Queue, SenderInv, TypeOK
<1>4. StartInv'
  <2>1. \A x \in stale : x[1] \in Nat
    BY <1>2
  <2>2. \A x \in stale : x[1] <= queued => x[1] <= queued'
    BY <1>1, <1>2, <2>1
  <2> QED
    BY <2>2, <1>1 DEF SenderInv, StartInv, GoroutinesKept, At
<1>5. QueuedInv'
  <2>1. \A t \in Transfers : t > queued' => row'[t].status = "Absent"
    BY <1>1, <1>2, <1>3 DEF SenderInv, QueuedInv
  <2>2. \A p \in Procs : id[p] <= queued => id[p] <= queued'
    <3>1. \A p \in Procs : id[p] \in Nat
      BY <1>2
    <3> QED
      BY <1>1, <1>2, <3>1
  <2> QED
    BY <2>1, <2>2, <1>1, Kinds DEF SenderInv, QueuedInv, GoroutinesKept, At
<1>6. MapInv' /\ LockInv'
  BY <1>1 DEF SenderInv, MapInv, LockInv, GoroutinesKept
<1>7. UserInv'
  BY <1>1, <1>2, <1>3, Kinds DEF SenderInv, UserInv, GoroutinesKept
<1>8. RemoteInv' /\ ConfirmInv' /\ CompletedIsConfirmed'
  BY <1>1, <1>3 DEF SenderInv, RemoteInv, ConfirmInv, CompletedIsConfirmed,
     GoroutinesKept
<1>9. BusyInv'
  <2>1. \A t \in Transfers : Attended(t) => Attended(t)'
    BY <1>1 DEF Attended, WillSave, AtWork, Live, WillCancel, GoroutinesKept
  <2> QED
    BY <2>1, <1>3 DEF SenderInv, BusyInv, Running
<1>10. PausedInv'
  <2>1. \A t \in Transfers : Unattended(t) => Unattended(t)'
    BY <1>1 DEF Unattended, AtWork, Live, GoroutinesKept
  <2>2. \A w \in Workers : pc[w] = "refreshSave" => id[w] # queued + 1
    BY <1>2 DEF SenderInv, QueuedInv, At
  <2> QED
    BY <2>1, <2>2, <1>1, <1>2, <1>3, Kinds DEF SenderInv, PausedInv,
       GoroutinesKept
<1> QED
  BY <1>4, <1>5, <1>6, <1>7, <1>8, <1>9, <1>10 DEF SenderInv

(* dispatch gives every transfer it starts a worker of its own.             *)
LEMMA DispatchStarts ==
    ASSUME SenderInv, Dispatch
    PROVE  \E new \in SUBSET Workers :
              /\ \A w \in new : /\ pc[w] = "idle" /\ pc'[w] = "start"
                                /\ id'[w] \in Eligible /\ active'[id'[w]] = {w}
              /\ \A p \in Procs : p \notin new => pc'[p] = pc[p] /\ id'[p] = id[p]
              /\ \A t \in Transfers : active'[t] = active[t] \/ \E w \in new : id'[w] = t
<1> DEFINE I == {w \in Workers : At(w, "idle")}
<1>1. PICK f \in [Started -> I] :
         LET new == {f[t] : t \in Started}
             task(w) == CHOOSE t \in Started : f[t] = w
         IN  /\ Cardinality(new) = Cardinality(Started)
             /\ active' = [t \in Transfers |-> IF t \in Started THEN {f[t]} ELSE active[t]]
             /\ pc' = [p \in Procs |-> IF p \in new THEN "start" ELSE pc[p]]
             /\ id' = [p \in Procs |-> IF p \in new THEN task(p) ELSE id[p]]
  BY DEF Dispatch
<1> DEFINE new == {f[t] : t \in Started}
           task(w) == CHOOSE t \in Started : f[t] = w
<1>2. Started \subseteq Eligible /\ Started \subseteq Transfers /\ new \subseteq I
  BY DEF Started, Eligible
<1>3. IsFiniteSet(Started)
  <2>1. IsFiniteSet(Transfers)
    BY FS_Interval, SenderAssumption DEF Transfers
  <2> QED
    BY <2>1, <1>2, FS_Subset
<1>4. f \in Surjection(Started, new)
  BY DEF Surjection
<1>5. IsFiniteSet(new) /\ f \in Injection(Started, new)
  BY <1>1, <1>3, <1>4, FS_Surjection
<1>6. \A s, t \in Started : f[s] = f[t] => s = t
  BY <1>5 DEF Injection, IsInjective
<1>7. \A w \in new : task(w) \in Started /\ f[task(w)] = w
  OBVIOUS
<1>8. \A t \in Started : f[t] \in new /\ task(f[t]) = t
  BY <1>6, <1>7
<1>9. /\ \A w \in new : w \in Procs /\ pc'[w] = "start" /\ id'[w] = task(w)
      /\ \A p \in Procs : p \notin new => pc'[p] = pc[p] /\ id'[p] = id[p]
      /\ \A t \in Transfers : active'[t] = IF t \in Started THEN {f[t]} ELSE active[t]
  BY <1>1, <1>2, Kinds
<1> HIDE DEF new, task
<1>10. new \in SUBSET Workers /\ \A w \in new : pc[w] = "idle"
  BY <1>2 DEF At
<1>11. \A w \in new : id'[w] \in Eligible /\ active'[id'[w]] = {w}
  BY <1>2, <1>7, <1>9
<1>12. \A t \in Transfers : active'[t] = active[t] \/ \E w \in new : id'[w] = t
  <2> TAKE t \in Transfers
  <2>1. CASE t \in Started
    <3>1. f[t] \in new /\ id'[f[t]] = t
      BY <2>1, <1>8, <1>9
    <3>2. \E w \in new : id'[w] = t
      BY <3>1, Zenon
    <3> QED
      BY <3>2
  <2>2. CASE t \notin Started
    BY <2>2, <1>9
  <2> QED
    BY <2>1, <2>2
<1> QED
  BY <1>9, <1>10, <1>11, <1>12

LEMMA DispatchKeeps ==
    ASSUME SenderInv, TypeOK', Dispatch PROVE SenderInv'
<1>1. PICK new \in SUBSET Workers :
         /\ \A w \in new : /\ pc[w] = "idle" /\ pc'[w] = "start"
                           /\ id'[w] \in Eligible /\ active'[id'[w]] = {w}
         /\ \A p \in Procs : p \notin new => pc'[p] = pc[p] /\ id'[p] = id[p]
         /\ \A t \in Transfers : active'[t] = active[t] \/ \E w \in new : id'[w] = t
  BY DispatchStarts
<1>2. /\ boot = "run" /\ stale = {}
      /\ UNCHANGED <<row, queued, mu, progressMu, copy, current, ctx, err, cmd, boot,
                     stale, remote, consent, aborted>>
  BY DEF Dispatch, counts, locks, process, peer
<1>3. \A u \in Users : u \notin new /\ pc'[u] = pc[u] /\ id'[u] = id[u]
  BY <1>1, Kinds
<1>4. \A w \in Workers : w \notin new => pc'[w] = pc[w] /\ id'[w] = id[w]
  BY <1>1, Kinds
<1>5. StartInv'
  BY <1>2 DEF StartInv
<1>6. QueuedInv'
  <2>1. \A t \in Eligible : t <= queued
    BY DEF Eligible, SenderInv, QueuedInv, TypeOK, Transfers
  <2> QED
    BY <2>1, <1>1, <1>2, <1>3, <1>4 DEF SenderInv, QueuedInv, At
<1>7. MapInv'
  <2> SUFFICES ASSUME NEW t \in Transfers, NEW w \in active'[t]
               PROVE  id'[w] = t /\ pc'[w] \notin {"idle", "failRead", "failSave"}
    BY DEF MapInv
  <2>1. CASE \E v \in new : id'[v] = t
    BY <2>1, <1>1
  <2>2. CASE active'[t] = active[t]
    <3>1. w \in Workers /\ id[w] = t /\ pc[w] \notin {"idle", "failRead", "failSave"}
      BY <2>2 DEF SenderInv, MapInv, TypeOK
    <3>2. w \notin new
      BY <3>1, <1>1
    <3> QED
      BY <3>1, <3>2, <1>4
  <2> QED
    BY <2>1, <2>2, <1>1
<1>8. LockInv' /\ UserInv'
  BY <1>1, <1>2, <1>3, <1>4 DEF SenderInv, LockInv, UserInv
<1>9. RemoteInv' /\ ConfirmInv' /\ CompletedIsConfirmed'
  BY <1>1, <1>2, <1>4 DEF SenderInv, RemoteInv, ConfirmInv, CompletedIsConfirmed
<1>10. BusyInv'
  <2>1. ASSUME NEW t \in Transfers, Attended(t) PROVE Attended(t)'
    <3>1. ASSUME NEW w \in Workers, id[w] = t, WillSave(w)
          PROVE  id'[w] = t /\ WillSave(w)'
      <4>1. w \notin new
        BY <3>1, <1>1 DEF WillSave, AtWork
      <4> QED
        BY <3>1, <4>1, <1>2, <1>4 DEF WillSave, AtWork, Live
    <3> QED
      BY <2>1, <3>1, <1>2, <1>3 DEF Attended, WillCancel
  <2> QED
    BY <2>1, <1>2 DEF SenderInv, BusyInv
<1>11. PausedInv'
  <2>1. ASSUME NEW t \in Transfers, Unattended(t), t \notin Eligible
        PROVE  Unattended(t)'
    <3>1. active'[t] = active[t] /\ \A w \in new : id'[w] # t
      BY <2>1, <1>1
    <3> QED
      BY <2>1, <3>1, <1>2, <1>4 DEF Unattended, AtWork, Live
  <2>2. \A t \in Transfers : row[t].status = "Paused" => t \notin Eligible
    BY DEF Eligible
  <2>3. ASSUME NEW w \in Workers, pc'[w] = "refreshSave", current'[w].status = "Paused"
        PROVE  Unattended(id[w])' /\ id'[w] = id[w]
               /\ row'[id'[w]].status \notin {"Queued", "Resuming"}
    <3>1. w \notin new /\ id[w] \in Transfers
      BY <2>3, <1>1, Kinds, Shape
    <3>2. pc[w] = "refreshSave" /\ current[w].status = "Paused" /\ id'[w] = id[w]
      BY <2>3, <3>1, <1>2, <1>4
    <3>3. Unattended(id[w]) /\ row[id[w]].status \notin {"Queued", "Resuming"}
      BY <3>2 DEF SenderInv, PausedInv
    <3>4. id[w] \notin Eligible
      BY <3>3 DEF Eligible
    <3> QED
      BY <2>1, <3>1, <3>2, <3>3, <3>4, <1>2
  <2> QED
    BY <2>1, <2>2, <2>3, <1>2 DEF SenderInv, PausedInv
<1> QED
  BY <1>5, <1>6, <1>7, <1>8, <1>9, <1>10, <1>11 DEF SenderInv

LEMMA DeleteHistoryKeeps ==
    ASSUME SenderInv, TypeOK', DeleteHistory PROVE SenderInv'
<1>1. /\ GoroutinesKept
      /\ UNCHANGED <<queued, active, mu, progressMu, boot, stale, remote, consent, aborted>>
  BY DEF DeleteHistory, counts, goroutines, locks, process, peer, GoroutinesKept
<1>2. \A t \in Transfers : row'[t] = row[t] \/ row'[t].status = "Absent"
  BY DEF DeleteHistory, AbsentRow
<1>3. StartInv' /\ MapInv' /\ LockInv' /\ RemoteInv' /\ ConfirmInv'
  BY <1>1 DEF SenderInv, StartInv, MapInv, LockInv, RemoteInv, ConfirmInv,
     GoroutinesKept, At
<1>4. QueuedInv' /\ CompletedIsConfirmed'
  BY <1>1, <1>2 DEF SenderInv, QueuedInv, CompletedIsConfirmed, GoroutinesKept, At
<1>5. UserInv'
  BY <1>1, <1>2, Shape, Kinds DEF SenderInv, UserInv, GoroutinesKept
<1>6. BusyInv'
  <2>1. \A t \in Transfers : Attended(t) => Attended(t)'
    BY <1>1 DEF Attended, WillSave, AtWork, Live, WillCancel, GoroutinesKept
  <2> QED
    BY <2>1, <1>2 DEF SenderInv, BusyInv, Running
<1>7. PausedInv'
  <2>1. \A t \in Transfers : Unattended(t) => Unattended(t)'
    BY <1>1 DEF Unattended, AtWork, Live, GoroutinesKept
  <2> QED
    BY <2>1, <1>1, <1>2, Shape, Kinds DEF SenderInv, PausedInv, GoroutinesKept
<1> QED
  BY <1>3, <1>4, <1>5, <1>6, <1>7 DEF SenderInv

LEMMA RecoverListKeeps ==
    ASSUME SenderInv, TypeOK', RecoverList PROVE SenderInv'
<1>1. /\ GoroutinesKept /\ boot = "recover"
      /\ UNCHANGED <<row, queued, active, mu, progressMu, remote, consent, aborted>>
  BY DEF RecoverList, counts, goroutines, locks, peer, GoroutinesKept
<1>2. /\ \A x \in stale' : x[2].status = "Queued" /\ row[x[1]].status \in Running
                           /\ x[1] \in Transfers
      /\ \A t \in Transfers : row[t].status \in Running => \E x \in stale' : x[1] = t
  <2>1. \A t \in Transfers : [row[t] EXCEPT !.status = "Queued"].status = "Queued"
    BY WithStatus DEF SenderInv, TypeOK
  <2>2. ASSUME NEW t \in Transfers, row[t].status \in Running
        PROVE  \E x \in stale' : x[1] = t
    <3>1. <<t, [row[t] EXCEPT !.status = "Queued"]>> \in stale'
      BY <2>2 DEF RecoverList
    <3> QED
      BY <3>1
  <2>3. ASSUME NEW x \in stale'
        PROVE  /\ x[2].status = "Queued" /\ row[x[1]].status \in Running
               /\ x[1] \in Transfers
    <3>1. PICK t \in Transfers : /\ row[t].status \in Running
                               /\ x = <<t, [row[t] EXCEPT !.status = "Queued"]>>
      BY DEF RecoverList
    <3>2. x[1] = t /\ x[2] = [row[t] EXCEPT !.status = "Queued"]
      BY <3>1
    <3> QED
      BY <2>1, <3>1, <3>2
  <2> QED
    BY <2>2, <2>3
<1>3. StartInv'
  <2>1. \A x \in stale' : x[1] <= queued
    <3> TAKE x \in stale'
    <3>1. x[1] \in Transfers /\ row[x[1]].status # "Absent"
      BY <1>2 DEF Running
    <3>2. Transfers \subseteq Nat /\ queued \in Nat
      BY DEF SenderInv, TypeOK, Transfers
    <3>3. ~(x[1] > queued)
      BY <3>1 DEF SenderInv, QueuedInv
    <3>4. x[1] \in Nat /\ queued \in Nat
      BY <3>1, <3>2
    <3> QED
      BY <3>3, <3>4
  <2> QED
    BY <2>1, <1>1, <1>2 DEF SenderInv, StartInv, GoroutinesKept, At
<1>4. QueuedInv' /\ MapInv' /\ LockInv' /\ UserInv' /\ PausedInv'
  BY <1>1 DEF SenderInv, QueuedInv, MapInv, LockInv, UserInv, PausedInv,
     Unattended, AtWork, Live, GoroutinesKept, At
<1>5. RemoteInv' /\ ConfirmInv' /\ CompletedIsConfirmed'
  BY <1>1 DEF SenderInv, RemoteInv, ConfirmInv, CompletedIsConfirmed,
     GoroutinesKept
<1>6. BusyInv'
  BY <1>1, <1>2 DEF BusyInv, Attended
<1> QED
  BY <1>3, <1>4, <1>5, <1>6 DEF SenderInv

(* While recover saves its rows there are no workers.                       *)
LEMMA RecoverSaveKeeps ==
    ASSUME SenderInv, TypeOK', RecoverSave PROVE SenderInv'
<1>1. /\ GoroutinesKept
      /\ UNCHANGED <<queued, active, mu, progressMu, boot, remote, consent, aborted>>
  BY DEF RecoverSave, counts, goroutines, locks, peer, GoroutinesKept
<1>2. PICK x \in stale : row' = [row EXCEPT ![x[1]] = x[2]] /\ stale' = stale \ {x}
  BY DEF RecoverSave
<1>3. /\ x[1] \in Transfers /\ x[1] <= queued /\ queued \in Nat /\ Transfers \subseteq Nat
      /\ row'[x[1]].status = "Queued"
      /\ \A t \in Transfers : t # x[1] => row'[t] = row[t]
  BY <1>2, Shape DEF SenderInv, StartInv, TypeOK, Transfers
<1>4. \A w \in Workers : pc[w] = "idle" /\ pc'[w] = "idle"
  BY <1>1, <1>2 DEF SenderInv, StartInv, GoroutinesKept, At
<1>5. StartInv'
  BY <1>1, <1>2, <1>4 DEF SenderInv, StartInv, At
<1>6. QueuedInv'
  <2>1. \A t \in Transfers : t > queued => t # x[1]
    BY <1>3
  <2> QED
    BY <2>1, <1>1, <1>3, <1>4 DEF SenderInv, QueuedInv, GoroutinesKept, At
<1>7. MapInv' /\ LockInv' /\ RemoteInv' /\ ConfirmInv'
  BY <1>1 DEF SenderInv, MapInv, LockInv, RemoteInv, ConfirmInv, GoroutinesKept
<1>8. UserInv'
  BY <1>1, <1>3, Shape, Kinds DEF SenderInv, UserInv, GoroutinesKept
<1>9. CompletedIsConfirmed'
  BY <1>1, <1>3 DEF SenderInv, CompletedIsConfirmed
<1>10. BusyInv'
  <2> SUFFICES ASSUME NEW t \in Transfers, row'[t].status \in Running \ {"Resuming"}
               PROVE  Attended(t)'
    BY DEF BusyInv
  <2>1. t # x[1] /\ Attended(t)
    BY <1>3 DEF SenderInv, BusyInv, Running
  <2> QED
    BY <2>1, <1>1, <1>2 DEF Attended, WillSave, AtWork, Live, WillCancel,
       GoroutinesKept
<1>11. PausedInv'
  BY <1>4 DEF PausedInv, Unattended, AtWork
<1> QED
  BY <1>5, <1>6, <1>7, <1>8, <1>9, <1>10, <1>11 DEF SenderInv

LEMMA RecoverFailsKeeps ==
    ASSUME SenderInv, TypeOK', RecoverFails PROVE SenderInv'
<1>1. /\ GoroutinesKept /\ stale' = {} /\ aborted' = aborted \cup {x[1] : x \in stale}
      /\ UNCHANGED <<row, queued, active, mu, progressMu, boot, remote, consent>>
  BY DEF RecoverFails, counts, goroutines, locks, peer, GoroutinesKept
<1>2. StartInv' /\ QueuedInv' /\ MapInv' /\ LockInv' /\ UserInv' /\ PausedInv'
  BY <1>1 DEF SenderInv, StartInv, QueuedInv, MapInv, LockInv, UserInv, PausedInv,
     Unattended, AtWork, Live, GoroutinesKept, At
<1>3. RemoteInv' /\ ConfirmInv' /\ CompletedIsConfirmed'
  BY <1>1 DEF SenderInv, RemoteInv, ConfirmInv, CompletedIsConfirmed,
     GoroutinesKept
<1>4. BusyInv'
  <2>1. \A t \in Transfers : Attended(t) => Attended(t)'
    BY <1>1 DEF Attended, WillSave, AtWork, Live, WillCancel, GoroutinesKept
  <2> QED
    BY <2>1, <1>1 DEF SenderInv, BusyInv
<1> QED
  BY <1>2, <1>3, <1>4 DEF SenderInv

LEMMA CrashKeeps ==
    ASSUME SenderInv, TypeOK', Crash PROVE SenderInv'
<1>1. /\ boot' = "recover" /\ stale' = {} /\ \A p \in Procs : pc'[p] = "idle"
      /\ \A t \in Transfers : active'[t] = {}
      /\ UNCHANGED <<row, queued, remote, consent>>
  BY DEF Crash, counts, peer
<1>2. StartInv' /\ MapInv' /\ LockInv' /\ UserInv' /\ ConfirmInv' /\ BusyInv' /\ PausedInv'
  BY <1>1, Kinds DEF StartInv, MapInv, LockInv, UserInv, ConfirmInv, BusyInv,
     Attended, PausedInv, Unattended, AtWork, At
<1>3. QueuedInv' /\ RemoteInv' /\ CompletedIsConfirmed'
  BY <1>1, Kinds DEF SenderInv, QueuedInv, RemoteInv, CompletedIsConfirmed, At
<1> QED
  BY <1>2, <1>3 DEF SenderInv

LEMMA DecideKeeps ==
    ASSUME SenderInv, TypeOK', NEW t \in Transfers,
           PeerAccepts(t) \/ PeerDeclines(t) \/ PeerCancels(t) \/ PeerRetries(t)
    PROVE  SenderInv'
<1>1. /\ GoroutinesKept
      /\ UNCHANGED <<row, queued, active, mu, progressMu, boot, stale, aborted>>
      /\ consent \subseteq consent'
  BY DEF PeerAccepts, PeerDeclines, PeerCancels, PeerRetries, Decide, counts,
     goroutines, locks, process, GoroutinesKept
<1>2. /\ remote[t].status # "Completed"
      /\ \/ remote'[t].status = "Cancelled"
         \/ remote'[t].status = "Receiving" /\ t \in consent'
  BY StatusSet DEF PeerAccepts, PeerDeclines, PeerCancels, PeerRetries, Decide,
     Terminal, SenderInv, TypeOK, RemoteInv
<1>3. \A q \in Transfers : q # t => remote'[q] = remote[q]
  BY StatusSet DEF PeerAccepts, PeerDeclines, PeerCancels, PeerRetries, Decide,
     Terminal, SenderInv, TypeOK
<1>4. StartInv' /\ QueuedInv' /\ MapInv' /\ LockInv' /\ UserInv' /\ PausedInv'
  BY <1>1 DEF SenderInv, StartInv, QueuedInv, MapInv, LockInv, UserInv, PausedInv,
     Unattended, AtWork, Live, GoroutinesKept, At
<1>5. RemoteInv'
  BY <1>1, <1>2, <1>3 DEF SenderInv, RemoteInv
<1>6. ConfirmInv' /\ CompletedIsConfirmed'
  <2>1. \A q \in Transfers : remote[q].status = "Completed" => remote'[q] = remote[q]
    BY <1>2, <1>3
  <2> QED
    BY <2>1, <1>1, Shape, Kinds DEF SenderInv, ConfirmInv, CompletedIsConfirmed,
       GoroutinesKept
<1>7. BusyInv'
  <2>1. \A q \in Transfers : Attended(q) => Attended(q)'
    BY <1>1 DEF Attended, WillSave, AtWork, Live, WillCancel, GoroutinesKept
  <2> QED
    BY <2>1, <1>1 DEF SenderInv, BusyInv
<1> QED
  BY <1>4, <1>5, <1>6, <1>7 DEF SenderInv

LEMMA StutterKeeps ==
    ASSUME SenderInv, TypeOK', UNCHANGED vars PROVE SenderInv'
<1>1. /\ GoroutinesKept
      /\ UNCHANGED <<row, queued, active, mu, progressMu, boot, stale, remote, consent,
                     aborted>>
  BY DEF vars, counts, goroutines, GoroutinesKept
<1>2. StartInv' /\ QueuedInv' /\ MapInv' /\ LockInv' /\ UserInv' /\ PausedInv'
  BY <1>1 DEF SenderInv, StartInv, QueuedInv, MapInv, LockInv, UserInv, PausedInv,
     Unattended, AtWork, Live, GoroutinesKept, At
<1>3. RemoteInv' /\ ConfirmInv' /\ CompletedIsConfirmed'
  BY <1>1 DEF SenderInv, RemoteInv, ConfirmInv, CompletedIsConfirmed,
     GoroutinesKept
<1>4. BusyInv'
  BY <1>1 DEF SenderInv, BusyInv, Attended, WillSave, AtWork, Live, WillCancel,
     GoroutinesKept
<1> QED
  BY <1>2, <1>3, <1>4 DEF SenderInv

-----------------------------------------------------------------------------
(* The invariant holds.                                                     *)
LEMMA SenderInit == Init => SenderInv
<1> SUFFICES ASSUME Init PROVE SenderInv
  OBVIOUS
<1>1. NoRemote \in Remote
  BY DEF NoRemote, Remote
<1>2. TypeOK
  BY <1>1, AbsentIsRow, SenderAssumption, Kinds DEF Init, TypeOK, WorkerStep,
     UserStep, Command
<1>3. /\ boot = "recover" /\ stale = {} /\ \A p \in Procs : pc[p] = "idle"
      /\ \A t \in Transfers : row[t].status = "Absent" /\ remote[t].status = "Absent"
                             /\ active[t] = {}
  BY DEF Init, AbsentRow, NoRemote
<1>4. StartInv /\ QueuedInv /\ MapInv /\ LockInv /\ UserInv /\ RemoteInv
  BY <1>3, Kinds DEF StartInv, QueuedInv, MapInv, LockInv, UserInv, RemoteInv, At,
     Terminal
<1>5. ConfirmInv /\ CompletedIsConfirmed /\ BusyInv /\ PausedInv
  BY <1>3, Kinds DEF ConfirmInv, CompletedIsConfirmed, BusyInv, PausedInv,
     Attended
<1> QED
  BY <1>2, <1>4, <1>5 DEF SenderInv

(* Every step of a goroutine is of one of the kinds above.                  *)
LEMMA WorkerActs ==
    ASSUME SenderInv, NEW w \in Workers, WorkerStepFree(w) \/ WorkerStepLocked(w)
    PROVE  Work(w) \/ Leave(w)
BY SaveFamilyWorks, StartWorks, SendOfferWorks, ApprovedWorks, EndedWorks,
   SendChunkWorks, RefreshWorks, RefreshSaveWorks, RefreshFailsWorks, CompleteWorks,
   LatestWorks, FinishCompletedWorks, CanceledWorks, WorkerErrorWorks, EndLeaves,
   FailReadLeaves, FailSaveLeaves DEF WorkerStepFree, WorkerStepLocked


LEMMA UserServes ==
    ASSUME SenderInv, NEW u \in Users,
           UserRequest(u) \/ UserStepFree(u) \/ UserStepLocked(u)
    PROVE  Serve(u)
BY LockMuServes, CancelServes, LockedReadServes, LockedSaveServes,
   CancelReadServes, CancelSaveServes, NotifyServes DEF UserRequest, UserStepFree,
   UserStepLocked


LEMMA SenderStep == SenderInv /\ [Next]_vars => SenderInv'
<1> SUFFICES ASSUME SenderInv, [Next]_vars PROVE SenderInv'
  OBVIOUS
<1>1. TypeOK'
  BY TypeStep
<1> QED
  BY <1>1, WorkerActs, WorkKeeps, LeaveKeeps, UserServes, ServeKeeps, QueueKeeps,
     DispatchKeeps, DeleteHistoryKeeps, RecoverListKeeps, RecoverSaveKeeps,
     RecoverFailsKeeps, CrashKeeps, DecideKeeps, StutterKeeps DEF Next

(* The sender's invariant holds always: types, who holds which mutex where, *)
(* who works on which transfer, and what every goroutine is about to save.  *)
THEOREM SenderInvariant == Spec => []SenderInv
BY SenderInit, SenderStep, PTL DEF Spec

(* The sender reports Completed only for a transfer that its receiver was   *)
(* allowed to take, has in full and has verified: row and peer agree under  *)
(* all interleavings of workers, requests and restarts.                     *)
THEOREM CompletedOnlyConfirmed == Spec => []CompletedIsConfirmed
<1>1. SenderInv => CompletedIsConfirmed
  BY DEF SenderInv
<1> QED
  BY <1>1, SenderInvariant, PTL

(* No transfer that looks busy is left alone, unless a statement of a       *)
(* user's request, of recover or of fail has failed.                        *)
THEOREM NobodyOrphaned == Spec => []NoOrphan
<1>1. SenderInv => NoOrphan
  BY Kinds DEF SenderInv, BusyInv, Attended, WillSave, WillCancel, AtWork,
     NoOrphan, At
<1> QED
  BY <1>1, SenderInvariant, PTL

-----------------------------------------------------------------------------
(* A paused transfer stays paused.                                          *)
LEMMA PausedStep ==
    ASSUME SenderInv, [Next]_vars, NEW t \in Transfers, row[t].status = "Paused"
    PROVE  \/ row'[t].status \in {"Paused", "Resuming", "Cancelled", "Failed"}
           \/ Displaced(t)
           \/ \E x \in stale : x[1] = t
<1> SUFFICES ASSUME row'[t] # row[t]
             PROVE  \/ row'[t].status \in {"Paused", "Resuming", "Cancelled", "Failed"}
                    \/ Displaced(t)
                    \/ \E x \in stale : x[1] = t
  OBVIOUS
(* A worker that is still at work on it is not in the map.                  *)
<1>1. ASSUME NEW w \in Workers, WorkerStepFree(w) \/ WorkerStepLocked(w)
      PROVE  Displaced(t) \/ row'[t].status = "Failed"
  <2>1. Work(w) \/ Leave(w)
    BY <1>1, WorkerActs
  <2>2. CASE Work(w)
    <3>1. t = id[w] /\ AtWork(w)
      BY <2>2 DEF Work, OtherRowsKept, AtWork
    <3>2. w \notin active[t]
      BY <3>1 DEF SenderInv, PausedInv, Unattended
    <3> QED
      BY <3>1, <3>2 DEF Displaced
  <2>3. CASE Leave(w)
    BY <2>3 DEF Leave, OtherRowsKept
  <2> QED
    BY <2>1, <2>2, <2>3
(* Of the user's requests Resume and Cancel save it; Retry has found        *)
(* another status, and the lock keeps it.                                   *)
<1>2. ASSUME NEW u \in Users, UserRequest(u) \/ UserStepFree(u) \/ UserStepLocked(u)
      PROVE  row'[t].status \in {"Paused", "Resuming", "Cancelled"}
  <2>1. Serve(u)
    BY <1>2, UserServes
  <2>2. t = id[u] /\ SavesRequest(u)
    BY <2>1 DEF Serve, OtherRowsKept
  <2>3. CASE pc[u] = "cancelSave"
    BY <2>2, <2>3 DEF SavesRequest
  <2>4. CASE pc[u] = "lockedSave"
    <3>1. LockedSave(u)
      BY <1>2, <2>4, Kinds DEF UserRequest, UserStepFree, UserStepLocked, LockMu,
         Cancel, NewRequest, LockedRead, CancelRead, CancelSave, Notify, At
    <3>2. row'[t] = copy[u]
      BY <2>2, <3>1, Shape DEF LockedSave
    <3>3. copy[u].status = To(cmd[u]) /\ cmd[u] \in {"pause", "resume"}
      BY <2>2, <2>4 DEF SenderInv, UserInv
    <3> QED
      BY <3>2, <3>3 DEF To
  <2> QED
    BY <2>2, <2>3, <2>4 DEF SavesRequest
<1>3. CASE Queue
  BY <1>3 DEF Queue, SenderInv, QueuedInv, TypeOK, Transfers
<1>4. CASE DeleteHistory
  BY <1>4 DEF DeleteHistory, Terminal
<1>5. CASE RecoverSave
  BY <1>5, Shape DEF RecoverSave
<1>6. CASE \/ Dispatch \/ RecoverList \/ RecoverFails \/ Crash \/ UNCHANGED vars
  BY <1>6 DEF Dispatch, RecoverList, RecoverFails, Crash, vars
<1>7. ASSUME NEW q \in Transfers,
             PeerAccepts(q) \/ PeerDeclines(q) \/ PeerCancels(q) \/ PeerRetries(q)
      PROVE  FALSE
  BY <1>7 DEF PeerAccepts, PeerDeclines, PeerCancels, PeerRetries, Decide
<1> QED
  BY <1>1, <1>2, <1>3, <1>4, <1>5, <1>6, <1>7 DEF Next

(* Once Pause has saved, the transfer runs again only when the user resumes *)
(* it.  The exceptions are a worker that the map has lost, which Pause does *)
(* not cancel, and a row that recover has read before.                      *)
THEOREM PausedStays == Spec => PausedStaysPaused
<1>1. SenderInv /\ [Next]_vars =>
        [\A t \in Transfers : row[t].status = "Paused" =>
            \/ row'[t].status \in {"Paused", "Resuming", "Cancelled", "Failed"}
            \/ Displaced(t)
            \/ \E x \in stale : x[1] = t]_vars
  BY PausedStep
<1> QED
  BY <1>1, SenderInvariant, PTL DEF Spec, PausedStaysPaused

=============================================================================
