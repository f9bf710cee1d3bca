----------------------- MODULE TransferReceiverProofs -----------------------
(***************************************************************************)
(* Proofs about TransferReceiver, for every number of concurrent requests,  *)
(* files, chunks and tokens.                                               *)
(***************************************************************************)
EXTENDS TransferReceiver, TLAPS

Upload == [chunk : Chunks, data : Contents]

-----------------------------------------------------------------------------
(* Rows and locals as records.                                             *)

(* A stored row with another status is a row with the same other columns.   *)
LEMMA RowStatus ==
    ASSUME NEW r \in Row, NEW s \in InboundStatus
    PROVE  LET q == [r EXCEPT !.status = s] IN
           /\ q \in Row
           /\ q.status = s /\ q.approved = r.approved /\ q.token = r.token
  BY DEF Row

(* The copy Accept saves is a stored row with the same credential.          *)
LEMMA AcceptRow ==
    ASSUME NEW r \in Row
    PROVE  LET q == [r EXCEPT !.status = "Receiving", !.approved = TRUE] IN
           q \in Row /\ q.status = "Receiving" /\ q.token = r.token
  BY DEF Row, InboundStatus

(* The columns of a stored row have their types.                            *)
LEMMA RowFields ==
    ASSUME NEW r \in Row
    PROVE  /\ r.approved \in BOOLEAN
           /\ r.status \in InboundStatus \cup {"Absent"}
           /\ r.token \in Tokens \cup {"none"}
  BY DEF Row

(* The absence of a row is an unapproved row of its own.                    *)
LEMMA AbsentIsRow == AbsentRow \in Row /\ AbsentRow.status = "Absent"
                     /\ AbsentRow.approved = FALSE
  BY DEF AbsentRow, Row

(* A row ReceiveOffer builds from its columns is a stored row.              *)
LEMMA NewRow ==
    ASSUME NEW s \in InboundStatus, NEW a \in BOOLEAN, NEW k \in Tokens
    PROVE  LET q == [status |-> s, approved |-> a, token |-> k] IN
           q \in Row /\ q.status = s /\ q.approved = a /\ q.token = k
  BY DEF Row

(* A goroutine that serves no request holds no copy of the row.             *)
LEMMA IdleIsJob == Idle \in Job /\ Idle.pc = "idle" /\ Idle.t = AbsentRow
  BY AbsentIsRow, ReceiverAssumption DEF Idle, Job, Step, Files

(* The locals of a goroutine have their types.                              *)
LEMMA JobFields ==
    ASSUME NEW j \in Job
    PROVE  /\ j.pc \in Step /\ j.t \in Row /\ j.at \in 0..NumFiles
           /\ j.upload \in Upload \cup {NoUpload} /\ j.listed \in SUBSET Files
  BY DEF Job, Upload

(* What the four forms of a control step do to the goroutines.              *)
Jobs == job \in [Handlers -> Job]
Others(h) == \A g \in Handlers : g # h => job'[g] = job[g]

(* A goroutine moves on and keeps its locals.                               *)
LEMMA GotoEffect ==
    ASSUME Jobs, NEW h \in Handlers, NEW s \in Step, Goto(h, s)
    PROVE  /\ Jobs' /\ Others(h)
           /\ job'[h].pc = s /\ job'[h].t = job[h].t
           /\ job'[h].upload = job[h].upload /\ job'[h].at = job[h].at
<1>1. job[h] \in Job /\ job' = [job EXCEPT ![h] = [job[h] EXCEPT !.pc = s]]
  BY DEF Goto, Jobs
<1>2. [job[h] EXCEPT !.pc = s] \in Job
  BY <1>1 DEF Job
<1> QED BY <1>1, <1>2 DEF Jobs, Others, Job

(* A goroutine moves on with another copy of the row.                       *)
LEMMA GotoWithEffect ==
    ASSUME Jobs, NEW h \in Handlers, NEW s \in Step, NEW r \in Row,
           GotoWith(h, s, r)
    PROVE  /\ Jobs' /\ Others(h)
           /\ job'[h].pc = s /\ job'[h].t = r
           /\ job'[h].upload = job[h].upload /\ job'[h].at = job[h].at
<1>1. /\ job[h] \in Job
      /\ job' = [job EXCEPT ![h] = [job[h] EXCEPT !.pc = s, !.t = r]]
  BY DEF GotoWith, Jobs
<1>2. [job[h] EXCEPT !.pc = s, !.t = r] \in Job
  BY <1>1 DEF Job
<1> QED BY <1>1, <1>2 DEF Jobs, Others, Job

(* A goroutine returns and forgets its copy.                                *)
LEMMA ReturnEffect ==
    ASSUME Jobs, NEW h \in Handlers, Return(h)
    PROVE  /\ Jobs' /\ Others(h)
           /\ job'[h].pc = "idle" /\ job'[h].t = AbsentRow
  BY IdleIsJob DEF Jobs, Others, Return

(* Finalize holds its list of chunk rows and starts at the first file.      *)
LEMMA ListEffect ==
    ASSUME Jobs, NEW h \in Handlers, NEW L \in SUBSET Files,
           job' = [job EXCEPT ![h].pc = "checksum", ![h].at = 1, ![h].listed = L]
    PROVE  /\ Jobs' /\ Others(h)
           /\ job'[h].pc = "checksum" /\ job'[h].at = 1 /\ job'[h].t = job[h].t
<1> DEFINE j == [job[h] EXCEPT !.pc = "checksum", !.at = 1, !.listed = L]
<1>1. job[h] \in Job /\ job' = [job EXCEPT ![h] = j]
  BY DEF Jobs
<1>2. 1 \in 0..NumFiles
  BY ReceiverAssumption
<1>3. j \in Job
  BY <1>1, <1>2 DEF Job, Step
<1> QED BY <1>1, <1>3 DEF Jobs, Others, Job

(* A loop of Finalize goes to the next file or is over after the last one.  *)
LEMMA NextFileEffect ==
    ASSUME Jobs, NEW h \in Handlers, NEW s \in Step, NEW a \in Step,
           job[h].at \in Files, NextFile(h, s, a)
    PROVE  /\ Jobs' /\ Others(h)
           /\ job'[h].t = job[h].t /\ job'[h].at \in Files
           /\ \/ /\ job[h].at < NumFiles
                 /\ job'[h].pc = s /\ job'[h].at = job[h].at + 1
              \/ /\ job[h].at = NumFiles
                 /\ job'[h].pc = a /\ job'[h].at = 1
<1>1. job[h] \in Job
  BY DEF Jobs
<1>2. CASE job[h].at < NumFiles
  <2> DEFINE j == [job[h] EXCEPT !.pc = s, !.at = job[h].at + 1]
  <2>1. job' = [job EXCEPT ![h] = j]
    BY <1>2 DEF NextFile, Jobs
  <2>2. job[h].at + 1 \in 0..NumFiles /\ job[h].at + 1 \in Files
    BY <1>2, ReceiverAssumption DEF Files
  <2>3. j \in Job
    BY <1>1, <2>2 DEF Job
  <2> QED BY <1>1, <1>2, <2>1, <2>2, <2>3 DEF Jobs, Others, Job
<1>3. CASE ~(job[h].at < NumFiles)
  <2> DEFINE j == [job[h] EXCEPT !.pc = a, !.at = 1]
  <2>1. job' = [job EXCEPT ![h] = j]
    BY <1>3 DEF NextFile, Jobs
  <2>2. job[h].at = NumFiles /\ 1 \in 0..NumFiles /\ 1 \in Files
    BY <1>3, ReceiverAssumption DEF Files
  <2>3. j \in Job
    BY <1>1, <2>2 DEF Job
  <2> QED BY <1>1, <2>1, <2>2, <2>3 DEF Jobs, Others, Job
<1> QED BY <1>2, <1>3

(* ReceiveChunk holds an upload and a copy of the row.                      *)
LEMMA UploadEffect ==
    ASSUME Jobs, row \in Row, NEW h \in Handlers, NEW c \in Chunks,
           NEW d \in Contents,
           job' = [job EXCEPT ![h].pc = "write", ![h].t = row,
                              ![h].upload = [chunk |-> c, data |-> d]]
    PROVE  /\ Jobs' /\ Others(h)
           /\ job'[h].pc = "write" /\ job'[h].t = row
           /\ job'[h].upload \in Upload /\ job'[h].upload.data = d
<1> DEFINE u == [chunk |-> c, data |-> d]
           j == [job[h] EXCEPT !.pc = "write", !.t = row, !.upload = u]
<1>1. job[h] \in Job /\ job' = [job EXCEPT ![h] = j]
  BY DEF Jobs
<1>2. u \in Upload /\ u.data = d
  BY DEF Upload
<1>3. j \in Job
  BY <1>1, <1>2 DEF Job, Step, Upload
<1> HIDE DEF u
<1>4. j.pc = "write" /\ j.t = row /\ j.upload = u
  BY <1>1 DEF Job
<1> HIDE DEF j
<1> QED BY <1>1, <1>2, <1>3, <1>4 DEF Jobs, Others

-----------------------------------------------------------------------------
(* Types.                                                                  *)

(* A fresh receiver is well typed.                                          *)
LEMMA InitType == Init => TypeInv
<1> SUFFICES ASSUME Init PROVE TypeInv
  OBVIOUS
<1>1. row \in Row /\ RowTokenOK
  BY AbsentIsRow DEF Init, RowTokenOK, Exists
<1>2. Jobs /\ \A h \in Handlers : LocalOK(h)
  BY IdleIsJob DEF Init, Jobs, LocalOK
<1> QED BY <1>1, <1>2 DEF Init, TypeInv, TypeOK, Jobs

(* A goroutine's read of the row, with whatever copy it prepares.           *)
LEMMA RequestType ==
    ASSUME TypeInv, NEW h \in Handlers, Request(h),
           UNCHANGED changed, overlapped' \in BOOLEAN
    PROVE  TypeInv'
<1>0. /\ Jobs /\ row \in Row /\ RowTokenOK /\ job[h] \in Job
      /\ row.approved \in BOOLEAN
  BY RowFields DEF TypeInv, TypeOK, Jobs
<1> USE <1>0 DEF At, Step, InboundStatus, disk
<1>1. CASE Accept(h)
  <2> DEFINE r == [row EXCEPT !.status = "Receiving", !.approved = TRUE]
  <2>1. r \in Row /\ r.token = row.token
    BY AcceptRow
  <2>2. GotoWith(h, "save", r) /\ row.status = "Queued"
    BY <1>1 DEF Accept
  <2> HIDE DEF r
  <2>3. Jobs' /\ Others(h) /\ job'[h].pc = "save" /\ job'[h].t = r
    BY <2>1, <2>2, GotoWithEffect
  <2> QED BY <1>1, <2>1, <2>2, <2>3
          DEF Accept, TypeInv, TypeOK, Jobs, Others, LocalOK, RowTokenOK, Exists
<1>2. CASE Reject(h) \/ Cancel(h)
  <2> DEFINE r == [row EXCEPT !.status = "Cancelled"]
  <2>1. r \in Row /\ r.token = row.token
    BY RowStatus
  <2>2. GotoWith(h, "finish", r) /\ Exists
    BY <1>2 DEF Reject, Cancel, Exists
  <2> HIDE DEF r
  <2>3. Jobs' /\ Others(h) /\ job'[h].pc = "finish" /\ job'[h].t = r
    BY <2>1, <2>2, GotoWithEffect
  <2> QED BY <1>2, <2>1, <2>2, <2>3 DEF Reject, Cancel, TypeInv, TypeOK, Jobs, Others,
                            LocalOK, RowTokenOK, Exists
<1>3. ASSUME NEW r \in Row, r.token \in Tokens, LockedUpdate(h, r)
      PROVE  TypeInv'
  <2>1. Jobs' /\ Others(h) /\ job'[h].pc = "lockedSave" /\ job'[h].t = r
    BY <1>3, GotoWithEffect DEF LockedUpdate
  <2> QED BY <1>3, <2>1 DEF LockedUpdate, TypeInv, TypeOK, Jobs, Others,
                            LocalOK, RowTokenOK, Exists
<1>4. CASE Pause(h) \/ Resume(h) \/ Retry(h)
  BY <1>3, <1>4, RowStatus DEF Pause, Resume, Retry, RowTokenOK, Exists
<1>5. CASE Recover(h)
  <2> DEFINE r == [row EXCEPT !.status = "Receiving"]
  <2>1. r \in Row /\ r.token = row.token
    BY RowStatus
  <2> HIDE DEF r
  <2>2. CASE row.status = "Verifying"
    <3>1. GotoWith(h, "save", r)
      BY <1>5, <2>2 DEF Recover, r
    <3>2. Jobs' /\ Others(h) /\ job'[h].pc = "save" /\ job'[h].t = r
      BY <2>1, <3>1, GotoWithEffect
    <3> QED BY <1>5, <2>1, <2>2, <3>2 DEF Recover, TypeInv, TypeOK, Jobs,
               Others, LocalOK, RowTokenOK, Exists
  <2>3. CASE row.status # "Verifying"
    BY <1>5, <2>3 DEF Recover, TypeInv, TypeOK, LocalOK, RowTokenOK, Exists
  <2> QED BY <2>2, <2>3
<1>6. ASSUME NEW tok \in Tokens, ReceiveOffer(h, tok)
      PROVE  TypeInv'
  <2> DEFINE r == [status |-> "Queued", approved |-> FALSE, token |-> tok]
  <2>1. r \in Row /\ r.token = tok
    BY NewRow
  <2> HIDE DEF r
  <2>2. CASE Exists
    BY <1>6, <2>2 DEF ReceiveOffer, TypeInv, TypeOK, LocalOK, RowTokenOK, Exists
  <2>3. CASE ~Exists
    <3>1. GotoWith(h, "save", r)
      BY <1>6, <2>3 DEF ReceiveOffer, r
    <3>2. Jobs' /\ Others(h) /\ job'[h].pc = "save" /\ job'[h].t = r
      BY <2>1, <3>1, GotoWithEffect
    <3> QED BY <1>6, <2>1, <2>3, <3>2 DEF ReceiveOffer, TypeInv, TypeOK, Jobs,
               Others, LocalOK, RowTokenOK, Exists
  <2> QED BY <2>2, <2>3
<1>7. ASSUME NEW tok \in Tokens, Finalize(h, tok)
      PROVE  TypeInv'
  <2> DEFINE r == [row EXCEPT !.status = "Verifying"]
  <2>1. r \in Row /\ r.token = row.token
    BY RowStatus
  <2>2. GotoWith(h, "saveVerifying", r)
    BY <1>7 DEF Finalize
  <2> HIDE DEF r
  <2>3. Jobs' /\ Others(h) /\ job'[h].pc = "saveVerifying" /\ job'[h].t = r
    BY <2>1, <2>2, GotoWithEffect
  <2> QED BY <1>7, <2>1, <2>3 DEF Finalize, MayReceive, TypeInv, TypeOK, Jobs, Others, LocalOK,
                            RowTokenOK, Exists
<1>8. ASSUME NEW tok \in Tokens, NEW c \in Chunks, NEW d \in Contents,
             ReceiveChunk(h, c, d, tok)
      PROVE  TypeInv'
  <2>1. /\ Jobs' /\ Others(h) /\ job'[h].t = row
        /\ job'[h].pc = "write" /\ job'[h].upload \in Upload
    BY <1>8, UploadEffect DEF ReceiveChunk
  <2> QED BY <1>8, <2>1 DEF ReceiveChunk, MayReceive, TypeInv, TypeOK, Jobs, Others,
                            LocalOK, RowTokenOK, Exists, Upload
<1> QED
  BY <1>1, <1>2, <1>4, <1>5, <1>6, <1>7, <1>8 DEF Request, ProtocolCancel

(* The steps of a goroutine that is serving a request.                      *)
LEMMA ContinueType ==
    ASSUME TypeInv, NEW h \in Handlers, UNCHANGED <<changed, overlapped>>,
           Continue(h) \/ Finish(h) \/ RefreshProgress(h) \/ StoreFails(h)
    PROVE  TypeInv'
<1>0. /\ Jobs /\ row \in Row /\ RowTokenOK /\ LocalOK(h)
      /\ job[h].t \in Row /\ job[h].at \in 0..NumFiles
  BY JobFields DEF TypeInv, TypeOK, Jobs
<1> USE <1>0 DEF At, Step, InboundStatus, disk
<1>1. CASE SaveTransfer(h) \/ SaveLocked(h) \/ Finish(h)
  <2>1. /\ Jobs' /\ Others(h)
        /\ job'[h].pc = "idle" /\ job'[h].t.status = "Absent"
    BY <1>1, ReturnEffect, AbsentIsRow DEF SaveTransfer, SaveLocked, Finish
  <2>2. row' = job[h].t /\ RowTokenOK'
    BY <1>1 DEF SaveTransfer, SaveLocked, Finish, LocalOK, RowTokenOK, Exists
  <2> QED BY <1>1, <2>1, <2>2 DEF SaveTransfer, SaveLocked, Finish,
             TypeInv, TypeOK, Jobs, Others, LocalOK
<1>2. CASE WriteAt(h) \/ WriteAtFails(h)
  <2>1. /\ job[h].upload.chunk \in Chunks
        /\ job[h].upload.data \in {"good", "bad"}
        /\ FileOf[job[h].upload.chunk] \in Files
    BY <1>2, ReceiverAssumption DEF WriteAt, WriteAtFails, LocalOK, Files,
                                    Contents
  <2>2. parts' \subseteq Files /\ bytes' \in [Chunks -> {"none", "good", "bad"}]
    BY <1>2, <2>1 DEF WriteAt, WriteAtFails, TypeInv, TypeOK
  <2>3. /\ Jobs' /\ Others(h)
        /\ \/ /\ job'[h].pc = "saveChunk" /\ job'[h].upload = job[h].upload
              /\ job'[h].t = job[h].t
           \/ job'[h].pc = "idle" /\ job'[h].t.status = "Absent"
    BY <1>2, GotoEffect, ReturnEffect, AbsentIsRow DEF WriteAt, WriteAtFails
  <2> QED BY <1>2, <2>2, <2>3 DEF WriteAt, WriteAtFails, TypeInv, TypeOK, Jobs,
             Others, LocalOK, RowTokenOK, Exists
<1>3. CASE SaveChunk(h)
  <2>1. /\ Jobs' /\ Others(h)
        /\ job'[h].pc = "refresh" /\ job'[h].t = job[h].t
    BY <1>3, GotoEffect DEF SaveChunk
  <2>2. chunks' \subseteq Chunks
    BY <1>3 DEF SaveChunk, LocalOK, TypeInv, TypeOK
  <2> QED BY <1>3, <2>1, <2>2 DEF SaveChunk, TypeInv, TypeOK, Jobs, Others,
             LocalOK, RowTokenOK, Exists
<1>4. CASE RefreshProgress(h)
  <2>1. /\ Jobs' /\ Others(h)
        /\ \/ job'[h].pc = "lockedSave" /\ job'[h].t = row /\ Exists
           \/ job'[h].pc = "idle" /\ job'[h].t.status = "Absent"
    BY <1>4, GotoWithEffect, ReturnEffect, AbsentIsRow DEF RefreshProgress
  <2> QED BY <1>4, <2>1 DEF RefreshProgress, TypeInv, TypeOK, Jobs, Others,
             LocalOK, RowTokenOK, Exists
<1>5. CASE SaveVerifying(h)
  <2>1. /\ Jobs' /\ Others(h)
        /\ job'[h].pc = "listChunks" /\ job'[h].t = job[h].t
    BY <1>5, GotoEffect DEF SaveVerifying
  <2> QED BY <1>5, <2>1 DEF SaveVerifying, TypeInv, TypeOK, Jobs, Others,
             LocalOK, RowTokenOK, Exists
<1>6. CASE ListChunks(h)
  <2>1. /\ Jobs' /\ Others(h) /\ job'[h].pc = "checksum"
        /\ job'[h].at = 1 /\ job'[h].t = job[h].t
    <3>1. {f \in Files : ChunksOf(f) \subseteq chunks} \in SUBSET Files
      OBVIOUS
    <3> QED BY <1>6, <3>1, ListEffect DEF ListChunks
  <2>2. 1 \in Files
    BY ReceiverAssumption DEF Files
  <2> QED BY <1>6, <2>1, <2>2 DEF ListChunks, TypeInv, TypeOK, Jobs, Others,
             LocalOK, RowTokenOK, Exists
<1>7. ASSUME Fail(h), At(h, "checksum") \/ At(h, "commit")
      PROVE  Jobs' /\ Others(h) /\ LocalOK(h)'
  <2> DEFINE r == [job[h].t EXCEPT !.status = "Failed"]
  <2>1. r \in Row /\ r.token = job[h].t.token
    BY RowStatus
  <2>2. GotoWith(h, "finish", r)
    BY <1>7 DEF Fail
  <2> HIDE DEF r
  <2>3. Jobs' /\ Others(h) /\ job'[h].pc = "finish" /\ job'[h].t = r
    BY <2>1, <2>2, GotoWithEffect
  <2> QED BY <1>7, <2>1, <2>3 DEF LocalOK
<1>8. CASE ChecksumFile(h)
  <2>1. Jobs' /\ Others(h) /\ LocalOK(h)'
    <3>1. CASE Fail(h)
      BY <1>7, <1>8, <3>1 DEF ChecksumFile
    <3>2. CASE NextFile(h, "checksum", "commit")
      <4>1. job[h].at \in Files /\ job[h].t.token \in Tokens
        BY <1>8 DEF ChecksumFile, LocalOK
      <4> QED BY <3>2, <4>1, NextFileEffect DEF LocalOK
    <3> QED BY <1>8, <3>1, <3>2 DEF ChecksumFile
  <2>2. parts' \subseteq Files
    BY <1>8 DEF ChecksumFile, LocalOK, TypeInv, TypeOK
  <2> QED BY <1>8, <2>1, <2>2 DEF ChecksumFile, TypeInv, TypeOK, Jobs, Others,
             LocalOK, RowTokenOK, Exists
<1>9. CASE CommitFile(h)
  <2>1. job[h].at \in Files /\ job[h].t.token \in Tokens
    BY <1>9 DEF CommitFile, LocalOK
  <2>2. Jobs' /\ Others(h) /\ LocalOK(h)'
    <3>1. CASE job[h].at < NumFiles
      BY <1>9, <2>1, <3>1, NextFileEffect DEF CommitFile, LocalOK
    <3>2. CASE ~(job[h].at < NumFiles)
      <4> DEFINE r == [job[h].t EXCEPT !.status = "Completed"]
      <4>1. r \in Row /\ r.token = job[h].t.token
        BY RowStatus
      <4>2. GotoWith(h, "finish", r)
        BY <1>9, <3>2 DEF CommitFile
      <4> HIDE DEF r
      <4>3. Jobs' /\ Others(h) /\ job'[h].pc = "finish" /\ job'[h].t = r
        BY <4>1, <4>2, GotoWithEffect
      <4> QED BY <2>1, <4>1, <4>3 DEF LocalOK
    <3> QED BY <3>1, <3>2
  <2>3. /\ parts' \subseteq Files
        /\ bytes' \in [Chunks -> {"none", "good", "bad"}]
        /\ delivered' \in [Files -> {"none", "good", "bad"}]
    BY <1>9, <2>1 DEF CommitFile, TypeInv, TypeOK
  <2> QED BY <1>9, <2>2, <2>3 DEF CommitFile, TypeInv, TypeOK, Jobs, Others,
             LocalOK, RowTokenOK, Exists
<1>10. CASE CommitFileFails(h) \/ ChecksumFileFails(h)
  <2>1. Jobs' /\ Others(h) /\ LocalOK(h)'
    BY <1>7, <1>10 DEF CommitFileFails, ChecksumFileFails
  <2> QED BY <1>10, <2>1 DEF CommitFileFails, ChecksumFileFails, TypeInv, TypeOK, Jobs, Others,
             LocalOK, RowTokenOK, Exists
<1>11. CASE StoreFails(h)
  <2>1. Jobs' /\ Others(h) /\ job'[h].pc = "idle"
    BY <1>11, ReturnEffect DEF StoreFails
  <2> QED BY <1>11, <2>1 DEF StoreFails, TypeInv, TypeOK, Jobs, Others,
             LocalOK, RowTokenOK, Exists
<1> QED
  BY <1>1, <1>2, <1>3, <1>4, <1>5, <1>6, <1>8, <1>9, <1>10, <1>11 DEF Continue

(* Clearing the history, and a crash.                                       *)
LEMMA SystemType ==
    ASSUME TypeInv, DeleteHistory \/ Crash, UNCHANGED <<changed, overlapped>>
    PROVE  TypeInv'
<1>1. CASE DeleteHistory
  BY <1>1, AbsentIsRow DEF DeleteHistory, TypeInv, TypeOK, LocalOK, RowTokenOK,
                           Exists, disk
<1>2. CASE Crash
  BY <1>2, IdleIsJob DEF Crash, TypeInv, TypeOK, LocalOK, RowTokenOK, Exists,
                         disk
<1> QED BY <1>1, <1>2

(* The sender's files change: no variable of the receiver does.             *)
LEMMA SourceType == TypeInv /\ SourceChanges => TypeInv'
  BY DEF SourceChanges, receiver, TypeInv, TypeOK, LocalOK, RowTokenOK, Exists

(* The type invariant speaks of the variables only.                         *)
LEMMA StutterType == TypeInv /\ UNCHANGED vars => TypeInv'
  BY DEF TypeInv, TypeOK, LocalOK, RowTokenOK, Exists, vars, receiver

(* Every step keeps the types.                                              *)
LEMMA NextType == ASSUME TypeInv, [Next]_vars PROVE TypeInv'
<1>1. ASSUME NEW h \in Handlers, Begin(h), UNCHANGED changed PROVE TypeInv'
  BY <1>1, RequestType DEF Begin, TypeInv, TypeOK
<1> QED BY <1>1, ContinueType, SystemType, SourceType, StutterType DEF Next

(* Whatever requests overlap, fail, or are cut off by a crash, the row, the *)
(* files and the locals of every handler keep their types.                  *)
THEOREM TypeCorrect == Spec => [](TypeInv /\ TypeOK)
<1>1. TypeInv /\ [Next]_vars => TypeInv'
  BY NextType
<1>2. TypeInv => TypeOK
  BY DEF TypeInv
<1> QED BY InitType, <1>1, <1>2, PTL DEF Spec

-----------------------------------------------------------------------------
(* Safety.  Safe is the part of IndInv that is not about types.             *)

Safe == ConsentInv /\ BackedInv /\ DeliveredInv /\ VerifiedInv

(* A fresh receiver is safe.                                                *)
LEMMA InitSafe == Init => Safe
<1> SUFFICES ASSUME Init PROVE Safe
  OBVIOUS
<1> USE IdleIsJob, AbsentIsRow DEF Init
<1>1. ConsentInv
  BY DEF ConsentInv, NoBytesWithoutConsent, Consented
<1>2. BackedInv
  BY DEF BackedInv, ChunkRowBacked, UploadBacked
<1>3. DeliveredInv
  BY DEF DeliveredInv, CompletedMeansDelivered, CommitProgress
<1>4. VerifiedInv
  BY DEF VerifiedInv, AllVerifiedBeforeAnyCommit, VerifyProgress
<1> QED BY <1>1, <1>2, <1>3, <1>4 DEF Safe

(* A request only reads the shared state; the copy it prepares is approved  *)
(* only if the row is or the user just said so, and never says Completed.   *)
LEMMA RequestEffect ==
    ASSUME TypeInv, NEW h \in Handlers, Request(h)
    PROVE  /\ job'[h].pc = "write" /\ job'[h] # job[h] =>
                 job'[h].upload.data = "good" \/ changed
           /\ Others(h)
           /\ UNCHANGED <<row, chunks, parts, bytes, delivered>>
           /\ consent => consent'
           /\ \/ job'[h] = job[h]
              \/ /\ job'[h].pc \in {"save", "finish", "lockedSave", "write",
                                     "saveVerifying"}
                 /\ job'[h].t.status # "Completed"
                 /\ job'[h].t.approved => row.approved \/ consent'
                 /\ job'[h].pc \in {"write", "saveVerifying"} =>
                       job'[h].t.approved
<1>0. Jobs /\ row \in Row /\ job[h] \in Job
  BY DEF TypeInv, TypeOK, Jobs
<1> USE <1>0 DEF At, Step, InboundStatus, disk
<1>1. CASE Accept(h)
  <2> DEFINE r == [row EXCEPT !.status = "Receiving", !.approved = TRUE]
  <2>1. r \in Row /\ r.status = "Receiving"
    BY AcceptRow
  <2>2. GotoWith(h, "save", r) /\ consent' = TRUE
    BY <1>1 DEF Accept
  <2> HIDE DEF r
  <2>3. Others(h) /\ job'[h].pc = "save" /\ job'[h].t = r
    BY <2>1, <2>2, GotoWithEffect
  <2> QED BY <1>1, <2>1, <2>2, <2>3 DEF Accept
<1>2. ASSUME NEW s \in {"Cancelled", "Paused", "Receiving", "Queued"},
             NEW p \in {"save", "finish", "lockedSave"},
             GotoWith(h, p, [row EXCEPT !.status = s])
      PROVE  /\ Others(h) /\ job'[h].pc = p
             /\ job'[h].t.status = s /\ job'[h].t.approved = row.approved
  <2> DEFINE r == [row EXCEPT !.status = s]
  <2>1. r \in Row /\ r.status = s /\ r.approved = row.approved
    <3>1. s \in InboundStatus
      OBVIOUS
    <3> QED BY <3>1, RowStatus
  <2>2. GotoWith(h, p, r)
    BY <1>2
  <2> HIDE DEF r
  <2> QED BY <2>1, <2>2, GotoWithEffect
<1>3. CASE Reject(h) \/ Cancel(h)
  BY <1>2, <1>3 DEF Reject, Cancel
<1>4. CASE Pause(h) \/ Resume(h) \/ Retry(h)
  BY <1>2, <1>4 DEF Pause, Resume, Retry, LockedUpdate
<1>5. CASE Recover(h)
  BY <1>2, <1>5 DEF Recover, Others
<1>6. ASSUME NEW tok \in Tokens, ReceiveOffer(h, tok)
      PROVE  /\ Others(h) /\ consent' = consent
             /\ UNCHANGED <<row, chunks, parts, bytes, delivered>>
             /\ \/ job'[h] = job[h]
                \/ /\ job'[h].pc = "save" /\ job'[h].t.status = "Queued"
                   /\ ~job'[h].t.approved
  <2> DEFINE r == [status |-> "Queued", approved |-> FALSE, token |-> tok]
  <2>1. r \in Row /\ r.status = "Queued" /\ r.approved = FALSE
    BY NewRow
  <2> HIDE DEF r
  <2>2. CASE Exists
    BY <1>6, <2>2 DEF ReceiveOffer, Others
  <2>3. CASE ~Exists
    <3>1. GotoWith(h, "save", r)
      BY <1>6, <2>3 DEF ReceiveOffer, r
    <3> QED BY <1>6, <2>1, <3>1, GotoWithEffect DEF ReceiveOffer
  <2> QED BY <2>2, <2>3
<1>7. ASSUME NEW tok \in Tokens, Finalize(h, tok)
      PROVE  /\ Others(h) /\ consent' = consent
             /\ UNCHANGED <<row, chunks, parts, bytes, delivered>>
             /\ job'[h].pc = "saveVerifying"
             /\ job'[h].t.status = "Verifying" /\ job'[h].t.approved
             /\ row.approved
  <2> DEFINE r == [row EXCEPT !.status = "Verifying"]
  <2>1. r \in Row /\ r.status = "Verifying" /\ r.approved = row.approved
    BY RowStatus
  <2>2. GotoWith(h, "saveVerifying", r) /\ row.approved
    BY <1>7 DEF Finalize, MayReceive
  <2> HIDE DEF r
  <2> QED BY <1>7, <2>1, <2>2, GotoWithEffect DEF Finalize
<1>8. ASSUME NEW tok \in Tokens, NEW c \in Chunks, NEW d \in Contents,
             ReceiveChunk(h, c, d, tok)
      PROVE  /\ Others(h) /\ consent' = consent
             /\ UNCHANGED <<row, chunks, parts, bytes, delivered>>
             /\ job'[h].pc = "write" /\ job'[h].t = row
             /\ job'[h].upload.data = "good" \/ changed
             /\ row.approved /\ row.status = "Receiving"
  BY <1>8, UploadEffect DEF ReceiveChunk, MayReceive, Contents
<1> QED
  BY <1>1, <1>3, <1>4, <1>5, <1>6, <1>7, <1>8 DEF Request, ProtocolCancel

(* A request that reads the row breaks nothing: it has written nothing yet. *)
LEMMA RequestSafe ==
    ASSUME TypeInv, Safe, NEW h \in Handlers, Request(h), UNCHANGED changed
    PROVE  Safe'
<1> USE RequestEffect DEF Safe, Others
<1>1. ConsentInv'
  BY DEF ConsentInv, NoBytesWithoutConsent, Consented
<1>2. BackedInv'
  BY DEF BackedInv, ChunkRowBacked, UploadBacked, Backed, Written
<1>3. DeliveredInv'
  BY DEF DeliveredInv, CompletedMeansDelivered, CommitProgress, AllDelivered
<1>4. VerifiedInv'
  BY DEF VerifiedInv, AllVerifiedBeforeAnyCommit, VerifyProgress, Ready, Intact
<1> QED BY <1>1, <1>2, <1>3, <1>4

(* A delivered file stays delivered, and a complete .part stays complete    *)
(* until it is delivered, when no request carries other bytes.              *)
LEMMA CommitKeeps ==
    ASSUME TypeInv, NEW h \in Handlers, CommitFile(h), UNCHANGED changed
    PROVE  /\ job[h].at \in Files
           /\ delivered'[job[h].at] # "none"
           /\ \A f \in Files : delivered[f] # "none" => delivered'[f] # "none"
           /\ \A g \in Files : Ready(g) => Ready(g)'
           /\ \A c \in Chunks : Backed(c) => Backed(c)'
<1>1. job[h].at \in Files
  BY DEF CommitFile, At, TypeInv, LocalOK
<1>2. /\ delivered'[job[h].at] # "none"
      /\ \A f \in Files : f # job[h].at => delivered'[f] = delivered[f]
  BY <1>1 DEF CommitFile, TypeInv, TypeOK
<1>3. \A g \in Files : g # job[h].at =>
         (g \in parts <=> g \in parts') /\ (Intact(g) => Intact(g)')
  BY <1>1 DEF CommitFile, TypeInv, TypeOK, Intact, ChunksOf
<1>4. \A c \in Chunks : FileOf[c] # job[h].at => bytes'[c] = bytes[c]
  BY <1>1 DEF CommitFile, TypeInv, TypeOK
<1>5. \A c \in Chunks : FileOf[c] \in Files
  BY ReceiverAssumption DEF Files
<1> QED BY <1>1, <1>2, <1>3, <1>4, <1>5 DEF Ready, Backed, Written

(* A write, whole or torn, keeps every chunk that had its bytes.            *)
LEMMA WriteKeeps ==
    ASSUME TypeInv, NEW h \in Handlers, WriteAt(h) \/ WriteAtFails(h),
           UploadBacked(h), UNCHANGED changed
    PROVE  /\ job[h].upload.chunk \in Chunks
           /\ UNCHANGED delivered
           /\ \A c \in Chunks : Backed(c) => Backed(c)'
           /\ WriteAt(h) => \A c \in Chunks :
                              c = job[h].upload.chunk => Backed(c)'
           /\ ~changed => \A g \in Files : Ready(g) => Ready(g)'
<1> DEFINE u == job[h].upload
<1>1. /\ u.chunk \in Chunks /\ u.data \in Contents
      /\ ~changed => u.data = "good"
  BY DEF WriteAt, WriteAtFails, At, TypeInv, LocalOK, UploadBacked
<1>2. UNCHANGED delivered /\ parts \subseteq parts'
  BY DEF WriteAt, WriteAtFails
<1>3. /\ \A c \in Chunks : c # u.chunk => bytes'[c] = bytes[c]
      /\ WriteAt(h) => bytes'[u.chunk] = u.data
      /\ WriteAtFails(h) => \/ bytes'[u.chunk] = bytes[u.chunk]
                            \/ bytes[u.chunk] # u.data /\ bytes'[u.chunk] = "bad"
  BY <1>1 DEF WriteAt, WriteAtFails, TypeInv, TypeOK
<1>4. \A c \in Chunks : c = u.chunk /\ Written(c) => Written(c)'
  BY <1>1, <1>3 DEF Written, Contents
<1>5. \A c \in Chunks : Backed(c) => Backed(c)'
  BY <1>2, <1>3, <1>4 DEF Backed, Written
<1>6. WriteAt(h) => \A c \in Chunks : c = u.chunk => Backed(c)'
  BY <1>1, <1>3 DEF Backed, Written, Contents
<1>7. ASSUME ~changed, NEW g \in Files, Ready(g)
      PROVE  Ready(g)'
  <2>1. Intact(g) => Intact(g)'
    BY <1>1, <1>3, <1>7 DEF Intact, ChunksOf
  <2> QED BY <1>2, <1>7, <2>1 DEF Ready
<1> QED BY <1>1, <1>2, <1>5, <1>6, <1>7

(* Every later step of a request keeps the receiver safe, however stale its *)
(* copy of the row is.                                                      *)
LEMMA ContinueSafe ==
    ASSUME TypeInv, Safe, NEW h \in Handlers, UNCHANGED changed,
           Continue(h) \/ Finish(h) \/ RefreshProgress(h) \/ StoreFails(h)
    PROVE  Safe'
<1>0. /\ Jobs /\ LocalOK(h) /\ Consented(h) /\ UploadBacked(h)
      /\ CommitProgress(h) /\ row \in Row /\ job[h].t \in Row
      /\ row.approved \in BOOLEAN /\ job[h].t.approved \in BOOLEAN
  BY RowFields, JobFields
  DEF TypeInv, TypeOK, Jobs, Safe, ConsentInv, BackedInv, DeliveredInv
<1> USE <1>0 DEF Safe, At, Step, InboundStatus, disk, Others
<1>1. CASE SaveTransfer(h) \/ SaveLocked(h) \/ Finish(h)
  <2>1. /\ row' = job[h].t /\ Others(h)
        /\ UNCHANGED <<chunks, parts, bytes, delivered, consent>>
        /\ job'[h].pc = "idle" /\ ~job'[h].t.approved
        /\ job'[h].t.status = "Absent"
    BY <1>1, ReturnEffect, AbsentIsRow DEF SaveTransfer, SaveLocked, Finish
  <2>2. ConsentInv'
    BY <2>1 DEF ConsentInv, NoBytesWithoutConsent, Consented
  <2>3. BackedInv'
    BY <2>1 DEF BackedInv, ChunkRowBacked, UploadBacked, Backed, Written
  <2>4. DeliveredInv'
    BY <2>1 DEF DeliveredInv, CompletedMeansDelivered, CommitProgress, AllDelivered
  <2>5. VerifiedInv'
    BY <2>1 DEF VerifiedInv, AllVerifiedBeforeAnyCommit, VerifyProgress, Ready, Intact
  <2> QED BY <2>2, <2>3, <2>4, <2>5
<1>2. CASE WriteAt(h) \/ WriteAtFails(h)
  <2>1. /\ UNCHANGED <<row, chunks, delivered, consent>> /\ Others(h)
        /\ \/ /\ WriteAt(h) /\ job'[h].pc = "saveChunk"
              /\ job'[h].upload = job[h].upload /\ job'[h].t = job[h].t
           \/ /\ job'[h].pc = "idle" /\ ~job'[h].t.approved
              /\ job'[h].t.status = "Absent"
    BY <1>2, GotoEffect, ReturnEffect, AbsentIsRow DEF WriteAt, WriteAtFails
  <2>2. job[h].t.approved /\ consent
    BY <1>2 DEF WriteAt, WriteAtFails, Consented
  <2>3. ConsentInv'
    BY <2>1, <2>2 DEF ConsentInv, NoBytesWithoutConsent, Consented
  <2>4. BackedInv'
    <3>1. \A c \in chunks' : Backed(c)'
      BY <1>2, <2>1, WriteKeeps DEF BackedInv, ChunkRowBacked, Backed, Written, TypeInv,
                                    TypeOK
    <3>2. \A g \in Handlers : g # h => UploadBacked(g)'
      BY <1>2, <2>1, WriteKeeps DEF BackedInv, UploadBacked, TypeInv, LocalOK
    <3>3. UploadBacked(h)'
      BY <1>2, <2>1, WriteKeeps DEF UploadBacked
    <3> QED BY <3>1, <3>2, <3>3 DEF BackedInv, ChunkRowBacked, Backed, Written
  <2>5. DeliveredInv'
    BY <2>1 DEF DeliveredInv, CompletedMeansDelivered, CommitProgress,
                AllDelivered
  <2>6. VerifiedInv'
    <3>1. AllVerifiedBeforeAnyCommit'
      BY <1>2, <2>1, WriteKeeps DEF VerifiedInv, AllVerifiedBeforeAnyCommit, Ready
    <3>2. ~changed => \A g \in Handlers : VerifyProgress(g)'
      BY <1>2, <2>1, WriteKeeps DEF VerifiedInv, VerifyProgress
    <3> QED BY <3>1, <3>2 DEF VerifiedInv
  <2> QED BY <2>3, <2>4, <2>5, <2>6
<1>3. CASE SaveChunk(h)
  <2>1. /\ UNCHANGED <<row, parts, bytes, delivered, consent>> /\ Others(h)
        /\ chunks' = chunks \cup {job[h].upload.chunk}
        /\ job'[h].pc = "refresh" /\ job'[h].t = job[h].t
        /\ Backed(job[h].upload.chunk) /\ consent
    BY <1>3, GotoEffect DEF SaveChunk, UploadBacked, Consented
  <2>2. ConsentInv'
    BY <2>1 DEF ConsentInv, NoBytesWithoutConsent, Consented
  <2>3. BackedInv'
    BY <2>1 DEF BackedInv, ChunkRowBacked, UploadBacked, Backed, Written
  <2>4. DeliveredInv'
    BY <2>1 DEF DeliveredInv, CompletedMeansDelivered, CommitProgress, AllDelivered
  <2>5. VerifiedInv'
    BY <2>1 DEF VerifiedInv, AllVerifiedBeforeAnyCommit, VerifyProgress, Ready, Intact
  <2> QED BY <2>2, <2>3, <2>4, <2>5
<1>4. CASE RefreshProgress(h)
  <2>1. /\ UNCHANGED <<row, chunks, parts, bytes, delivered, consent>>
        /\ Others(h)
        /\ \/ job'[h].pc = "lockedSave" /\ job'[h].t = row
           \/ /\ job'[h].pc = "idle" /\ ~job'[h].t.approved
              /\ job'[h].t.status = "Absent"
    BY <1>4, GotoWithEffect, ReturnEffect, AbsentIsRow DEF RefreshProgress
  <2>2. ConsentInv'
    BY <2>1 DEF ConsentInv, NoBytesWithoutConsent, Consented
  <2>3. BackedInv'
    BY <2>1 DEF BackedInv, ChunkRowBacked, UploadBacked, Backed, Written
  <2>4. DeliveredInv'
    BY <2>1 DEF DeliveredInv, CompletedMeansDelivered, CommitProgress, AllDelivered
  <2>5. VerifiedInv'
    BY <2>1 DEF VerifiedInv, AllVerifiedBeforeAnyCommit, VerifyProgress, Ready, Intact
  <2> QED BY <2>2, <2>3, <2>4, <2>5
<1>5. CASE SaveVerifying(h)
  <2>1. /\ row' = job[h].t /\ Others(h)
        /\ UNCHANGED <<chunks, parts, bytes, delivered, consent>>
        /\ job'[h].pc = "listChunks" /\ job'[h].t = job[h].t
        /\ job[h].pc = "saveVerifying"
    BY <1>5, GotoEffect DEF SaveVerifying
  <2>2. ConsentInv'
    BY <2>1 DEF ConsentInv, NoBytesWithoutConsent, Consented
  <2>3. BackedInv'
    BY <2>1 DEF BackedInv, ChunkRowBacked, UploadBacked, Backed, Written
  <2>4. DeliveredInv'
    BY <2>1 DEF DeliveredInv, CompletedMeansDelivered, CommitProgress, AllDelivered
  <2>5. VerifiedInv'
    BY <2>1 DEF VerifiedInv, AllVerifiedBeforeAnyCommit, VerifyProgress, Ready, Intact
  <2> QED BY <2>2, <2>3, <2>4, <2>5
<1>6. CASE ListChunks(h)
  <2>1. /\ UNCHANGED <<row, chunks, parts, bytes, delivered, consent>>
        /\ Others(h) /\ job'[h].pc = "checksum"
        /\ job'[h].at = 1 /\ job'[h].t = job[h].t /\ job[h].pc = "listChunks"
    <3>1. {f \in Files : ChunksOf(f) \subseteq chunks} \in SUBSET Files
      OBVIOUS
    <3> QED BY <1>6, <3>1, ListEffect DEF ListChunks
  <2>2. \A g \in Files : ~(g < 1)
    BY DEF Files
  <2>3. ConsentInv'
    BY <2>1, <2>2 DEF ConsentInv, NoBytesWithoutConsent, Consented
  <2>4. BackedInv'
    BY <2>1, <2>2 DEF BackedInv, ChunkRowBacked, UploadBacked, Backed, Written
  <2>5. DeliveredInv'
    BY <2>1, <2>2 DEF DeliveredInv, CompletedMeansDelivered, CommitProgress, AllDelivered
  <2>6. VerifiedInv'
    BY <2>1, <2>2 DEF VerifiedInv, AllVerifiedBeforeAnyCommit, VerifyProgress, Ready, Intact
  <2> QED BY <2>3, <2>4, <2>5, <2>6
<1>7. ASSUME Fail(h), At(h, "checksum") \/ At(h, "commit")
      PROVE  /\ Others(h) /\ job'[h].pc = "finish"
             /\ job'[h].t.status = "Failed"
             /\ job'[h].t.approved = job[h].t.approved
  <2> DEFINE r == [job[h].t EXCEPT !.status = "Failed"]
  <2>1. r \in Row /\ r.status = "Failed" /\ r.approved = job[h].t.approved
    BY RowStatus
  <2>2. GotoWith(h, "finish", r)
    BY <1>7 DEF Fail
  <2> HIDE DEF r
  <2> QED BY <2>1, <2>2, GotoWithEffect
<1>8. CASE ChecksumFile(h)
  <2> DEFINE f == job[h].at
  <2>0. /\ f \in Files /\ f \in Nat /\ NumFiles \in Nat
        /\ job[h].pc = "checksum" /\ job[h].t.approved /\ consent
    BY <1>8, ReceiverAssumption DEF ChecksumFile, LocalOK, Consented, Files
  <2>1. /\ UNCHANGED <<row, chunks, bytes, delivered, consent>>
        /\ parts \subseteq parts'
    BY <1>8 DEF ChecksumFile
  <2>2. \A g \in Files : Ready(g) => Ready(g)'
    BY <2>1 DEF Ready, Intact
  <2>3. /\ Others(h) /\ job'[h].t.approved
        /\ job'[h].t.status = "Completed" => job[h].t.status = "Completed"
        /\ \/ job'[h].pc = "finish"
           \/ /\ job'[h].pc = "checksum" /\ job'[h].at = f + 1
              /\ \A k \in Files : k = f => Ready(k)'
           \/ /\ job'[h].pc = "commit" /\ job'[h].at = 1 /\ f = NumFiles
              /\ \A k \in Files : k = f => Ready(k)'
    <3>1. CASE Fail(h)
      BY <1>7, <1>8, <2>0, <3>1 DEF ChecksumFile
    <3>2. CASE ~Fail(h)
      <4>1. /\ NextFile(h, "checksum", "commit")
            /\ \A k \in Files : k = f => Ready(k)'
        BY <1>8, <3>2 DEF ChecksumFile, Ready, Intact
      <4> HIDE DEF f
      <4> QED BY <2>0, <4>1, NextFileEffect DEF f
    <3> QED BY <3>1, <3>2
  <2>4. ConsentInv'
    BY <2>0, <2>1, <2>3 DEF ConsentInv, NoBytesWithoutConsent, Consented
  <2>5. BackedInv'
    BY <2>1, <2>3 DEF BackedInv, ChunkRowBacked, UploadBacked, Backed, Written
  <2>6. DeliveredInv'
    <3>1. \A g \in Files : ~(g < 1)
      BY DEF Files
    <3> QED BY <2>1, <2>3, <3>1 DEF DeliveredInv, CompletedMeansDelivered,
                                    CommitProgress, AllDelivered
  <2>7. VerifiedInv'
    <3>1. AllVerifiedBeforeAnyCommit'
      BY <2>1, <2>2 DEF VerifiedInv, AllVerifiedBeforeAnyCommit, Ready
    <3>2. ASSUME ~changed, NEW g \in Handlers
          PROVE  VerifyProgress(g)'
      <4>1. CASE g # h
        BY <2>1, <2>2, <2>3, <3>2, <4>1 DEF VerifiedInv, VerifyProgress
      <4>2. CASE g = h
        <5>1. \A k \in Files : k < f => Ready(k)
          BY <2>0, <3>2 DEF VerifiedInv, VerifyProgress
        <5>2. \A k \in Files : k < f + 1 => k < f \/ k = f
          BY <2>0 DEF Files
        <5>3. f = NumFiles => \A k \in Files : k < f \/ k = f
          BY <2>0 DEF Files
        <5> HIDE DEF f
        <5>4. job'[h].pc = "checksum" =>
                 \A k \in Files : k < job'[h].at => Ready(k)'
          BY <2>2, <2>3, <5>1, <5>2
        <5>5. job'[h].pc = "commit" => \A k \in Files : Ready(k)'
          BY <2>2, <2>3, <5>1, <5>3
        <5> QED BY <4>2, <5>4, <5>5 DEF VerifyProgress
      <4> QED BY <4>1, <4>2
    <3> QED BY <3>1, <3>2 DEF VerifiedInv
  <2> QED BY <2>4, <2>5, <2>6, <2>7
<1>9. CASE CommitFile(h)
  <2> DEFINE f == job[h].at
  <2>0. /\ f \in Files /\ f \in Nat /\ NumFiles \in Nat
        /\ job[h].pc = "commit" /\ job[h].t.approved /\ consent
    BY <1>9, ReceiverAssumption DEF CommitFile, LocalOK, Consented, Files
  <2>1. UNCHANGED <<row, chunks, consent>>
    BY <1>9 DEF CommitFile
  <2>2. /\ delivered'[f] # "none"
        /\ \A g \in Files : delivered[g] # "none" => delivered'[g] # "none"
        /\ \A g \in Files : Ready(g) => Ready(g)'
        /\ \A c \in Chunks : Backed(c) => Backed(c)'
    BY <1>9, CommitKeeps
  <2>3. \A g \in Files : g < f => delivered'[g] # "none"
    BY <2>0, <2>2 DEF CommitProgress
  <2>4. /\ Others(h) /\ job'[h].t.approved
        /\ \/ /\ job'[h].pc = "commit" /\ job'[h].at = f + 1
              /\ job'[h].t = job[h].t
           \/ job'[h].pc = "finish" /\ f = NumFiles
    <3>1. CASE f < NumFiles
      <4>1. NextFile(h, "commit", "finish")
        BY <1>9, <3>1 DEF CommitFile
      <4> QED BY <2>0, <3>1, <4>1, NextFileEffect
    <3>2. CASE ~(f < NumFiles)
      <4> DEFINE r == [job[h].t EXCEPT !.status = "Completed"]
      <4>1. r \in Row /\ r.approved = job[h].t.approved
        BY RowStatus
      <4>2. GotoWith(h, "finish", r)
        BY <1>9, <3>2 DEF CommitFile
      <4>3. f = NumFiles
        BY <2>0, <3>2 DEF Files
      <4> HIDE DEF r
      <4> QED BY <2>0, <4>1, <4>2, <4>3, GotoWithEffect
    <3> QED BY <3>1, <3>2
  <2>5. /\ f = NumFiles => AllDelivered'
        /\ \A g \in Files : g < f + 1 => delivered'[g] # "none"
    <3>1. \A g \in Files : g < f + 1 => g < f \/ g = f
      BY <2>0 DEF Files
    <3>2. f = NumFiles => \A g \in Files : g < f + 1
      BY <2>0 DEF Files
    <3> QED BY <2>2, <2>3, <3>1, <3>2 DEF AllDelivered
  <2> HIDE DEF f
  <2>6. ConsentInv'
    BY <2>0, <2>1, <2>4 DEF ConsentInv, NoBytesWithoutConsent, Consented
  <2>7. BackedInv'
    <3>1. \A c \in chunks' : Backed(c)'
      BY <2>1, <2>2 DEF BackedInv, ChunkRowBacked, Backed, Written, TypeInv, TypeOK
    <3>2. \A g \in Handlers : g # h => UploadBacked(g)'
      BY <2>2, <2>4 DEF BackedInv, UploadBacked, TypeInv, LocalOK
    <3>3. UploadBacked(h)'
      BY <2>4 DEF UploadBacked
    <3> QED BY <3>1, <3>2, <3>3 DEF BackedInv, ChunkRowBacked, Backed, Written
  <2>8. DeliveredInv'
    <3>1. AllDelivered => AllDelivered'
      BY <2>2 DEF AllDelivered
    <3>2. CompletedMeansDelivered'
      BY <2>1, <3>1 DEF DeliveredInv, CompletedMeansDelivered, AllDelivered
    <3>3. \A g \in Handlers : g # h => CommitProgress(g)'
      BY <2>2, <2>4, <3>1 DEF DeliveredInv, CommitProgress
    <3>4. CommitProgress(h)'
      BY <2>4, <2>5, <3>1 DEF CommitProgress
    <3> QED BY <3>2, <3>3, <3>4 DEF DeliveredInv
  <2>9. VerifiedInv'
    <3>1. ~changed => \A g \in Files : Ready(g)'
      BY <2>0, <2>2 DEF VerifiedInv, VerifyProgress
    <3> QED BY <3>1 DEF VerifiedInv, AllVerifiedBeforeAnyCommit, VerifyProgress,
                        Ready
  <2> QED BY <2>6, <2>7, <2>8, <2>9
<1>10. CASE CommitFileFails(h) \/ ChecksumFileFails(h) \/ StoreFails(h)
  <2>1. /\ Others(h) /\ UNCHANGED <<row, chunks, parts, bytes, delivered, consent>>
        /\ job'[h].t.approved => job[h].t.approved
        /\ job'[h].t.status # "Completed" /\ job'[h].pc \in {"finish", "idle"}
    BY <1>7, <1>10, ReturnEffect, AbsentIsRow
    DEF CommitFileFails, ChecksumFileFails, StoreFails
  <2>2. ConsentInv'
    BY <2>1 DEF ConsentInv, NoBytesWithoutConsent, Consented
  <2>3. BackedInv'
    BY <2>1 DEF BackedInv, ChunkRowBacked, UploadBacked, Backed, Written
  <2>4. DeliveredInv'
    BY <2>1 DEF DeliveredInv, CompletedMeansDelivered, CommitProgress, AllDelivered
  <2>5. VerifiedInv'
    BY <2>1 DEF VerifiedInv, AllVerifiedBeforeAnyCommit, VerifyProgress, Ready, Intact
  <2> QED BY <2>2, <2>3, <2>4, <2>5
<1> QED
  BY <1>1, <1>2, <1>3, <1>4, <1>5, <1>6, <1>8, <1>9, <1>10 DEF Continue

(* Clearing the history removes chunk rows with the row; a crash forgets    *)
(* every copy a goroutine held.                                            *)
LEMMA SystemSafe ==
    ASSUME TypeInv, Safe, DeleteHistory \/ Crash, UNCHANGED changed
    PROVE  Safe'
<1> USE IdleIsJob, AbsentIsRow DEF Safe, DeleteHistory, Crash, disk
<1>1. ConsentInv'
  BY DEF ConsentInv, NoBytesWithoutConsent, Consented
<1>2. BackedInv'
  BY DEF BackedInv, ChunkRowBacked, UploadBacked, Backed, Written
<1>3. DeliveredInv'
  BY DEF DeliveredInv, CompletedMeansDelivered, CommitProgress, AllDelivered
<1>4. VerifiedInv'
  BY DEF VerifiedInv, AllVerifiedBeforeAnyCommit, VerifyProgress, Ready, Intact
<1> QED BY <1>1, <1>2, <1>3, <1>4

(* The sender's files change: what was promised for unchanged files is void.*)
LEMMA SourceSafe == ASSUME Safe, SourceChanges PROVE Safe'
<1> USE DEF Safe, SourceChanges, receiver
<1>1. ConsentInv'
  BY DEF ConsentInv, NoBytesWithoutConsent, Consented
<1>2. BackedInv'
  BY DEF BackedInv, ChunkRowBacked, UploadBacked, Backed, Written
<1>3. DeliveredInv'
  BY DEF DeliveredInv, CompletedMeansDelivered, CommitProgress, AllDelivered
<1>4. VerifiedInv'
  BY DEF VerifiedInv, AllVerifiedBeforeAnyCommit
<1> QED BY <1>1, <1>2, <1>3, <1>4

(* The invariants speak of the variables only.                              *)
LEMMA StutterSafe == Safe /\ UNCHANGED vars => Safe'
<1> SUFFICES ASSUME Safe, UNCHANGED vars PROVE Safe'
  OBVIOUS
<1> USE DEF Safe, vars, receiver
<1>1. ConsentInv'
  BY DEF ConsentInv, NoBytesWithoutConsent, Consented
<1>2. BackedInv'
  BY DEF BackedInv, ChunkRowBacked, UploadBacked, Backed, Written
<1>3. DeliveredInv'
  BY DEF DeliveredInv, CompletedMeansDelivered, CommitProgress, AllDelivered
<1>4. VerifiedInv'
  BY DEF VerifiedInv, AllVerifiedBeforeAnyCommit, VerifyProgress, Ready, Intact
<1> QED BY <1>1, <1>2, <1>3, <1>4

-----------------------------------------------------------------------------
(* Requests served in turn.                                                *)

(* The statuses that may follow, one by one.                                *)
LEMMA FollowsTable ==
    /\ Lifecycle!Follows["Absent"] = {"Queued"}
    /\ Lifecycle!Follows["Queued"] = {"Receiving", "Cancelled"}
    /\ Lifecycle!Follows["Receiving"] = {"Paused", "Verifying", "Cancelled"}
    /\ Lifecycle!Follows["Paused"] = {"Receiving", "Cancelled"}
    /\ Lifecycle!Follows["Verifying"] =
          {"Receiving", "Completed", "Failed", "Cancelled"}
    /\ Lifecycle!Follows["Failed"] = {"Receiving", "Cancelled", "Absent"}
    /\ Lifecycle!Follows["Completed"] = {"Absent"}
    /\ Lifecycle!Follows["Cancelled"] = {"Absent"}
  BY DEF Lifecycle!Follows

(* What a request leaves with the goroutine that serves it: nothing, or a   *)
(* copy of the row whose status may follow.                                *)
LEMMA RequestCopies ==
    ASSUME TypeInv, Safe, ApprovedInv, NEW h \in Handlers, Request(h)
    PROVE  /\ At(h, "idle") /\ Others(h) /\ UNCHANGED <<row, bytes, delivered>>
           /\ Approves(job'[h].t)
           /\ \/ job'[h] = job[h]
              \/ /\ job'[h].pc \in {"save", "lockedSave", "finish"}
                 /\ job'[h].t.status \in Lifecycle!Follows[row.status]
                 /\ row.status \notin {"Completed", "Cancelled"}
              \/ /\ job'[h].pc \in {"write", "saveVerifying"}
                 /\ row.status = "Receiving"
                 /\ job'[h].pc = "saveVerifying" =>
                       job'[h].t.status = "Verifying"
<1>0. Jobs /\ row \in Row /\ job[h] \in Job /\ Approves(row) /\ Approves(job[h].t)
  BY DEF TypeInv, TypeOK, Jobs, ApprovedInv
<1> USE <1>0, FollowsTable
<1>1. /\ UNCHANGED <<row, bytes, delivered>> /\ Others(h)
      /\ job'[h].t.approved => row.approved \/ consent'
  BY RequestEffect, AbsentIsRow DEF Others, TypeInv, TypeOK, Safe, ConsentInv, Consented
<1>2. At(h, "idle")
  BY DEF Request, Accept, Reject, Cancel, Pause, Resume, Retry, LockedUpdate,
         Recover, ReceiveOffer, ProtocolCancel, Finalize, ReceiveChunk
<1>3. ASSUME NEW s \in InboundStatus, NEW p \in Step,
             GotoWith(h, p, [row EXCEPT !.status = s]),
             Approves(row) => (s \in {"Receiving", "Paused", "Verifying"} => row.approved),
             s \notin {"Completed", "Failed"}
      PROVE  job'[h].pc = p /\ job'[h].t.status = s /\ Approves(job'[h].t)
  <2> DEFINE r == [row EXCEPT !.status = s]
  <2>1. r \in Row /\ r.status = s /\ r.approved = row.approved
    BY RowStatus
  <2>2. GotoWith(h, p, r)
    BY <1>3
  <2> HIDE DEF r
  <2>3. job'[h].pc = p /\ job'[h].t = r
    BY <2>1, <2>2, GotoWithEffect
  <2> QED BY <1>3, <2>1, <2>3 DEF Approves
<1>4. CASE Accept(h)
  <2> DEFINE r == [row EXCEPT !.status = "Receiving", !.approved = TRUE]
  <2>1. r \in Row /\ r.status = "Receiving" /\ r.approved
    <3>1. r.approved
      BY DEF Row
    <3> QED BY <3>1, AcceptRow
  <2>2. GotoWith(h, "save", r) /\ row.status = "Queued"
    BY <1>4 DEF Accept
  <2> HIDE DEF r
  <2>3. job'[h].pc = "save" /\ job'[h].t = r
    BY <2>1, <2>2, GotoWithEffect DEF Step
  <2> QED BY <1>1, <1>2, <2>1, <2>2, <2>3 DEF Approves
<1>5. CASE Reject(h) \/ Cancel(h)
  <2>1. job'[h].pc = "finish" /\ job'[h].t.status = "Cancelled" /\ Approves(job'[h].t)
    BY <1>3, <1>5 DEF Reject, Cancel, InboundStatus, Step
  <2>2. row.status \in {"Queued", "Receiving", "Paused", "Verifying", "Failed"}
    BY <1>5, RowFields DEF Reject, Cancel, Exists, InboundStatus
  <2> QED BY <1>1, <1>2, <2>1, <2>2
<1>6. CASE Pause(h) \/ Resume(h)
  BY <1>1, <1>2, <1>3, <1>6 DEF Pause, Resume, LockedUpdate, InboundStatus, Step, Approves
<1>7. CASE Retry(h)
  <2>1. row.status = "Failed" /\ row.approved
    BY <1>7 DEF Retry, Approves
  <2>2. LockedUpdate(h, [row EXCEPT !.status = "Receiving"])
    BY <1>7, <2>1 DEF Retry
  <2> QED BY <1>1, <1>2, <1>3, <2>1, <2>2 DEF LockedUpdate, InboundStatus, Step
<1>8. CASE Recover(h)
  <2>1. CASE row.status = "Verifying"
    BY <1>1, <1>2, <1>3, <1>8, <2>1 DEF Recover, InboundStatus, Step, Approves
  <2>2. CASE row.status # "Verifying"
    BY <1>1, <1>2, <1>8, <2>2 DEF Recover
  <2> QED BY <2>1, <2>2
<1>9. ASSUME NEW tok \in Tokens, ReceiveOffer(h, tok)
      PROVE  /\ job'[h].pc = "save" /\ job'[h].t.status = "Queued"
             /\ row.status = "Absent" /\ Approves(job'[h].t)
  <2> DEFINE r == [status |-> "Queued", approved |-> FALSE, token |-> tok]
  <2>1. r \in Row /\ r.status = "Queued"
    BY NewRow DEF InboundStatus
  <2>2. GotoWith(h, "save", r) /\ row.status = "Absent"
    BY <1>9 DEF ReceiveOffer, Exists
  <2> HIDE DEF r
  <2>3. job'[h].pc = "save" /\ job'[h].t = r
    BY <2>1, <2>2, GotoWithEffect DEF Step
  <2> QED BY <2>1, <2>2, <2>3 DEF Approves
<1>10. ASSUME NEW tok \in Tokens, Finalize(h, tok)
       PROVE  /\ job'[h].pc = "saveVerifying" /\ row.status = "Receiving"
              /\ job'[h].t.status = "Verifying" /\ Approves(job'[h].t)
  BY <1>3, <1>10 DEF Finalize, MayReceive, InboundStatus, Step
<1>11. ASSUME NEW tok \in Tokens, NEW c \in Chunks, NEW d \in Contents,
              ReceiveChunk(h, c, d, tok)
       PROVE  job'[h].pc = "write" /\ row.status = "Receiving" /\ Approves(job'[h].t)
  BY <1>11, UploadEffect DEF ReceiveChunk, MayReceive
<1> QED
  BY <1>1, <1>2, <1>4, <1>5, <1>6, <1>7, <1>8, <1>9, <1>10, <1>11
     DEF Request, ProtocolCancel

(* What a later step leaves with the goroutine: its copy, the row it has    *)
(* read again, the outcome of a Finalize, or nothing.                      *)
LEMMA ContinueCopies ==
    ASSUME TypeInv, Safe, ApprovedInv, NEW h \in Handlers,
           Continue(h) \/ Finish(h) \/ RefreshProgress(h) \/ StoreFails(h)
    PROVE  /\ Others(h) /\ Approves(job'[h].t)
           /\ row' \in {row, job[h].t}
<1>0. /\ Jobs /\ LocalOK(h) /\ row \in Row /\ job[h].t \in Row /\ Consented(h)
      /\ Approves(row) /\ Approves(job[h].t) /\ Approves(AbsentRow)
  BY JobFields, AbsentIsRow
  DEF TypeInv, TypeOK, Jobs, Safe, ConsentInv, ApprovedInv, Approves
<1> USE <1>0 DEF At, Step, InboundStatus, disk
<1>1. CASE SaveTransfer(h) \/ SaveLocked(h) \/ Finish(h) \/ WriteAtFails(h)
           \/ StoreFails(h)
  BY <1>1, ReturnEffect DEF SaveTransfer, SaveLocked, Finish, WriteAtFails, StoreFails
<1>2. CASE WriteAt(h) \/ SaveChunk(h) \/ SaveVerifying(h)
  BY <1>2, GotoEffect DEF WriteAt, SaveChunk, SaveVerifying
<1>3. CASE RefreshProgress(h)
  BY <1>3, GotoWithEffect, ReturnEffect DEF RefreshProgress
<1>4. CASE ListChunks(h)
  <2>1. {f \in Files : ChunksOf(f) \subseteq chunks} \in SUBSET Files
    OBVIOUS
  <2> QED BY <1>4, <2>1, ListEffect DEF ListChunks
<1>5. ASSUME NEW s \in {"Failed", "Completed"}, job[h].t.approved,
             GotoWith(h, "finish", [job[h].t EXCEPT !.status = s])
      PROVE  Others(h) /\ Approves(job'[h].t)
  <2> DEFINE r == [job[h].t EXCEPT !.status = s]
  <2>0. s \in InboundStatus
    BY DEF InboundStatus
  <2>1. r \in Row /\ r.approved = job[h].t.approved
    BY <2>0, RowStatus
  <2>2. GotoWith(h, "finish", r)
    BY <1>5
  <2> HIDE DEF r
  <2>3. Others(h) /\ job'[h].t = r
    BY <2>1, <2>2, GotoWithEffect
  <2> QED BY <1>5, <2>1, <2>3 DEF Approves
<1>6. CASE ChecksumFile(h) \/ CommitFile(h)
  <2>1. job[h].at \in Files /\ job[h].t.approved /\ UNCHANGED row
    BY <1>6 DEF ChecksumFile, CommitFile, LocalOK, Consented
  <2>2. \/ NextFile(h, "checksum", "commit") \/ NextFile(h, "commit", "finish")
        \/ \E s \in {"Failed", "Completed"} :
              GotoWith(h, "finish", [job[h].t EXCEPT !.status = s])
    BY <1>6 DEF ChecksumFile, CommitFile, Fail
  <2> QED BY <1>5, <2>1, <2>2, NextFileEffect
<1>7. CASE ChecksumFileFails(h) \/ CommitFileFails(h)
  <2>1. /\ job[h].t.approved /\ UNCHANGED row
        /\ GotoWith(h, "finish", [job[h].t EXCEPT !.status = "Failed"])
    BY <1>7 DEF ChecksumFileFails, CommitFileFails, Fail, Consented
  <2> QED BY <1>5, <2>1
<1> QED BY <1>1, <1>2, <1>3, <1>4, <1>6, <1>7 DEF Continue

(* Every copy that says the transfer is on its way carries the approval.    *)
LEMMA ApprovedStep ==
    ASSUME TypeInv, Safe, ApprovedInv, [Next]_vars
    PROVE  ApprovedInv'
<1>1. ASSUME NEW h \in Handlers, Others(h), Approves(job'[h].t), row' \in {row, job[h].t}
      PROVE  ApprovedInv'
  <2>1. Approves(row')
    BY <1>1 DEF ApprovedInv
  <2>2. \A g \in Handlers : Approves(job'[g].t)
    BY <1>1 DEF ApprovedInv, Others
  <2> QED BY <2>1, <2>2 DEF ApprovedInv, Approves
<1>2. CASE \E h \in Handlers : Begin(h)
  BY <1>1, <1>2, RequestCopies DEF Begin
<1>3. CASE \E h \in Handlers :
              Continue(h) \/ Finish(h) \/ RefreshProgress(h) \/ StoreFails(h)
  BY <1>1, <1>3, ContinueCopies
<1>4. CASE DeleteHistory
  BY <1>4, AbsentIsRow DEF DeleteHistory, ApprovedInv, Approves
<1>5. CASE Crash
  BY <1>5, AbsentIsRow, IdleIsJob DEF Crash, ApprovedInv, Approves
<1>6. CASE SourceChanges \/ UNCHANGED vars
  BY <1>6 DEF SourceChanges, vars, receiver, ApprovedInv, Approves
<1> QED BY <1>2, <1>3, <1>4, <1>5, <1>6 DEF Next

(* A request that comes in turn finds every other goroutine idle.           *)
LEMMA BeginInTurn ==
    ASSUME TypeInv, Safe, ApprovedInv, InTurnInv, NEW h \in Handlers, Begin(h)
    PROVE  InTurnInv'
<1> SUFFICES ASSUME ~overlapped'
             PROVE  /\ DeliveredIsVerified'
                    /\ AloneInTurn'
                    /\ \A g \in Handlers : ServedInTurn(g)'
  BY DEF InTurnInv
<1>1. ~overlapped /\ \A g \in Handlers : g # h => At(g, "idle")
  BY DEF Begin
<1>2. DeliveredIsVerified
  BY <1>1 DEF InTurnInv
<1>3. /\ At(h, "idle") /\ UNCHANGED <<row, bytes, delivered>> /\ Others(h)
      /\ \/ job'[h] = job[h]
         \/ /\ job'[h].pc \in {"save", "lockedSave", "finish"}
            /\ job'[h].t.status \in Lifecycle!Follows[row.status]
            /\ row.status \notin {"Completed", "Cancelled"}
         \/ /\ job'[h].pc \in {"write", "saveVerifying"}
            /\ row.status = "Receiving"
            /\ job'[h].pc = "saveVerifying" => job'[h].t.status = "Verifying"
  BY RequestCopies DEF Begin
<1>4. \A g \in Handlers : g # h => job'[g].pc = "idle"
  BY <1>1, <1>3 DEF Others, At
<1>5. Remembered' = row'.status
  <2>1. row'.status = "Absent" => job'[h].pc = "idle" \/ job'[h].t.status = "Queued"
    BY <1>3, FollowsTable DEF At
  <2> QED BY <1>4, <2>1 DEF Remembered, Exists, At
<1>6. ServedInTurn(h)'
  BY <1>3, <1>5 DEF ServedInTurn, At
<1> QED BY <1>2, <1>3, <1>4, <1>6 DEF DeliveredIsVerified, AloneInTurn, ServedInTurn, At

(* A goroutine that returns, or goes on to a step that promises nothing of  *)
(* the files.                                                              *)
LEMMA GoesOnInTurn ==
    ASSUME InTurnInv, NEW h \in Handlers, ~At(h, "idle"), Others(h),
           UNCHANGED <<delivered, overlapped>>,
           ~overlapped =>
              \/ job'[h].pc = "idle"
              \/ row'.status = "Receiving" /\ job'[h].pc \in {"saveChunk", "refresh"}
              \/ row'.status = "Verifying" /\ job'[h].pc = "listChunks"
              \/ /\ row'.status \in {"Receiving", "Verifying"}
                 /\ job'[h].pc \in {"lockedSave", "finish"}
                 /\ job'[h].t.status \in
                       {row'.status} \cup Lifecycle!Follows[row'.status]
    PROVE  InTurnInv'
<1> SUFFICES ASSUME ~overlapped
             PROVE  /\ DeliveredIsVerified'
                    /\ AloneInTurn'
                    /\ \A g \in Handlers : ServedInTurn(g)'
  BY DEF InTurnInv
<1>1. DeliveredIsVerified
  BY DEF InTurnInv
<1>2. \A g \in Handlers : g # h => job'[g].pc = "idle"
  BY DEF InTurnInv, AloneInTurn, Others, At
<1>3. ServedInTurn(h)'
  <2>1. Exists' => Remembered' = row'.status
    BY DEF Remembered
  <2> QED BY <2>1 DEF ServedInTurn, Exists
<1> QED BY <1>1, <1>2, <1>3 DEF DeliveredIsVerified, AloneInTurn, ServedInTurn, At

(* Nobody else writes while a Finalize checks and moves the files.          *)
LEMMA ContinueInTurn ==
    ASSUME TypeInv, InTurnInv, NEW h \in Handlers, UNCHANGED overlapped,
           Continue(h) \/ Finish(h) \/ RefreshProgress(h) \/ StoreFails(h)
    PROVE  InTurnInv'
<1>0. Jobs /\ LocalOK(h) /\ row \in Row /\ job[h].t \in Row
  BY JobFields DEF TypeInv, TypeOK, Jobs
<1> USE <1>0 DEF At, Step, InboundStatus, disk
<1>1. CASE SaveTransfer(h) \/ SaveLocked(h) \/ Finish(h) \/ WriteAtFails(h)
           \/ StoreFails(h)
  <2>1. /\ Others(h) /\ job'[h].pc = "idle" /\ UNCHANGED delivered
        /\ ~At(h, "idle")
    BY <1>1, ReturnEffect
       DEF SaveTransfer, SaveLocked, Finish, WriteAtFails, StoreFails
  <2> QED BY <2>1, GoesOnInTurn
<1>2. CASE WriteAt(h) \/ SaveChunk(h)
  <2>1. /\ Others(h) /\ job'[h].pc \in {"saveChunk", "refresh"}
        /\ UNCHANGED <<row, delivered>> /\ job[h].pc \in {"write", "saveChunk"}
    BY <1>2, GotoEffect DEF WriteAt, SaveChunk
  <2>2. ~overlapped => row.status = "Receiving"
    BY <2>1 DEF InTurnInv, ServedInTurn
  <2> QED BY <2>1, <2>2, GoesOnInTurn
<1>3. CASE RefreshProgress(h)
  <2>1. /\ Others(h) /\ UNCHANGED <<row, delivered>> /\ job[h].pc = "refresh"
        /\ \/ job'[h].pc = "lockedSave" /\ job'[h].t = row
           \/ job'[h].pc = "idle"
    BY <1>3, GotoWithEffect, ReturnEffect DEF RefreshProgress
  <2>2. ~overlapped => row.status = "Receiving"
    BY <2>1 DEF InTurnInv, ServedInTurn
  <2> QED BY <2>1, <2>2, GoesOnInTurn
<1>4. ASSUME Fail(h), job[h].pc \in {"checksum", "commit"}, UNCHANGED <<row, delivered>>
      PROVE  InTurnInv'
  <2> DEFINE r == [job[h].t EXCEPT !.status = "Failed"]
  <2>1. r \in Row /\ r.status = "Failed"
    BY RowStatus
  <2>2. GotoWith(h, "finish", r)
    BY <1>4 DEF Fail
  <2> HIDE DEF r
  <2>3. Others(h) /\ job'[h].pc = "finish" /\ job'[h].t.status = "Failed"
    BY <2>1, <2>2, GotoWithEffect
  <2>4. ~overlapped => row.status = "Verifying"
    BY <1>4 DEF InTurnInv, ServedInTurn
  <2> QED BY <1>4, <2>3, <2>4, FollowsTable, GoesOnInTurn
<1>5. CASE ChecksumFileFails(h) \/ CommitFileFails(h)
  BY <1>4, <1>5 DEF ChecksumFileFails, CommitFileFails
<1>6. CASE SaveVerifying(h)
  <2>1. /\ Others(h) /\ job'[h].pc = "listChunks" /\ row' = job[h].t
        /\ UNCHANGED delivered /\ job[h].pc = "saveVerifying"
    BY <1>6, GotoEffect DEF SaveVerifying
  <2>2. ~overlapped => row'.status = "Verifying"
    BY <2>1 DEF InTurnInv, ServedInTurn
  <2> QED BY <2>1, <2>2, GoesOnInTurn
<1> SUFFICES ASSUME ~overlapped, ListChunks(h) \/ ChecksumFile(h) \/ CommitFile(h)
             PROVE  InTurnInv'
  BY <1>1, <1>2, <1>3, <1>5, <1>6 DEF Continue, InTurnInv
<1>7. /\ DeliveredIsVerified /\ ServedInTurn(h) /\ UNCHANGED row
      /\ \A g \in Handlers : g # h => job[g].pc = "idle"
      /\ job[h].pc \in {"listChunks", "checksum", "commit"}
      /\ row.status = "Verifying"
  BY DEF InTurnInv, AloneInTurn, ServedInTurn, ListChunks, ChecksumFile, CommitFile
<1>8. ASSUME Others(h), DeliveredIsVerified',
             job'[h].pc \in {"checksum", "commit", "finish"},
             job'[h].pc = "finish" => job'[h].t.status = "Completed",
             job'[h].pc = "checksum" =>
                \A f \in Files : f < job'[h].at => Intact(f)',
             job'[h].pc = "commit" =>
                \A f \in Files : f >= job'[h].at => Intact(f)'
      PROVE  InTurnInv'
  <2>1. ServedInTurn(h)'
    <3>1. Remembered' = "Verifying"
      BY <1>7 DEF Remembered, Exists
    <3> QED BY <1>7, <1>8, <3>1, FollowsTable DEF ServedInTurn
  <2>2. \A g \in Handlers : g # h => job'[g].pc = "idle"
    BY <1>7, <1>8 DEF Others
  <2> QED BY <1>8, <2>1, <2>2 DEF InTurnInv, AloneInTurn, ServedInTurn
<1>9. CASE ListChunks(h)
  <2>1. Others(h) /\ job'[h].pc = "checksum" /\ job'[h].at = 1
    <3>1. {f \in Files : ChunksOf(f) \subseteq chunks} \in SUBSET Files
      OBVIOUS
    <3> QED BY <1>9, <3>1, ListEffect DEF ListChunks
  <2>2. \A f \in Files : ~(f < 1)
    BY DEF Files
  <2>3. DeliveredIsVerified'
    BY <1>7, <1>9 DEF ListChunks, DeliveredIsVerified
  <2> QED BY <1>8, <2>1, <2>2, <2>3
<1>10. CASE ChecksumFile(h)
  <2> DEFINE n == job[h].at
  <2>1. /\ n \in Files /\ job[h].pc = "checksum" /\ UNCHANGED <<bytes, delivered>>
        /\ Fail(h) \/ (NextFile(h, "checksum", "commit") /\ Intact(n))
    BY <1>10 DEF ChecksumFile, LocalOK
  <2>2. CASE Fail(h)
    BY <1>4, <1>7, <2>1, <2>2
  <2>3. CASE NextFile(h, "checksum", "commit") /\ Intact(n)
    <3>1. /\ Others(h)
          /\ \/ job'[h].pc = "checksum" /\ job'[h].at = n + 1
             \/ job'[h].pc = "commit" /\ n = NumFiles
      BY <2>1, <2>3, NextFileEffect
    <3>2. \A f \in Files : f < n + 1 \/ n = NumFiles => f < n \/ f = n
      BY <2>1, ReceiverAssumption DEF Files
    <3>3. \A f \in Files : f < n + 1 \/ n = NumFiles => Intact(f)
      <4> HIDE DEF n
      <4>1. \A f \in Files : f < n => Intact(f)
        BY <1>7, <2>1 DEF ServedInTurn, n
      <4> QED BY <2>3, <3>2, <4>1
    <3>4. \A f \in Files : Intact(f) => Intact(f)'
      BY <2>1 DEF Intact
    <3>5. DeliveredIsVerified'
      BY <1>7, <2>1 DEF DeliveredIsVerified
    <3> HIDE DEF n
    <3> QED BY <1>8, <3>1, <3>3, <3>4, <3>5
  <2> QED BY <2>1, <2>2, <2>3
<1>11. CASE CommitFile(h)
  <2> DEFINE n == job[h].at
  <2>1. /\ n \in Files /\ job[h].pc = "commit"
        /\ \A f \in Files : f >= n => Intact(f)
    BY <1>7, <1>11 DEF CommitFile, LocalOK, ServedInTurn
  <2>2. n \in Nat /\ NumFiles \in Nat
    BY <2>1, ReceiverAssumption DEF Files
  <2>3. Intact(n)
    BY <2>1, <2>2
  <2>4. DeliveredIsVerified'
    BY <1>7, <1>11, <2>1, <2>3 DEF CommitFile, DeliveredIsVerified, TypeInv, TypeOK
  <2>5. \A f \in Files : f # n /\ Intact(f) => Intact(f)'
    BY <1>11 DEF CommitFile, Intact, ChunksOf
  <2>6. CASE n < NumFiles
    <3>1. NextFile(h, "commit", "finish")
      BY <1>11, <2>6 DEF CommitFile
    <3>2. Others(h) /\ job'[h].pc = "commit" /\ job'[h].at = n + 1
      BY <2>1, <2>2, <2>6, <3>1, NextFileEffect
    <3>3. \A f \in Files : f >= n + 1 => f # n /\ f >= n
      BY <2>2 DEF Files
    <3> HIDE DEF n
    <3>4. \A f \in Files : f >= n + 1 => Intact(f)'
      BY <2>1, <2>5, <3>3
    <3> QED BY <1>8, <2>4, <3>2, <3>4
  <2>7. CASE ~(n < NumFiles)
    <3> DEFINE r == [job[h].t EXCEPT !.status = "Completed"]
    <3>1. r \in Row /\ r.status = "Completed"
      BY RowStatus
    <3>2. GotoWith(h, "finish", r)
      BY <1>11, <2>7 DEF CommitFile
    <3> HIDE DEF r
    <3>3. Others(h) /\ job'[h].pc = "finish" /\ job'[h].t.status = "Completed"
      BY <3>1, <3>2, GotoWithEffect
    <3> QED BY <1>8, <2>4, <3>3
  <2> QED BY <2>6, <2>7
<1> QED BY <1>9, <1>10, <1>11

(* The history can be cleared under a goroutine that retries or cancels a   *)
(* failed transfer; a crash and new bytes at the sender break no promise.   *)
LEMMA SystemInTurn ==
    ASSUME TypeInv, InTurnInv,
           \/ (DeleteHistory \/ Crash) /\ UNCHANGED overlapped
           \/ SourceChanges
           \/ UNCHANGED vars
    PROVE  InTurnInv'
<1> USE DEF InTurnInv, DeliveredIsVerified, AloneInTurn, At
<1>1. CASE DeleteHistory /\ UNCHANGED overlapped
  <2> SUFFICES ASSUME ~overlapped, NEW h \in Handlers, job[h].pc # "idle"
               PROVE  ServedInTurn(h)'
    BY <1>1 DEF DeleteHistory, disk, ServedInTurn
  <2>1. /\ ServedInTurn(h) /\ row.status = "Failed" /\ row' = AbsentRow
        /\ UNCHANGED <<job, bytes>> /\ job[h].pc \in Step
    BY <1>1, JobFields DEF DeleteHistory, disk, ServedInTurn, TypeInv, TypeOK
  <2>2. /\ job[h].pc \in {"save", "lockedSave", "finish"}
        /\ job[h].t.status \in {Remembered} \cup Lifecycle!Follows[Remembered]
    BY <2>1 DEF ServedInTurn, Step
  <2>3. Remembered = "Failed"
    BY <2>1 DEF Remembered, Exists
  <2>4. Remembered' = "Failed"
    BY <2>1, <2>2, <2>3, FollowsTable, AbsentIsRow DEF Remembered, Exists
  <2> QED BY <2>1, <2>2, <2>3, <2>4, AbsentIsRow DEF ServedInTurn
<1>2. CASE Crash /\ UNCHANGED overlapped
  BY <1>2, IdleIsJob DEF Crash, disk, ServedInTurn
<1>3. CASE SourceChanges \/ UNCHANGED vars
  <2>1. UNCHANGED <<row, bytes, delivered, job, overlapped>>
    BY <1>3 DEF SourceChanges, receiver, vars
  <2>2. UNCHANGED Remembered
    BY <2>1 DEF Remembered, Exists
  <2> QED BY <2>1, <2>2 DEF ServedInTurn, Intact
<1> QED BY <1>1, <1>2, <1>3

(* A fresh receiver has delivered nothing and serves nobody.                *)
LEMMA InitInTurn == Init => ApprovedInv /\ InTurnInv
  BY IdleIsJob, AbsentIsRow DEF Init, InTurnInv, DeliveredIsVerified, AloneInTurn,
     ServedInTurn, At, ApprovedInv, Approves

(* The receiver's inductive invariant: what every goroutine's stale copy    *)
(* still promises about the row, the chunk rows and the files.              *)
THEOREM Inductive == Spec => []IndInv
<1> DEFINE TurnInv == ApprovedInv /\ InTurnInv
<1>1. Init => TypeInv /\ Safe /\ TurnInv
  BY InitType, InitSafe, InitInTurn
<1>2. TypeInv /\ Safe /\ TurnInv /\ [Next]_vars => (TypeInv /\ Safe /\ TurnInv)'
  <2> SUFFICES ASSUME TypeInv, Safe, ApprovedInv, InTurnInv, [Next]_vars
               PROVE  TypeInv' /\ Safe' /\ ApprovedInv' /\ InTurnInv'
    OBVIOUS
  <2>1. TypeInv'
    BY NextType
  <2>2. Safe'
    BY RequestSafe, ContinueSafe, SystemSafe, SourceSafe, StutterSafe
    DEF Next, Begin
  <2>3. InTurnInv'
    BY BeginInTurn, ContinueInTurn, SystemInTurn DEF Next
  <2>4. ApprovedInv'
    BY ApprovedStep
  <2> QED BY <2>1, <2>2, <2>3, <2>4
<1>3. TypeInv /\ Safe /\ TurnInv => IndInv
  BY DEF Safe, IndInv
<1> QED BY <1>1, <1>2, <1>3, PTL DEF Spec

(* No interleaving of requests, failure or restart puts a byte, a chunk row *)
(* or a file on the disk of a user who has not accepted the transfer.       *)
THEOREM ConsentBeforeBytes == Spec => []NoBytesWithoutConsent
<1>1. IndInv => NoBytesWithoutConsent
  BY DEF IndInv, ConsentInv
<1> QED BY <1>1, Inductive, PTL

(* A chunk ReceiveChunk has recorded is on the disk or delivered, whatever  *)
(* writes are torn and wherever the process dies.                           *)
THEOREM ChunkRowsBacked == Spec => []ChunkRowBacked
<1>1. IndInv => ChunkRowBacked
  BY DEF IndInv, BackedInv
<1> QED BY <1>1, Inductive, PTL

(* A row says Completed only when every file of the manifest was delivered, *)
(* also when stale copies of the row are written back.                      *)
THEOREM CompletedIsDelivered == Spec => []CompletedMeansDelivered
<1>1. IndInv => CompletedMeansDelivered
  BY DEF IndInv, DeliveredInv
<1> QED BY <1>1, Inductive, PTL

(* Finalize delivers all files or leaves those it did not deliver complete  *)
(* in their .part, when the sender sends what its manifest says.            *)
THEOREM VerifiedFirst == Spec => []AllVerifiedBeforeAnyCommit
<1>1. IndInv => AllVerifiedBeforeAnyCommit
  BY DEF IndInv, VerifiedInv
<1> QED BY <1>1, Inductive, PTL

(* What Finalize moves to the destination has the manifest's SHA-256 as     *)
(* long as no two requests were served at a time, whatever bytes were sent. *)
THEOREM VerifiedWhenInTurn == Spec => []DeliveredIsVerifiedInTurn
<1>1. IndInv => DeliveredIsVerifiedInTurn
  BY DEF IndInv, InTurnInv, DeliveredIsVerifiedInTurn
<1> QED BY <1>1, Inductive, PTL

(* As long as no two requests were served at a time, a transfer that is     *)
(* Completed or Cancelled is neither reopened nor changed until the history *)
(* is cleared: no request that is being served holds a copy of its row.     *)
THEOREM TerminalWhenInTurn == Spec => TerminalIsFinalInTurn
<1> DEFINE Kept == row.status \in {"Completed", "Cancelled"} /\ ~overlapped =>
                      row'.status \in {row.status, "Absent"}
<1>1. IndInv /\ [Next]_vars => [Kept]_vars
  <2> SUFFICES ASSUME IndInv, Next, ~overlapped,
                      row.status \in {"Completed", "Cancelled"}
               PROVE  row'.status \in {row.status, "Absent"}
    OBVIOUS
  <2>1. TypeInv /\ \A h \in Handlers : At(h, "idle")
    BY DEF IndInv, InTurnInv, ServedInTurn, At
  <2>2. \A h \in Handlers : Begin(h) => UNCHANGED row
    BY <2>1, RequestEffect DEF Begin
  <2>3. \A h \in Handlers :
           ~(Continue(h) \/ StoreFails(h) \/ Finish(h) \/ RefreshProgress(h))
    BY <2>1 DEF At, Continue, StoreFails, Finish, RefreshProgress, SaveTransfer,
       SaveLocked, WriteAt, WriteAtFails, SaveChunk, SaveVerifying, ListChunks,
       ChecksumFile, ChecksumFileFails, CommitFile, CommitFileFails
  <2>4. DeleteHistory => row'.status = "Absent"
    BY AbsentIsRow DEF DeleteHistory
  <2>5. Crash \/ SourceChanges => UNCHANGED row
    BY DEF Crash, SourceChanges, receiver
  <2> QED BY <2>2, <2>3, <2>4, <2>5 DEF Next
<1> QED BY <1>1, Inductive, PTL DEF Spec, TerminalIsFinalInTurn

-----------------------------------------------------------------------------
(* Every step is one TransferLifecycle allows.                              *)

Moved == {f \in Files : delivered[f] # "none"}
Spoiled == {f \in Files : delivered[f] = "bad"}

(* A fresh receiver is the abstract transfer's initial state.               *)
LEMMA InitKept == Init => Lifecycle!LifecycleInit
  BY AbsentIsRow, IdleIsJob
  DEF Init, Lifecycle!LifecycleInit, Remembered, Exists, At

(* What is remembered when one goroutine at most serves a request.          *)
LEMMA RememberedAlone ==
    ASSUME NEW h \in Handlers, \A g \in Handlers : g # h => At(g, "idle"), Others(h)
    PROVE  /\ Remembered = IF ~Exists /\ ~At(h, "idle") /\ job[h].t.status # "Queued"
                           THEN "Failed" ELSE row.status
           /\ Remembered' = IF ~Exists' /\ ~At(h, "idle")' /\ job'[h].t.status # "Queued"
                            THEN "Failed" ELSE row'.status
<1>1. \A g \in Handlers : g # h => At(g, "idle")'
  BY DEF Others, At
<1> QED BY <1>1 DEF Remembered

(* What is remembered is a state of the abstract transfer.                  *)
LEMMA RememberedType ==
    ASSUME TypeInv'
    PROVE  Remembered' \in Lifecycle!Statuses
<1>1. row'.status \in InboundStatus \cup {"Absent"}
  BY RowFields DEF TypeInv, TypeOK
<1> QED BY <1>1 DEF Remembered, Lifecycle!Statuses, InboundStatus

(* A step that the abstract transfer does not see.                          *)
LEMMA KeptStutter ==
    ASSUME UNCHANGED <<delivered, consent, overlapped>>, Remembered' = Remembered
    PROVE  UNCHANGED Lifecycle!lifecycleVars
  BY DEF Lifecycle!lifecycleVars

(* A step that moves the abstract transfer to another state.                *)
LEMMA KeptBecome ==
    ASSUME TypeInv', ~overlapped, UNCHANGED <<delivered, consent, overlapped>>,
           Remembered' \in Lifecycle!Follows[Remembered],
           Remembered' = "Receiving" => consent,
           Remembered' = "Completed" => AllDelivered
    PROVE  Lifecycle!LifecycleNext
<1>1. Remembered' \in Lifecycle!Statuses
  BY RememberedType
<1>2. Lifecycle!Become(Remembered')
  BY DEF Lifecycle!Become, AllDelivered
<1> QED BY <1>1, <1>2 DEF Lifecycle!LifecycleNext

(* When requests overlap, a file is still moved only with consent, and the  *)
(* status still says Completed only when all are.                           *)
LEMMA KeptDisorderly ==
    ASSUME TypeInv, TypeInv', Safe', overlapped, overlapped',
           consent => consent',
           Moved \subseteq Moved', Moved' # Moved => consent
    PROVE  Lifecycle!LifecycleNext
<1>1. Remembered' \in Lifecycle!Statuses
  BY RememberedType
<1>2. Remembered' = "Completed" => row'.status = "Completed"
  BY DEF Remembered
<1>3. row'.status = "Completed" => Moved' = Files
  BY DEF Safe, DeliveredInv, CompletedMeansDelivered, Moved
<1>4. overlapped = TRUE /\ overlapped' = TRUE
  BY DEF TypeInv, TypeOK
<1>5. Spoiled' \subseteq Moved'
  BY DEF Spoiled, Moved
<1> QED BY <1>1, <1>2, <1>3, <1>4, <1>5
        DEF Lifecycle!LifecycleNext, Lifecycle!Disorderly, Moved, Spoiled

(* A request is a decision of the user, or nothing the abstract transfer    *)
(* sees; it may also be the first to overlap with another one.              *)
LEMMA BeginKept ==
    ASSUME TypeInv, TypeInv', Safe, Safe', ApprovedInv, InTurnInv,
           NEW h \in Handlers, Begin(h)
    PROVE  [Lifecycle!LifecycleNext]_(Lifecycle!lifecycleVars)
<1>1. /\ At(h, "idle") /\ Others(h) /\ UNCHANGED <<row, delivered>>
      /\ \/ job'[h] = job[h]
         \/ row.status = "Absent" => job'[h].t.status = "Queued"
  BY RequestCopies, FollowsTable DEF Begin
<1>2. \/ UNCHANGED consent
      \/ row.status = "Queued" /\ consent' = TRUE
  BY DEF Begin, Request, Accept, Reject, Cancel, Pause, Resume, Retry,
         LockedUpdate, Recover, ReceiveOffer, ProtocolCancel, Finalize, ReceiveChunk
<1>3. Remembered' = Remembered
  BY <1>1 DEF Remembered, Exists, Others, At
<1>4. row.status = "Queued" => Remembered = "Queued"
  BY DEF Remembered, Exists
<1>5. CASE overlapped
  <2>1. overlapped'
    BY <1>5 DEF Begin
  <2>2. Moved' = Moved
    BY <1>1 DEF Moved
  <2>3. consent => consent'
    BY <1>2
  <2> QED BY <1>5, <2>1, <2>2, <2>3, KeptDisorderly
<1>6. CASE ~overlapped /\ overlapped'
  <2>1. overlapped' = TRUE
    BY <1>6 DEF TypeInv, TypeOK
  <2>2. Lifecycle!Overlap
    BY <1>1, <1>2, <1>3, <1>4, <1>6, <2>1 DEF Lifecycle!Overlap
  <2> QED BY <2>2 DEF Lifecycle!LifecycleNext
<1>7. CASE ~overlapped'
  <2>1. UNCHANGED overlapped /\ ~overlapped
    BY <1>7 DEF Begin, TypeInv, TypeOK
  <2>2. CASE UNCHANGED consent
    BY <1>1, <1>3, <2>1, <2>2, KeptStutter
  <2>3. CASE row.status = "Queued" /\ consent' = TRUE
    <3>1. Lifecycle!Decide
      BY <1>1, <1>3, <1>4, <2>1, <2>3 DEF Lifecycle!Decide
    <3> QED BY <3>1 DEF Lifecycle!LifecycleNext
  <2> QED BY <1>2, <2>2, <2>3
<1> QED BY <1>5, <1>6, <1>7

(* Later steps change the state when a copy of the row is saved, and move   *)
(* files while verifying.                                                  *)
LEMMA ContinueKept ==
    ASSUME TypeInv, TypeInv', Safe, Safe', ApprovedInv, InTurnInv, InTurnInv',
           NEW h \in Handlers, UNCHANGED <<changed, overlapped>>,
           Continue(h) \/ Finish(h) \/ RefreshProgress(h) \/ StoreFails(h)
    PROVE  [Lifecycle!LifecycleNext]_(Lifecycle!lifecycleVars)
<1>0. /\ Jobs /\ LocalOK(h) /\ row \in Row /\ job[h].t \in Row /\ Consented(h)
      /\ CommitProgress(h) /\ Approves(job[h].t)
  BY JobFields DEF TypeInv, TypeOK, Jobs, Safe, ConsentInv, DeliveredInv, ApprovedInv
<1>1. /\ ~At(h, "idle") /\ UNCHANGED consent
      /\ CommitFile(h) \/ UNCHANGED delivered
  BY DEF At, disk, Continue, StoreFails, Finish, RefreshProgress, SaveTransfer,
     SaveLocked, WriteAt, WriteAtFails, SaveChunk, SaveVerifying, ListChunks,
     ChecksumFile, ChecksumFileFails, CommitFile, CommitFileFails
<1>2. CASE overlapped
  <2>1. CommitFile(h) => consent
    BY <1>0 DEF CommitFile, At, Consented
  <2>2. Moved \subseteq Moved' /\ (Moved' # Moved => CommitFile(h))
    BY <1>1, CommitKeeps DEF Moved
  <2> QED BY <1>1, <1>2, <2>1, <2>2, KeptDisorderly
<1> SUFFICES ASSUME ~overlapped
             PROVE  [Lifecycle!LifecycleNext]_(Lifecycle!lifecycleVars)
  BY <1>2
<1>3. Others(h)
  BY ContinueCopies
<1>4. /\ ServedInTurn(h) /\ DeliveredIsVerified /\ DeliveredIsVerified'
      /\ \A g \in Handlers : g # h => At(g, "idle")
  BY <1>1 DEF InTurnInv, AloneInTurn
<1> USE <1>0 DEF At, Step
<1>5. CASE SaveTransfer(h) \/ SaveLocked(h) \/ Finish(h)
  <2>1. /\ row' = job[h].t /\ job'[h].pc = "idle" /\ UNCHANGED delivered
        /\ job[h].pc \in {"save", "lockedSave", "finish"}
    BY <1>5, ReturnEffect DEF SaveTransfer, SaveLocked, Finish, disk
  <2>2. Remembered' = job[h].t.status
    BY <1>3, <1>4, <2>1, RememberedAlone
  <2>3. Remembered' \in {Remembered} \cup Lifecycle!Follows[Remembered]
    BY <1>4, <2>1, <2>2 DEF ServedInTurn
  <2>4. /\ Remembered' = "Receiving" => consent
        /\ Remembered' = "Completed" => AllDelivered
    BY <2>2 DEF Approves, Consented, CommitProgress
  <2> QED BY <1>1, <2>1, <2>3, <2>4, KeptBecome, KeptStutter
<1>6. CASE WriteAtFails(h) \/ StoreFails(h)
  <2>1. UNCHANGED <<row, delivered>> /\ job'[h].pc = "idle"
    BY <1>6, ReturnEffect DEF WriteAtFails, StoreFails, disk
  <2>2. \/ Remembered' = Remembered
        \/ Remembered = "Failed" /\ Remembered' = "Absent"
    BY <1>3, <1>4, <2>1, RememberedAlone DEF Exists
  <2> QED BY <1>1, <2>1, <2>2, FollowsTable, KeptBecome, KeptStutter
<1>7. CASE \/ WriteAt(h) \/ SaveChunk(h) \/ RefreshProgress(h) \/ ListChunks(h)
           \/ ChecksumFile(h) \/ ChecksumFileFails(h) \/ CommitFileFails(h)
  <2>1. /\ UNCHANGED <<row, delivered>>
        /\ job[h].pc \in {"write", "saveChunk", "refresh", "listChunks",
                          "checksum", "commit"}
    BY <1>7 DEF WriteAt, SaveChunk, RefreshProgress, ListChunks, ChecksumFile,
                ChecksumFileFails, CommitFileFails, disk
  <2>2. Exists /\ Exists'
    BY <1>4, <2>1 DEF ServedInTurn, Exists
  <2>3. Remembered' = Remembered
    BY <2>1, <2>2 DEF Remembered
  <2> QED BY <1>1, <2>1, <2>3, KeptStutter
<1>8. CASE SaveVerifying(h)
  <2>1. row' = job[h].t /\ UNCHANGED delivered /\ job[h].pc = "saveVerifying"
    BY <1>8 DEF SaveVerifying, disk
  <2>2. row.status = "Receiving" /\ row'.status = "Verifying"
    BY <1>4, <2>1 DEF ServedInTurn
  <2>3. Remembered = "Receiving" /\ Remembered' = "Verifying"
    BY <2>2 DEF Remembered, Exists
  <2> QED BY <1>1, <2>1, <2>3, FollowsTable, KeptBecome
<1>9. CASE CommitFile(h)
  <2>1. /\ UNCHANGED row /\ row.status = "Verifying" /\ job[h].at \in Files
        /\ Moved' = Moved \cup {job[h].at}
    BY <1>4, <1>9, CommitKeeps DEF CommitFile, ServedInTurn, Moved, TypeInv, TypeOK
  <2>2. Spoiled = {} /\ Spoiled' = {}
    BY <1>4 DEF DeliveredIsVerified, Spoiled
  <2>3. Remembered = "Verifying" /\ Remembered' = "Verifying"
    BY <2>1 DEF Remembered, Exists
  <2>4. PICK f \in Files : Moved' = Moved \cup {f}
    BY <2>1
  <2>5. Lifecycle!Move(f)
    BY <1>1, <2>2, <2>3, <2>4 DEF Lifecycle!Move, Moved, Spoiled
  <2> QED BY <2>4, <2>5 DEF Lifecycle!LifecycleNext
<1> QED BY <1>5, <1>6, <1>7, <1>8, <1>9 DEF Continue

(* A cleared history is the end of a transfer that is over, unless a        *)
(* request is still being served; a crash and new bytes at the sender       *)
(* change no state of the transfer.                                        *)
LEMMA SystemKept ==
    ASSUME TypeInv, TypeInv', Safe', InTurnInv,
           \/ (DeleteHistory \/ Crash) /\ UNCHANGED <<changed, overlapped>>
           \/ SourceChanges
           \/ UNCHANGED vars
    PROVE  [Lifecycle!LifecycleNext]_(Lifecycle!lifecycleVars)
<1>1. UNCHANGED <<delivered, consent, overlapped>>
  BY DEF DeleteHistory, Crash, SourceChanges, vars, receiver, disk
<1>2. CASE overlapped
  <2>1. Moved' = Moved
    BY <1>1 DEF Moved
  <2> QED BY <1>1, <1>2, <2>1, KeptDisorderly
<1> SUFFICES ASSUME ~overlapped
             PROVE  [Lifecycle!LifecycleNext]_(Lifecycle!lifecycleVars)
  BY <1>2
<1>3. CASE DeleteHistory
  <2>1. /\ row'.status = "Absent" /\ Remembered = row.status /\ UNCHANGED job
        /\ row.status \in {"Completed", "Cancelled", "Failed"}
    BY <1>3, AbsentIsRow DEF DeleteHistory, Remembered, Exists
  <2>2. \/ Remembered' = "Absent"
        \/ /\ Remembered' = "Failed"
           /\ \E h \in Handlers : ~At(h, "idle")
    BY <2>1 DEF Remembered, Exists, At
  <2>3. (\E h \in Handlers : ~At(h, "idle")) => row.status = "Failed"
    BY <2>1 DEF InTurnInv, ServedInTurn, At
  <2> QED BY <1>1, <2>1, <2>2, <2>3, FollowsTable, KeptBecome, KeptStutter
<1>4. CASE Crash
  <2>1. Remembered' = row.status
    BY <1>4, IdleIsJob DEF Crash, Remembered, At
  <2>2. \/ Remembered = row.status
        \/ Remembered = "Failed" /\ row.status = "Absent"
    BY DEF Remembered, Exists
  <2> QED BY <1>1, <2>1, <2>2, FollowsTable, KeptBecome, KeptStutter
<1>5. CASE SourceChanges \/ UNCHANGED vars
  <2>1. UNCHANGED <<row, job>>
    BY <1>5 DEF SourceChanges, vars, receiver
  <2>2. Remembered' = Remembered
    BY <2>1 DEF Remembered, Exists, At
  <2> QED BY <1>1, <2>2, KeptStutter
<1> QED BY <1>3, <1>4, <1>5

(* The receiver implements TransferLifecycle: as long as requests come one  *)
(* after the other its states follow each other as documented, bytes are    *)
(* taken and files moved only after the user's decision, and only while     *)
(* verifying; when they overlap, consent and Completed keep their meaning.  *)
THEOREM LifecycleIsKept == Spec => LifecycleKept
<1> DEFINE TurnInv == ApprovedInv /\ InTurnInv
<1>1. TypeInv /\ Safe /\ TurnInv /\ (TypeInv /\ Safe /\ TurnInv)' /\ [Next]_vars
         => [Lifecycle!LifecycleNext]_(Lifecycle!lifecycleVars)
  <2> SUFFICES ASSUME TypeInv, Safe, ApprovedInv, InTurnInv,
                      TypeInv', Safe', InTurnInv', [Next]_vars
               PROVE  [Lifecycle!LifecycleNext]_(Lifecycle!lifecycleVars)
    OBVIOUS
  <2> QED BY BeginKept, ContinueKept, SystemKept DEF Next
<1>2. IndInv => TypeInv /\ Safe /\ TurnInv
  BY DEF IndInv, Safe
<1>3. (IndInv => TypeInv /\ Safe /\ TurnInv)'
  BY <1>2, PTL
<1> QED BY <1>1, <1>2, <1>3, InitKept, Inductive, PTL
        DEF Spec, LifecycleKept, Lifecycle!LifecycleSpec

=============================================================================
