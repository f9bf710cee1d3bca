-------------------------- MODULE TransferReceiver --------------------------
(***************************************************************************)
(* The receiving half of internal/transfer: everything that happens on one *)
(* device to ONE incoming transfer ID, from the peer's offer to the files   *)
(* in the folder the user chose.  Incoming transfers share no state but     *)
(* the mutex progressMu, so one ID is enough.                              *)
(*                                                                         *)
(* Every HTTP request runs in a goroutine of its own.  A goroutine reads    *)
(* the transfer row into a local copy (the Go variable t), decides on that  *)
(* copy, and later writes the WHOLE copy back with SaveTransfer.  A step of *)
(* this module is the code between two accesses to shared state: a read of  *)
(* the row with the checks that follow it, one SaveTransfer transaction,    *)
(* one write to a .part file, one rename.                                  *)
(*                                                                         *)
(* Left out: progress, speed and ETA (display data), logging and events,    *)
(* directory entries of the manifest (they carry no bytes), and the checks  *)
(* of an offer that end in a refusal and change nothing.  GetTransfer reads *)
(* the row and its files with two statements; they are one step here.       *)
(***************************************************************************)
EXTENDS Naturals, FiniteSets

CONSTANTS
    Handlers,   \* goroutines serving requests for this transfer ID
    NumFiles,   \* regular files of the manifest, in manifest order
    Chunks,     \* all chunks of all files
    FileOf,     \* the file each chunk belongs to; a file with none is empty
    MayChange,  \* whether the sender's files may change after the manifest
    Tokens      \* session tokens an offer may carry

ASSUME ReceiverAssumption ==
    /\ NumFiles \in Nat \ {0}
    /\ FileOf \in [Chunks -> 1..NumFiles]
    /\ MayChange \in BOOLEAN
    /\ "none" \notin Tokens

Files == 1..NumFiles
Contents == {"good", "bad"}  \* the bytes of the manifest, or others
ChunksOf(f) == {c \in Chunks : FileOf[c] = f}

(* The columns of the transfers row that steer the receiver.               *)
AbsentRow == [status |-> "Absent", approved |-> FALSE, token |-> "none"]
InboundStatus == {"Queued", "Receiving", "Paused", "Verifying",
                  "Completed", "Cancelled", "Failed"}
Row == [status : InboundStatus \cup {"Absent"}, approved : BOOLEAN,
        token : Tokens \cup {"none"}]

(* A goroutine's program counter and locals.                               *)
NoUpload == [chunk |-> "none", data |-> "none"]
Idle == [pc |-> "idle", t |-> AbsentRow, upload |-> NoUpload, at |-> 0,
         listed |-> {}]
Step == {"idle", "save", "lockedSave", "finish", "write", "saveChunk",
         "refresh", "saveVerifying", "listChunks", "checksum", "commit"}
Job == [pc : Step, t : Row,
        upload : [chunk : Chunks, data : Contents] \cup {NoUpload},
        at : 0..NumFiles, listed : SUBSET Files]

VARIABLES
    row,         \* the row of table transfers, AbsentRow if there is none
    chunks,      \* rows of table chunks with status ChunkComplete
    parts,       \* files whose .part exists under incoming/
    bytes,       \* per chunk, what its range of the .part holds
    delivered,   \* per file, what was last renamed to its destination
    progressMu,  \* goroutines holding the mutex: {} or a singleton
    job,         \* per goroutine, its program counter and locals
    booted,      \* recover has run since the process started
    consent,     \* history: the user has accepted this transfer ID
    changed,     \* the sender's files differ from the manifest (external)
    overlapped   \* history: a request came while another one was served

receiver == <<row, chunks, parts, bytes, delivered, progressMu, job, booted,
              consent>>
vars == <<receiver, changed, overlapped>>
disk == <<parts, bytes, delivered>>

Init ==
    /\ row = AbsentRow
    /\ chunks = {}
    /\ parts = {}
    /\ bytes = [c \in Chunks |-> "none"]
    /\ delivered = [f \in Files |-> "none"]
    /\ progressMu = {}
    /\ job = [h \in Handlers |-> Idle]
    /\ booted = FALSE
    /\ consent = FALSE /\ changed = FALSE /\ overlapped = FALSE

-----------------------------------------------------------------------------
(* Control of a goroutine.                                                 *)

At(h, step) == job[h].pc = step
Goto(h, step) == job' = [job EXCEPT ![h].pc = step]
GotoWith(h, step, t) == job' = [job EXCEPT ![h].pc = step, ![h].t = t]
Return(h) == job' = [job EXCEPT ![h] = Idle]

Exists == row.status # "Absent"
Unlocked == progressMu = {}

(* fail(ctx, t, err): finish with status Failed.                           *)
Fail(h) == GotoWith(h, "finish", [job[h].t EXCEPT !.status = "Failed"])

-----------------------------------------------------------------------------
(* The offer and the user's decisions.                                     *)

(* An authenticated, well-formed offer for an ID that is not known saves a  *)
(* row awaiting approval.  A known ID is answered with the row on record,   *)
(* whatever the offer says, and nothing changes.                            *)
ReceiveOffer(h, tok) ==
    /\ At(h, "idle")
    /\ ~Exists
    /\ GotoWith(h, "save", [status |-> "Queued", approved |-> FALSE,
                            token |-> tok])
    /\ UNCHANGED <<row, chunks, disk, progressMu, booted, consent>>

Accept(h) ==
    /\ At(h, "idle")
    /\ row.status = "Queued"
    /\ GotoWith(h, "save", [row EXCEPT !.status = "Receiving",
                                       !.approved = TRUE])
    /\ consent' = TRUE
    /\ UNCHANGED <<row, chunks, disk, progressMu, booted>>

Reject(h) ==
    /\ At(h, "idle")
    /\ row.status = "Queued" /\ ~row.approved
    /\ GotoWith(h, "finish", [row EXCEPT !.status = "Cancelled"])
    /\ UNCHANGED <<row, chunks, disk, progressMu, booted, consent>>

(* Mutant of Cancel: a Completed transfer can be cancelled.                 *)
CancelCompleted(h) ==
    /\ At(h, "idle")
    /\ Exists /\ row.status # "Cancelled"
    /\ GotoWith(h, "finish", [row EXCEPT !.status = "Cancelled"])
    /\ UNCHANGED <<row, chunks, disk, progressMu, booted, consent>>

(* Cancel by the user and ProtocolCancel by the sender's DELETE request.    *)
Cancel(h) ==
    /\ At(h, "idle")
    /\ Exists /\ row.status \notin {"Completed", "Cancelled"}
    /\ GotoWith(h, "finish", [row EXCEPT !.status = "Cancelled"])
    /\ UNCHANGED <<row, chunks, disk, progressMu, booted, consent>>

ProtocolCancel(h, tok) ==
    /\ row.token = tok
    /\ Cancel(h)

(* Pause, Resume and Retry read and write the row under progressMu.  They   *)
(* hold s.mu around it, which no other step here needs for longer than a    *)
(* map access; it is always taken first and is left out.                    *)
LockedUpdate(h, t) ==
    /\ At(h, "idle")
    /\ Unlocked
    /\ progressMu' = {h}
    /\ GotoWith(h, "lockedSave", t)
    /\ UNCHANGED <<row, chunks, disk, booted, consent>>

Pause(h) ==
    /\ row.status = "Receiving"
    /\ LockedUpdate(h, [row EXCEPT !.status = "Paused"])

Resume(h) ==
    /\ row.status = "Paused"
    /\ LockedUpdate(h, [row EXCEPT !.status = "Receiving"])

Retry(h) ==
    /\ row.status = "Failed"
    /\ LockedUpdate(h, [row EXCEPT !.status = IF row.approved THEN "Receiving"
                                                              ELSE "Queued"])

-----------------------------------------------------------------------------
(* SaveTransfer, in its three settings.  It upserts the row: a row that was *)
(* deleted meanwhile comes back.                                           *)

(* Without a lock, as the last step of ReceiveOffer, Accept and recover.    *)
SaveTransfer(h) ==
    /\ At(h, "save")
    /\ row' = job[h].t
    /\ Return(h)
    /\ UNCHANGED <<chunks, disk, progressMu, booted, consent>>

(* By a goroutine that already holds progressMu.                           *)
SaveLocked(h) ==
    /\ At(h, "lockedSave")
    /\ row' = job[h].t
    /\ progressMu' = progressMu \ {h}
    /\ Return(h)
    /\ UNCHANGED <<chunks, disk, booted, consent>>

(* finish: lock progressMu, save the terminal status, unlock.  The save is  *)
(* its only access to shared state.                                        *)
Finish(h) ==
    /\ At(h, "finish")
    /\ Unlocked
    /\ row' = job[h].t
    /\ Return(h)
    /\ UNCHANGED <<chunks, disk, progressMu, booted, consent>>

-----------------------------------------------------------------------------
(* One chunk.                                                              *)

(* Mutant of MayReceive: the token is enough.                               *)
MayReceiveAnyState(tok) == Exists /\ row.token = tok

MayReceive(tok) ==
    /\ row.token = tok
    /\ row.approved
    /\ row.status = "Receiving"

(* Mutant of ReceiveChunk: the chunk row is saved without the bytes.        *)
ReceiveChunkRowFirst(h, c, d, tok) ==
    /\ At(h, "idle")
    /\ d = "bad" => changed
    /\ MayReceive(tok)
    /\ job' = [job EXCEPT ![h].pc = "saveChunk", ![h].t = row,
                          ![h].upload = [chunk |-> c, data |-> d]]
    /\ UNCHANGED <<row, chunks, disk, progressMu, booted, consent>>

(* The body has the right size and the checksum of its own header.          *)
ReceiveChunk(h, c, d, tok) ==
    /\ At(h, "idle")
    /\ d = "bad" => changed
    /\ MayReceive(tok)
    /\ job' = [job EXCEPT ![h].pc = "write", ![h].t = row,
                          ![h].upload = [chunk |-> c, data |-> d]]
    /\ UNCHANGED <<row, chunks, disk, progressMu, booted, consent>>

(* MkdirAll, OpenFile(O_CREATE), WriteAt and Sync.                          *)
WriteAt(h) ==
    /\ At(h, "write")
    /\ LET u == job[h].upload IN
       /\ bytes' = [bytes EXCEPT ![u.chunk] = u.data]
       /\ parts' = parts \cup {FileOf[u.chunk]}
    /\ Goto(h, "saveChunk")
    /\ UNCHANGED <<row, chunks, delivered, progressMu, booted, consent>>

(* MkdirAll or OpenFile fails, or the write fails and may leave a torn range*)
(* behind; rewriting a prefix of the bytes that are there changes nothing.  *)
WriteAtFails(h) ==
    /\ At(h, "write")
    /\ LET u == job[h].upload IN
       \/ UNCHANGED <<bytes, parts>>
       \/ /\ bytes' = [bytes EXCEPT ![u.chunk] = IF @ = u.data THEN @
                                                             ELSE "bad"]
          /\ parts' = parts \cup {FileOf[u.chunk]}
    /\ Return(h)
    /\ UNCHANGED <<row, chunks, delivered, progressMu, booted, consent>>

SaveChunk(h) ==
    /\ At(h, "saveChunk")
    /\ chunks' = chunks \cup {job[h].upload.chunk}
    /\ Goto(h, "refresh")
    /\ UNCHANGED <<row, disk, progressMu, booted, consent>>

(* refreshProgress: lock, reread the row; SaveLocked writes it back.        *)
RefreshProgress(h) ==
    /\ At(h, "refresh")
    /\ Unlocked
    /\ \/ /\ Exists
          /\ progressMu' = {h}
          /\ GotoWith(h, "lockedSave", row)
       \/ /\ ~Exists
          /\ Return(h)
          /\ UNCHANGED progressMu
    /\ UNCHANGED <<row, chunks, disk, booted, consent>>

-----------------------------------------------------------------------------
(* Finalize: mark Verifying, check every file, then move every file.        *)

Finalize(h, tok) ==
    /\ At(h, "idle")
    /\ MayReceive(tok)
    /\ GotoWith(h, "saveVerifying", [row EXCEPT !.status = "Verifying"])
    /\ UNCHANGED <<row, chunks, disk, progressMu, booted, consent>>

SaveVerifying(h) ==
    /\ At(h, "saveVerifying")
    /\ row' = job[h].t
    /\ Goto(h, "listChunks")
    /\ UNCHANGED <<chunks, disk, progressMu, booted, consent>>

ListChunks(h) ==
    /\ At(h, "listChunks")
    /\ job' = [job EXCEPT ![h].pc = "checksum", ![h].at = 1,
                   ![h].listed = {f \in Files : ChunksOf(f) \subseteq chunks}]
    /\ UNCHANGED <<row, chunks, disk, progressMu, booted, consent>>

(* Mutant of NextFile: the loop runs one file too far.                      *)
NextFileOffByOne(h, loop, after) ==
    IF job[h].at <= NumFiles
    THEN job' = [job EXCEPT ![h].pc = loop, ![h].at = @ + 1]
    ELSE job' = [job EXCEPT ![h].pc = after, ![h].at = 1]

(* The next file of the loop, or the first file of the next loop.           *)
NextFile(h, loop, after) ==
    IF job[h].at < NumFiles
    THEN job' = [job EXCEPT ![h].pc = loop, ![h].at = @ + 1]
    ELSE job' = [job EXCEPT ![h].pc = after, ![h].at = 1]

Intact(f) == \A c \in ChunksOf(f) : bytes[c] = "good"

(* Mutant of ChecksumFile: a file with missing chunks is skipped.           *)
ChecksumFileSkipsMissing(h) ==
    /\ At(h, "checksum")
    /\ NextFile(h, "checksum", "commit")
    /\ UNCHANGED <<row, chunks, disk, progressMu, booted, consent>>

(* Mutant of ChecksumFile: chunk rows are counted, the SHA-256 is not       *)
(* compared.                                                               *)
ChecksumFileNotCompared(h) ==
    /\ At(h, "checksum")
    /\ IF job[h].at \in job[h].listed THEN NextFile(h, "checksum", "commit")
                                      ELSE Fail(h)
    /\ UNCHANGED <<row, chunks, disk, progressMu, booted, consent>>

(* One file: all its chunk rows were listed and its .part has the manifest's*)
(* SHA-256.  An empty file's .part is created here.                         *)
ChecksumFile(h) ==
    /\ At(h, "checksum")
    /\ LET f == job[h].at
           made == IF f \in job[h].listed /\ ChunksOf(f) = {}
                   THEN parts \cup {f} ELSE parts IN
       /\ parts' = made
       /\ IF f \in job[h].listed /\ f \in made /\ Intact(f)
          THEN NextFile(h, "checksum", "commit")
          ELSE Fail(h)
    /\ UNCHANGED <<row, chunks, bytes, delivered, progressMu, booted, consent>>

(* The .part cannot be created or read.                                    *)
ChecksumFileFails(h) ==
    /\ At(h, "checksum")
    /\ Fail(h)
    /\ UNCHANGED <<row, chunks, disk, progressMu, booted, consent>>

(* resolveConflict and commitFile for one file: the .part is renamed to the *)
(* destination.  Which name it gets, and the copy commitFile makes when the *)
(* two are on different file systems, are left out.                         *)
CommitFile(h) ==
    /\ At(h, "commit")
    /\ LET f == job[h].at IN
       /\ f \in parts
       /\ delivered' = [delivered EXCEPT ![f] = IF Intact(f) THEN "good"
                                                             ELSE "bad"]
       /\ parts' = parts \ {f}
       /\ bytes' = [c \in Chunks |-> IF FileOf[c] = f THEN "none" ELSE bytes[c]]
       /\ IF f < NumFiles
          THEN NextFile(h, "commit", "finish")
          ELSE GotoWith(h, "finish", [job[h].t EXCEPT !.status = "Completed"])
    /\ UNCHANGED <<row, chunks, progressMu, booted, consent>>

(* Mutant of CommitFileFails: the error is ignored.                         *)
CommitFileErrorIgnored(h) ==
    /\ At(h, "commit")
    /\ IF job[h].at < NumFiles
       THEN NextFile(h, "commit", "finish")
       ELSE GotoWith(h, "finish", [job[h].t EXCEPT !.status = "Completed"])
    /\ UNCHANGED <<row, chunks, disk, progressMu, booted, consent>>

(* The .part is gone, the name was taken since Accept and the policy is     *)
(* prompt, or the file system refuses.                                     *)
CommitFileFails(h) ==
    /\ At(h, "commit")
    /\ Fail(h)
    /\ UNCHANGED <<row, chunks, disk, progressMu, booted, consent>>

-----------------------------------------------------------------------------
(* The store, the process.                                                 *)

(* Mutant of StoreFails: the early return does not unlock.                  *)
StoreFailsKeepsLock(h) ==
    /\ \/ job[h].pc \in {"save", "lockedSave", "saveChunk", "saveVerifying",
                         "listChunks"}
       \/ job[h].pc \in {"finish", "refresh"} /\ Unlocked
    /\ Return(h)
    /\ UNCHANGED <<row, chunks, disk, progressMu, booted, consent>>

(* A statement fails: the peer closed the connection and the request's      *)
(* context is cancelled, or SQLite returns an error.  The handler returns   *)
(* and its deferred unlock runs.  File operations do not watch the context. *)
StoreFails(h) ==
    /\ \/ job[h].pc \in {"save", "lockedSave", "saveChunk", "saveVerifying",
                         "listChunks"}
       \/ job[h].pc \in {"finish", "refresh"} /\ Unlocked
    /\ progressMu' = progressMu \ {h}
    /\ Return(h)
    /\ UNCHANGED <<row, chunks, disk, booted, consent>>

(* One transaction removes finished rows with their chunk rows.  Nothing    *)
(* removes the .part files.                                                *)
DeleteHistory ==
    /\ row.status \in {"Completed", "Cancelled", "Failed"}
    /\ row' = AbsentRow
    /\ chunks' = {}
    /\ UNCHANGED <<disk, progressMu, job, booted, consent>>

(* The process dies: goroutines and locks are gone, row and files stay.     *)
Crash ==
    /\ job' = [h \in Handlers |-> Idle]
    /\ progressMu' = {}
    /\ booted' = FALSE
    /\ UNCHANGED <<row, chunks, disk, consent>>

(* Mutant of Recover: offers that await approval are resumed too.           *)
RecoverQueued(h) ==
    /\ At(h, "idle")
    /\ ~booted
    /\ booted' = TRUE
    /\ IF row.status \in {"Verifying", "Queued"}
       THEN GotoWith(h, "save", [row EXCEPT !.status = "Receiving"])
       ELSE UNCHANGED job
    /\ UNCHANGED <<row, chunks, disk, progressMu, consent>>

(* recover, first thing in Run, while the HTTP server is already serving.   *)
Recover(h) ==
    /\ At(h, "idle")
    /\ ~booted
    /\ booted' = TRUE
    /\ IF row.status = "Verifying"
       THEN GotoWith(h, "save", [row EXCEPT !.status = "Receiving"])
       ELSE UNCHANGED job
    /\ UNCHANGED <<row, chunks, disk, progressMu, consent>>

-----------------------------------------------------------------------------
(* What a goroutine does next once it serves a request, apart from the two  *)
(* steps that first have to obtain progressMu.                              *)
Continue(h) ==
    \/ SaveTransfer(h) \/ SaveLocked(h)
    \/ WriteAt(h) \/ WriteAtFails(h) \/ SaveChunk(h)
    \/ SaveVerifying(h) \/ ListChunks(h)
    \/ ChecksumFile(h) \/ ChecksumFileFails(h)
    \/ CommitFile(h) \/ CommitFileFails(h)

Request(h) ==
    \/ Accept(h) \/ Reject(h) \/ Cancel(h)
    \/ Pause(h) \/ Resume(h) \/ Retry(h) \/ Recover(h)
    \/ \E tok \in Tokens : \/ ReceiveOffer(h, tok) \/ ProtocolCancel(h, tok)
                           \/ Finalize(h, tok)
                           \/ \E c \in Chunks, d \in Contents :
                                 ReceiveChunk(h, c, d, tok)

(* A handler begins to serve a request, perhaps among others.               *)
Begin(h) ==
    /\ Request(h)
    /\ overlapped' = (overlapped \/ \E g \in Handlers \ {h} : ~At(g, "idle"))

(* The sender's files change; its chunks may carry other bytes from now on. *)
SourceChanges ==
    /\ MayChange /\ ~changed
    /\ changed' = TRUE
    /\ UNCHANGED <<receiver, overlapped>>

Next ==
    \/ \E h \in Handlers : Begin(h) /\ UNCHANGED changed
    \/ /\ \/ \E h \in Handlers : \/ Continue(h) \/ StoreFails(h)
                                 \/ Finish(h) \/ RefreshProgress(h)
          \/ DeleteHistory
          \/ Crash
       /\ UNCHANGED <<changed, overlapped>>
    \/ SourceChanges

Spec == Init /\ [][Next]_vars

-----------------------------------------------------------------------------
(* Properties.                                                             *)

(* Every variable has its type (the columns of migrations.go, the locals of *)
(* the handlers in service.go).                                            *)
TypeOK ==
    /\ row \in Row
    /\ chunks \subseteq Chunks
    /\ parts \subseteq Files
    /\ bytes \in [Chunks -> {"none", "good", "bad"}]
    /\ delivered \in [Files -> {"none", "good", "bad"}]
    /\ progressMu \subseteq Handlers
    /\ job \in [Handlers -> Job]
    /\ booted \in BOOLEAN
    /\ consent \in BOOLEAN /\ changed \in BOOLEAN /\ overlapped \in BOOLEAN

(* ReceiveChunk and Finalize touch the disk only for a transfer the user    *)
(* accepted: whatever is interleaved, replayed or restarted, no .part file, *)
(* chunk row or delivered file exists before Accept was called.             *)
NoBytesWithoutConsent ==
    \/ consent
    \/ parts = {} /\ chunks = {} /\ \A f \in Files : delivered[f] = "none"

(* A row in table chunks, which ProtocolStatus reports to the sender as     *)
(* received, stands for bytes that were written and synced: they are in the *)
(* .part, or the file has been delivered.  No crash, aborted request or     *)
(* torn write comes between.  (What other bytes may be is not told apart.)  *)
Written(c) == bytes[c] = "good" \/ (changed /\ bytes[c] = "bad")
Backed(c) == Written(c) \/ delivered[FileOf[c]] # "none"
ChunkRowBacked == \A c \in chunks : Backed(c)

(* Finalize reports Completed only when it has moved every file, also when  *)
(* several Finalize, Cancel and Retry requests overlap.                     *)
CompletedMeansDelivered ==
    row.status = "Completed" => \A f \in Files : delivered[f] # "none"

(* Finalize checks all files before it moves the first one: once one file   *)
(* is at its destination every other one is delivered or complete on disk.  *)
(* Meant for a sender whose chunks agree with its manifest.                 *)
AllVerifiedBeforeAnyCommit ==
    (~changed /\ \E f \in Files : delivered[f] # "none") =>
        \A g \in Files : delivered[g] # "none" \/ (g \in parts /\ Intact(g))

(* A transfer that is Completed or Cancelled stays so until the history is  *)
(* cleared.                                                                *)
TerminalIsFinal ==
    [][row.status \in {"Completed", "Cancelled"} =>
          row'.status \in {row.status, "Absent"}]_vars

(* It does as long as each request comes after the one before has returned. *)
TerminalIsFinalInTurn ==
    [][row.status \in {"Completed", "Cancelled"} /\ ~overlapped =>
          row'.status \in {row.status, "Absent"}]_vars

(* While the receiver says Receiving and nobody is working on the transfer, *)
(* every chunk it reports as received is in the .part, where Finalize will  *)
(* look for it: the sender may skip it.                                    *)
ResumeMapTruthful ==
    (row.status = "Receiving" /\ \A h \in Handlers : At(h, "idle")) =>
        \A c \in chunks : bytes[c] # "none"

(* What Finalize moves to the destination has the manifest's SHA-256.       *)
DeliveredIsVerified == \A f \in Files : delivered[f] # "bad"

(* It has if no two requests were served at a time, whatever is sent.       *)
DeliveredIsVerifiedInTurn == ~overlapped => DeliveredIsVerified

-----------------------------------------------------------------------------
(* Refinement of TransferLifecycle.                                        *)

(* A failed transfer whose history is cleared while a retry or a cancel of  *)
(* it is being served is gone when that request has failed, and comes back  *)
(* when it saves the row it had read.                                      *)
Remembered ==
    IF ~Exists /\ \E h \in Handlers : ~At(h, "idle") /\ job[h].t.status # "Queued"
    THEN "Failed" ELSE row.status

Lifecycle == INSTANCE TransferLifecycle WITH
    status <- Remembered,
    accepted <- consent,
    moved <- {f \in Files : delivered[f] # "none"},
    spoiled <- {f \in Files : delivered[f] = "bad"},
    orderly <- ~overlapped

(* However requests are interleaved with failures, crashes and restarts,    *)
(* the receiver's steps are those TransferLifecycle allows.                 *)
LifecycleKept == Lifecycle!LifecycleSpec

-----------------------------------------------------------------------------
(* The inductive strengthening of the invariants: what each goroutine's     *)
(* locals promise about the shared state.  It is checked as an invariant    *)
(* and proved in TransferReceiverProofs.                                   *)

AllDelivered == \A f \in Files : delivered[f] # "none"
Ready(g) == delivered[g] # "none" \/ (g \in parts /\ Intact(g))

(* Locals are set when the step that uses them is reached.                  *)
LocalOK(h) ==
    /\ job[h].pc \in {"write", "saveChunk"} =>
          job[h].upload \in [chunk : Chunks, data : Contents]
    /\ job[h].pc \in {"checksum", "commit"} => job[h].at \in Files
    /\ job[h].pc # "idle" => job[h].t.token \in Tokens

RowTokenOK == Exists => row.token \in Tokens

(* Approval is only ever copied from an accepted row, and a goroutine that  *)
(* touches the disk holds an approved copy.                                 *)
Consented(h) ==
    /\ job[h].t.approved => consent
    /\ job[h].pc \in {"write", "saveChunk", "saveVerifying", "listChunks",
                      "checksum", "commit"} => job[h].t.approved

(* The bytes of a chunk are on disk before its row is saved, and they are   *)
(* the manifest's as long as the sender's files are.                        *)
UploadBacked(h) ==
    /\ job[h].pc = "saveChunk" => Backed(job[h].upload.chunk)
    /\ job[h].pc = "write" /\ ~changed => job[h].upload.data = "good"

(* A copy that says Completed was read or made after the last rename.       *)
CommitProgress(h) ==
    /\ job[h].t.status = "Completed" => AllDelivered
    /\ job[h].pc = "commit" =>
          \A f \in Files : f < job[h].at => delivered[f] # "none"

(* What a Finalize has checked stays complete until it is delivered.        *)
VerifyProgress(h) ==
    /\ job[h].pc = "checksum" => \A g \in Files : g < job[h].at => Ready(g)
    /\ job[h].pc = "commit" => \A g \in Files : Ready(g)

TypeInv == TypeOK /\ RowTokenOK /\ \A h \in Handlers : LocalOK(h)

ConsentInv ==
    /\ NoBytesWithoutConsent
    /\ row.approved => consent
    /\ \A h \in Handlers : Consented(h)

BackedInv == ChunkRowBacked /\ \A h \in Handlers : UploadBacked(h)

DeliveredInv ==
    CompletedMeansDelivered /\ \A h \in Handlers : CommitProgress(h)

VerifiedInv ==
    /\ AllVerifiedBeforeAnyCommit
    /\ ~changed => \A h \in Handlers : VerifyProgress(h)

(* What is on its way after Accept carries the approval.                     *)
Approves(r) ==
    r.status \in {"Receiving", "Paused", "Verifying", "Completed", "Failed"} =>
        r.approved

ApprovedInv == Approves(row) /\ \A h \in Handlers : Approves(job[h].t)

(* When each request comes after the one before has returned, the goroutine *)
(* that serves one works on a transfer that is not over and will save a     *)
(* status that may follow; what it has checked is the manifest's, whether   *)
(* or not the sender's files changed.                                      *)
AloneInTurn == \A g, h \in Handlers : At(g, "idle") \/ At(h, "idle") \/ g = h

ServedInTurn(h) ==
    /\ job[h].pc # "idle" => row.status \notin {"Completed", "Cancelled"}
    /\ job[h].pc \in {"write", "saveChunk", "refresh", "saveVerifying"} =>
          row.status = "Receiving"
    /\ job[h].pc \in {"listChunks", "checksum", "commit"} =>
          row.status = "Verifying"
    /\ job[h].pc = "saveVerifying" => job[h].t.status = "Verifying"
    /\ job[h].pc \in {"save", "lockedSave", "finish"} =>
          job[h].t.status \in {Remembered} \cup Lifecycle!Follows[Remembered]
    /\ job[h].pc = "checksum" => \A f \in Files : f < job[h].at => Intact(f)
    /\ job[h].pc = "commit" => \A f \in Files : f >= job[h].at => Intact(f)

InTurnInv ==
    ~overlapped => /\ DeliveredIsVerified
                   /\ AloneInTurn
                   /\ \A h \in Handlers : ServedInTurn(h)

IndInv == TypeInv /\ ConsentInv /\ BackedInv /\ DeliveredInv /\ VerifiedInv
              /\ ApprovedInv /\ InTurnInv

-----------------------------------------------------------------------------
(* Fairness: goroutines are scheduled, and sync.Mutex hands the lock to a   *)
(* waiter that has waited long enough (its starvation mode).                *)
FairSpec ==
    /\ Spec
    /\ \A h \in Handlers : /\ WF_receiver(Continue(h))
                            /\ SF_receiver(Finish(h))
                            /\ SF_receiver(RefreshProgress(h))

(* Every request is answered: no early return of Pause, Resume, Retry,      *)
(* refreshProgress or finish keeps progressMu, and no handler waits for     *)
(* another one forever.                                                    *)
RequestsReturn == \A h \in Handlers : ~At(h, "idle") ~> At(h, "idle")

=============================================================================
