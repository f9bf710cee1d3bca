------------------------------ MODULE Staging ------------------------------
(***************************************************************************)
(* A browser's staging session (internal/transfer/staging.go): files are    *)
(* uploaded to staging/uploading/<id>, QueueStage renames that directory to *)
(* staging/queued/<id> and queues a transfer of its roots, DeleteStage and  *)
(* the hourly cleanup remove it.  stagingActive counts the uploads in       *)
(* progress; it is asked before a directory is renamed or removed, and not  *)
(* held.                                                                   *)
(*                                                                         *)
(* A file is addressed by path when it is opened or removed and by its open *)
(* handle when it is written, as in the file system: a handle stays with a  *)
(* directory that is renamed and outlives a file that is removed.  The same *)
(* goes for os.RemoveAll, which opens the directory, reads its names and    *)
(* unlinks them one by one, wherever the directory is by then.              *)
(* All staged paths are top level names, so that every path is a root, and  *)
(* a directory has fewer names than os.RemoveAll reads at once (1024).      *)
(* Left out: validation of names, storage limits (an upload may fail).      *)
(***************************************************************************)
EXTENDS Naturals, FiniteSets

CONSTANTS
    Uploads,      \* goroutines serving PUT files
    Managers,     \* goroutines serving queue and delete
    Cleaner,      \* the goroutine of Run, with its hourly cleanup
    Paths         \* relative paths the client uploads

ASSUME StagingAssumption ==
    /\ IsFiniteSet(Uploads)
    /\ Uploads \cap (Managers \cup {Cleaner}) = {} /\ Cleaner \notin Managers

Removers == Managers \cup {Cleaner}
Goroutines == Uploads \cup Removers
Content == {"absent", "partial", "full"}
Empty == [p \in Paths |-> "absent"]

VARIABLES
    session,    \* whether CreateStage has made the session
    uploading,  \* contents of staging/uploading/<id>
    queued,     \* contents of staging/queued/<id>
    isDir,      \* which of the two directories exist
    active,     \* stagingActive[id]
    pc,         \* per goroutine, its program counter
    path,       \* per upload, its relative path
    handle,     \* per upload, the directory its open file is in; per goroutine
                \* in os.RemoveAll, the directory it has open
    names,      \* per goroutine in os.RemoveAll, the names it has still to unlink
    roots,      \* per manager, the roots of its StageQueueRequest
    promoted,   \* roots of the transfer that was queued
    acked,      \* history: paths whose file has been answered with success
    removed,    \* history: paths a delete or the cleanup has removed a file at
    orderly,    \* history: the client has always let its uploads return before
                \* it queued or deleted, and the other way round
    careful     \* history: it has always queued files whose upload had returned
                \* with success, and had no two uploads of one path at a time;
                \* and no delete or cleanup has removed a file in the directory
                \* that QueueStage had renamed, or while it served a request

vars == <<session, uploading, queued, isDir, active, pc, path, handle, names,
          roots, promoted, acked, removed, orderly, careful>>
disk == <<uploading, queued, isDir>>
removal == <<names, removed>>
client == <<orderly, careful>>

UploadStep == {"idle", "begin", "open", "copy", "end"}
QueueStep == {"roots", "rename", "queue"}
RemoverStep == {"idle", "remove", "unlink"} \cup QueueStep

Init ==
    /\ session = FALSE
    /\ uploading = Empty /\ queued = Empty
    /\ isDir = {}
    /\ active = 0
    /\ pc = [g \in Goroutines |-> "idle"]
    /\ path = [u \in Uploads |-> "none"]
    /\ handle = [g \in Goroutines |-> "none"]
    /\ names = [g \in Removers |-> {}]
    /\ roots = [m \in Managers |-> {}]
    /\ promoted = {} /\ acked = {}
    /\ removed = {}
    /\ orderly = TRUE /\ careful = TRUE

At(g, step) == pc[g] = step
Goto(g, step) == pc' = [pc EXCEPT ![g] = step]
AllIdle(G) == \A g \in G : At(g, "idle")

(* A request of a manager is answered.                                      *)
Return(m) ==
    /\ Goto(m, "idle")
    /\ roots' = [roots EXCEPT ![m] = {}]

(* The handles, after directory from was renamed to to, or removed (to      *)
(* "gone"): an empty directory it replaces is gone.                        *)
MoveHandles(from, to) ==
    handle' = [g \in Goroutines |-> IF handle[g] = from THEN to
                                    ELSE IF handle[g] = to THEN "gone"
                                    ELSE handle[g]]

CreateStage ==
    /\ ~session
    /\ session' = TRUE
    /\ isDir' = isDir \cup {"uploading"}
    /\ UNCHANGED <<uploading, queued, active, pc, path, handle, roots, promoted,
                   acked, removal, client>>

-----------------------------------------------------------------------------
(* UploadStagedFile.                                                       *)

UploadStagedFile(u, p) ==
    /\ At(u, "idle")
    /\ session
    /\ "uploading" \in isDir
    /\ orderly' = (orderly /\ AllIdle(Managers))
    /\ careful' = /\ careful
                  /\ \A v \in Uploads : path[v] # p
                  /\ \A m \in Managers : p \notin roots[m]
    /\ path' = [path EXCEPT ![u] = p]
    /\ Goto(u, "begin")
    /\ UNCHANGED <<session, disk, active, handle, roots, promoted, acked, removal>>

BeginStageUpload(u) ==
    /\ At(u, "begin")
    /\ active' = active + 1
    /\ Goto(u, "open")
    /\ UNCHANGED <<session, disk, path, handle, roots, promoted, acked, removal,
                   client>>

(* Mutant of OpenFile: without O_EXCL an existing file is truncated.        *)
OpenFileTruncates(u) ==
    /\ At(u, "open")
    /\ isDir' = isDir \cup {"uploading"}
    /\ uploading' = [uploading EXCEPT ![path[u]] = "partial"]
    /\ handle' = [handle EXCEPT ![u] = "uploading"]
    /\ Goto(u, "copy")
    /\ UNCHANGED <<session, queued, active, path, roots, promoted, acked, removal,
                   client>>

(* Mutant of OpenFile: the deferred removal is set up before it is known    *)
(* that the file is this upload's.                                         *)
OpenFileRemoves(u) ==
    /\ At(u, "open")
    /\ isDir' = isDir \cup {"uploading"}
    /\ IF uploading[path[u]] = "absent"
       THEN /\ uploading' = [uploading EXCEPT ![path[u]] = "partial"]
            /\ handle' = [handle EXCEPT ![u] = "uploading"]
            /\ Goto(u, "copy")
       ELSE /\ uploading' = [uploading EXCEPT ![path[u]] = "absent"]
            /\ Goto(u, "end")
            /\ UNCHANGED handle
    /\ acked' = IF At(u, "copy")' THEN acked \ {path[u]} ELSE acked
    /\ UNCHANGED <<session, queued, active, path, roots, promoted, removal, client>>

(* MkdirAll of the parent, which is the session's directory, then OpenFile  *)
(* with O_CREATE and O_EXCL.                                               *)
OpenFile(u) ==
    /\ At(u, "open")
    /\ isDir' = isDir \cup {"uploading"}
    /\ IF uploading[path[u]] = "absent"
       THEN /\ uploading' = [uploading EXCEPT ![path[u]] = "partial"]
            /\ handle' = [handle EXCEPT ![u] = "uploading"]
            /\ acked' = acked \ {path[u]}
            /\ Goto(u, "copy")
       ELSE /\ Goto(u, "end")
            /\ UNCHANGED <<uploading, handle, acked>>
    /\ UNCHANGED <<session, queued, active, path, roots, promoted, removal, client>>

(* Too little storage, or a directory that is gone between the two calls.   *)
OpenFileFails(u) ==
    /\ At(u, "open")
    /\ isDir' \in {isDir, isDir \cup {"uploading"}}
    /\ Goto(u, "end")
    /\ UNCHANGED <<session, uploading, queued, active, path, handle, roots, promoted,
                   acked, removal, client>>

(* CopyBuffer, Sync and Close of the handle.                                *)
Copied(u) ==
    /\ At(u, "copy")
    /\ uploading' = IF handle[u] = "uploading"
                    THEN [uploading EXCEPT ![path[u]] = "full"] ELSE uploading
    /\ queued' = IF handle[u] = "queued"
                 THEN [queued EXCEPT ![path[u]] = "full"] ELSE queued
    /\ handle' = [handle EXCEPT ![u] = "none"]
    /\ acked' = acked \cup {path[u]}
    /\ Goto(u, "end")
    /\ UNCHANGED <<session, isDir, active, path, roots, promoted, removal, client>>

(* The uploads that write to the file at p in a directory lose its name.    *)
Unlinked(u, d, p) == u \in Uploads /\ handle[u] = d /\ path[u] = p

(* A short or interrupted body: the deferred os.Remove goes by the path, so *)
(* it removes whatever is there now.                                       *)
CopyFails(u) ==
    /\ At(u, "copy")
    /\ uploading' = [uploading EXCEPT ![path[u]] = "absent"]
    /\ handle' = [g \in Goroutines |->
                    IF g = u THEN "none"
                    ELSE IF Unlinked(g, "uploading", path[u]) THEN "gone"
                    ELSE handle[g]]
    /\ Goto(u, "end")
    /\ UNCHANGED <<session, queued, isDir, active, path, roots, promoted, acked,
                   removal, client>>

(* Mutant of EndStageUpload: the entry is deleted while others upload.      *)
EndStageUploadDeletes(u) ==
    /\ At(u, "end")
    /\ active' = IF active <= 2 THEN 0 ELSE active - 1
    /\ path' = [path EXCEPT ![u] = "none"]
    /\ Goto(u, "idle")
    /\ UNCHANGED <<session, disk, handle, roots, promoted, acked, removal, client>>

EndStageUpload(u) ==
    /\ At(u, "end")
    /\ active' = IF active <= 1 THEN 0 ELSE active - 1
    /\ path' = [path EXCEPT ![u] = "none"]
    /\ Goto(u, "idle")
    /\ UNCHANGED <<session, disk, handle, roots, promoted, acked, removal, client>>

-----------------------------------------------------------------------------
(* QueueStage.                                                             *)

StageUploadActive == active > 0

(* The manager's request may begin.                                        *)
ManagerMay(m) ==
    /\ At(m, "idle")
    /\ session
    /\ ~StageUploadActive
    /\ orderly' = (orderly /\ AllIdle(Uploads))

QueueStage(m, R) ==
    /\ ManagerMay(m)
    /\ careful' = (careful /\ R \subseteq acked /\ \A u \in Uploads : path[u] \notin R)
    /\ roots' = [roots EXCEPT ![m] = R]
    /\ Goto(m, "roots")
    /\ UNCHANGED <<session, disk, active, path, handle, promoted, acked, removal>>

LstatRoots(m) ==
    /\ At(m, "roots")
    /\ IF \A r \in roots[m] : uploading[r] # "absent"
       THEN Goto(m, "rename") /\ UNCHANGED roots
       ELSE Return(m)
    /\ UNCHANGED <<session, disk, active, path, handle, promoted, acked, removal,
                   client>>

(* os.Rename refuses a directory that it finds in its way; one that is made *)
(* after it has looked is replaced if it is empty.                         *)
MayRename(from, to, files) == from \in isDir /\ (to \in isDir => files = Empty)

(* Mutant of RenameStage: what is in the way is removed.                    *)
RenameStageReplaces(m) ==
    /\ At(m, "rename")
    /\ IF "uploading" \in isDir
       THEN /\ queued' = uploading /\ uploading' = Empty
            /\ isDir' = {"queued"}
            /\ MoveHandles("uploading", "queued")
            /\ Goto(m, "queue")
            /\ UNCHANGED roots
       ELSE /\ Return(m)
            /\ UNCHANGED <<disk, handle>>
    /\ UNCHANGED <<session, active, path, promoted, acked, removal, client>>

(* The rename of the whole directory; it may fail for any reason.           *)
RenameStage(m) ==
    /\ At(m, "rename")
    /\ \/ /\ MayRename("uploading", "queued", queued)
          /\ queued' = uploading /\ uploading' = Empty
          /\ isDir' = {"queued"}
          /\ MoveHandles("uploading", "queued")
          /\ Goto(m, "queue")
          /\ UNCHANGED roots
       \/ /\ Return(m)
          /\ UNCHANGED <<disk, handle>>
    /\ UNCHANGED <<session, active, path, promoted, acked, removal, client>>

(* Queue looks for every path and saves the transfer.                       *)
QueueSaved(m) ==
    /\ At(m, "queue")
    /\ \A r \in roots[m] : queued[r] # "absent"
    /\ promoted' = roots[m]
    /\ Return(m)
    /\ UNCHANGED <<session, disk, active, path, handle, acked, removal, client>>

(* Queue refuses (peer offline, not trusted...): the directory is renamed   *)
(* back.  If that fails, because something has taken its place or for any   *)
(* other reason, this is only logged.                                      *)
QueueFails(m) ==
    /\ At(m, "queue")
    /\ \/ /\ MayRename("queued", "uploading", uploading)
          /\ uploading' = queued /\ queued' = Empty
          /\ isDir' = {"uploading"}
          /\ MoveHandles("queued", "uploading")
       \/ UNCHANGED <<disk, handle>>
    /\ Return(m)
    /\ UNCHANGED <<session, active, path, promoted, acked, removal, client>>

-----------------------------------------------------------------------------
(* DeleteStage and removeExpiredStages.                                    *)

DeleteStage(m) ==
    /\ ManagerMay(m)
    /\ Goto(m, "remove")
    /\ UNCHANGED <<session, disk, active, path, handle, roots, promoted, acked,
                   removal, careful>>

(* The cleanup does not know the client: it runs at any time.               *)
ExpireStage ==
    /\ At(Cleaner, "idle")
    /\ "uploading" \in isDir
    /\ ~StageUploadActive
    /\ Goto(Cleaner, "remove")
    /\ UNCHANGED <<session, disk, active, path, handle, roots, promoted, acked,
                   removal, client>>

(* os.RemoveAll opens the directory and reads its names.                    *)
ReadNames(g) ==
    /\ At(g, "remove")
    /\ IF "uploading" \in isDir
       THEN /\ handle' = [handle EXCEPT ![g] = "uploading"]
            /\ names' = [names EXCEPT ![g] = {p \in Paths : uploading[p] # "absent"}]
            /\ Goto(g, "unlink")
       ELSE /\ Goto(g, "idle")
            /\ UNCHANGED <<handle, names>>
    /\ UNCHANGED <<session, disk, active, path, roots, promoted, acked, removed,
                   client>>

FilesOf(d) == IF d = "uploading" THEN uploading
              ELSE IF d = "queued" THEN queued ELSE Empty

(* It unlinks a name in the directory it has open.                          *)
Unlink(g, p) ==
    /\ At(g, "unlink") /\ p \in names[g]
    /\ FilesOf(handle[g])[p] # "absent"
    /\ uploading' = IF handle[g] = "uploading"
                    THEN [uploading EXCEPT ![p] = "absent"] ELSE uploading
    /\ queued' = IF handle[g] = "queued"
                 THEN [queued EXCEPT ![p] = "absent"] ELSE queued
    /\ handle' = [u \in Goroutines |->
                    IF Unlinked(u, handle[g], p) THEN "gone" ELSE handle[u]]
    /\ names' = [names EXCEPT ![g] = @ \ {p}]
    /\ removed' = removed \cup {p}
    /\ careful' = /\ careful
                  /\ handle[g] # "queued"
                  /\ \A m \in Managers : pc[m] \notin QueueStep
    /\ UNCHANGED <<session, isDir, active, pc, path, roots, promoted, acked, orderly>>

(* It is gone already, or cannot be unlinked.                               *)
UnlinkFails(g, p) ==
    /\ At(g, "unlink") /\ p \in names[g]
    /\ names' = [names EXCEPT ![g] = @ \ {p}]
    /\ UNCHANGED <<session, disk, active, pc, path, handle, roots, promoted, acked,
                   removed, client>>

(* It removes the directory itself, by path, which fails if it is not empty,*)
(* or for any other reason.                                                *)
RemoveDirectory(g) ==
    /\ At(g, "unlink") /\ names[g] = {}
    /\ Goto(g, "idle")
    /\ \/ /\ uploading = Empty
          /\ isDir' = isDir \ {"uploading"}
          /\ handle' = [u \in Goroutines |->
                          IF u = g THEN "none"
                          ELSE IF handle[u] = "uploading" THEN "gone"
                          ELSE handle[u]]
       \/ /\ handle' = [handle EXCEPT ![g] = "none"]
          /\ UNCHANGED isDir
    /\ UNCHANGED <<session, uploading, queued, active, path, names, roots, promoted,
                   acked, removed, client>>

-----------------------------------------------------------------------------
(* The process dies: stagingActive and the handles are gone, the disk stays.*)
Crash ==
    /\ active' = 0
    /\ pc' = [g \in Goroutines |-> "idle"]
    /\ path' = [u \in Uploads |-> "none"]
    /\ handle' = [g \in Goroutines |-> "none"]
    /\ names' = [g \in Removers |-> {}]
    /\ roots' = [m \in Managers |-> {}]
    /\ UNCHANGED <<session, disk, promoted, acked, removed, client>>

UploadStepOf(u) ==
    \/ BeginStageUpload(u) \/ OpenFile(u) \/ OpenFileFails(u)
    \/ Copied(u) \/ CopyFails(u) \/ EndStageUpload(u)

ManagerStepOf(m) ==
    \/ LstatRoots(m) \/ RenameStage(m) \/ QueueSaved(m) \/ QueueFails(m)

RemoverStepOf(g) ==
    \/ ReadNames(g) \/ RemoveDirectory(g)
    \/ \E p \in Paths : Unlink(g, p) \/ UnlinkFails(g, p)

Next ==
    \/ CreateStage
    \/ \E u \in Uploads : (\E p \in Paths : UploadStagedFile(u, p)) \/ UploadStepOf(u)
    \/ \E m \in Managers : \/ \E R \in (SUBSET Paths) \ {{}} : QueueStage(m, R)
                           \/ DeleteStage(m) \/ ManagerStepOf(m)
    \/ ExpireStage
    \/ \E g \in Removers : RemoverStepOf(g)
    \/ Crash

Spec == Init /\ [][Next]_vars

-----------------------------------------------------------------------------
(* Properties.                                                             *)

(* Every variable has its type; a directory that does not exist is empty.   *)
TypeOK ==
    /\ session \in BOOLEAN
    /\ uploading \in [Paths -> Content] /\ queued \in [Paths -> Content]
    /\ isDir \subseteq {"uploading", "queued"}
    /\ "uploading" \notin isDir => uploading = Empty
    /\ "queued" \notin isDir => queued = Empty
    /\ active \in Nat
    /\ pc \in [Goroutines -> UploadStep \cup RemoverStep]
    /\ path \in [Uploads -> Paths \cup {"none"}]
    /\ handle \in [Goroutines -> {"none", "uploading", "queued", "gone"}]
    /\ names \in [Removers -> SUBSET Paths]
    /\ roots \in [Managers -> SUBSET Paths]
    /\ promoted \subseteq Paths /\ acked \subseteq Paths /\ removed \subseteq Paths
    /\ orderly \in BOOLEAN /\ careful \in BOOLEAN

(* Uploads between beginStageUpload and endStageUpload.                     *)
InProgress == {u \in Uploads : pc[u] \in {"open", "copy", "end"}}

(* stagingActive counts the uploads in progress, whichever of them fail and *)
(* in whatever order they end, so a session with an upload in progress is   *)
(* never taken for an idle one when it is asked.                            *)
ActiveIsExact == active = Cardinality(InProgress)

(* Only a fully uploaded session is promoted (the comment on CreateStage):  *)
(* every file of a transfer that QueueStage has queued is complete, if the  *)
(* client had the answer to its upload and uploads no path twice at a time, *)
(* whatever else is uploaded, queued and rolled back meanwhile, and after a *)
(* crash.  The exception is a removal, by a delete or the cleanup, that is  *)
(* not done when the queue request comes: it goes on unlinking, in the      *)
(* directory that QueueStage has renamed too.                              *)
PromotedIsComplete ==
    careful => \A p \in promoted : queued[p] = "full"

(* A session makes one transfer at most, however often the client repeats   *)
(* its request, one after the other or at the same time.                    *)
PromotedOnce ==
    [][\A m \in Managers :
          careful /\ QueueSaved(m) => promoted = {}]_vars

(* An upload that was answered with success is on disk, complete, unless a  *)
(* delete or the cleanup has removed its file: no upload that fails, no     *)
(* duplicate, no failed QueueStage, with or without its rollback, and no    *)
(* crash takes it away.                                                    *)
AcknowledgedKept ==
    orderly => \A p \in acked :
        p \in removed \/ uploading[p] = "full" \/ queued[p] = "full"

=============================================================================
