--------------------------- MODULE StagingProofs ---------------------------
(***************************************************************************)
(* Proofs about Staging, for any number of uploads, requests and paths.    *)
(* Two arguments, for the two kinds of client.  One that takes turns has   *)
(* one directory and one writer for each file, so that what was            *)
(* acknowledged stays.  One that only queues files it has the answer for   *)
(* may go on with other uploads and requests: the files of a request are   *)
(* then nobody else's from QueueStage on, and as they are in the queued    *)
(* directory, no other request gets past its rename.                       *)
(***************************************************************************)
EXTENDS Staging, FiniteSetTheorems, TLAPS

(* A path, a handle and roots belong to a request that is served.          *)
Locals ==
    /\ \A u \in Uploads : pc[u] # "idle" => path[u] \in Paths
    /\ \A u \in Uploads : handle[u] # "none" <=> pc[u] = "copy"
    /\ \A m \in Managers : roots[m] # {} <=> pc[m] \in QueueStep

(* A file that is written to has a name, unless its handle is "gone".       *)
OpenInv ==
    \A u \in Uploads :
        /\ handle[u] = "uploading" => uploading[path[u]] # "absent"
        /\ handle[u] = "queued" => queued[path[u]] # "absent"

(* There are no requests before there is a session.                        *)
Fresh == ~session => isDir = {} /\ \A g \in Goroutines : pc[g] = "idle"

(* A client that takes turns uploads, or it queues and deletes: the two     *)
(* directories do not both exist, and there are uploads of one only.       *)
TurnInv ==
    /\ \A m \in Managers, u \in Uploads : pc[m] = "idle" \/ pc[u] = "idle"
    /\ "uploading" \notin isDir \/ "queued" \notin isDir
    /\ (\E u \in Uploads : pc[u] # "idle") => "queued" \notin isDir

(* A file that is written to is not complete and has one writer, unless it  *)
(* was removed.                                                            *)
WriterInv ==
    /\ \A u \in Uploads :
          pc[u] = "copy" =>
             \/ handle[u] = "uploading" /\ uploading[path[u]] = "partial"
             \/ handle[u] = "gone" /\ path[u] \in removed
    /\ \A u, v \in Uploads :
          u # v /\ handle[u] = "uploading" /\ handle[v] = "uploading"
             => path[u] # path[v]

KeptInv ==
    \A p \in acked : p \in removed \/ uploading[p] = "full" \/ queued[p] = "full"

OrderlyInv == orderly => TurnInv /\ WriterInv /\ KeptInv

Queueing == \E m \in Managers : pc[m] = "queue"

(* A careful client has one upload of a path at a time.                    *)
UploadsApart ==
    \A u, v \in Uploads :
        u # v /\ pc[u] # "idle" /\ pc[v] # "idle" => path[u] # path[v]

(* The file an upload writes to is not acknowledged, and is in no directory *)
(* but the one of its handle.                                              *)
OwnFile ==
    \A u \in Uploads :
        pc[u] = "copy" =>
            /\ path[u] \notin acked
            /\ handle[u] = "uploading" => uploading[path[u]] = "partial"
            /\ handle[u] = "queued" => /\ uploading[path[u]] = "absent"
                                       /\ queued[path[u]] = "partial"
            /\ handle[u] = "gone" => /\ uploading[path[u]] = "absent"
                                     /\ Queueing => queued[path[u]] = "absent"

(* An acknowledged file is not partial, and no rollback can make it so.    *)
AckedInv ==
    \A p \in acked :
        /\ uploading[p] # "partial"
        /\ Queueing /\ queued[p] = "partial" => uploading[p] = "full"

(* The roots of a queue request are acknowledged and nobody uploads them.   *)
ServedInv ==
    \A m \in Managers :
        pc[m] \in QueueStep =>
            /\ roots[m] \subseteq acked
            /\ \A u \in Uploads : pc[u] # "idle" => path[u] \notin roots[m]

(* Before the rename they are complete, or another request has renamed them.*)
RenameInv ==
    \A m \in Managers : pc[m] = "rename" =>
        \A r \in roots[m] :
            \/ uploading[r] = "full"
            \/ uploading[r] = "absent" /\ queued[r] = "full"

(* After it they are complete, this request is alone, and nothing has been  *)
(* promoted.                                                               *)
QueueInv ==
    \A m \in Managers : pc[m] = "queue" =>
        /\ \A r \in roots[m] : queued[r] = "full"
        /\ \A n \in Managers : pc[n] = "queue" => n = m
        /\ promoted = {}

PromotedInv == \A p \in promoted : queued[p] = "full"

CarefulInv ==
    careful => /\ UploadsApart /\ OwnFile /\ AckedInv /\ ServedInv
               /\ RenameInv /\ QueueInv /\ PromotedInv

StageInv == TypeOK /\ Locals /\ OpenInv /\ Fresh /\ OrderlyInv /\ CarefulInv

(* The goroutines are of three kinds.                                      *)
LEMMA Kinds ==
    /\ \A u \in Uploads : u \in Goroutines /\ u \notin Managers /\ u # Cleaner
    /\ \A m \in Managers : m \in Goroutines /\ m \notin Uploads /\ m # Cleaner
    /\ \A g \in Removers : g \in Goroutines /\ g \notin Uploads
    /\ Cleaner \in Goroutines
BY StagingAssumption DEF Goroutines, Removers

(* Only g goes to another step.                                            *)
LEMMA GotoEffect ==
    ASSUME TypeOK, NEW g \in Goroutines, NEW step \in UploadStep \cup RemoverStep,
           Goto(g, step)
    PROVE  /\ pc'[g] = step
           /\ \A o \in Goroutines : o # g => pc'[o] = pc[o]
           /\ pc' \in [Goroutines -> UploadStep \cup RemoverStep]
BY DEF Goto, TypeOK

(* What of an upload's step concerns the managers, and the other way round. *)
LEMMA UploadGoto ==
    ASSUME TypeOK, NEW u \in Uploads, NEW step \in UploadStep, Goto(u, step)
    PROVE  /\ pc'[u] = step
           /\ \A v \in Uploads : v # u => pc'[v] = pc[v]
           /\ \A m \in Managers : pc'[m] = pc[m]
           /\ pc' \in [Goroutines -> UploadStep \cup RemoverStep]
BY Kinds, GotoEffect

LEMMA RemoverGoto ==
    ASSUME TypeOK, NEW g \in Removers, NEW step \in RemoverStep, Goto(g, step)
    PROVE  /\ pc'[g] = step
           /\ \A u \in Uploads : pc'[u] = pc[u]
           /\ \A n \in Managers : n # g => pc'[n] = pc[n]
           /\ pc' \in [Goroutines -> UploadStep \cup RemoverStep]
BY Kinds, GotoEffect

(* The parts of the type invariant the steps use.                          *)
LEMMA Parts ==
    ASSUME TypeOK
    PROVE  /\ uploading \in [Paths -> Content] /\ queued \in [Paths -> Content]
           /\ path \in [Uploads -> Paths \cup {"none"}]
           /\ handle \in [Goroutines -> {"none", "uploading", "queued", "gone"}]
           /\ names \in [Removers -> SUBSET Paths]
           /\ roots \in [Managers -> SUBSET Paths]
           /\ promoted \subseteq Paths /\ acked \subseteq Paths
           /\ isDir \subseteq {"uploading", "queued"}
           /\ "uploading" \notin isDir => uploading = Empty
           /\ "queued" \notin isDir => queued = Empty
           /\ \A p \in Paths : Empty[p] = "absent"
           /\ Empty \in [Paths -> Content]
BY DEF TypeOK, Empty, Content

(* The session begins with an empty directory.                             *)
LEMMA CreateStageStep ==
    ASSUME StageInv, CreateStage
    PROVE  StageInv'
<1>e. /\ session = FALSE /\ session' = TRUE /\ isDir' = isDir \cup {"uploading"}
      /\ UNCHANGED <<uploading, queued, active, pc, path, handle, names, roots,
                     promoted, acked, removed, orderly, careful>>
  BY DEF CreateStage, removal, client
<1>t. TypeOK'
  BY <1>e, Kinds, Parts DEF TypeOK, StageInv
<1>l. Locals'
  BY <1>e, Kinds, Parts DEF Locals, QueueStep, StageInv
<1>n. OpenInv'
  BY <1>e, Kinds, Parts DEF OpenInv, Locals, StageInv
<1>f. Fresh'
  BY <1>e, Kinds DEF Fresh, StageInv
<1>o. OrderlyInv'
  BY <1>e, Kinds, Parts
     DEF OrderlyInv, TurnInv, WriterInv, KeptInv, OpenInv, Locals, Fresh, StageInv
<1>c. CarefulInv'
  BY <1>e, Kinds, Parts
     DEF CarefulInv, UploadsApart, OwnFile, AckedInv, ServedInv, RenameInv,
        QueueInv, PromotedInv, Queueing, QueueStep, OpenInv, Locals, Fresh,
        StageInv
<1> QED BY <1>t, <1>l, <1>n, <1>f, <1>o, <1>c DEF StageInv

(* An orderly client uploads when no request is served; a careful one      *)
(* uploads other paths.                                                    *)
LEMMA UploadStagedFileStep ==
    ASSUME StageInv, NEW u \in Uploads, NEW p \in Paths, UploadStagedFile(u, p)
    PROVE  StageInv'
<1>e. /\ pc[u] = "idle" /\ pc'[u] = "begin" /\ \A v \in Uploads : v # u => pc'[v] = pc[v]
      /\ \A m \in Managers : pc'[m] = pc[m]
      /\ pc' \in [Goroutines -> UploadStep \cup RemoverStep]
      /\ session /\ "uploading" \in isDir
      /\ orderly' \in BOOLEAN /\ careful' \in BOOLEAN
      /\ orderly' => orderly /\ \A m \in Managers : pc[m] = "idle"
      /\ careful' => /\ careful /\ \A v \in Uploads : path[v] # p
                     /\ \A m \in Managers : p \notin roots[m]
      /\ path' = [path EXCEPT ![u] = p]
      /\ UNCHANGED <<session, uploading, queued, isDir, active, handle, names,
                     roots, promoted, acked, removed>>
  <2>1. /\ orderly' = (orderly /\ AllIdle(Managers))
        /\ careful' = (careful /\ (\A v \in Uploads : path[v] # p)
                               /\ \A m \in Managers : p \notin roots[m])
    BY Zenon DEF UploadStagedFile
  <2>2. orderly' \in BOOLEAN /\ careful' \in BOOLEAN
    BY <2>1
  <2>3. orderly' => orderly /\ AllIdle(Managers)
    BY <2>1, Zenon
  <2>4. careful' => /\ careful /\ \A v \in Uploads : path[v] # p
                    /\ \A m \in Managers : p \notin roots[m]
    BY <2>1, Zenon
  <2>5. /\ pc[u] = "idle" /\ pc'[u] = "begin"
        /\ \A v \in Uploads : v # u => pc'[v] = pc[v]
        /\ \A m \in Managers : pc'[m] = pc[m]
        /\ pc' \in [Goroutines -> UploadStep \cup RemoverStep]
        /\ session /\ "uploading" \in isDir
        /\ path' = [path EXCEPT ![u] = p]
        /\ UNCHANGED <<session, uploading, queued, isDir, active, handle, names,
                       roots, promoted, acked, removed>>
    BY UploadGoto DEF UploadStagedFile, At, disk, removal, StageInv, UploadStep
  <2> QED BY <2>2, <2>3, <2>4, <2>5 DEF AllIdle, At
<1>t. TypeOK'
  BY <1>e, Kinds, Parts DEF TypeOK, StageInv
<1>l. Locals'
  BY <1>e, Kinds, Parts DEF Locals, QueueStep, StageInv
<1>n. OpenInv'
  BY <1>e, Kinds, Parts DEF OpenInv, Locals, StageInv
<1>f. Fresh'
  BY <1>e, Kinds DEF Fresh, StageInv
<1>o. OrderlyInv'
  BY <1>e, Kinds, Parts
     DEF OrderlyInv, TurnInv, WriterInv, KeptInv, OpenInv, Locals, Content,
        StageInv
<1>c. CarefulInv'
  BY <1>e, Kinds, Parts
     DEF CarefulInv, UploadsApart, OwnFile, AckedInv, ServedInv, RenameInv,
        QueueInv, PromotedInv, Queueing, QueueStep, OpenInv, Locals, Content,
        StageInv
<1> QED BY <1>t, <1>l, <1>n, <1>f, <1>o, <1>c DEF StageInv

(* Only the count changes.                                                 *)
LEMMA BeginStageUploadStep ==
    ASSUME StageInv, NEW u \in Uploads, BeginStageUpload(u)
    PROVE  StageInv'
<1>e. /\ pc[u] = "begin" /\ pc'[u] = "open" /\ \A v \in Uploads : v # u => pc'[v] = pc[v]
      /\ \A m \in Managers : pc'[m] = pc[m]
      /\ pc' \in [Goroutines -> UploadStep \cup RemoverStep]
      /\ active' = active + 1
      /\ UNCHANGED <<session, uploading, queued, isDir, path, handle, names, roots,
                     promoted, acked, removed, orderly, careful>>
  BY UploadGoto DEF BeginStageUpload, At, disk, removal, client, StageInv, UploadStep
<1>t. TypeOK'
  BY <1>e, Kinds, Parts DEF TypeOK, StageInv
<1>l. Locals'
  BY <1>e, Kinds, Parts DEF Locals, QueueStep, StageInv
<1>n. OpenInv'
  BY <1>e, Kinds, Parts DEF OpenInv, Locals, StageInv
<1>f. Fresh'
  BY <1>e, Kinds DEF Fresh, StageInv
<1>o. OrderlyInv'
  BY <1>e, Kinds, Parts
     DEF OrderlyInv, TurnInv, WriterInv, KeptInv, OpenInv, Locals, Content,
        StageInv
<1>c. CarefulInv'
  BY <1>e, Kinds, Parts
     DEF CarefulInv, UploadsApart, OwnFile, AckedInv, ServedInv, RenameInv,
        QueueInv, PromotedInv, Queueing, QueueStep, OpenInv, Locals, Content,
        StageInv
<1> QED BY <1>t, <1>l, <1>n, <1>f, <1>o, <1>c DEF StageInv

(* A new file has the upload that opened it as its writer.                 *)
LEMMA OpenFileStep ==
    ASSUME StageInv, NEW u \in Uploads, OpenFile(u)
    PROVE  StageInv'
<1>e. /\ pc[u] = "open" /\ pc'[u] \in {"copy", "end"}
      /\ \A v \in Uploads : v # u => pc'[v] = pc[v]
      /\ \A m \in Managers : pc'[m] = pc[m]
      /\ pc' \in [Goroutines -> UploadStep \cup RemoverStep]
      /\ isDir' = isDir \cup {"uploading"}
      /\ \/ /\ uploading[path[u]] = "absent" /\ pc'[u] = "copy"
            /\ uploading' = [uploading EXCEPT ![path[u]] = "partial"]
            /\ handle' = [handle EXCEPT ![u] = "uploading"]
            /\ acked' = acked \ {path[u]}
         \/ pc'[u] = "end" /\ UNCHANGED <<uploading, handle, acked>>
      /\ UNCHANGED <<session, queued, active, path, names, roots, promoted,
                     removed, orderly, careful>>
  BY UploadGoto DEF OpenFile, At, disk, removal, client, StageInv, UploadStep
<1>t. TypeOK'
  <2>1. path[u] \in Paths
    BY <1>e DEF StageInv, Locals
  <2>2. uploading' \in [Paths -> Content] /\ acked' \subseteq Paths
    BY <1>e, <2>1, Parts DEF Content, StageInv
  <2>3. handle' \in [Goroutines -> {"none", "uploading", "queued", "gone"}]
    BY <1>e, Parts DEF StageInv
  <2> QED BY <1>e, <2>1, <2>2, <2>3 DEF TypeOK, StageInv
<1>l. Locals'
  BY <1>e, Kinds, Parts DEF Locals, QueueStep, StageInv
<1>n. OpenInv'
  BY <1>e, Kinds, Parts DEF OpenInv, Locals, StageInv
<1>f. Fresh'
  BY <1>e, Kinds DEF Fresh, StageInv
<1>o. OrderlyInv'
  BY <1>e, Kinds, Parts
     DEF OrderlyInv, TurnInv, WriterInv, KeptInv, OpenInv, Locals, Content,
        StageInv
<1>c. CarefulInv'
  BY <1>e, Kinds, Parts
     DEF CarefulInv, UploadsApart, OwnFile, AckedInv, ServedInv, RenameInv,
        QueueInv, PromotedInv, Queueing, QueueStep, OpenInv, Locals, Content,
        StageInv
<1> QED BY <1>t, <1>l, <1>n, <1>f, <1>o, <1>c DEF StageInv

(* An upload that fails here may have made the directory.                  *)
LEMMA OpenFileFailsStep ==
    ASSUME StageInv, NEW u \in Uploads, OpenFileFails(u)
    PROVE  StageInv'
<1>e. /\ pc[u] = "open" /\ pc'[u] = "end" /\ \A v \in Uploads : v # u => pc'[v] = pc[v]
      /\ \A m \in Managers : pc'[m] = pc[m]
      /\ pc' \in [Goroutines -> UploadStep \cup RemoverStep]
      /\ isDir' \in {isDir, isDir \cup {"uploading"}}
      /\ UNCHANGED <<session, uploading, queued, active, path, handle, names,
                     roots, promoted, acked, removed, orderly, careful>>
  BY UploadGoto DEF OpenFileFails, At, disk, removal, client, StageInv, UploadStep
<1>t. TypeOK'
  BY <1>e, Kinds, Parts DEF TypeOK, StageInv
<1>l. Locals'
  BY <1>e, Kinds, Parts DEF Locals, QueueStep, StageInv
<1>n. OpenInv'
  BY <1>e, Kinds, Parts DEF OpenInv, Locals, StageInv
<1>f. Fresh'
  BY <1>e, Kinds DEF Fresh, StageInv
<1>o. OrderlyInv'
  BY <1>e, Kinds, Parts
     DEF OrderlyInv, TurnInv, WriterInv, KeptInv, OpenInv, Locals, Content,
        StageInv
<1>c. CarefulInv'
  BY <1>e, Kinds, Parts
     DEF CarefulInv, UploadsApart, OwnFile, AckedInv, ServedInv, RenameInv,
        QueueInv, PromotedInv, Queueing, QueueStep, OpenInv, Locals, Content,
        StageInv
<1> QED BY <1>t, <1>l, <1>n, <1>f, <1>o, <1>c DEF StageInv

(* The writer of a file completes it.                                      *)
LEMMA CopiedStep ==
    ASSUME StageInv, NEW u \in Uploads, Copied(u)
    PROVE  StageInv'
<1>e. /\ pc[u] = "copy" /\ pc'[u] = "end" /\ \A v \in Uploads : v # u => pc'[v] = pc[v]
      /\ \A m \in Managers : pc'[m] = pc[m]
      /\ pc' \in [Goroutines -> UploadStep \cup RemoverStep]
      /\ uploading' = IF handle[u] = "uploading"
                      THEN [uploading EXCEPT ![path[u]] = "full"] ELSE uploading
      /\ queued' = IF handle[u] = "queued"
                   THEN [queued EXCEPT ![path[u]] = "full"] ELSE queued
      /\ handle' = [handle EXCEPT ![u] = "none"]
      /\ acked' = acked \cup {path[u]}
      /\ UNCHANGED <<session, isDir, active, path, names, roots, promoted, removed,
                     orderly, careful>>
  BY UploadGoto DEF Copied, At, disk, removal, client, StageInv, UploadStep
<1>t. TypeOK'
  <2>1. path[u] \in Paths
    BY <1>e DEF StageInv, Locals
  <2>2. uploading' \in [Paths -> Content] /\ queued' \in [Paths -> Content]
    BY <1>e, <2>1, Parts DEF Content, StageInv
  <2>3. handle' \in [Goroutines -> {"none", "uploading", "queued", "gone"}]
    BY <1>e, Parts DEF StageInv
  <2>4. /\ "uploading" \notin isDir' => uploading' = Empty
        /\ "queued" \notin isDir' => queued' = Empty
    BY <1>e, <2>1, Parts DEF StageInv, Locals, OpenInv
  <2> QED BY <1>e, <2>1, <2>2, <2>3, <2>4 DEF TypeOK, StageInv
<1>l. Locals'
  BY <1>e, Kinds, Parts DEF Locals, QueueStep, StageInv
<1>n. OpenInv'
  BY <1>e, Kinds, Parts DEF OpenInv, Locals, StageInv
<1>f. Fresh'
  BY <1>e, Kinds DEF Fresh, StageInv
<1>o. OrderlyInv'
  <2> SUFFICES ASSUME orderly' PROVE TurnInv' /\ WriterInv' /\ KeptInv'
    BY DEF OrderlyInv
  <2>1. orderly /\ TurnInv /\ WriterInv /\ KeptInv
    BY <1>e DEF StageInv, OrderlyInv
  <2>2. TurnInv'
    BY <1>e, <2>1, Kinds, Parts DEF TurnInv, OpenInv, Locals, StageInv
  <2>3. WriterInv'
    BY <1>e, <2>1, Kinds, Parts
       DEF WriterInv, TurnInv, KeptInv, OpenInv, Locals, StageInv
  <2>4. KeptInv'
    BY <1>e, <2>1, Kinds, Parts
       DEF KeptInv, WriterInv, TurnInv, OpenInv, Locals, StageInv
  <2> QED BY <2>2, <2>3, <2>4
<1>c. CarefulInv'
  <2> SUFFICES ASSUME careful'
               PROVE  /\ UploadsApart' /\ OwnFile' /\ AckedInv' /\ ServedInv'
                      /\ RenameInv' /\ QueueInv' /\ PromotedInv'
    BY DEF CarefulInv
  <2>1. /\ careful /\ UploadsApart /\ OwnFile /\ AckedInv /\ ServedInv
        /\ RenameInv /\ QueueInv /\ PromotedInv
    BY <1>e DEF StageInv, CarefulInv
  <2>2. UploadsApart' /\ ServedInv'
    BY <1>e, <2>1, Kinds, Parts
       DEF UploadsApart, ServedInv, Queueing, QueueStep, OpenInv, Locals, StageInv
  <2>3. OwnFile'
    BY <1>e, <2>1, Kinds, Parts
       DEF OwnFile, UploadsApart, QueueInv, ServedInv, Queueing, QueueStep,
          OpenInv, Locals, StageInv
  <2>4. AckedInv'
    BY <1>e, <2>1, Kinds, Parts
       DEF AckedInv, OwnFile, UploadsApart, QueueInv, Queueing, QueueStep, OpenInv,
          Locals, StageInv
  <2>5. RenameInv'
    BY <1>e, <2>1, Kinds, Parts
       DEF RenameInv, ServedInv, AckedInv, QueueInv, Queueing, QueueStep, OpenInv,
          Locals, StageInv
  <2>6. QueueInv' /\ PromotedInv'
    BY <1>e, <2>1, Kinds, Parts
       DEF QueueInv, RenameInv, ServedInv, PromotedInv, OwnFile, Queueing,
          QueueStep, OpenInv, Locals, StageInv
  <2> QED BY <2>2, <2>3, <2>4, <2>5, <2>6
<1> QED BY <1>t, <1>l, <1>n, <1>f, <1>o, <1>c DEF StageInv

(* The file that a failed upload removes is its own, or is gone already.   *)
LEMMA CopyFailsStep ==
    ASSUME StageInv, NEW u \in Uploads, CopyFails(u)
    PROVE  StageInv'
<1>e. /\ pc[u] = "copy" /\ pc'[u] = "end" /\ \A v \in Uploads : v # u => pc'[v] = pc[v]
      /\ \A m \in Managers : pc'[m] = pc[m]
      /\ pc' \in [Goroutines -> UploadStep \cup RemoverStep]
      /\ uploading' = [uploading EXCEPT ![path[u]] = "absent"]
      /\ handle' = [g \in Goroutines |->
                      IF g = u THEN "none"
                      ELSE IF g \in Uploads /\ handle[g] = "uploading" /\ path[g] = path[u]
                      THEN "gone" ELSE handle[g]]
      /\ UNCHANGED <<session, queued, isDir, active, path, names, roots, promoted,
                     acked, removed, orderly, careful>>
  BY UploadGoto DEF CopyFails, Unlinked, At, disk, removal, client, StageInv, UploadStep
<1>t. TypeOK'
  BY <1>e, Kinds, Parts DEF TypeOK, StageInv
<1>l. Locals'
  BY <1>e, Kinds, Parts DEF Locals, QueueStep, StageInv
<1>n. OpenInv'
  BY <1>e, Kinds, Parts DEF OpenInv, Locals, StageInv
<1>f. Fresh'
  BY <1>e, Kinds DEF Fresh, StageInv
<1>o. OrderlyInv'
  BY <1>e, Kinds, Parts
     DEF OrderlyInv, TurnInv, WriterInv, KeptInv, OpenInv, Locals, Content,
        StageInv
<1>c. CarefulInv'
  BY <1>e, Kinds, Parts
     DEF CarefulInv, UploadsApart, OwnFile, AckedInv, ServedInv, RenameInv,
        QueueInv, PromotedInv, Queueing, QueueStep, OpenInv, Locals, Content,
        StageInv
<1> QED BY <1>t, <1>l, <1>n, <1>f, <1>o, <1>c DEF StageInv

(* The upload has no handle any more.                                      *)
LEMMA EndStageUploadStep ==
    ASSUME StageInv, NEW u \in Uploads, EndStageUpload(u)
    PROVE  StageInv'
<1>e. /\ pc[u] = "end" /\ pc'[u] = "idle" /\ \A v \in Uploads : v # u => pc'[v] = pc[v]
      /\ \A m \in Managers : pc'[m] = pc[m]
      /\ pc' \in [Goroutines -> UploadStep \cup RemoverStep]
      /\ path' = [path EXCEPT ![u] = "none"]
      /\ active' = IF active <= 1 THEN 0 ELSE active - 1
      /\ UNCHANGED <<session, uploading, queued, isDir, handle, names, roots,
                     promoted, acked, removed, orderly, careful>>
  BY UploadGoto DEF EndStageUpload, At, disk, removal, client, StageInv, UploadStep
<1>t. TypeOK'
  BY <1>e, Kinds, Parts DEF TypeOK, StageInv
<1>l. Locals'
  BY <1>e, Kinds, Parts DEF Locals, QueueStep, StageInv
<1>n. OpenInv'
  BY <1>e, Kinds, Parts DEF OpenInv, Locals, StageInv
<1>f. Fresh'
  BY <1>e, Kinds DEF Fresh, StageInv
<1>o. OrderlyInv'
  BY <1>e, Kinds, Parts
     DEF OrderlyInv, TurnInv, WriterInv, KeptInv, OpenInv, Locals, Content,
        StageInv
<1>c. CarefulInv'
  BY <1>e, Kinds, Parts
     DEF CarefulInv, UploadsApart, OwnFile, AckedInv, ServedInv, RenameInv,
        QueueInv, PromotedInv, Queueing, QueueStep, OpenInv, Locals, Content,
        StageInv
<1> QED BY <1>t, <1>l, <1>n, <1>f, <1>o, <1>c DEF StageInv

(* A queue request begins: a careful client has the answers for its roots. *)
LEMMA QueueStageStep ==
    ASSUME StageInv, NEW m \in Managers, NEW R \in (SUBSET Paths) \ {{}}, QueueStage(m, R)
    PROVE  StageInv'
<1>e. /\ pc[m] = "idle" /\ pc'[m] = "roots" /\ session
      /\ \A u \in Uploads : pc'[u] = pc[u]
      /\ \A n \in Managers : n # m => pc'[n] = pc[n]
      /\ pc' \in [Goroutines -> UploadStep \cup RemoverStep]
      /\ orderly' \in BOOLEAN /\ careful' \in BOOLEAN
      /\ orderly' => orderly /\ \A u \in Uploads : pc[u] = "idle"
      /\ careful' => careful /\ R \subseteq acked /\ \A u \in Uploads : path[u] \notin R
      /\ roots' = [roots EXCEPT ![m] = R]
      /\ UNCHANGED <<session, uploading, queued, isDir, active, path, handle,
                     names, promoted, acked, removed>>
  <2>1. /\ orderly' = (orderly /\ AllIdle(Uploads))
        /\ careful' = (careful /\ R \subseteq acked /\ \A u \in Uploads : path[u] \notin R)
    BY Zenon DEF QueueStage, ManagerMay, client
  <2>2. orderly' \in BOOLEAN /\ careful' \in BOOLEAN
    BY <2>1 DEF StageInv, TypeOK
  <2>3. orderly' => orderly /\ AllIdle(Uploads)
    BY <2>1, Zenon
  <2>4. careful' => careful /\ R \subseteq acked /\ \A u \in Uploads : path[u] \notin R
    BY <2>1, Zenon
  <2>5. /\ pc[m] = "idle" /\ pc'[m] = "roots" /\ session
        /\ \A u \in Uploads : pc'[u] = pc[u]
        /\ \A n \in Managers : n # m => pc'[n] = pc[n]
        /\ pc' \in [Goroutines -> UploadStep \cup RemoverStep]
        /\ roots' = [roots EXCEPT ![m] = R]
        /\ UNCHANGED <<session, uploading, queued, isDir, active, path, handle,
                       names, promoted, acked, removed>>
    BY Kinds, RemoverGoto DEF QueueStage, ManagerMay, At, disk, removal, client, StageInv, RemoverStep,
       QueueStep, Removers
  <2> QED BY <2>2, <2>3, <2>4, <2>5 DEF AllIdle, At
<1>t. TypeOK'
  BY <1>e, Kinds, Parts DEF TypeOK, StageInv
<1>l. Locals'
  BY <1>e, Kinds, Parts DEF Locals, QueueStep, StageInv
<1>n. OpenInv'
  BY <1>e, Kinds, Parts DEF OpenInv, Locals, StageInv
<1>f. Fresh'
  BY <1>e, Kinds DEF Fresh, StageInv
<1>o. OrderlyInv'
  BY <1>e, Kinds, Parts
     DEF OrderlyInv, TurnInv, WriterInv, KeptInv, OpenInv, Locals, Content,
        StageInv
<1>c. CarefulInv'
  BY <1>e, Kinds, Parts
     DEF CarefulInv, UploadsApart, OwnFile, AckedInv, ServedInv, RenameInv,
        QueueInv, PromotedInv, Queueing, QueueStep, OpenInv, Locals, Content,
        StageInv
<1> QED BY <1>t, <1>l, <1>n, <1>f, <1>o, <1>c DEF StageInv

(* A delete request begins.                                                *)
LEMMA DeleteStageStep ==
    ASSUME StageInv, NEW m \in Managers, DeleteStage(m)
    PROVE  StageInv'
<1>e. /\ pc[m] = "idle" /\ pc'[m] = "remove" /\ session
      /\ \A u \in Uploads : pc'[u] = pc[u]
      /\ \A n \in Managers : n # m => pc'[n] = pc[n]
      /\ pc' \in [Goroutines -> UploadStep \cup RemoverStep]
      /\ orderly' \in BOOLEAN /\ careful' \in BOOLEAN
      /\ orderly' => orderly /\ \A u \in Uploads : pc[u] = "idle"
      /\ careful' => careful
      /\ UNCHANGED <<session, uploading, queued, isDir, active, path, handle,
                     names, roots, promoted, acked, removed>>
  <2>1. orderly' = (orderly /\ AllIdle(Uploads)) /\ UNCHANGED careful
    BY Zenon DEF DeleteStage, ManagerMay, client
  <2>2. orderly' \in BOOLEAN /\ careful' \in BOOLEAN
    BY <2>1 DEF StageInv, TypeOK
  <2>3. orderly' => orderly /\ AllIdle(Uploads)
    BY <2>1, Zenon
  <2>4. careful' => careful
    BY <2>1, Zenon
  <2>5. /\ pc[m] = "idle" /\ pc'[m] = "remove" /\ session
        /\ \A u \in Uploads : pc'[u] = pc[u]
        /\ \A n \in Managers : n # m => pc'[n] = pc[n]
        /\ pc' \in [Goroutines -> UploadStep \cup RemoverStep]
        /\ UNCHANGED <<session, uploading, queued, isDir, active, path, handle,
                       names, roots, promoted, acked, removed>>
    BY Kinds, RemoverGoto DEF DeleteStage, ManagerMay, At, disk, removal, client, StageInv, RemoverStep,
       QueueStep, Removers
  <2> QED BY <2>2, <2>3, <2>4, <2>5 DEF AllIdle, At
<1>t. TypeOK'
  BY <1>e, Kinds, Parts DEF TypeOK, StageInv
<1>l. Locals'
  BY <1>e, Kinds, Parts DEF Locals, QueueStep, StageInv
<1>n. OpenInv'
  BY <1>e, Kinds, Parts DEF OpenInv, Locals, StageInv
<1>f. Fresh'
  BY <1>e, Kinds DEF Fresh, StageInv
<1>o. OrderlyInv'
  BY <1>e, Kinds, Parts
     DEF OrderlyInv, TurnInv, WriterInv, KeptInv, OpenInv, Locals, Content,
        StageInv
<1>c. CarefulInv'
  BY <1>e, Kinds, Parts
     DEF CarefulInv, UploadsApart, OwnFile, AckedInv, ServedInv, RenameInv,
        QueueInv, PromotedInv, Queueing, QueueStep, OpenInv, Locals, Content,
        StageInv
<1> QED BY <1>t, <1>l, <1>n, <1>f, <1>o, <1>c DEF StageInv

(* Acknowledged files that are there are complete.                         *)
LEMMA LstatRootsStep ==
    ASSUME StageInv, NEW m \in Managers, LstatRoots(m)
    PROVE  StageInv'
<1>e. /\ pc[m] = "roots"
      /\ \A u \in Uploads : pc'[u] = pc[u]
      /\ \A n \in Managers : n # m => pc'[n] = pc[n]
      /\ pc' \in [Goroutines -> UploadStep \cup RemoverStep]
      /\ \/ /\ pc'[m] = "rename" /\ UNCHANGED roots
            /\ \A r \in roots[m] : uploading[r] # "absent"
         \/ pc'[m] = "idle" /\ roots' = [roots EXCEPT ![m] = {}]
      /\ UNCHANGED <<session, uploading, queued, isDir, active, path, handle,
                     names, promoted, acked, removed, orderly, careful>>
  BY Kinds, RemoverGoto
     DEF LstatRoots, Return, At, disk, removal, client, StageInv, RemoverStep, QueueStep,
         Removers
<1>t. TypeOK'
  BY <1>e, Kinds, Parts DEF TypeOK, StageInv
<1>l. Locals'
  BY <1>e, Kinds, Parts DEF Locals, QueueStep, StageInv
<1>n. OpenInv'
  BY <1>e, Kinds, Parts DEF OpenInv, Locals, StageInv
<1>f. Fresh'
  BY <1>e, Kinds DEF Fresh, StageInv
<1>o. OrderlyInv'
  BY <1>e, Kinds, Parts
     DEF OrderlyInv, TurnInv, WriterInv, KeptInv, OpenInv, Locals, Content,
        StageInv
<1>c. CarefulInv'
  BY <1>e, Kinds, Parts
     DEF CarefulInv, UploadsApart, OwnFile, AckedInv, ServedInv, RenameInv,
        QueueInv, PromotedInv, Queueing, QueueStep, OpenInv, Locals, Content,
        StageInv
<1> QED BY <1>t, <1>l, <1>n, <1>f, <1>o, <1>c DEF StageInv

(* The queued directory was empty, so that no other request is at Queue and *)
(* nothing was promoted.                                                   *)
LEMMA RenameStageStep ==
    ASSUME StageInv, NEW m \in Managers, RenameStage(m)
    PROVE  StageInv'
<1>e. /\ pc[m] = "rename"
      /\ \A u \in Uploads : pc'[u] = pc[u]
      /\ \A n \in Managers : n # m => pc'[n] = pc[n]
      /\ pc' \in [Goroutines -> UploadStep \cup RemoverStep]
      /\ \/ /\ "uploading" \in isDir /\ ("queued" \in isDir => queued = Empty)
            /\ queued' = uploading /\ uploading' = Empty /\ isDir' = {"queued"}
            /\ handle' = [g \in Goroutines |-> IF handle[g] = "uploading" THEN "queued"
                                                  ELSE IF handle[g] = "queued" THEN "gone"
                                                  ELSE handle[g]]
            /\ pc'[m] = "queue" /\ UNCHANGED roots
         \/ /\ pc'[m] = "idle" /\ roots' = [roots EXCEPT ![m] = {}]
            /\ UNCHANGED <<uploading, queued, isDir, handle>>
      /\ UNCHANGED <<session, active, path, names, promoted, acked, removed,
                     orderly, careful>>
  BY Kinds, RemoverGoto
     DEF RenameStage, Return, At, disk, removal, client, StageInv, RemoverStep, QueueStep,
         Removers, MayRename, MoveHandles
<1>t. TypeOK'
  BY <1>e, Kinds, Parts DEF TypeOK, StageInv
<1>l. Locals'
  BY <1>e, Kinds, Parts DEF Locals, QueueStep, StageInv
<1>n. OpenInv'
  BY <1>e, Kinds, Parts DEF OpenInv, Locals, StageInv
<1>f. Fresh'
  BY <1>e, Kinds DEF Fresh, StageInv
<1>o. OrderlyInv'
  <2> SUFFICES ASSUME orderly' PROVE TurnInv' /\ WriterInv' /\ KeptInv'
    BY DEF OrderlyInv
  <2>1. orderly /\ TurnInv /\ WriterInv /\ KeptInv
    BY <1>e DEF StageInv, OrderlyInv
  <2>2. TurnInv'
    BY <1>e, <2>1, Kinds, Parts DEF TurnInv, OpenInv, Locals, StageInv
  <2>3. WriterInv'
    BY <1>e, <2>1, Kinds, Parts
       DEF WriterInv, TurnInv, KeptInv, OpenInv, Locals, StageInv
  <2>4. KeptInv'
    BY <1>e, <2>1, Kinds, Parts
       DEF KeptInv, WriterInv, TurnInv, OpenInv, Locals, StageInv
  <2> QED BY <2>2, <2>3, <2>4
<1>c. CarefulInv'
  <2> SUFFICES ASSUME careful'
               PROVE  /\ UploadsApart' /\ OwnFile' /\ AckedInv' /\ ServedInv'
                      /\ RenameInv' /\ QueueInv' /\ PromotedInv'
    BY DEF CarefulInv
  <2>1. /\ careful /\ UploadsApart /\ OwnFile /\ AckedInv /\ ServedInv
        /\ RenameInv /\ QueueInv /\ PromotedInv
    BY <1>e DEF StageInv, CarefulInv
  <2>2. UploadsApart' /\ ServedInv'
    BY <1>e, <2>1, Kinds, Parts
       DEF UploadsApart, ServedInv, Queueing, QueueStep, OpenInv, Locals, StageInv
  <2>3. OwnFile'
    BY <1>e, <2>1, Kinds, Parts
       DEF OwnFile, UploadsApart, QueueInv, ServedInv, Queueing, QueueStep,
          OpenInv, Locals, StageInv
  <2>4. AckedInv'
    BY <1>e, <2>1, Kinds, Parts
       DEF AckedInv, OwnFile, UploadsApart, QueueInv, Queueing, QueueStep, OpenInv,
          Locals, StageInv
  <2>5. RenameInv'
    BY <1>e, <2>1, Kinds, Parts
       DEF RenameInv, ServedInv, AckedInv, QueueInv, Queueing, QueueStep, OpenInv,
          Locals, StageInv
  <2>6. QueueInv' /\ PromotedInv'
    BY <1>e, <2>1, Kinds, Parts
       DEF QueueInv, RenameInv, ServedInv, PromotedInv, OwnFile, Queueing,
          QueueStep, OpenInv, Locals, StageInv
  <2> QED BY <2>2, <2>3, <2>4, <2>5, <2>6
<1> QED BY <1>t, <1>l, <1>n, <1>f, <1>o, <1>c DEF StageInv

(* The roots that are promoted are complete.                               *)
LEMMA QueueSavedStep ==
    ASSUME StageInv, NEW m \in Managers, QueueSaved(m)
    PROVE  StageInv'
<1>e. /\ pc[m] = "queue"
      /\ \A u \in Uploads : pc'[u] = pc[u]
      /\ \A n \in Managers : n # m => pc'[n] = pc[n]
      /\ pc' \in [Goroutines -> UploadStep \cup RemoverStep]
      /\ pc'[m] = "idle" /\ roots' = [roots EXCEPT ![m] = {}]
      /\ promoted' = roots[m]
      /\ UNCHANGED <<session, uploading, queued, isDir, active, path, handle,
                     names, acked, removed, orderly, careful>>
  BY Kinds, RemoverGoto
     DEF QueueSaved, Return, At, disk, removal, client, StageInv, RemoverStep, QueueStep,
         Removers
<1>t. TypeOK'
  BY <1>e, Kinds, Parts DEF TypeOK, StageInv
<1>l. Locals'
  BY <1>e, Kinds, Parts DEF Locals, QueueStep, StageInv
<1>n. OpenInv'
  BY <1>e, Kinds, Parts DEF OpenInv, Locals, StageInv
<1>f. Fresh'
  BY <1>e, Kinds DEF Fresh, StageInv
<1>o. OrderlyInv'
  <2> SUFFICES ASSUME orderly' PROVE TurnInv' /\ WriterInv' /\ KeptInv'
    BY DEF OrderlyInv
  <2>1. orderly /\ TurnInv /\ WriterInv /\ KeptInv
    BY <1>e DEF StageInv, OrderlyInv
  <2>2. TurnInv'
    BY <1>e, <2>1, Kinds, Parts DEF TurnInv, OpenInv, Locals, StageInv
  <2>3. WriterInv'
    BY <1>e, <2>1, Kinds, Parts
       DEF WriterInv, TurnInv, KeptInv, OpenInv, Locals, StageInv
  <2>4. KeptInv'
    BY <1>e, <2>1, Kinds, Parts
       DEF KeptInv, WriterInv, TurnInv, OpenInv, Locals, StageInv
  <2> QED BY <2>2, <2>3, <2>4
<1>c. CarefulInv'
  <2> SUFFICES ASSUME careful'
               PROVE  /\ UploadsApart' /\ OwnFile' /\ AckedInv' /\ ServedInv'
                      /\ RenameInv' /\ QueueInv' /\ PromotedInv'
    BY DEF CarefulInv
  <2>1. /\ careful /\ UploadsApart /\ OwnFile /\ AckedInv /\ ServedInv
        /\ RenameInv /\ QueueInv /\ PromotedInv
    BY <1>e DEF StageInv, CarefulInv
  <2>2. UploadsApart' /\ ServedInv'
    BY <1>e, <2>1, Kinds, Parts
       DEF UploadsApart, ServedInv, Queueing, QueueStep, OpenInv, Locals, StageInv
  <2>3. OwnFile'
    BY <1>e, <2>1, Kinds, Parts
       DEF OwnFile, UploadsApart, QueueInv, ServedInv, Queueing, QueueStep,
          OpenInv, Locals, StageInv
  <2>4. AckedInv'
    BY <1>e, <2>1, Kinds, Parts
       DEF AckedInv, OwnFile, UploadsApart, QueueInv, Queueing, QueueStep, OpenInv,
          Locals, StageInv
  <2>5. RenameInv'
    BY <1>e, <2>1, Kinds, Parts
       DEF RenameInv, ServedInv, AckedInv, QueueInv, Queueing, QueueStep, OpenInv,
          Locals, StageInv
  <2>6. QueueInv' /\ PromotedInv'
    BY <1>e, <2>1, Kinds, Parts
       DEF QueueInv, RenameInv, ServedInv, PromotedInv, OwnFile, Queueing,
          QueueStep, OpenInv, Locals, StageInv
  <2> QED BY <2>2, <2>3, <2>4, <2>5, <2>6
<1> QED BY <1>t, <1>l, <1>n, <1>f, <1>o, <1>c DEF StageInv

(* The rollback replaces no file, and fails without harm.                  *)
LEMMA QueueFailsStep ==
    ASSUME StageInv, NEW m \in Managers, QueueFails(m)
    PROVE  StageInv'
<1>e. /\ pc[m] = "queue"
      /\ \A u \in Uploads : pc'[u] = pc[u]
      /\ \A n \in Managers : n # m => pc'[n] = pc[n]
      /\ pc' \in [Goroutines -> UploadStep \cup RemoverStep]
      /\ pc'[m] = "idle" /\ roots' = [roots EXCEPT ![m] = {}]
      /\ \/ /\ "queued" \in isDir /\ ("uploading" \in isDir => uploading = Empty)
            /\ uploading' = queued /\ queued' = Empty /\ isDir' = {"uploading"}
            /\ handle' = [g \in Goroutines |-> IF handle[g] = "queued" THEN "uploading"
                                                  ELSE IF handle[g] = "uploading" THEN "gone"
                                                  ELSE handle[g]]
         \/ UNCHANGED <<uploading, queued, isDir, handle>>
      /\ UNCHANGED <<session, active, path, names, promoted, acked, removed,
                     orderly, careful>>
  BY Kinds, RemoverGoto
     DEF QueueFails, Return, At, disk, removal, client, StageInv, RemoverStep, QueueStep,
         Removers, MayRename, MoveHandles
<1>t. TypeOK'
  BY <1>e, Kinds, Parts DEF TypeOK, StageInv
<1>l. Locals'
  BY <1>e, Kinds, Parts DEF Locals, QueueStep, StageInv
<1>n. OpenInv'
  BY <1>e, Kinds, Parts DEF OpenInv, Locals, StageInv
<1>f. Fresh'
  BY <1>e, Kinds DEF Fresh, StageInv
<1>o. OrderlyInv'
  <2> SUFFICES ASSUME orderly' PROVE TurnInv' /\ WriterInv' /\ KeptInv'
    BY DEF OrderlyInv
  <2>1. orderly /\ TurnInv /\ WriterInv /\ KeptInv
    BY <1>e DEF StageInv, OrderlyInv
  <2>2. TurnInv'
    BY <1>e, <2>1, Kinds, Parts DEF TurnInv, OpenInv, Locals, StageInv
  <2>3. WriterInv'
    BY <1>e, <2>1, Kinds, Parts
       DEF WriterInv, TurnInv, KeptInv, OpenInv, Locals, StageInv
  <2>4. KeptInv'
    BY <1>e, <2>1, Kinds, Parts
       DEF KeptInv, WriterInv, TurnInv, OpenInv, Locals, StageInv
  <2> QED BY <2>2, <2>3, <2>4
<1>c. CarefulInv'
  <2> SUFFICES ASSUME careful'
               PROVE  /\ UploadsApart' /\ OwnFile' /\ AckedInv' /\ ServedInv'
                      /\ RenameInv' /\ QueueInv' /\ PromotedInv'
    BY DEF CarefulInv
  <2>1. /\ careful /\ UploadsApart /\ OwnFile /\ AckedInv /\ ServedInv
        /\ RenameInv /\ QueueInv /\ PromotedInv
    BY <1>e DEF StageInv, CarefulInv
  <2>2. UploadsApart' /\ ServedInv'
    BY <1>e, <2>1, Kinds, Parts
       DEF UploadsApart, ServedInv, Queueing, QueueStep, OpenInv, Locals, StageInv
  <2>3. OwnFile'
    BY <1>e, <2>1, Kinds, Parts
       DEF OwnFile, UploadsApart, QueueInv, ServedInv, Queueing, QueueStep,
          OpenInv, Locals, StageInv
  <2>4. AckedInv'
    BY <1>e, <2>1, Kinds, Parts
       DEF AckedInv, OwnFile, UploadsApart, QueueInv, Queueing, QueueStep, OpenInv,
          Locals, StageInv
  <2>5. RenameInv'
    BY <1>e, <2>1, Kinds, Parts
       DEF RenameInv, ServedInv, AckedInv, QueueInv, Queueing, QueueStep, OpenInv,
          Locals, StageInv
  <2>6. QueueInv' /\ PromotedInv'
    BY <1>e, <2>1, Kinds, Parts
       DEF QueueInv, RenameInv, ServedInv, PromotedInv, OwnFile, Queueing,
          QueueStep, OpenInv, Locals, StageInv
  <2> QED BY <2>2, <2>3, <2>4, <2>5, <2>6
<1> QED BY <1>t, <1>l, <1>n, <1>f, <1>o, <1>c DEF StageInv

(* The cleanup only decides.                                               *)
LEMMA ExpireStageStep ==
    ASSUME StageInv, ExpireStage
    PROVE  StageInv'
<1>e. /\ "uploading" \in isDir
      /\ \A u \in Uploads : pc'[u] = pc[u]
      /\ \A m \in Managers : pc'[m] = pc[m]
      /\ pc' \in [Goroutines -> UploadStep \cup RemoverStep]
      /\ UNCHANGED <<session, uploading, queued, isDir, active, path, handle,
                     names, roots, promoted, acked, removed, orderly, careful>>
  BY Kinds, GotoEffect DEF ExpireStage, disk, removal, client, StageInv, RemoverStep
<1>t. TypeOK'
  BY <1>e, Kinds, Parts DEF TypeOK, StageInv
<1>l. Locals'
  BY <1>e, Kinds, Parts DEF Locals, QueueStep, StageInv
<1>n. OpenInv'
  BY <1>e, Kinds, Parts DEF OpenInv, Locals, StageInv
<1>f. Fresh'
  BY <1>e, Kinds DEF Fresh, StageInv
<1>o. OrderlyInv'
  BY <1>e, Kinds, Parts
     DEF OrderlyInv, TurnInv, WriterInv, KeptInv, OpenInv, Locals, Content,
        StageInv
<1>c. CarefulInv'
  BY <1>e, Kinds, Parts
     DEF CarefulInv, UploadsApart, OwnFile, AckedInv, ServedInv, RenameInv,
        QueueInv, PromotedInv, Queueing, QueueStep, OpenInv, Locals, Content,
        StageInv
<1> QED BY <1>t, <1>l, <1>n, <1>f, <1>o, <1>c DEF StageInv

(* The names are read; nobody else notices.                                *)
LEMMA ReadNamesStep ==
    ASSUME StageInv, NEW g \in Removers, ReadNames(g)
    PROVE  StageInv'
<1>e. /\ pc[g] = "remove" /\ pc'[g] \in {"idle", "unlink"}
      /\ \A u \in Uploads : pc'[u] = pc[u]
      /\ \A n \in Managers : n # g => pc'[n] = pc[n]
      /\ pc' \in [Goroutines -> UploadStep \cup RemoverStep]
      /\ names' \in [Removers -> SUBSET Paths]
      /\ handle' \in [Goroutines -> {"none", "uploading", "queued", "gone"}]
      /\ \A u \in Uploads : handle'[u] = handle[u]
      /\ UNCHANGED <<session, uploading, queued, isDir, active, path, roots,
                     promoted, acked, removed, orderly, careful>>
  BY Kinds, RemoverGoto, Parts DEF ReadNames, At, disk, client, StageInv, RemoverStep
<1>t. TypeOK'
  BY <1>e, Kinds, Parts DEF TypeOK, StageInv
<1>l. Locals'
  BY <1>e, Kinds, Parts DEF Locals, QueueStep, StageInv
<1>n. OpenInv'
  BY <1>e, Kinds, Parts DEF OpenInv, Locals, StageInv
<1>f. Fresh'
  BY <1>e, Kinds DEF Fresh, StageInv
<1>o. OrderlyInv'
  BY <1>e, Kinds, Parts
     DEF OrderlyInv, TurnInv, WriterInv, KeptInv, OpenInv, Locals, Content,
        StageInv
<1>c. CarefulInv'
  BY <1>e, Kinds, Parts
     DEF CarefulInv, UploadsApart, OwnFile, AckedInv, ServedInv, RenameInv,
        QueueInv, PromotedInv, Queueing, QueueStep, OpenInv, Locals, Content,
        StageInv
<1> QED BY <1>t, <1>l, <1>n, <1>f, <1>o, <1>c DEF StageInv

(* A file that is removed while a request is served, or in the queued      *)
(* directory, ends what a careful client is promised.                      *)
LEMMA UnlinkStep ==
    ASSUME StageInv, NEW g \in Removers, NEW p \in Paths, Unlink(g, p)
    PROVE  StageInv'
<1>e. /\ pc[g] = "unlink" /\ UNCHANGED pc
      /\ handle[g] \in {"uploading", "queued"}
      /\ uploading' = IF handle[g] = "uploading"
                      THEN [uploading EXCEPT ![p] = "absent"] ELSE uploading
      /\ queued' = IF handle[g] = "queued"
                   THEN [queued EXCEPT ![p] = "absent"] ELSE queued
      /\ handle' = [u \in Goroutines |->
                      IF u \in Uploads /\ handle[u] = handle[g] /\ path[u] = p
                      THEN "gone" ELSE handle[u]]
      /\ names' \in [Removers -> SUBSET Paths]
      /\ removed' = removed \cup {p}
      /\ careful' \in BOOLEAN
      /\ careful' => /\ careful /\ handle[g] = "uploading"
                     /\ \A m \in Managers : pc[m] \notin QueueStep
      /\ UNCHANGED <<session, isDir, active, path, roots, promoted, acked,
                     orderly>>
  <2>1. careful' = (careful /\ handle[g] # "queued"
                            /\ \A m \in Managers : pc[m] \notin QueueStep)
    BY Zenon DEF Unlink
  <2>2. careful' \in BOOLEAN
    BY <2>1
  <2>3. careful' => /\ careful /\ handle[g] # "queued"
                    /\ \A m \in Managers : pc[m] \notin QueueStep
    BY <2>1, Zenon
  <2>4. handle[g] \in {"uploading", "queued"}
    <3>1. FilesOf(handle[g])[p] # "absent"
      BY DEF Unlink
    <3> QED BY <3>1, Parts, Kinds DEF FilesOf, StageInv
  <2>5. names' \in [Removers -> SUBSET Paths]
    BY Parts DEF Unlink, StageInv
  <2>6. /\ pc[g] = "unlink" /\ UNCHANGED pc
        /\ uploading' = IF handle[g] = "uploading"
                        THEN [uploading EXCEPT ![p] = "absent"] ELSE uploading
        /\ queued' = IF handle[g] = "queued"
                     THEN [queued EXCEPT ![p] = "absent"] ELSE queued
        /\ handle' = [u \in Goroutines |->
                        IF u \in Uploads /\ handle[u] = handle[g] /\ path[u] = p
                        THEN "gone" ELSE handle[u]]
        /\ removed' = removed \cup {p}
        /\ UNCHANGED <<session, isDir, active, path, roots, promoted, acked,
                       orderly>>
    BY Zenon DEF Unlink, Unlinked, At
  <2> QED BY <2>2, <2>3, <2>4, <2>5, <2>6
<1>t. TypeOK'
  BY <1>e, Kinds, Parts DEF TypeOK, StageInv
<1>l. Locals'
  BY <1>e, Kinds, Parts DEF Locals, QueueStep, StageInv
<1>n. OpenInv'
  BY <1>e, Kinds, Parts DEF OpenInv, Locals, StageInv
<1>f. Fresh'
  BY <1>e, Kinds DEF Fresh, StageInv
<1>o. OrderlyInv'
  BY <1>e, Kinds, Parts
     DEF OrderlyInv, TurnInv, WriterInv, KeptInv, OpenInv, Locals, Content,
        StageInv
<1>c. CarefulInv'
  BY <1>e, Kinds, Parts
     DEF CarefulInv, UploadsApart, OwnFile, AckedInv, ServedInv, RenameInv,
        QueueInv, PromotedInv, Queueing, QueueStep, OpenInv, Locals, Content,
        StageInv
<1> QED BY <1>t, <1>l, <1>n, <1>f, <1>o, <1>c DEF StageInv

(* Only a name is done with.                                               *)
LEMMA UnlinkFailsStep ==
    ASSUME StageInv, NEW g \in Removers, NEW p \in Paths, UnlinkFails(g, p)
    PROVE  StageInv'
<1>e. /\ names' \in [Removers -> SUBSET Paths]
      /\ pc[g] = "unlink"
      /\ UNCHANGED <<session, uploading, queued, isDir, active, pc, path, handle,
                     roots, promoted, acked, removed, orderly, careful>>
  BY Parts DEF UnlinkFails, At, disk, client, StageInv
<1>t. TypeOK'
  BY <1>e, Kinds, Parts DEF TypeOK, StageInv
<1>l. Locals'
  BY <1>e, Kinds, Parts DEF Locals, QueueStep, StageInv
<1>n. OpenInv'
  BY <1>e, Kinds, Parts DEF OpenInv, Locals, StageInv
<1>f. Fresh'
  BY <1>e, Kinds DEF Fresh, StageInv
<1>o. OrderlyInv'
  BY <1>e, Kinds, Parts
     DEF OrderlyInv, TurnInv, WriterInv, KeptInv, OpenInv, Locals, Content,
        StageInv
<1>c. CarefulInv'
  BY <1>e, Kinds, Parts
     DEF CarefulInv, UploadsApart, OwnFile, AckedInv, ServedInv, RenameInv,
        QueueInv, PromotedInv, Queueing, QueueStep, OpenInv, Locals, Content,
        StageInv
<1> QED BY <1>t, <1>l, <1>n, <1>f, <1>o, <1>c DEF StageInv

(* An empty directory has no file that is written to.                      *)
LEMMA RemoveDirectoryStep ==
    ASSUME StageInv, NEW g \in Removers, RemoveDirectory(g)
    PROVE  StageInv'
<1>e. /\ pc[g] = "unlink" /\ pc'[g] = "idle"
      /\ \A u \in Uploads : pc'[u] = pc[u]
      /\ \A n \in Managers : n # g => pc'[n] = pc[n]
      /\ pc' \in [Goroutines -> UploadStep \cup RemoverStep]
      /\ \/ uploading = Empty /\ isDir' = isDir \ {"uploading"}
         \/ UNCHANGED isDir
      /\ handle' \in [Goroutines -> {"none", "uploading", "queued", "gone"}]
      /\ \A u \in Uploads : \/ handle'[u] = handle[u]
                            \/ uploading = Empty /\ handle[u] = "uploading" /\ handle'[u] = "gone"
      /\ UNCHANGED <<session, uploading, queued, active, path, names, roots,
                     promoted, acked, removed, orderly, careful>>
  BY Kinds, RemoverGoto, Parts DEF RemoveDirectory, At, disk, client, StageInv, RemoverStep
<1>t. TypeOK'
  BY <1>e, Kinds, Parts DEF TypeOK, StageInv
<1>l. Locals'
  BY <1>e, Kinds, Parts DEF Locals, QueueStep, StageInv
<1>n. OpenInv'
  BY <1>e, Kinds, Parts DEF OpenInv, Locals, StageInv
<1>f. Fresh'
  BY <1>e, Kinds DEF Fresh, StageInv
<1>o. OrderlyInv'
  BY <1>e, Kinds, Parts
     DEF OrderlyInv, TurnInv, WriterInv, KeptInv, OpenInv, Locals, Content,
        StageInv
<1>c. CarefulInv'
  BY <1>e, Kinds, Parts
     DEF CarefulInv, UploadsApart, OwnFile, AckedInv, ServedInv, RenameInv,
        QueueInv, PromotedInv, Queueing, QueueStep, OpenInv, Locals, Content,
        StageInv
<1> QED BY <1>t, <1>l, <1>n, <1>f, <1>o, <1>c DEF StageInv

(* After a crash no handle is open and no request is served.               *)
LEMMA CrashStep ==
    ASSUME StageInv, Crash
    PROVE  StageInv'
<1>e. /\ \A g \in Goroutines : pc'[g] = "idle"
      /\ pc' \in [Goroutines -> UploadStep \cup RemoverStep]
      /\ active' = 0
      /\ path' = [u \in Uploads |-> "none"] /\ handle' = [g \in Goroutines |-> "none"]
      /\ names' = [g \in Removers |-> {}] /\ roots' = [m \in Managers |-> {}]
      /\ UNCHANGED <<session, uploading, queued, isDir, promoted, acked, removed,
                     orderly, careful>>
  BY DEF Crash, disk, client, UploadStep, RemoverStep
<1>t. TypeOK'
  BY <1>e, Kinds, Parts DEF TypeOK, StageInv
<1>l. Locals'
  BY <1>e, Kinds, Parts DEF Locals, QueueStep, StageInv
<1>n. OpenInv'
  BY <1>e, Kinds, Parts DEF OpenInv, Locals, StageInv
<1>f. Fresh'
  BY <1>e, Kinds DEF Fresh, StageInv
<1>o. OrderlyInv'
  BY <1>e, Kinds, Parts
     DEF OrderlyInv, TurnInv, WriterInv, KeptInv, OpenInv, Locals, Content,
        StageInv
<1>c. CarefulInv'
  BY <1>e, Kinds, Parts
     DEF CarefulInv, UploadsApart, OwnFile, AckedInv, ServedInv, RenameInv,
        QueueInv, PromotedInv, Queueing, QueueStep, OpenInv, Locals, Content,
        StageInv
<1> QED BY <1>t, <1>l, <1>n, <1>f, <1>o, <1>c DEF StageInv

(* All steps preserve what the properties rest on.                         *)
LEMMA NextInv == StageInv /\ [Next]_vars => StageInv'
<1> SUFFICES ASSUME StageInv, [Next]_vars PROVE StageInv'
  OBVIOUS
<1>1. CASE UNCHANGED vars
  BY <1>1 DEF vars, StageInv, TypeOK, Locals, OpenInv, Fresh, OrderlyInv, TurnInv,
     WriterInv, KeptInv, CarefulInv, Queueing, UploadsApart, OwnFile, AckedInv,
     ServedInv, RenameInv, QueueInv, PromotedInv
<1>2. ASSUME NEW u \in Uploads, UploadStepOf(u) PROVE StageInv'
  BY <1>2, BeginStageUploadStep, OpenFileStep, OpenFileFailsStep, CopiedStep,
     CopyFailsStep, EndStageUploadStep DEF UploadStepOf
<1>3. ASSUME NEW m \in Managers, ManagerStepOf(m) PROVE StageInv'
  BY <1>3, LstatRootsStep, RenameStageStep, QueueSavedStep, QueueFailsStep
     DEF ManagerStepOf
<1>4. ASSUME NEW g \in Removers, RemoverStepOf(g) PROVE StageInv'
  BY <1>4, ReadNamesStep, UnlinkStep, UnlinkFailsStep, RemoveDirectoryStep
     DEF RemoverStepOf
<1>5. CASE Next
  BY <1>2, <1>3, <1>4, <1>5, CreateStageStep, UploadStagedFileStep, QueueStageStep,
     DeleteStageStep, ExpireStageStep, CrashStep DEF Next
<1> QED BY <1>1, <1>5

LEMMA InitInv == Init => StageInv
<1> SUFFICES ASSUME Init PROVE StageInv
  OBVIOUS
<1> USE DEF Init
<1>1. \A g \in Goroutines : pc[g] = "idle" /\ handle[g] = "none"
  OBVIOUS
<1>2. TypeOK
  BY DEF TypeOK, Empty, Content, UploadStep, RemoverStep
<1>3. Locals /\ OpenInv /\ Fresh
  BY <1>1, Kinds DEF Locals, OpenInv, Fresh, QueueStep
<1>4. OrderlyInv
  BY <1>1, Kinds DEF OrderlyInv, TurnInv, WriterInv, KeptInv
<1>5. CarefulInv
  BY <1>1, Kinds DEF CarefulInv, Queueing, UploadsApart, OwnFile, AckedInv, ServedInv,
     RenameInv, QueueInv, PromotedInv, QueueStep
<1> QED BY <1>2, <1>3, <1>4, <1>5 DEF StageInv

(* The invariant of Staging.                                               *)
THEOREM StagingInvariant == Spec => []StageInv
BY InitInv, NextInv, PTL DEF Spec

(* The variables of Staging keep their types, and a directory that does not *)
(* exist has no files.                                                     *)
THEOREM TypeCorrect == Spec => []TypeOK
<1>1. StageInv => TypeOK
  BY DEF StageInv
<1> QED BY <1>1, StagingInvariant, PTL

(* QueueStage only queues files that are complete, for a client that has    *)
(* the answers for them, whatever uploads of other files, requests,        *)
(* rollbacks and crashes come between (staging.go:109, staging.go:141).     *)
THEOREM PromotedAreComplete == Spec => []PromotedIsComplete
<1>1. StageInv => PromotedIsComplete
  BY DEF StageInv, CarefulInv, PromotedInv, PromotedIsComplete
<1> QED BY <1>1, StagingInvariant, PTL

(* However many queue requests are served, one after the other or together, *)
(* one of them is saved (staging.go:141).                                  *)
THEOREM PromotedAtMostOnce == Spec => PromotedOnce
<1>1. StageInv /\ [Next]_vars =>
        [\A m \in Managers : careful /\ QueueSaved(m) => promoted = {}]_vars
  <2> SUFFICES ASSUME StageInv, NEW m \in Managers, careful, QueueSaved(m)
               PROVE  promoted = {}
    OBVIOUS
  <2>1. pc[m] = "queue"
    BY DEF QueueSaved, At
  <2> QED BY <2>1 DEF StageInv, CarefulInv, QueueInv
<1> QED BY <1>1, StagingInvariant, PTL DEF Spec, PromotedOnce

(* What an upload was acknowledged for stays, through failed uploads of the *)
(* same path, QueueStage with or without its rollback, and crashes          *)
(* (staging.go:79, staging.go:149), until a delete or the cleanup.          *)
THEOREM AcknowledgedAreKept == Spec => []AcknowledgedKept
<1>1. StageInv => AcknowledgedKept
  BY DEF StageInv, OrderlyInv, KeptInv, AcknowledgedKept
<1> QED BY <1>1, StagingInvariant, PTL

(* The count follows the set of uploads in progress.                       *)
LEMMA CountStep == StageInv /\ ActiveIsExact /\ [Next]_vars => ActiveIsExact'
<1> SUFFICES ASSUME StageInv, ActiveIsExact, [Next]_vars PROVE ActiveIsExact'
  OBVIOUS
<1>t. TypeOK
  BY DEF StageInv
<1>f. IsFiniteSet(InProgress)
  BY FS_Subset, StagingAssumption DEF InProgress
<1>1. ASSUME InProgress' = InProgress, UNCHANGED active PROVE ActiveIsExact'
  BY <1>1 DEF ActiveIsExact
<1>2. ASSUME active' = active, \A u \in Uploads : pc'[u] = pc[u] PROVE ActiveIsExact'
  BY <1>1, <1>2 DEF InProgress
<1>3. ASSUME NEW u \in Uploads, BeginStageUpload(u) PROVE ActiveIsExact'
  <2>1. /\ pc[u] = "begin" /\ pc'[u] = "open" /\ active' = active + 1
        /\ \A v \in Uploads : v # u => pc'[v] = pc[v]
    BY <1>3, <1>t, UploadGoto DEF BeginStageUpload, At, UploadStep
  <2>2. InProgress' = InProgress \cup {u} /\ u \notin InProgress
    BY <2>1 DEF InProgress
  <2>3. Cardinality(InProgress \cup {u}) = Cardinality(InProgress) + 1
    BY <1>f, <2>2, FS_AddElement
  <2> QED BY <2>1, <2>2, <2>3 DEF ActiveIsExact
<1>4. ASSUME NEW u \in Uploads, EndStageUpload(u) PROVE ActiveIsExact'
  <2>1. /\ pc[u] = "end" /\ pc'[u] = "idle" /\ active' = IF active <= 1 THEN 0 ELSE active - 1
        /\ \A v \in Uploads : v # u => pc'[v] = pc[v]
    BY <1>4, <1>t, UploadGoto DEF EndStageUpload, At, UploadStep
  <2>2. InProgress' = InProgress \ {u} /\ u \in InProgress
    BY <2>1 DEF InProgress
  <2>3. Cardinality(InProgress \ {u}) = Cardinality(InProgress) - 1
    BY <1>f, <2>2, FS_RemoveElement
  <2>4. Cardinality(InProgress \ {u}) \in Nat
    BY <1>f, FS_Subset, FS_CardinalityType
  <2>5. active - 1 \in Nat /\ active \in Nat
    BY <2>3, <2>4, <1>t DEF ActiveIsExact, TypeOK
  <2> QED BY <2>1, <2>2, <2>3, <2>5 DEF ActiveIsExact
<1>5. ASSUME NEW u \in Uploads, OpenFile(u) \/ OpenFileFails(u) \/ Copied(u) \/ CopyFails(u)
      PROVE  ActiveIsExact'
  <2>1. /\ pc[u] \in {"open", "copy"} /\ pc'[u] \in {"copy", "end"} /\ active' = active
        /\ \A v \in Uploads : v # u => pc'[v] = pc[v]
    BY <1>5, <1>t, UploadGoto DEF OpenFile, OpenFileFails, Copied, CopyFails, At, UploadStep
  <2> QED BY <1>1, <2>1 DEF InProgress
<1>6. ASSUME NEW u \in Uploads, NEW p \in Paths, UploadStagedFile(u, p) PROVE ActiveIsExact'
  <2>1. /\ pc[u] = "idle" /\ pc'[u] = "begin" /\ active' = active
        /\ \A v \in Uploads : v # u => pc'[v] = pc[v]
    BY <1>6, <1>t, UploadGoto DEF UploadStagedFile, At, UploadStep
  <2> QED BY <1>1, <2>1 DEF InProgress
<1>7. ASSUME NEW m \in Managers,
             ManagerStepOf(m) \/ DeleteStage(m) \/ \E R \in (SUBSET Paths) \ {{}} : QueueStage(m, R)
      PROVE  ActiveIsExact'
  <2>1. active' = active /\ \A u \in Uploads : pc'[u] = pc[u]
    BY <1>7, <1>t, RemoverGoto DEF ManagerStepOf, DeleteStage, QueueStage, LstatRoots,
       RenameStage, QueueSaved, QueueFails, Return, RemoverStep, QueueStep, Removers
  <2> QED BY <1>2, <2>1
<1>8. CASE CreateStage \/ ExpireStage
  <2>1. active' = active /\ \A u \in Uploads : pc'[u] = pc[u]
    BY <1>8, <1>t, Kinds, GotoEffect DEF CreateStage, ExpireStage, RemoverStep
  <2> QED BY <1>2, <2>1
<1>9. ASSUME NEW g \in Removers, RemoverStepOf(g) PROVE ActiveIsExact'
  <2>1. active' = active /\ \A u \in Uploads : pc'[u] = pc[u]
    BY <1>9, <1>t, RemoverGoto DEF RemoverStepOf, ReadNames, Unlink, UnlinkFails,
       RemoveDirectory, RemoverStep
  <2> QED BY <1>2, <2>1
<1>10. CASE Crash
  <2>1. InProgress' = {} /\ active' = 0
    BY <1>10, Kinds DEF Crash, InProgress
  <2> QED BY <2>1, FS_EmptySet DEF ActiveIsExact
<1>11. CASE UNCHANGED vars
  BY <1>2, <1>11 DEF vars
<1> QED
  BY <1>3, <1>4, <1>5, <1>6, <1>7, <1>8, <1>9, <1>10, <1>11 DEF Next, UploadStepOf

(* stagingActive counts the uploads in progress, for any number of them    *)
(* (staging.go:222).                                                       *)
THEOREM CountIsExact == Spec => []ActiveIsExact
<1>1. Init => ActiveIsExact
  <2> SUFFICES ASSUME Init PROVE ActiveIsExact
    OBVIOUS
  <2>1. InProgress = {}
    BY Kinds DEF Init, InProgress
  <2> QED BY <2>1, FS_EmptySet DEF Init, ActiveIsExact
<1> QED BY <1>1, CountStep, StagingInvariant, PTL DEF Spec

=============================================================================
