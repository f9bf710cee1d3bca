--------------------------- MODULE TransferSender ---------------------------
(***************************************************************************)
(* The sending half of internal/transfer on one device: the durable queue,  *)
(* the dispatcher that starts a worker per outbound transfer, the workers   *)
(* (processOutbound), and the user's Pause, Resume, Cancel and Retry.       *)
(*                                                                         *)
(* A worker holds its own copy of the row and writes the WHOLE copy back at *)
(* every stage; user commands do the same.  Two mutexes order some of it:   *)
(* mu guards the map active and is held by dispatch, Pause, Resume and      *)
(* Retry; progressMu is held over a read and a write of the row by          *)
(* refreshProgress, Pause, Resume and Retry, and over a write by finish.    *)
(*                                                                         *)
(* The receiver is external: the few states of its row that the sender can  *)
(* observe, with its user's decisions as actions.  TransferReceiver models  *)
(* it in full.  Left out: progress and speed, the wake channel (the 1s      *)
(* ticker runs dispatch anyway), chunk retries (a send succeeds, fails, or  *)
(* fails after it was delivered) and the worker's parallel chunk goroutines *)
(* (they take chunks in any order and write nothing but refreshProgress).   *)
(***************************************************************************)
EXTENDS Naturals, FiniteSets

CONSTANTS
    Workers,        \* worker goroutines that may be alive at once
    Users,          \* goroutines serving the user's requests
    NumTransfers,   \* outbound transfers, in the order they were queued
    MaxRequests,    \* bound on the user's requests in a behaviour
    MaxConcurrent,  \* ServiceConfig.MaxConcurrent
    Chunks,         \* chunks of every transfer's manifest
    Tokens,         \* session tokens the random generator may return
    MayCrash,       \* whether the process may die and start again
    MayFail         \* whether statements and requests of the user may fail

ASSUME SenderAssumption ==
    /\ NumTransfers \in Nat \ {0}
    /\ MaxConcurrent \in Nat \ {0} /\ MaxRequests \in Nat
    /\ "none" \notin Tokens
    /\ Workers \cap Users = {} /\ IsFiniteSet(Workers \cup Users)
    /\ IsFiniteSet(Tokens) =>
          Cardinality(Tokens) >= 2 * NumTransfers + Cardinality(Workers \cup Users)
    /\ MayCrash \in BOOLEAN /\ MayFail \in BOOLEAN

Transfers == 1..NumTransfers
Procs == Workers \cup Users

Running == {"Preparing", "Connecting", "Negotiating", "Sending", "Resuming"}
Terminal == {"Completed", "Cancelled", "Failed"}
Row == [status : Running \cup Terminal \cup {"Absent", "Queued", "Paused"},
        files : BOOLEAN, token : Tokens \cup {"none"}]
AbsentRow == [status |-> "Absent", files |-> FALSE, token |-> "none"]

(* What ProtocolStatus of the peer tells: its row and its completed chunks. *)
Remote == [status : {"Absent", "Queued", "Receiving"} \cup Terminal,
           token : Tokens \cup {"none"}, have : SUBSET Chunks]
NoRemote == [status |-> "Absent", token |-> "none", have |-> {}]

WorkerStep == {"idle", "start", "prepare", "manifest", "connect", "negotiate",
               "offer", "poll", "sending", "chunk", "refresh", "refreshSave",
               "latest", "finish", "end", "failRead", "failSave"}
UserStep == {"idle", "lockProgress", "lockedSave", "cancelRead", "cancelSave",
             "notify"}
Command == {"none", "pause", "resume", "retry", "cancel"}

VARIABLES
    row,         \* per transfer, its row in table transfers
    queued,      \* how many transfers have been queued so far
    active,      \* per transfer, the worker whose cancel function is in the map
    mu,          \* goroutines holding Service.mu: {} or a singleton
    progressMu,  \* goroutines holding progressMu: {} or a singleton
    pc,          \* per goroutine, its program counter
    id,          \* per goroutine, the transfer it is about
    copy,        \* per goroutine, its copy of the row
    current,     \* per worker, the row it has read again (current, latest)
    todo,        \* per worker, chunks it has still to send
    ctx,         \* per worker, "live" or "cancelled"
    err,         \* per worker, the error processOutbound returns
    requests,    \* how many requests the user has made
    cmd,         \* per user goroutine, the request it serves
    boot,        \* "recover" until recover has listed the rows, then "run"
    stale,       \* rows recover has listed and has still to save
    remote,      \* per transfer, the peer's row (external)
    consent,     \* history: transfers the peer's user has accepted
    aborted      \* history: transfers with a user request that failed midway

goroutines == <<pc, id, copy, current, todo, ctx, err, cmd>>
counts == <<queued, requests>>
vars == <<row, counts, active, mu, progressMu, goroutines, boot, stale, remote,
          consent, aborted>>
locks == <<mu, progressMu>>
process == <<boot, stale>>
peer == <<remote, consent>>

Init ==
    /\ row = [t \in Transfers |-> AbsentRow]
    /\ queued = 0
    /\ active = [t \in Transfers |-> {}]
    /\ mu = {} /\ progressMu = {}
    /\ pc = [p \in Procs |-> "idle"]
    /\ id = [p \in Procs |-> 1]
    /\ copy = [p \in Procs |-> AbsentRow]
    /\ current = [w \in Workers |-> AbsentRow]
    /\ todo = [w \in Workers |-> {}]
    /\ ctx = [w \in Workers |-> "live"]
    /\ err = [w \in Workers |-> "none"]
    /\ cmd = [u \in Users |-> "none"]
    /\ requests = 0
    /\ boot = "recover"
    /\ stale = {}
    /\ remote = [t \in Transfers |-> NoRemote]
    /\ consent = {}
    /\ aborted = {}

-----------------------------------------------------------------------------
(* Helpers.                                                                *)

At(p, step) == pc[p] = step
Goto(p, step) == pc' = [pc EXCEPT ![p] = step]
Exists(t) == row[t].status # "Absent"
Free(lock) == lock = {}

(* generateToken: a token nobody holds.                                     *)
HeldTokens ==
    {row[t].token : t \in Transfers} \cup {remote[t].token : t \in Transfers}
    \cup {copy[p].token : p \in Procs} \cup {x[2].token : x \in stale}
FreshToken == CHOOSE k \in Tokens : k \notin HeldTokens

(* The goroutine is gone.                                                  *)
WorkerExit(w) ==
    /\ Goto(w, "idle")
    /\ id' = [id EXCEPT ![w] = 1]
    /\ copy' = [copy EXCEPT ![w] = AbsentRow]
    /\ current' = [current EXCEPT ![w] = AbsentRow]
    /\ todo' = [todo EXCEPT ![w] = {}]
    /\ ctx' = [ctx EXCEPT ![w] = "live"]
    /\ err' = [err EXCEPT ![w] = "none"]
    /\ UNCHANGED cmd

UserReturn(u) ==
    /\ Goto(u, "idle")
    /\ id' = [id EXCEPT ![u] = 1]
    /\ copy' = [copy EXCEPT ![u] = AbsentRow]
    /\ cmd' = [cmd EXCEPT ![u] = "none"]
    /\ UNCHANGED <<current, todo, err>>

-----------------------------------------------------------------------------
(* Queue and dispatch.                                                     *)

(* Queue: the next transfer, for a trusted peer that is online.             *)
Queue ==
    /\ queued < NumTransfers
    /\ queued' = queued + 1
    /\ row' = [row EXCEPT ![queued + 1] = [AbsentRow EXCEPT !.status = "Queued"]]
    /\ UNCHANGED <<requests, active, locks, goroutines, process, peer, aborted>>

Eligible == {t \in Transfers : row[t].status \in {"Queued", "Resuming"}}
Busy == {t \in Transfers : active[t] # {}}

(* What one pass of dispatch starts: it takes eligible transfers in queue   *)
(* order until MaxConcurrent are in the map.  A transfer that is in the map *)
(* is not skipped.                                                         *)
Started ==
    {t \in Eligible :
        Cardinality(Busy \cup {u \in Eligible : u < t}) < MaxConcurrent}

Dispatch ==
    /\ boot = "run" /\ stale = {}
    /\ Free(mu)
    /\ Started # {}
    /\ \E f \in [Started -> {w \in Workers : At(w, "idle")}] :
          LET new == {f[t] : t \in Started}
              task(w) == CHOOSE t \in Started : f[t] = w IN
          /\ Cardinality(new) = Cardinality(Started)
          /\ active' = [t \in Transfers |-> IF t \in Started THEN {f[t]}
                                                           ELSE active[t]]
          /\ pc' = [p \in Procs |-> IF p \in new THEN "start" ELSE pc[p]]
          /\ id' = [p \in Procs |-> IF p \in new THEN task(p) ELSE id[p]]
    /\ UNCHANGED <<row, counts, locks, copy, current, todo, ctx, err, cmd,
                   process, peer, aborted>>

-----------------------------------------------------------------------------
(* processOutbound.                                                        *)

Live(w) == ctx[w] = "live"

Start(w) ==
    /\ At(w, "start") /\ Live(w)
    /\ Exists(id[w])
    /\ copy' = [copy EXCEPT ![w] = row[id[w]]]
    /\ Goto(w, IF row[id[w]].files THEN "connect" ELSE "prepare")
    /\ UNCHANGED <<row, counts, active, locks, id, current, todo, ctx, err, cmd,
                   process, peer, aborted>>

(* SaveTransfer of the worker's copy, without a lock.                       *)
Save(w, step, t, next) ==
    /\ At(w, step) /\ Live(w)
    /\ row' = [row EXCEPT ![id[w]] = t]
    /\ copy' = [copy EXCEPT ![w] = t]
    /\ Goto(w, next)
    /\ UNCHANGED <<counts, active, locks, id, current, todo, ctx, err, cmd,
                   process, peer, aborted>>

Prepare(w) ==
    Save(w, "prepare", [copy[w] EXCEPT !.status = "Preparing"], "manifest")

BuildManifest(w) ==
    Save(w, "manifest", [copy[w] EXCEPT !.files = TRUE], "connect")

(* The session token is durable before the peer learns it.                  *)
Connect(w) ==
    Save(w, "connect",
         [copy[w] EXCEPT !.status = "Connecting",
                         !.token = IF @ = "none" THEN FreshToken ELSE @],
         "negotiate")

Negotiate(w) ==
    Save(w, "negotiate", [copy[w] EXCEPT !.status = "Negotiating"], "offer")

(* processOutbound returns; its locals are gone.                            *)
EndWith(w, e) ==
    /\ Goto(w, "end")
    /\ err' = [err EXCEPT ![w] = e]
    /\ copy' = [copy EXCEPT ![w] = AbsentRow]
    /\ current' = [current EXCEPT ![w] = AbsentRow]
    /\ todo' = [todo EXCEPT ![w] = {}]
    /\ UNCHANGED <<counts, active, locks, id, ctx, cmd, process, aborted>>

(* POST offer: the peer answers with the row it has, or makes one.  The     *)
(* answer may be lost.                                                     *)
SendOffer(w) ==
    /\ At(w, "offer") /\ Live(w)
    /\ remote' = IF remote[id[w]].status = "Absent"
                 THEN [remote EXCEPT ![id[w]] = [status |-> "Queued",
                                        token |-> copy[w].token, have |-> {}]]
                 ELSE remote
    /\ \/ /\ Goto(w, "poll")
          /\ UNCHANGED <<counts, active, locks, id, copy, current, todo, ctx, err,
                         cmd, process, aborted>>
       \/ EndWith(w, "error")
    /\ UNCHANGED <<row, consent>>

(* The peer answers requests that carry the token of its row only.          *)
Authorized(w) ==
    remote[id[w]].status # "Absent" /\ remote[id[w]].token = copy[w].token

(* The chunks to enqueue: those the resume map does not list.               *)
Missing(w) == Chunks \ remote[id[w]].have

(* The approval loop ends when the receiver is receiving.                   *)
Approved(w) ==
    /\ At(w, "poll") /\ Live(w)
    /\ Authorized(w)
    /\ remote[id[w]].status = "Receiving"
    /\ todo' = [todo EXCEPT ![w] = Missing(w)]
    /\ Goto(w, "sending")
    /\ UNCHANGED <<row, counts, active, locks, id, copy, current, ctx, err, cmd,
                   process, peer, aborted>>

Ended(w) ==
    /\ At(w, "poll") /\ Live(w)
    /\ Authorized(w)
    /\ remote[id[w]].status \in {"Cancelled", "Failed"}
    /\ EndWith(w, "error")
    /\ UNCHANGED <<row, peer>>

StartSending(w) ==
    Save(w, "sending", [copy[w] EXCEPT !.status = "Sending"], "chunk")

(* sendChunk: PUT of one chunk the receiver is ready to take.               *)
PutChunk(w, c) ==
    /\ Authorized(w) /\ remote[id[w]].status = "Receiving"
    /\ remote' = [remote EXCEPT ![id[w]].have = @ \cup {c}]

(* A chunk goroutine sends and records one of the chunks.  The last attempt *)
(* may fail although the receiver has taken the chunk.                      *)
SendChunk(w) ==
    /\ At(w, "chunk") /\ Live(w)
    /\ \E c \in todo[w] :
          /\ PutChunk(w, c)
          /\ \/ /\ todo' = [todo EXCEPT ![w] = @ \ {c}]
                /\ Goto(w, "refresh")
                /\ UNCHANGED <<counts, active, locks, id, copy, current, ctx, err,
                               cmd, process, aborted>>
             \/ EndWith(w, "error")
    /\ UNCHANGED <<row, consent>>

(* refreshProgress; its errors are ignored.                                 *)
Refresh(w) ==
    /\ At(w, "refresh") /\ Live(w)
    /\ Free(progressMu)
    /\ Exists(id[w])
    /\ progressMu' = {w}
    /\ current' = [current EXCEPT ![w] = row[id[w]]]
    /\ Goto(w, "refreshSave")
    /\ UNCHANGED <<row, counts, active, mu, id, copy, todo, ctx, err, cmd,
                   process, peer, aborted>>

RefreshSave(w) ==
    /\ At(w, "refreshSave") /\ Live(w)
    /\ row' = [row EXCEPT ![id[w]] = current[w]]
    /\ progressMu' = {}
    /\ current' = [current EXCEPT ![w] = AbsentRow]
    /\ Goto(w, "chunk")
    /\ UNCHANGED <<counts, active, mu, id, copy, todo, ctx, err, cmd, process,
                   peer, aborted>>

RefreshFails(w) ==
    /\ At(w, "refresh") \/ At(w, "refreshSave")
    /\ progressMu' = progressMu \ {w}
    /\ current' = [current EXCEPT ![w] = AbsentRow]
    /\ Goto(w, "chunk")
    /\ UNCHANGED <<row, counts, active, mu, id, copy, todo, ctx, err, cmd,
                   process, peer, aborted>>

(* Mutant of Complete: the status of the answer is not looked at.           *)
CompleteAnswerIgnored(w) ==
    /\ At(w, "chunk") /\ Live(w)
    /\ todo[w] = {}
    /\ Authorized(w) /\ remote[id[w]].status = "Receiving"
    /\ \E s \in {"Completed", "Failed"} :
          remote' = [remote EXCEPT ![id[w]].status = s]
    /\ Goto(w, "latest")
    /\ UNCHANGED <<row, counts, active, locks, id, copy, current, todo, ctx, err,
                   cmd, process, consent, aborted>>

(* POST complete: the receiver verifies and delivers, and the answer may be *)
(* lost; or it fails the transfer.                                         *)
Complete(w) ==
    /\ At(w, "chunk") /\ Live(w)
    /\ todo[w] = {}
    /\ Authorized(w) /\ remote[id[w]].status = "Receiving"
    /\ \/ /\ remote[id[w]].have = Chunks
          /\ remote' = [remote EXCEPT ![id[w]].status = "Completed"]
          /\ \/ /\ Goto(w, "latest")
                /\ UNCHANGED <<counts, active, locks, id, copy, current, todo,
                               ctx, err, cmd, process, aborted>>
             \/ EndWith(w, "error")
       \/ /\ remote' = [remote EXCEPT ![id[w]].status = "Failed"]
          /\ EndWith(w, "error")
    /\ UNCHANGED <<row, consent>>

Latest(w) ==
    /\ At(w, "latest") /\ Live(w)
    /\ Exists(id[w])
    /\ current' = [current EXCEPT ![w] = row[id[w]]]
    /\ Goto(w, "finish")
    /\ UNCHANGED <<row, counts, active, locks, id, copy, todo, ctx, err, cmd,
                   process, peer, aborted>>

FinishCompleted(w) ==
    /\ At(w, "finish") /\ Live(w)
    /\ Free(progressMu)
    /\ row' = [row EXCEPT ![id[w]] = [current[w] EXCEPT !.status = "Completed"]]
    /\ EndWith(w, "none")
    /\ UNCHANGED peer

(* Mutant of WatchesContext: the approval loop does not look at ctx.Done().  *)
WatchesContextNotPolling ==
    {"start", "prepare", "manifest", "connect", "negotiate", "offer", "sending",
     "chunk", "latest", "finish"}

(* Statements and requests watch the worker's context.                      *)
WatchesContext == {"start", "prepare", "manifest", "connect", "negotiate",
                   "offer", "poll", "sending", "chunk", "latest", "finish"}

Canceled(w) ==
    /\ pc[w] \in WatchesContext
    /\ ctx[w] = "cancelled"
    /\ EndWith(w, "canceled")
    /\ UNCHANGED <<row, peer>>

(* Any of them may fail: no row, no manifest, peer offline, refused request,*)
(* SQLite error.  Only the approval loop goes on after an error.            *)
WorkerError(w) ==
    /\ pc[w] \in WatchesContext \ {"poll"}
    /\ EndWith(w, "error")
    /\ UNCHANGED <<row, peer>>

(* The end of the goroutine dispatch started.                               *)
End(w) ==
    /\ At(w, "end")
    /\ Free(mu)
    /\ active' = [active EXCEPT ![id[w]] = {}]
    /\ IF err[w] = "error"
       THEN Goto(w, "failRead")
            /\ UNCHANGED <<id, copy, current, todo, ctx, err, cmd>>
       ELSE WorkerExit(w)
    /\ UNCHANGED <<row, counts, locks, process, peer, aborted>>

FailRead(w) ==
    /\ At(w, "failRead")
    /\ IF row[id[w]].status \in {"Absent", "Paused", "Cancelled"}
       THEN WorkerExit(w)
       ELSE /\ current' = [current EXCEPT ![w] = row[id[w]]]
            /\ Goto(w, "failSave")
            /\ UNCHANGED <<id, copy, todo, ctx, err, cmd>>
    /\ UNCHANGED <<row, counts, active, locks, process, peer, aborted>>

FailSave(w) ==
    /\ At(w, "failSave")
    /\ Free(progressMu)
    /\ \/ /\ row' = [row EXCEPT ![id[w]] = [current[w] EXCEPT !.status = "Failed"]]
          /\ UNCHANGED aborted
       \/ /\ MayFail
          /\ aborted' = aborted \cup {id[w]}
          /\ UNCHANGED row
    /\ WorkerExit(w)
    /\ UNCHANGED <<counts, active, locks, process, peer>>

-----------------------------------------------------------------------------
(* The user's requests.                                                    *)

From(c) == CASE c = "pause" -> Running
             [] c = "resume" -> {"Paused"}
             [] c = "retry" -> {"Failed"}
To(c) == CASE c = "pause" -> "Paused"
           [] c = "resume" -> "Resuming"
           [] c = "retry" -> "Queued"

(* The contexts after the cancel function in the map is called.             *)
CancelContext(t) ==
    ctx' = [w \in Workers |-> IF w \in active[t] THEN "cancelled" ELSE ctx[w]]

NewRequest(u) ==
    /\ At(u, "idle")
    /\ requests < MaxRequests
    /\ requests' = requests + 1

(* Pause, Resume and Retry: lock mu, lock progressMu, read, write.          *)
LockMu(u, c, t) ==
    /\ NewRequest(u)
    /\ Free(mu)
    /\ mu' = {u}
    /\ Goto(u, "lockProgress")
    /\ id' = [id EXCEPT ![u] = t]
    /\ cmd' = [cmd EXCEPT ![u] = c]
    /\ UNCHANGED <<row, queued, active, progressMu, copy, current, todo, ctx, err,
                   process, peer, aborted>>

(* Mutant of LockedRead: progressMu is not waited for. *)
LockedReadNoWait(u) ==
    /\ At(u, "lockProgress")
    /\ IF row[id[u]].status \in From(cmd[u])
       THEN /\ progressMu' = progressMu \cup {u}
            /\ copy' = [copy EXCEPT ![u] = [row[id[u]] EXCEPT !.status = To(cmd[u])]]
            /\ Goto(u, "lockedSave")
            /\ UNCHANGED <<mu, id, current, todo, ctx, err, cmd>>
       ELSE /\ mu' = {}
            /\ UserReturn(u)
            /\ UNCHANGED <<progressMu, ctx>>
    /\ UNCHANGED <<row, counts, active, process, peer, aborted>>

LockedRead(u) ==
    /\ At(u, "lockProgress")
    /\ Free(progressMu)
    /\ IF row[id[u]].status \in From(cmd[u])
       THEN /\ progressMu' = {u}
            /\ copy' = [copy EXCEPT ![u] = [row[id[u]] EXCEPT !.status = To(cmd[u])]]
            /\ Goto(u, "lockedSave")
            /\ UNCHANGED <<mu, id, current, todo, ctx, err, cmd>>
       ELSE /\ mu' = {}
            /\ UserReturn(u)
            /\ UNCHANGED <<progressMu, ctx>>
    /\ UNCHANGED <<row, counts, active, process, peer, aborted>>

(* Mutant of LockedSave: Pause does not cancel the worker. *)
LockedSaveNoCancel(u) ==
    /\ At(u, "lockedSave")
    /\ UNCHANGED ctx
    /\ \/ /\ row' = [row EXCEPT ![id[u]] = copy[u]]
          /\ UNCHANGED aborted
       \/ /\ MayFail
          /\ aborted' = aborted \cup {id[u]}
          /\ UNCHANGED row
    /\ mu' = {} /\ progressMu' = {}
    /\ UserReturn(u)
    /\ UNCHANGED <<counts, active, process, peer>>

(* Pause calls the cancel function before it saves.  A worker whose context *)
(* is cancelled saves nothing any more.                                    *)
LockedSave(u) ==
    /\ At(u, "lockedSave")
    /\ IF cmd[u] = "pause" THEN CancelContext(id[u]) ELSE UNCHANGED ctx
    /\ \/ /\ row' = [row EXCEPT ![id[u]] = copy[u]]
          /\ UNCHANGED aborted
       \/ /\ MayFail
          /\ aborted' = aborted \cup {id[u]}
          /\ UNCHANGED row
    /\ mu' = {} /\ progressMu' = {}
    /\ UserReturn(u)
    /\ UNCHANGED <<counts, active, process, peer>>

(* Cancel: the worker's context under mu, then the row without it.          *)
Cancel(u, t) ==
    /\ NewRequest(u)
    /\ Free(mu)
    /\ CancelContext(t)
    /\ Goto(u, "cancelRead")
    /\ id' = [id EXCEPT ![u] = t]
    /\ cmd' = [cmd EXCEPT ![u] = "cancel"]
    /\ UNCHANGED <<row, queued, active, locks, copy, current, todo, err, process,
                   peer, aborted>>

CancelRead(u) ==
    /\ At(u, "cancelRead")
    /\ IF row[id[u]].status \in {"Absent", "Completed", "Cancelled"}
       THEN UserReturn(u)
       ELSE /\ copy' = [copy EXCEPT ![u] = [row[id[u]] EXCEPT !.status = "Cancelled"]]
            /\ Goto(u, "cancelSave")
            /\ UNCHANGED <<id, current, todo, err, cmd>>
    /\ UNCHANGED <<row, counts, active, locks, ctx, process, peer, aborted>>

CancelSave(u) ==
    /\ At(u, "cancelSave")
    /\ Free(progressMu)
    /\ \/ /\ row' = [row EXCEPT ![id[u]] = copy[u]]
          /\ UNCHANGED aborted
          /\ IF copy[u].token # "none"
             THEN Goto(u, "notify") /\ UNCHANGED <<id, copy, current, todo, err, cmd>>
             ELSE UserReturn(u)
       \/ /\ MayFail
          /\ aborted' = aborted \cup {id[u]}
          /\ UserReturn(u)
          /\ UNCHANGED row
    /\ UNCHANGED <<counts, active, locks, ctx, process, peer>>

(* DELETE to the receiver, once, its outcome ignored.                       *)
Notify(u) ==
    /\ At(u, "notify")
    /\ \/ UNCHANGED remote
       \/ /\ remote[id[u]].token = copy[u].token
          /\ remote[id[u]].status \in {"Queued", "Receiving", "Failed"}
          /\ remote' = [remote EXCEPT ![id[u]].status = "Cancelled"]
    /\ UserReturn(u)
    /\ UNCHANGED <<row, counts, active, locks, ctx, process, consent, aborted>>

DeleteHistory ==
    /\ \E t \in Transfers : row[t].status \in Terminal
    /\ row' = [t \in Transfers |-> IF row[t].status \in Terminal THEN AbsentRow
                                                                ELSE row[t]]
    /\ UNCHANGED <<counts, active, locks, goroutines, process, peer, aborted>>

-----------------------------------------------------------------------------
(* The process.                                                            *)

(* Mutant of RecoverList: only the transfers that were sending are listed. *)
RecoverListSendingOnly ==
    /\ boot = "recover"
    /\ boot' = "run"
    /\ stale' = {<<t, [row[t] EXCEPT !.status = "Queued"]>> :
                    t \in {u \in Transfers : row[u].status = "Sending"}}
    /\ UNCHANGED <<row, counts, active, locks, goroutines, peer, aborted>>

(* recover, before the first dispatch, while requests are already served:   *)
(* list all rows, then save the interrupted ones as Queued.                 *)
RecoverList ==
    /\ boot = "recover"
    /\ boot' = "run"
    /\ stale' = {<<t, [row[t] EXCEPT !.status = "Queued"]>> :
                    t \in {u \in Transfers : row[u].status \in Running}}
    /\ UNCHANGED <<row, counts, active, locks, goroutines, peer, aborted>>

RecoverSave ==
    /\ \E x \in stale :
          /\ \A y \in stale : x[1] <= y[1]
          /\ row' = [row EXCEPT ![x[1]] = x[2]]
          /\ stale' = stale \ {x}
    /\ UNCHANGED <<counts, active, locks, goroutines, boot, peer, aborted>>

RecoverFails ==
    /\ MayFail
    /\ stale # {}
    /\ stale' = {}
    /\ aborted' = aborted \cup {x[1] : x \in stale}
    /\ UNCHANGED <<row, counts, active, locks, goroutines, boot, peer>>

Crash ==
    /\ MayCrash
    /\ active' = [t \in Transfers |-> {}]
    /\ mu' = {} /\ progressMu' = {}
    /\ pc' = [p \in Procs |-> "idle"]
    /\ id' = [p \in Procs |-> 1]
    /\ copy' = [p \in Procs |-> AbsentRow]
    /\ current' = [w \in Workers |-> AbsentRow]
    /\ todo' = [w \in Workers |-> {}]
    /\ ctx' = [w \in Workers |-> "live"]
    /\ err' = [w \in Workers |-> "none"]
    /\ cmd' = [u \in Users |-> "none"]
    /\ boot' = "recover"
    /\ stale' = {}
    /\ UNCHANGED <<row, counts, peer, aborted>>

-----------------------------------------------------------------------------
(* The peer's user (external).                                             *)

Decide(t, from, to) ==
    /\ remote[t].status = from
    /\ remote' = [remote EXCEPT ![t].status = to]
    /\ UNCHANGED <<row, counts, active, locks, goroutines, process, aborted>>

PeerAccepts(t) == /\ Decide(t, "Queued", "Receiving")
                  /\ consent' = consent \cup {t}
PeerDeclines(t) == Decide(t, "Queued", "Cancelled") /\ UNCHANGED consent
PeerCancels(t) == Decide(t, "Receiving", "Cancelled") /\ UNCHANGED consent
PeerRetries(t) == Decide(t, "Failed", "Receiving") /\ UNCHANGED consent

-----------------------------------------------------------------------------
(* A worker's steps that need no lock, and those that do.                   *)
WorkerStepFree(w) ==
    \/ Start(w) \/ Prepare(w) \/ BuildManifest(w) \/ Connect(w) \/ Negotiate(w)
    \/ SendOffer(w) \/ Approved(w) \/ Ended(w) \/ StartSending(w) \/ SendChunk(w)
    \/ RefreshSave(w) \/ RefreshFails(w) \/ Complete(w) \/ Latest(w)
    \/ Canceled(w) \/ WorkerError(w) \/ FailRead(w)

WorkerStepLocked(w) ==
    Refresh(w) \/ FinishCompleted(w) \/ End(w) \/ FailSave(w)

UserStepFree(u) == LockedSave(u) \/ CancelRead(u) \/ Notify(u)
UserStepLocked(u) == LockedRead(u) \/ CancelSave(u)

UserRequest(u) ==
    \E t \in Transfers : \/ Cancel(u, t)
                         \/ \E c \in {"pause", "resume", "retry"} : LockMu(u, c, t)

Next ==
    \/ Queue \/ Dispatch
    \/ \E w \in Workers : WorkerStepFree(w) \/ WorkerStepLocked(w)
    \/ \E u \in Users : UserRequest(u) \/ UserStepFree(u) \/ UserStepLocked(u)
    \/ DeleteHistory
    \/ RecoverList \/ RecoverSave \/ RecoverFails \/ Crash
    \/ \E t \in Transfers : \/ PeerAccepts(t) \/ PeerDeclines(t)
                            \/ PeerCancels(t) \/ PeerRetries(t)

Spec == Init /\ [][Next]_vars

-----------------------------------------------------------------------------
(* Properties.                                                             *)

(* Every variable has its type; a mutex has at most one holder.             *)
TypeOK ==
    /\ row \in [Transfers -> Row]
    /\ queued \in 0..NumTransfers
    /\ requests \in 0..MaxRequests
    /\ active \in [Transfers -> SUBSET Workers]
    /\ mu \in {{}} \cup {{u} : u \in Users}
    /\ progressMu \in {{}} \cup {{p} : p \in Procs}
    /\ pc \in [Procs -> WorkerStep \cup UserStep]
    /\ \A w \in Workers : pc[w] \in WorkerStep
    /\ \A u \in Users : pc[u] \in UserStep
    /\ id \in [Procs -> Transfers]
    /\ copy \in [Procs -> Row]
    /\ current \in [Workers -> Row]
    /\ todo \in [Workers -> SUBSET Chunks]
    /\ ctx \in [Workers -> {"live", "cancelled"}]
    /\ err \in [Workers -> {"none", "error", "canceled"}]
    /\ cmd \in [Users -> Command]
    /\ boot \in {"recover", "run"}
    /\ stale \subseteq Transfers \X Row
    /\ remote \in [Transfers -> Remote]
    /\ consent \subseteq Transfers
    /\ aborted \subseteq Transfers

(* The sender reports Completed only for a transfer whose receiver has all  *)
(* chunks, was allowed to take them and has confirmed the verification:     *)
(* processOutbound finishes only after the answer to complete, whatever     *)
(* workers overlap and whichever stale copies are saved.                    *)
CompletedIsConfirmed ==
    \A t \in Transfers : row[t].status = "Completed" =>
        /\ remote[t].status = "Completed"
        /\ remote[t].have = Chunks
        /\ t \in consent

(* A transfer that looks busy has somebody working on it: a worker, a user  *)
(* request or recover.  A status such as Sending that nobody will ever      *)
(* change again needs a failed statement in a user's request, recover or    *)
(* fail.                                                                   *)
NoOrphan ==
    \A t \in Transfers : row[t].status \in Running \ {"Resuming"} =>
        \/ boot = "recover" \/ \E x \in stale : x[1] = t
        \/ t \in aborted
        \/ \E p \in Procs : id[p] = t /\ ~At(p, "idle")

(* A worker inside processOutbound that nobody has cancelled, and the       *)
(* transfers with one.                                                     *)
AtWork(w) == Live(w) /\ pc[w] \notin {"idle", "end", "failRead", "failSave"}
Working == {id[w] : w \in {v \in Workers : AtWork(v)}}

(* At most MaxConcurrent outbound transfers run at once (dispatch).         *)
ConcurrencyLimit == Cardinality(Working) <= MaxConcurrent

(* The transfer t has a worker that Pause does not find: dispatch has put   *)
(* another one in its place in the map, or that one's end has removed it.   *)
Displaced(t) == \E w \in Workers : id[w] = t /\ AtWork(w) /\ w \notin active[t]

(* A paused transfer does not run again until the user resumes it: Pause    *)
(* cancels the worker before it saves, and the worker's context stops every *)
(* later save.  Only a worker that is not in the map goes on, or recover    *)
(* with a row that it has listed before.                                   *)
PausedStaysPaused ==
    [][\A t \in Transfers : row[t].status = "Paused" =>
          \/ row'[t].status \in {"Paused", "Resuming", "Cancelled", "Failed"}
          \/ Displaced(t)
          \/ \E x \in stale : x[1] = t]_vars

(* The parts of the argument.  Until recover has saved its rows there are   *)
(* no workers, and all that it saves is Queued.                             *)
StartInv ==
    /\ (boot = "recover" \/ stale # {}) => \A w \in Workers : At(w, "idle")
    /\ \A x \in stale : x[2].status = "Queued" /\ x[1] <= queued

(* Nobody works on a transfer before it is queued.                          *)
QueuedInv ==
    /\ \A t \in Transfers : t > queued => row[t].status = "Absent"
    /\ \A w \in Workers : ~At(w, "idle") => id[w] <= queued
    /\ \A u \in Users : pc[u] \in {"lockedSave", "cancelSave"} => id[u] <= queued

(* The worker in the map works on that transfer, or is about to leave.      *)
MapInv ==
    \A t \in Transfers : \A w \in active[t] :
        id[w] = t /\ pc[w] \notin {"idle", "failRead", "failSave"}

(* Who holds a mutex where.                                                 *)
LockInv ==
    /\ \A u \in Users : /\ pc[u] \in {"lockProgress", "lockedSave"} => mu = {u}
                        /\ pc[u] = "lockedSave" => progressMu = {u}
    /\ \A w \in Workers : pc[w] = "refreshSave" => progressMu = {w}

(* What the user's goroutines are about to save; a row that Retry has found *)
(* failed is not paused meanwhile.                                         *)
UserInv ==
    \A u \in Users :
        /\ pc[u] \in {"lockProgress", "lockedSave"} =>
               cmd[u] \in {"pause", "resume", "retry"}
        /\ pc[u] = "lockedSave" => copy[u].status = To(cmd[u])
        /\ (pc[u] = "lockedSave" /\ cmd[u] = "retry") => row[id[u]].status # "Paused"
        /\ pc[u] = "cancelSave" => copy[u].status = "Cancelled"

(* The receiver takes chunks with its user's consent and completes with all *)
(* of them; a worker that is past the answer to complete has seen that, and *)
(* so has the worker of a row that reads Completed.                         *)
RemoteInv ==
    \A t \in Transfers :
        /\ remote[t].status \in {"Receiving", "Failed", "Completed"} => t \in consent
        /\ remote[t].status = "Completed" => remote[t].have = Chunks
ConfirmInv ==
    \A w \in Workers :
        /\ pc[w] = "manifest" => copy[w].status = "Preparing"
        /\ (pc[w] \in {"latest", "finish"}
              \/ (pc[w] = "refreshSave" /\ current[w].status = "Completed")) =>
               remote[id[w]].status = "Completed"

(* A worker that will save or fail the row before it leaves it, and a       *)
(* user's Cancel that will.                                                *)
WillSave(w) ==
    \/ AtWork(w) \/ pc[w] \in {"failRead", "failSave"}
    \/ pc[w] = "end" /\ err[w] = "error"
WillCancel(u) == pc[u] \in {"cancelRead", "cancelSave"}
Attended(t) ==
    \/ boot = "recover" \/ \E x \in stale : x[1] = t
    \/ t \in aborted
    \/ \E w \in Workers : id[w] = t /\ WillSave(w)
    \/ \E u \in Users : id[u] = t /\ WillCancel(u)
BusyInv ==
    \A t \in Transfers : row[t].status \in Running \ {"Resuming"} => Attended(t)

(* A paused row has no live worker in the map, and while refreshProgress is *)
(* about to write one back nobody dispatches the transfer.                  *)
Unattended(t) == \A w \in Workers : (id[w] = t /\ AtWork(w)) => w \notin active[t]
PausedInv ==
    /\ \A t \in Transfers : row[t].status = "Paused" => Unattended(t)
    /\ \A w \in Workers : (pc[w] = "refreshSave" /\ current[w].status = "Paused") =>
          /\ Unattended(id[w])
          /\ row[id[w]].status \notin {"Queued", "Resuming"}

(* The inductive invariant of the proofs.                                   *)
SenderInv ==
    /\ TypeOK /\ StartInv /\ QueuedInv /\ MapInv /\ LockInv /\ UserInv
    /\ RemoteInv /\ ConfirmInv /\ CompletedIsConfirmed /\ BusyInv /\ PausedInv

-----------------------------------------------------------------------------
(* Fairness: goroutines are scheduled; sync.Mutex does not starve a waiter; *)
(* the ticker makes Run dispatch again and again.                           *)
FairSpec ==
    /\ Spec
    /\ \A w \in Workers : /\ WF_vars(WorkerStepFree(w))
                           /\ SF_vars(WorkerStepLocked(w))
    /\ \A u \in Users : /\ WF_vars(UserStepFree(u))
                         /\ SF_vars(UserStepLocked(u))
    /\ SF_vars(Dispatch)
    /\ WF_vars(RecoverList) /\ WF_vars(RecoverSave)

(* A worker whose context is cancelled ends and frees its place, also when  *)
(* it waits for approval or for a mutex.                                    *)
CancelledWorkerEnds ==
    \A w \in Workers : ctx[w] = "cancelled" ~> ctx[w] = "live"

(* A transfer that the receiver has completed is completed, failed,         *)
(* cancelled or paused on the sender too, sooner or later.                  *)
SenderLearnsCompletion ==
    \A t \in Transfers :
        (remote[t].status = "Completed" /\ Exists(t)) ~>
            row[t].status \in Terminal \cup {"Absent", "Paused"}

=============================================================================
