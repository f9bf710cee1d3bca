# SyncSpace in TLA+

SyncSpace moves files between paired devices on a LAN. This directory holds TLA+
models of its Go backend (`src/backend/internal`), the TLC configurations that
check them on small instances, and TLAPS proofs of their main safety properties.
Every definition is translated from the code; `PROJECT.json` names the lines each
definition stands for ("map"), the runs, the mutants that show that each property
can fail, the hazards and the theorems. Three modules have no lines in "map": `TransferLifecycle`,
`PairingPromise` and `PrivacyPromise` are abstract specifications, which say what the documents promise and are
shown to be implemented by the modules that have.

To check: `tlc -config X.cfg MCmodule.tla` for a row of the table of runs, and
`tlapm XProofs.tla` for a module of proofs.

## 1. The system

### Components, their state and their operations

| Component | State | Operations | Model |
|---|---|---|---|
| Transfer receiver (`transfer/service.go`, `sqlite_store.go`, `files.go`) | row in `transfers`, rows in `chunks`, `.part` files, the chosen folder, `progressMu` | ReceiveOffer, Accept, Reject, ReceiveChunk, Finalize, ProtocolStatus, ProtocolCancel, Pause, Resume, Retry, Cancel, DeleteHistory, recover | `TransferReceiver` |
| Transfer sender (`transfer/sender.go`, `service.go`) | row, map `active`, `mu`, `progressMu`, a context per worker | Queue, dispatch, processOutbound, refreshProgress, fail, Pause, Resume, Cancel, Retry, recover | `TransferSender` |
| Browser staging (`transfer/staging.go`) | directories `staging/uploading/<id>`, `staging/queued/<id>`, counts `stagingActive` | CreateStage, UploadStagedFile, QueueStage, DeleteStage, removeExpiredStages | `Staging` |
| Offer authentication (`service.go`, `auth.go`) | nonce cache; the row of the offer's transfer | timestamp window, use and expiry of nonces, look-up by ID, save; DeleteHistory, restart | `OfferNonces` |
| Pairing (`pairing/service.go`) | sessions, `pendingByDevice`, table `trusted_devices` | RequestPairing, ReceiveBegin, Accept, Refresh, ReceiveProof, Reject, RemoveTrustedDevice, SetBlocked, prune | `Pairing` |
| Discovery registry and service (`discovery/registry.go`, `service.go`) | peers with LastSeen | Run, handleAdvertisement, Upsert, Sweep, List | `Discovery` |
| WebSocket broker and handler (`websocket/broker.go`, `handler.go`) | subscribers with bounded queues | Publish, Subscribe, cancel, Serve | `Discovery` |
| Transfer store (`transfer/sqlite_store.go`, `database/migrations.go`) | SQLite tables, mirrors of the status, migration ledger | SaveTransfer, SaveChunk, DeleteHistory, Migrate | as the atomic statements the other models use |
| Destination commit (`files.go`, `service.go`) | the folder the user has chosen | Accept's conflict check, resolveConflict, commitFile, path validation | `DestinationCommit`; the order over several files in `TransferReceiver` |
| Settings and privacy gate (`settings/store.go`, `api/router.go`) | settings file, values in memory, coalescing channel | NewStore, migrate, Update, Reset, AcceptPrivacy, save, privacyGate | `Settings`, `Runtime` |
| Supervisor (`serverapp/server.go`) | which services run, what it has read of the settings | Run, superviseRuntime | `Runtime` |
| Device identity (`services/identity.go`) | `identity.key`, `identity.json` | LoadOrCreate, the atomic write of a private file | `Identity`, `PrivateFile` |
| HTTP routers (`api/`) | none | the settings routes and the privacy gate; the others decode and call a service | partly, in `Runtime` |
| Diagnostics, simulator, command line, desktop shell, frontend, Apple clients | none that steers the above | | not modelled (section 8) |

### How they interact

* The receiver and the sender of two devices talk over HTTP: offer, status, chunk,
  complete, cancel. Each request is served by a goroutine of its own; the sender's
  requests may time out and be repeated while the first is still served.
* Both halves share one SQLite row per transfer. They read it into a Go variable,
  decide on the copy and later write the *whole* copy back. This is the system's
  main source of hard behaviour: the two mutexes cover some of these
  read-decide-write sequences and not others.
* Staging ends in Queue, from which dispatch takes a transfer. Pairing supplies the key that
  authenticates an offer. All services publish events to brokers, which feed the UI.
* Run loads the identity, then the settings, then composes the services. Requests that change
  the settings save the file, assign the values and signal a channel that holds one
  signal; superviseRuntime waits for it and starts and stops discovery and the transfer
  service. The same requests hand a new display name to discovery and to pairing, one
  after the other, without a lock over the whole.

### What is hard, and what makes each component correct

* Receiver: overlapping requests of one transfer, crashes between a file write, its
  row and a rename. Correct means: no bytes without consent; the resume map never
  promises bytes that are not there; Completed means delivered and verified; a
  final status stays.
* Destination commit: the look for a free name, the removal of an old file, the rename or copy are
  separate file operations in a folder that other transfers and the user work in. Correct means: what
  is to be kept is kept, and what is reported as delivered is there, whole.
* Sender: workers, the dispatcher and the user write the same row. Correct means: Completed
  only after the receiver confirmed; Paused stays paused; nothing is busy with nobody
  working on it; cancelled workers end; a limit on parallel transfers.
* Staging: uploads, promotion and cleanup race on directories. Correct means: only
  complete uploads are sent, and what was acknowledged is not lost.
* Offer authentication: clocks that differ, rounding, expiry of the cache. Correct
  means: an offer is accepted once.
* Pairing: two users, two processes, lost and late messages. Correct means: trust only with
  both confirmations, and a rejection by the responder is final.
* Discovery and broker: changes and their events are separate steps. Correct means:
  a client that keeps up sees the registry, a slow one is disconnected, channels are not
  used after close, silent peers disappear.
* Identity, settings, supervisor: a start writes two files and may die between; a save may fail
  before or after the rename; the signal of a change coalesces while the supervisor
  waits for a service to return; requests overlap; the next release ships another policy.
  Correct means: the ID and key that peers have seen are those of every later
  start; nothing talks to peers before the shipped policy is accepted; the last change
  takes effect; no old name stays advertised.

## 2. The modules and the code

A step is the code between two accesses to shared state: one SQL statement or
transaction, one file operation, one critical section of a mutex, one message. What a
goroutine keeps over several steps is a variable per goroutine.

**TransferReceiver.** One incoming transfer ID (they share only `progressMu`). `job[h]`
is a request being served: its program counter, its copy `t` of the row, its chunk.
`Begin(h)` starts a request (ReceiveOffer ... Retry, ReceiveChunk, Finalize);
`SaveTransfer`, `SaveLocked`, `Finish`, `SaveChunk`, `RefreshProgress`, `ChecksumFile`, `CommitFile`
and the corresponding `...Fails` are the steps after it. `bytes` is what the
`.part` holds per chunk, `chunks` the rows, `delivered` what lies at the destination. `Crash`
and `Recover` end and begin the process. `SourceChanges` is the sender's files
changing after its manifest was made. `consent` and `overlapped` are history.

**TransferLifecycle** is the abstract specification of an incoming transfer: its state, the user's acceptance, the
files moved, those moved with other bytes, and whether no two requests have overlapped (`orderly`). `Follows` says which
state may follow which. As long as requests come one after the other, a step is a decision, a change of state that
`Follows` allows (Receiving only once accepted, Completed only with all files moved) or, while Verifying, the move of a file.
`Overlap` ends that; `Disorderly` is what is promised even then: files are moved with consent only and Completed means that
all are. `TransferReceiver` implements it with the row's status as the state, `consent`, and
the files in `delivered`. The exception is `Remembered`: DeleteHistory may clear a failed transfer while a Retry
or a Cancel of it is being served. The row is gone, but the copy is not, and its save brings the transfer back
(SaveTransfer upserts). Until then the transfer counts as Failed; if the request fails it is gone.

**DestinationCommit.** Transfers that deliver a file of one name into one folder, each with its
policy; path 0 is that name, path *i* is "name (i)". `pc[t]` follows Accept, the second loop of Finalize,
resolveConflict (`at` is the suffix it has come to, one Lstat a step) and commitFile (`target`): LookAtTarget and Remove if it is to overwrite, Rename,
Open, Copy, RemoveSource, each of which may fail. `folder` is what lies at each path. `output` is the file
a copy writes to; a file that was replaced lives on without a name, as file handles do. `UserChanges` is
everybody else who works in the folder. Retry and crashes bring a transfer back with its `.part`, and with what
its last attempt left in the folder. `shared` and `released` are history: whose target another commit under way
has chosen as well, and whose target the user, or a transfer that was to overwrite it, has changed.

**TransferSender.** Workers run `processOutbound` one access at a time; `Dispatch` is
dispatch under `mu`; user goroutines serve the four commands in the order the code
locks, reads and writes. The receiver is external here: `remote` is the row its answers show, with
its user's and its own decisions as actions. An answer may be lost: what was asked for is then done at the
receiver and the worker fails (offer, complete) or asks again (status, chunks).

**Staging.** Files are addressed by path when opened or removed and by handle when
written, as in the file system; a handle follows a renamed directory. `Managers` serve queue and delete,
`Cleaner` is the hourly cleanup. os.RemoveAll is `ReadNames`, one `Unlink` per name (or `UnlinkFails`) and
`RemoveDirectory`: it has a handle too, so that it goes on in `staging/queued` if QueueStage renames the directory
meanwhile, and uploads may put files into a directory that is being removed. `RenameStage` and the rollback in `QueueFails`
may fail for any reason; the second is only logged. Two variables are history of what the client has done. `orderly`:
it let its uploads return before it queued or deleted, which is what `stageAndQueue` of the web UI does; crashes do not end
it. `careful`: it had the answer for every file it queued and uploaded no path twice at a time, while other
uploads and requests may overlap; it ends when a removal unlinks a file of the queued directory, or of any directory while a queue
request is served.

**OfferNonces.** The receiver's clock in ticks of a fraction of a second, timestamps in
seconds; the check and the use of a nonce are two steps with a delay between. An offer that
gets past waits in `passed` for the look-up by ID and the save, each a step of its own;
`rows` outlive a `Restart`, the nonces do not. `accepted`, `lost`, `made`, `again` and `deleted` are
history. Two nonces may carry one transfer: a sender that tries again signs anew.

**Pairing.** Two devices; per request the state of the key exchange, per device its
sessions, its pending request and its trust. Messages are sets, handled once, late, or never.

**PairingPromise** is the abstract specification of pairing: per device and request a phase (new, open, over), the requests
its user has accepted, and its trust. A request begins only at a device without trust and is never open again
once it is over; trust is saved for an open request both users have accepted. `Pairing` implements it with
`Phase`: what counts is the session, and at the device that was asked also its state. A rejection at the initiator is not
the end there: `applyPeerDecision` may undo it (section 6).

**Discovery.** `Upsert` and `Sweep` change the registry and leave events in `pending`,
`Publish` hands one to all subscribers; `Connect`, `Snapshot`, `Replay`, `Deliver`,
`Dropped`, `Disconnected` and `Unsubscribe` are `Handler.Serve`. `view` is what the
events written to a client amount to.

**PrivateFile, Identity.** `PrivateFile` is what an atomic write may leave (done, old
content, or new content and an error: the chmod comes after the rename). `Identity` is
LoadOrCreate, one file access at a time; `boot` is its program counter, `keyFile` and `metadata` are the disk,
`announced` is what peers have seen of an earlier start.

**Settings.** The file, the values in memory, the signal (`changed`) and the policy version of
this release (`build`). `asked` is history: the versions a user has accepted. `torn` is
history too: a save has reported an error after the rename.

**Runtime** composes `Identity` and `Settings` with the process. `server` is Run: down, naming
(the save of the default display name), serving, closing. `sup` is the program counter of
superviseRuntime, a step per read of the settings, start, stop and wait; `accepted` and `discoverable` are
what it has read. `transfers`, `discovery` are the goroutines of the two services, `local` and `advert` the name
discovery will announce and announces. `req[h]` is a request: it passes privacyGate and then updates the settings,
reads the name to pair, or talks to a peer. `Exit`, and a `BootFails` or `Dies` in a start, lose the process; `Start`
begins the next, of any release. Which requests overlap is recorded in `overlapped`.
applySettings tells the transfer service the name last, after pairing, in another critical section; the name goes into its offers only, and
its copy is not modelled (`peerName` is pairing's).

**PrivacyPromise** is the abstract specification: releases, the versions accepted, the
acceptance on record, the activities going on. `Runtime` implements it with
`onRecord` as the acceptance in memory while the process is up and on disk otherwise,
and `active` as the services, the advertisement and the peer requests that go on.

`MC*` modules give TLC its symmetry sets and functions. `*Proofs` modules hold the
theorems. The operators named "Mutant of ..." are plausible mistakes; no run uses them,
they show that a property would notice.

## 3. The runs

| Run | Instance | Shows |
|---|---|---|
| `receiver` (TransferReceiver.cfg) | 2 requests at a time, 2 files (one empty), all failures, crashes | consent before bytes, rows backed by bytes, Completed means delivered, verify all before moving any, the inductive invariant, every request returns; one request at a time: final statuses stay and only verified bytes are delivered; the refinement of `TransferLifecycle` |
| `receiver_resume_map` (violation) | crash in Finalize | the resume map lists chunks whose `.part` was moved; the transfer can never complete |
| `sender` | 2 workers, 1 user goroutine, 1 request, failures, crashes | Completed is confirmed; no orphan in a busy status; the inductive invariant |
| `sender_control` | 1 worker, 4 user requests, failures | Paused stays paused; cancelled workers end |
| `sender_limit` (violation) | 3 transfers, 4 workers | more than maxConcurrent transfers run |
| `destination_commit` (DestinationCommit.cfg) | 2 transfers, 3 paths, all failures, retries, crashes, a user | a commit that is not to overwrite changes nothing that exists; what is delivered is whole and stays |
| `staging` | 2 uploads, 2 managers, the cleaner, 2 paths, every failure, restart | exact count, complete promotion, one promotion, nothing acknowledged lost |
| `offer_nonces` | 2 handlers, 2 offers of one transfer, half seconds, restarts, deletions | an offer is accepted once; its transfer is made again only after a restart and a deletion |
| `pairing` | 2 devices, 2 requests, restart | pending has its session, trust needs both, the refinement of `PairingPromise` |
| `discovery` | 1 peer with 2 hints, 1 sweeper, 1 client | no use of closed channels, no leaked queue, a client that caught up agrees, silent peers forgotten, slow clients released |
| `runtime` (Runtime.cfg) | 2 requests that overlap, 2 releases, 2 names, 2 IDs and keys, all failures, deaths and restarts | identity survives, nothing runs unaccepted, no signal lost, no stale name, the inductive invariant (with: memory and file agree, `FileIsMemory`), the refinement of `PrivacyPromise` |
| `runtime_live` (RuntimeLive.cfg) | 1 request at a time | the last settings take effect; the services stop once Run's context is cancelled |

### Bounds, and why they are enough

* *Receiver.* Every race the code has is between two requests of one
  transfer, and a third can only repeat what one of them does. Two files make
  "some but not all moved" possible; the empty one has no `.part`, the special case of
  Finalize. There is no bound on the number of requests, failures or crashes.
  `receiver` lets the sender's files change too; `receiver_resume_map` does without.
* *Destination commit.* Whoever comes between a look and a rename is one other transfer or the user,
  so two transfers are enough; with three paths resolveConflict meets a taken name, a taken
  suffix, a free one, and the end of the suffixes (`MaxSuffix`, 9999 in the code). Retries, crashes, failures and the
  user's changes are not bounded.
* *Sender.* `MaxRequests` bounds the user's commands, because each adds a goroutine's
  worth of interleavings; `sender_control` takes more of them with one worker. `Tokens` has
  two for every transfer and one for every goroutine, so that generateToken always finds one nobody holds
  (`SenderAssumption`; the code draws 32 random bytes). The limit of
  two needs three transfers to be exceeded.
* *Staging.* Two uploads are needed for a race on a path, two managers for a repeated request, or a delete and
  a queue that overlap, two paths for "one complete, one not" and "one unlinked, one not yet". Uploads, requests and
  restarts are not bounded. The constraint `Promised` leaves out what follows after a client is neither
  orderly nor careful: the two never become true again, and three of the four properties hold of such a state by their
  antecedent. The fourth, ActiveIsExact, is about `active` and `pc` only and is proved without the constraint
  (`CountIsExact`). `PromisedView` identifies states that differ in `promoted` or `removed` where no action and
  no property reads them any more. Uploads, managers and paths are symmetric.
* *Nonces.* `Skew` is 1 s and `Retention` 4 s, the smallest that `RetentionCoversSkew` allows (the
  code has 2 min and 5 min); `MaxTime` lets a nonce be forgotten and its offer be
  delivered again after that. Restarts and deletions are not bounded; one transfer with two offers has
  every interference between rows, since transfers share nothing.
* *Pairing.* Two requests can cross or follow one another. `MaxMessages` is 1: one
  proof or decision is on its way, for any time, while everything else goes on; the proofs hold for any number.
* *Discovery.* Peers do not interact in the registry, so one is enough. Three ticks cover the order of
  "still online", "offline", "removed", with a clock reading up to `MaxLag` ticks old. A
  queue of one (64 in the code) is full as soon as the client is one event behind. One
  sweeper is in the run; the proofs allow any number.
* *Runtime.* Two requests overlap in every way two can; the copies of the display name
  disagree with two writers already. `MaxRequests` is 2 and counts the requests of the whole
  behaviour, over all restarts: a third only repeats. Two releases (`MaxPolicy`) allow an upgrade and
  a downgrade. Starts, deaths, failed saves and sessions of discovery are not bounded. One ID and key are lost
  with an installation that died before announcing them, so two are enough to start again.
  `runtime_live` has one request at a time, which is enough to change the settings twice while the
  supervisor waits for a service.

`CHECK_DEADLOCK FALSE` is set where the system may come to rest: all bounded requests
used up and all transfers final (`sender_control`, `sender_limit`, which have no restart), time used up (`offer_nonces`), requests used up (`pairing`).

## 4. Fairness, and what justifies it

* Goroutines that can go on do go on (WF). Go schedules all of them, network
  requests have timeouts (the HTTP client's, `writeTimeout` of a socket).
* A goroutine waiting for a `sync.Mutex` gets it in the end (SF): the mutex has a starvation
  mode that hands it to the waiter at the head of the queue.
* Run dispatches again and again (SF on `Dispatch`): a ticker of one second.
* `recover` runs at start (WF). The clock and tickers go on (WF).
* superviseRuntime takes the end of a service in the end when it is ready again and again, though a
  change of the settings is ready too (SF on `SelectDone`): Go's `select` picks among the
  ready cases at random. The supervisor, the services and the requests under way go on (WF).
* Users, peers, clients, crashes and failures are never fair: nothing makes them happen.

Safety properties do not depend on any of this.

## 5. What is proved

The proofs hold for every value of the constants that satisfies the named assumptions of
the module; TLC evaluates those assumptions in every run.

* **TransferReceiverProofs** (`ReceiverAssumption`: at least one file, each chunk belongs to
  one, "none" is no token). `TypeCorrect`, `Inductive`, and from the latter
  `ConsentBeforeBytes`, `ChunkRowsBacked`, `CompletedIsDelivered`, `VerifiedFirst`, `VerifiedWhenInTurn`, the action property
  `TerminalWhenInTurn` and the refinement `LifecycleIsKept`.
  None of the first four invariants is inductive: each speaks of the row or the disk,
  which a request writes from its own copy. `IndInv` adds what each goroutine's
  locals promise: a copy that is approved was made after consent; an upload
  about to be recorded has its bytes on disk; a Finalize that has reached file *n*
  has verified, or moved, all files before *n*; a copy that says Completed was made after the last
  move. The proof has a lemma per action and, in it, a step per part of `IndInv`. For requests that come
  in turn `InTurnInv` says that one goroutine at most is busy (`AloneInTurn`), that the transfer it works on is not
  over, has the status its step relies on, and will get one that may follow, and that what it has checked is the manifest's even
  if the sender's files changed (`ServedInTurn`): nobody else writes to a `.part` meanwhile. `ApprovedInv` says that a copy that is on its way
  carries the approval, which is what makes Receiving follow from the user's consent alone. `IndInv` is
  also an invariant of the run `receiver`. The refinement maps each kind of step: a request to a decision, to `Overlap` or to a
  stutter (`BeginKept`), a save to the change of state it makes and a rename to a move (`ContinueKept`),
  a cleared history, a crash or new bytes at the sender to the end of the transfer or a stutter (`SystemKept`),
  and everything after an overlap to `Disorderly` (`KeptDisorderly`).
* **TransferSenderProofs** (`SenderAssumption`: finitely many goroutines of two kinds, tokens enough). `SenderInvariant`, and
  from it `CompletedOnlyConfirmed`, `NobodyOrphaned` and the action property `PausedStays`. `SenderInv` says who holds a
  mutex at which step (`LockInv`), that the worker the map names works on that transfer (`MapInv`), what a user's
  goroutine will save (`UserInv`), that a worker past the answer to complete has seen the receiver complete
  (`ConfirmInv`), and that no live worker in the map belongs to a paused row (`PausedInv`). `NoOrphan` alone is not
  inductive: that a goroutine is there does not mean that it will write the row. `BusyInv` names those who will
  (`Attended`: a worker that has not been cancelled or is to fail the row, a Cancel before its save, recover). `PausedInv` speaks
  of a row that refreshProgress has read as well: it may write Paused back long after, when the transfer must
  not have been resumed; that is what `progressMu` is for. The steps are of three kinds: `Work` (a worker goes on
  inside processOutbound), `Leave` (it returns and fails the row), `Serve` (a user's request); each action is
  shown to be of its kind, and each kind to keep the parts. That a fresh token exists is an argument on cardinalities.
* **DestinationCommitProofs** (`CommitAssumption`: the user is no transfer). `CommitInvariant`, and from it
  `TypeCorrect`, `DeliveredFileIsThere`, `KeepBothKeepsFiles`. That a delivered file is there is not inductive: a
  transfer that is still about to rename could replace it. `PlaceInv` says what lies at the target
  of a commit at each of its steps (nothing, the beginning of its file, the file), `AloneInv` who else may
  have chosen that path (after the delivery one that is to overwrite it, before it nobody), `OutputInv` which
  name a copy writes to, and `PolicyInv` that only an overwriting commit removes.
* **StagingProofs** (`StagingAssumption`: finitely many uploads, goroutines of three kinds). `StagingInvariant`, and from
  it `TypeCorrect`, `PromotedAreComplete`, `PromotedAtMostOnce`, `AcknowledgedAreKept`; and `CountIsExact`, by the
  cardinality of the set of uploads in progress. There are two arguments. `OrderlyInv`: for an orderly client, uploads and
  requests take turns and only one of the two directories exists (`TurnInv`), and a file that is written to is incomplete and has one
  writer, or has been removed (`WriterInv`). So a failed upload removes no file but its own, and neither a rename nor its rollback
  replaces anything. `CarefulInv`: for a careful client, the roots of a queue request are acknowledged, and uploaded by
  nobody, from QueueStage on (`ServedInv`); the file of an open handle is not acknowledged (`OwnFile`, `AckedInv`), so that
  what goes on next to the request does not touch the roots (`RenameInv`); and a request that has renamed holds a
  queued directory that is not empty, which no other rename gets past (`QueueInv`).
* **PairingProofs** (`PairingAssumption`: two devices). `PendingIsBacked`, `BothConfirmed`,
  `RejectedStaysRejected`, `TypeCorrect`, and the refinement `PromiseIsKept`. The invariant says what stands behind each flag of a session
  and behind each message that will set one: `local` stands for this user's confirmation, `remote`,
  and a decision that carries `local`, for the other's. The refinement needs `AnsweredInv` too: a session of the device that
  was asked belongs to a request whose exchange is done there, so that a request which is still to be checked cannot be over.
  Each action is shown to begin a request (`RequestKept`), to end some (`InstallKept`, of the one it replaces; `EndKept`), to
  accept or establish (`UserKept`, `ReceiveProofKept`, `ApplyPeerDecisionKept`), to change the trust (`TrustKept`), or to stutter.
  `RejectedStaysRejected` is what it means for a rejection.
* **OfferNoncesProofs** (`NoncesAssumption`, `RetentionCoversSkew`). `NonceInvariant`,
  `OfferAcceptedOnce`, `OfferMakesOneTransfer`. An offer that was accepted is in the cache, or its timestamp can no longer be
  valid for any handler; `RetentionCoversSkew` is the inequality this takes: the code's 5 minutes
  cover twice the skew of 2 minutes, a second of rounding and a delay of up to 59 seconds between the two
  clock readings. For the rows, `PassedIsAccepted` says that a nonce has one handler behind the cache,
  `PassedAgain` and `MadeIsKept` what must have happened if its offer has made a row before.
* **DiscoveryProofs** (`DiscoveryAssumption`: a queue holds an event, a peer is removed later than it goes
  offline, the session is no sweeper). `TypeCorrect`. `SubscribersAreServed`, `NeverPanics`: the broker's
  map holds open queues of running handlers only, so that Publish and the deferred cancel
  meet open channels. `ClientsAgree`: a client that has read
  everything shows what the registry holds. Its invariant `ToldInv` says where the news about a peer are that a client does not show
  yet: among the events a session or sweeper has still to publish (`PendingIsNews`), in the client's queue, or in the
  snapshot it has not written (`Told`), unless changes of that peer were published out of order (`raced`);
  a client that has not taken its snapshot needs none of them (`FreshClients`).
* **RuntimeProofs** (`IdentityAssumption`, `SettingsAssumption`, `RuntimeAssumption`: what stands for "none" or "unset" is no value, the default name is a name).
  It begins with `IdentityInv`, step by step:
  identity.json names a key only after that key is in identity.key, and what has been
  announced is on disk. `RuntimeInvariant` is the inductive invariant for any number of overlapping requests and
  any number of releases. Its parts: `QuietBefore` (nothing of the services exists before they are composed), `GateInv`
  (what runs, runs on an acceptance, which is not withdrawn while the process is up), `TurnInv` (at each
  step of superviseRuntime, what it has read and done agrees with the settings or a signal is pending), `LocalInv`
  and `NamesInv` (each copy of the name is the one saved or a writer that corrects it is
  on its way), `RecordInv` (what is on record was asked for). None of the safety properties
  is inductive: `NoLostWakeup`, for instance, needs to know what holds at every earlier
  step of the loop. From it follow `RuntimeTypes`, `PermanentIdentity`, `NeverRefused`,
  `NothingUnaccepted`, `NoWakeupLost`, `StaleNamesAreDue`, `NamesAgree`, `FileAndMemoryAgree`.
  `PromiseIsKept` is the refinement: the initial states map to initial states of `PrivacyPromise`,
  and every step changes the acceptance as `Consent` or `Restart` allow, or begins or ends one
  activity (`OneActivity`), or stutters.

Most type invariants of the proved modules, and `NonceInv` and `MadeInv`, need no run: the theorems establish them.

Only model-checked: all liveness (TLAPS does not prove liveness under fairness), and that the two properties of the
violation runs fail. Every invariant and action property of the passing runs is stated by a theorem for every value of the constants.

## 6. Disagreements between the code and its documents

The two violation runs show these; `PROJECT.json` "findings" quotes the documents.

1. A crash or an error after Finalize has moved some files leaves chunk rows that
   make the sender skip chunks the receiver has no longer.
2. dispatch starts a transfer again that has a worker already. The map then names one of the two only: more than
   `maxConcurrent` run, and Pause or Cancel does not find the other one, which works on (`Displaced`, the exception in
   `PausedStaysPaused`).

Seen while modelling, present in the models, but not made runs:

* Accept, Reject, ProtocolCancel and Finalize check a copy of the row and write it
  back later; of two that overlap the later one wins, also over a final status, so
  that a declined transfer may take bytes (`TerminalIsFinal` says otherwise; `TerminalIsFinalInTurn`
  is what holds).
* A sender that did not hear of the receiver's completion cannot learn of it by Retry, although
  docs/transfer-ui.md:147 has failed transfers retried from durable state: the loop that waits for approval (sender.go:96) leaves
  for Receiving, Resuming, Cancelled or Failed, and polls a Completed receiver until the user cancels (`SenderLearnsCompletion`).
* Two transfers with the policy "Keep both" that are finalized at the same time choose the same free name; the second
  rename replaces the file of the first, and both are reported Completed. The same happens to a file that the user
  creates there in between (files.go:180, service.go:1026; README.md:183 and docs/transfer-ui.md:114-116 say that both are kept).
  `DeliveredIsThere` and `KeepBothKeeps` exclude exactly these targets (`shared`, `released`); without
  `shared` TLC finds the loss in 9 states.
* A copy across file systems that fails leaves the beginning of the file under its final name; the next attempt
  keeps it and takes the next suffix, or, with "prompt", fails for ever. An overwrite that fails after
  os.Remove has lost the old file.
* A chunk request that passed its check before Finalize may write between the checksum and
  the rename; those bytes are delivered unverified (`DeliveredIsVerified`; `DeliveredIsVerifiedInTurn` is
  what holds).
* ReceiveOffer answers a *changed* offer under a known ID with the row on record
  (service.go:294); docs/transfer-protocol.md:28 says it is rejected.
* A nonce is used once while the receiver runs, not once for ever as docs/api.md:177 may be read: after a restart only the
  timestamp and the look-up by ID stand in the way of a late copy of an offer. If the user has deleted the row meanwhile, the
  transfer is offered to the user a second time (`TransferMadeOnce` excludes exactly that).
* The sender's Cancel (service.go:454) looks for a worker, unlocks and saves later: a worker
  dispatched in between overwrites Cancelled. Pause (service.go:415) saves the
  row it read before it cancelled the worker: a session token saved in between is lost.
* Staging: an upload between its Stat (staging.go:47) and `beginStageUpload`
  (staging.go:56) is not counted. A client that names a root it has no answer for, while it uploads or after a crash, can have
  a partial file queued.
* os.RemoveAll (staging.go:164, 205) works by open directories, name by name. If QueueStage looks and renames while the cleanup, or
  a delete, is at it, the rest of the files is unlinked in `staging/queued`, and the queued transfer lacks them. `careful` and
  `removed` exclude exactly this.
* If Queue fails and the rollback rename fails as well (staging.go:149-151), or the process dies between the two
  renames, the session stays in `staging/queued` without a transfer: queue and delete do not find it, and the cleanup looks into
  `staging/uploading` only, although docs/architecture.md:155 says that unfinished staging expires automatically. An upload that
  was past its Stat makes the directory anew and then has a session without the other files.
* Pairing: `applyPeerDecision` (pairing/service.go:537-554) does not look at the initiator's own
  state: a late answer finalizes a request its user has rejected; a second answer, or a
  second Accept, saves a trust again that was forgotten or blocked. If the confirm proof
  is lost and a status answer comes, the initiator trusts and the responder never hears of it.
  Requests that cross may be finalized in opposite orders, with different keys.
* Registry: the session and the sweeper may publish in another order than they changed a peer. A
  client then shows the peer wrongly until its next change: for instance, a sweep marks it
  offline between an Upsert and its publication, and "Updated, online" arrives last. `CaughtUpAgrees`
  excludes exactly these peers (`raced`); without that exclusion TLC finds the behaviour
  in 13 steps. While discovery is stopped nobody sweeps, and peers stay online in the list.
* Private files: the chmod comes after the rename (identity.go:212-215), so that a save that reports an
  error may have replaced the file; the values in memory stay the old ones until the next start
  (`torn`, and the exception in `FileIsMemory`).
* Two settings requests that overlap hand their names to discovery and pairing in any
  order; the two, and the file, may disagree until the next change (`NamesAgreeInTurn`
  excludes them).
* If identity.key is lost, or restored without identity.json's key, every start is refused; the
  order of the writes excludes that a crash does it (`StartIsNeverRefused`).
* At the end of Run nobody waits for superviseRuntime: the process may be gone before the
  services have stopped (`ServicesStop` has it as an alternative).
* A transfer service whose Run returns an error at once, a failing MkdirAll for instance, is
  started again at once, in a loop without a delay.

## 7. Plan

Done: `TransferReceiver` with its abstract specification `TransferLifecycle`, `DestinationCommit`, `TransferSender`, `Staging`,
`OfferNonces`, `Pairing` with its abstract specification `PairingPromise`, `Discovery`, `Identity`, `Settings`, `Runtime` with its abstract specification `PrivacyPromise`, and the proofs
of section 5. Next, in order of weight:

1. `TransferMirrors`: queued_transfers, transfer_history and failed_transfers against the status; migrations and their ledger.
2. An abstract specification of the registry as a client sees it, and that `Discovery` implements it.

## 8. What is not modelled, and why

* Cryptography (HMAC, X25519, signatures, TLS): taken as unforgeable; the models say
  which key or which user's confirmation a step relies on.
* The mDNS library, SQLite and the file system: external; a statement, or one file operation on one name (open, write, unlink, rename), is atomic, and may fail. os.RemoveAll is not: it is a step per name.
  A staged directory has no subdirectories in the model and fewer names than os.RemoveAll reads at once.
* Progress, speed, ETA, logging, event payloads: display data.
* The routes other than those of the settings, diagnostics, the simulator, the command line and the desktop shell: they decode requests
  and call the services; they keep no state that a property depends on.
* The frontend and the Apple clients are other programs; what the models assume of them is
  `orderly` and `careful` in `Staging`, `view` in `Discovery` and "the user may do anything at any time" elsewhere.
* Files with different names in one folder do not meet and are not modelled; a folder that is removed or replaced as a whole is a failing operation.
* Parsing of advertisements and validation of manifests and paths: pure functions that refuse.
