----------------------------- MODULE Discovery -----------------------------
(***************************************************************************)
(* Presence of peers: the registry of internal/discovery, the goroutines    *)
(* that change it (the session that hears advertisements, and the sweeper   *)
(* that expires silent peers), the broker of internal/websocket with its    *)
(* bounded queue per subscriber, and the handlers that stream a snapshot    *)
(* and then the events to a client.                                        *)
(*                                                                         *)
(* Upsert and Sweep change the registry under its lock and publish after    *)
(* they have released it, so a change and its event are two steps, and two  *)
(* goroutines may publish in another order than they changed.  Discovery    *)
(* can be stopped and started again: the sweeper of the earlier run is not  *)
(* waited for.                                                             *)
(*                                                                         *)
(* Time is kept as ages: ticks since a peer was last seen, since an         *)
(* advertisement was observed, since a timer fired.  Left out: the parsing  *)
(* of an advertisement (it is a hint and a metadata value; invalid ones and *)
(* the device's own are not in Devices), sessions that end and begin again  *)
(* (they only delay advertisements), pings.                                 *)
(***************************************************************************)
EXTENDS Integers, FiniteSets, Sequences

CONSTANTS
    Devices,        \* IDs of other devices
    Hints,          \* identity hints a device may advertise
    NoHint,         \* the empty identity hint
    Metas,          \* values of the metadata metadataChanged compares
    Sweepers,       \* goroutines of runSweeper, beside the session's
    Clients,        \* WebSocket connections, one after the other under each name
    OfflineAfter, RemoveAfter,   \* RegistryConfig, in ticks
    MaxLag,         \* how many ticks a goroutine may be behind its clock reading
    QueueSize       \* subscriberBuffer

ASSUME DiscoveryAssumption ==
    /\ IsFiniteSet(Devices) /\ IsFiniteSet(Clients) /\ "session" \notin Sweepers
    /\ OfflineAfter \in Nat \ {0} /\ RemoveAfter \in Nat /\ RemoveAfter > OfflineAfter
    /\ MaxLag \in Nat /\ QueueSize \in Nat \ {0}

Session == "session"
Publishers == {Session} \cup Sweepers
Absent == [present |-> FALSE]                       \* no such peer
Peer == [present : {TRUE}, hint : Hints \cup {NoHint}, meta : Metas, online : BOOLEAN]
Nothing == [heard |-> FALSE]                        \* no advertisement in hand
NoTick == -1
MaxAge == RemoveAfter + MaxLag                      \* ages saturate here

VARIABLES
    discovery,    \* Service.Run: "off", "on", or "stopping" after its context is cancelled
    registry,     \* Registry.devices, without LastSeen
    age,          \* ticks since LastSeen
    advert,       \* the advertisement the session is handling
    sweeper,      \* runSweeper: "off", "on", or "cancelled"
    lag,          \* ticks since the time value in the sweeper's ticker channel, or NoTick
    pending,      \* per goroutine, events of a change it has made and not published
    subscribers,  \* Broker.subscribers
    queue,        \* per client, the events in its channel
    closed,       \* clients whose channel is closed
    handler,      \* Handler.Serve: "off", "subscribed", "streaming", "leaving"
    replay,       \* per client, what is left of the snapshot
    view,         \* per client, the peers as the events written to it say
    panicked,     \* a send on, or a close of, a closed channel
    raced         \* history: peers last changed while an earlier change of
                  \* another goroutine was unpublished

registryVars == <<registry, age, raced>>
brokerVars == <<subscribers, queue, closed, panicked>>
clientVars == <<handler, replay, view>>
vars == <<discovery, registryVars, advert, sweeper, lag, pending,
          brokerVars, clientVars>>

(* The event about d: the four event types differ in what they say of d.    *)
Event(d, peer) == [device |-> d, peer |-> peer]
Events == [device : Devices, peer : Peer \cup {Absent}]
Adverts == [heard : {TRUE}, device : Devices, hint : Hints \cup {NoHint}, meta : Metas, delay : 0..MaxLag]

Init ==
    /\ discovery = "off"
    /\ registry = [d \in Devices |-> Absent] /\ age = [d \in Devices |-> 0]
    /\ advert = Nothing
    /\ sweeper = [s \in Sweepers |-> "off"] /\ lag = [s \in Sweepers |-> NoTick]
    /\ pending = [p \in Publishers |-> {}]
    /\ subscribers = {} /\ closed = {} /\ panicked = FALSE
    /\ queue = [c \in Clients |-> <<>>]
    /\ handler = [c \in Clients |-> "off"]
    /\ replay = [c \in Clients |-> {}]
    /\ view = [c \in Clients |-> [d \in Devices |-> Absent]]
    /\ raced = {}

-----------------------------------------------------------------------------
(* Service.Run and its environment.                                         *)

(* superviseRuntime starts Run, which starts a sweeper.                      *)
Start(s) ==
    /\ discovery = "off" /\ sweeper[s] = "off"
    /\ discovery' = "on"
    /\ sweeper' = [sweeper EXCEPT ![s] = "on"]
    /\ UNCHANGED <<registryVars, advert, lag, pending, brokerVars, clientVars>>

(* The context of Run is cancelled.                                         *)
Cancel ==
    /\ discovery = "on"
    /\ discovery' = "stopping"
    /\ sweeper' = [s \in Sweepers |-> IF sweeper[s] = "on" THEN "cancelled" ELSE sweeper[s]]
    /\ UNCHANGED <<registryVars, advert, lag, pending, brokerVars, clientVars>>

(* Run returns when the session has: nobody waits for the sweeper.          *)
RunReturns ==
    /\ discovery = "stopping" /\ advert = Nothing /\ pending[Session] = {}
    /\ discovery' = "off"
    /\ UNCHANGED <<registryVars, advert, sweeper, lag, pending, brokerVars, clientVars>>

(* runSession takes an advertisement and handleAdvertisement reads the time. *)
Hear(d, h, m) ==
    /\ discovery # "off" /\ advert = Nothing /\ pending[Session] = {}
    /\ advert' = [heard |-> TRUE, device |-> d, hint |-> h, meta |-> m, delay |-> 0]
    /\ UNCHANGED <<discovery, registryVars, sweeper, lag, pending, brokerVars, clientVars>>

(* A unit of time passes.                                                   *)
Tick ==
    /\ \A s \in Sweepers : lag[s] < MaxLag
    /\ advert.heard => advert.delay < MaxLag
    /\ age' = [d \in Devices |-> IF age[d] < MaxAge /\ registry[d].present THEN age[d] + 1 ELSE age[d]]
    /\ lag' = [s \in Sweepers |-> IF lag[s] = NoTick THEN NoTick ELSE lag[s] + 1]
    /\ advert' = IF advert.heard THEN [advert EXCEPT !.delay = @ + 1] ELSE advert
    /\ UNCHANGED <<discovery, registry, raced, sweeper, pending, brokerVars, clientVars>>

(* The sweep ticker fires; its channel holds one value.                     *)
Fire(s) ==
    /\ sweeper[s] # "off" /\ lag[s] = NoTick
    /\ lag' = [lag EXCEPT ![s] = 0]
    /\ UNCHANGED <<discovery, registryVars, advert, sweeper, pending, brokerVars, clientVars>>

-----------------------------------------------------------------------------
(* The registry.                                                            *)

(* Peers that another goroutine has changed and not published yet.          *)
UnpublishedBy(others) == {e.device : e \in UNION {pending[q] : q \in others}}

(* identityConflicts                                                        *)
Conflicts(existing, hint) == existing.hint # NoHint /\ existing.hint # hint

(* Upsert: nothing on a conflict, an event unless only LastSeen changes.    *)
Upsert ==
    /\ advert.heard
    /\ advert' = Nothing
    /\ LET d == advert.device
           new == [present |-> TRUE, hint |-> advert.hint, meta |-> advert.meta, online |-> TRUE]
           changed == registry[d] # new
       IN  IF registry[d].present /\ Conflicts(registry[d], advert.hint)
           THEN UNCHANGED <<registryVars, pending>>
           ELSE /\ registry' = [registry EXCEPT ![d] = new]
                /\ age' = [age EXCEPT ![d] = advert.delay]
                /\ pending' = [pending EXCEPT ![Session] = IF changed THEN {Event(d, new)} ELSE {}]
                /\ raced' = IF ~changed THEN raced
                            ELSE IF d \in UnpublishedBy(Sweepers) THEN raced \cup {d} ELSE raced \ {d}
    /\ UNCHANGED <<discovery, sweeper, lag, brokerVars, clientVars>>

(* Mutant of Swept: a peer that is offline already is passed over.          *)
SweptOnlineOnly(peer, a) ==
    IF ~peer.present \/ ~peer.online THEN peer
    ELSE IF a >= RemoveAfter THEN Absent
    ELSE IF a >= OfflineAfter THEN [peer EXCEPT !.online = FALSE] ELSE peer

(* What a sweep does to a peer of age a: removed, offline, or as it is.     *)
Swept(peer, a) ==
    IF ~peer.present \/ a >= RemoveAfter THEN Absent
    ELSE IF a >= OfflineAfter THEN [peer EXCEPT !.online = FALSE] ELSE peer

(* Sweep(now), where now is the time in the ticker channel.                 *)
Sweep(s) ==
    /\ lag[s] # NoTick /\ pending[s] = {}
    /\ lag' = [lag EXCEPT ![s] = NoTick]
    /\ registry' = [d \in Devices |-> Swept(registry[d], age[d] - lag[s])]
    /\ age' = [d \in Devices |-> IF registry'[d].present THEN age[d] ELSE 0]
    /\ LET changed == {d \in Devices : registry'[d] # registry[d]}
           others == UnpublishedBy(Publishers \ {s})
       IN  /\ pending' = [pending EXCEPT ![s] = {Event(d, registry'[d]) : d \in changed}]
           /\ raced' = (raced \ changed) \cup (changed \cap others)
    /\ UNCHANGED <<discovery, advert, sweeper, brokerVars, clientVars>>

(* runSweeper returns between two sweeps.                                   *)
SweeperReturns(s) ==
    /\ sweeper[s] = "cancelled" /\ pending[s] = {}
    /\ sweeper' = [sweeper EXCEPT ![s] = "off"]
    /\ lag' = [lag EXCEPT ![s] = NoTick]
    /\ UNCHANGED <<discovery, registryVars, advert, pending, brokerVars, clientVars>>

-----------------------------------------------------------------------------
(* The broker.                                                              *)

Deliverable(c) == Len(queue[c]) < QueueSize

(* Mutant of Send: a subscriber whose queue is full misses the event.       *)
SendSkipsSlow(e) ==
    /\ queue' = [c \in Clients |-> IF c \in subscribers /\ Deliverable(c) THEN Append(queue[c], e) ELSE queue[c]]
    /\ UNCHANGED <<subscribers, closed, panicked>>

(* Publish: a subscriber whose queue is full is closed and forgotten.       *)
Send(e) ==
    LET slow == {c \in subscribers : ~Deliverable(c)}
    IN  /\ queue' = [c \in Clients |-> IF c \in subscribers \ slow THEN Append(queue[c], e) ELSE queue[c]]
        /\ subscribers' = subscribers \ slow
        /\ closed' = closed \cup slow
        /\ panicked' = (panicked \/ subscribers \cap closed # {})

(* logAndPublish, for one event of the goroutine p.                         *)
Publish(p, e) ==
    /\ e \in pending[p]
    /\ pending' = [pending EXCEPT ![p] = @ \ {e}]
    /\ Send(e)
    /\ UNCHANGED <<discovery, registryVars, advert, sweeper, lag, clientVars>>

-----------------------------------------------------------------------------
(* Handler.Serve for the connection c.                                      *)

(* Subscribe, with a new queue, which is empty and open.                     *)
Connect(c) ==
    /\ handler[c] = "off"
    /\ handler' = [handler EXCEPT ![c] = "subscribed"]
    /\ subscribers' = subscribers \cup {c}
    /\ closed' = closed \ {c}
    /\ UNCHANGED <<discovery, registryVars, advert, sweeper, lag, pending, queue, panicked,
                   replay, view>>

(* Devices: the snapshot of Registry.List.                                  *)
Snapshot(c) ==
    /\ handler[c] = "subscribed"
    /\ handler' = [handler EXCEPT ![c] = "streaming"]
    /\ replay' = [replay EXCEPT ![c] = {Event(d, registry[d]) : d \in {x \in Devices : registry[x].present}}]
    /\ UNCHANGED <<discovery, registryVars, advert, sweeper, lag, pending, brokerVars, view>>

(* A write that succeeds.                                                   *)
Write(c, e) == view' = [view EXCEPT ![c][e.device] = e.peer]

Replay(c) ==
    /\ handler[c] = "streaming"
    /\ \E e \in replay[c] :
        /\ Write(c, e)
        /\ replay' = [replay EXCEPT ![c] = @ \ {e}]
    /\ UNCHANGED <<discovery, registryVars, advert, sweeper, lag, pending, brokerVars, handler>>

Deliver(c) ==
    /\ handler[c] = "streaming" /\ replay[c] = {} /\ queue[c] # <<>>
    /\ Write(c, Head(queue[c]))
    /\ queue' = [queue EXCEPT ![c] = Tail(@)]
    /\ UNCHANGED <<discovery, registryVars, advert, sweeper, lag, pending,
                   subscribers, closed, panicked, handler, replay>>

(* Mutant of Leave: the handler returns without unsubscribing.              *)
LeaveSubscribed(c) ==
    /\ handler' = [handler EXCEPT ![c] = "off"]
    /\ replay' = [replay EXCEPT ![c] = {}]
    /\ UNCHANGED <<discovery, registryVars, advert, sweeper, lag, pending, brokerVars, view>>

Leave(c) ==
    /\ handler' = [handler EXCEPT ![c] = "leaving"]
    /\ replay' = [replay EXCEPT ![c] = {}]
    /\ UNCHANGED <<discovery, registryVars, advert, sweeper, lag, pending, brokerVars, view>>

(* Mutant of Dropped: the loop does not look whether the queue is closed.   *)
DroppedUnnoticed(c) ==
    /\ handler[c] = "streaming" /\ replay[c] = {}
    /\ queue[c] = <<>> /\ c \in closed
    /\ UNCHANGED vars

(* The queue is closed and drained.                                         *)
Dropped(c) ==
    /\ handler[c] = "streaming" /\ replay[c] = {}
    /\ queue[c] = <<>> /\ c \in closed
    /\ Leave(c)

(* A write fails or times out, or the client has disconnected.              *)
Disconnected(c) ==
    /\ handler[c] = "streaming"
    /\ Leave(c)

(* Mutant of Unsubscribe: the queue is closed without a look at the map.    *)
UnsubscribeUnchecked(c) ==
    /\ handler[c] = "leaving"
    /\ handler' = [handler EXCEPT ![c] = "off"]
    /\ subscribers' = subscribers \ {c}
    /\ closed' = closed \cup {c}
    /\ panicked' = (panicked \/ c \in closed)
    /\ queue' = [queue EXCEPT ![c] = <<>>]
    /\ view' = [view EXCEPT ![c] = [d \in Devices |-> Absent]]
    /\ UNCHANGED <<discovery, registryVars, advert, sweeper, lag, pending, replay>>

(* The deferred cancel of Subscribe; the queue and the client are gone.     *)
Unsubscribe(c) ==
    /\ handler[c] = "leaving"
    /\ handler' = [handler EXCEPT ![c] = "off"]
    /\ IF c \in subscribers
       THEN /\ subscribers' = subscribers \ {c}
            /\ closed' = closed \cup {c}
            /\ panicked' = (panicked \/ c \in closed)
       ELSE UNCHANGED <<subscribers, closed, panicked>>
    /\ queue' = [queue EXCEPT ![c] = <<>>]
    /\ view' = [view EXCEPT ![c] = [d \in Devices |-> Absent]]
    /\ UNCHANGED <<discovery, registryVars, advert, sweeper, lag, pending, replay>>

-----------------------------------------------------------------------------
(* The goroutines: the session with Run, a sweeper, a handler.              *)
SessionStep ==
    Upsert \/ RunReturns \/ \E e \in pending[Session] : Publish(Session, e)

SweeperStep(s) ==
    Sweep(s) \/ SweeperReturns(s) \/ \E e \in pending[s] : Publish(s, e)

HandlerStep(c) ==
    Snapshot(c) \/ Replay(c) \/ Deliver(c) \/ Dropped(c) \/ Unsubscribe(c)

(* The supervisor, peers, clients and time.                                 *)
Environment ==
    \/ \E s \in Sweepers : Start(s) \/ Fire(s)
    \/ Cancel \/ Tick
    \/ \E d \in Devices, h \in Hints \cup {NoHint}, m \in Metas : Hear(d, h, m)
    \/ \E c \in Clients : Connect(c) \/ Disconnected(c)

Next ==
    \/ SessionStep \/ \E s \in Sweepers : SweeperStep(s)
    \/ \E c \in Clients : HandlerStep(c)
    \/ Environment

Spec == Init /\ [][Next]_vars

(* The clock and the tickers go on, goroutines are scheduled, and a write   *)
(* ends within writeTimeout.  Nothing makes a peer, a user or a client act. *)
Fairness ==
    /\ WF_vars(Tick) /\ WF_vars(SessionStep)
    /\ \A s \in Sweepers : WF_vars(Fire(s)) /\ WF_vars(SweeperStep(s))
    /\ \A c \in Clients : WF_vars(HandlerStep(c))

FairSpec == Spec /\ Fairness

-----------------------------------------------------------------------------
(* Type invariant; the queue bound is subscriberBuffer (broker.go:47).      *)
TypeOK ==
    /\ discovery \in {"off", "on", "stopping"}
    /\ registry \in [Devices -> Peer \cup {Absent}] /\ age \in [Devices -> 0..MaxAge]
    /\ advert \in Adverts \cup {Nothing}
    /\ sweeper \in [Sweepers -> {"off", "on", "cancelled"}]
    /\ lag \in [Sweepers -> {NoTick} \cup 0..MaxLag]
    /\ pending \in [Publishers -> SUBSET Events]
    /\ subscribers \subseteq Clients /\ closed \subseteq Clients
    /\ queue \in [Clients -> Seq(Events)] /\ \A c \in Clients : Len(queue[c]) <= QueueSize
    /\ handler \in [Clients -> {"off", "subscribed", "streaming", "leaving"}]
    /\ replay \in [Clients -> SUBSET Events]
    /\ view \in [Clients -> [Devices -> Peer \cup {Absent}]]
    /\ panicked \in BOOLEAN /\ raced \subseteq Devices

(* Publish (broker.go:31) closes the queue of a slow client while its       *)
(* handler may be about to unsubscribe: nobody sends on a closed channel or *)
(* closes it again, either of which ends the process.                       *)
NoPanic == ~panicked

(* A handler that has returned has no queue left in the broker, by whatever *)
(* path it returned, and a handler that is served from a closed queue is    *)
(* not a subscriber any more (handler.go:65, broker.go:51).                 *)
NoSubscriberLeak ==
    \A c \in Clients : c \in subscribers => handler[c] # "off" /\ c \notin closed

(* A client that is still subscribed and has read everything sees the peers *)
(* of the registry, whatever changed while it connected, and has missed no  *)
(* event (broker.go:26, handler.go:52): except for a peer that one          *)
(* goroutine changed before another one had published its change            *)
(* (registry.go:101).                                                       *)
CaughtUp(c) ==
    /\ c \in subscribers /\ handler[c] = "streaming"
    /\ replay[c] = {} /\ queue[c] = <<>>
    /\ \A p \in Publishers : pending[p] = {}
CaughtUpAgrees ==
    \A c \in Clients : CaughtUp(c) =>
        \A d \in Devices \ raced : view[c][d] = registry[d]

(* A peer that is not heard any more while discovery runs is in the end     *)
(* removed from the registry and from what a connected client shows         *)
(* (registry.go:138), unless goroutines raced on it.                        *)
Silent(d) == discovery = "on" /\ ~(advert.heard /\ advert.device = d)
Forgotten(d) ==
    \/ d \in raced
    \/ /\ ~registry[d].present
       /\ \A c \in Clients : handler[c] = "streaming" => ~view[c][d].present
SilentPeerIsForgotten == \A d \in Devices : <>[]Silent(d) => <>[]Forgotten(d)

(* A client whose queue was closed because it was too slow is let go        *)
(* (handler.go:88), so that it can connect again for a fresh snapshot.      *)
SlowClientIsReleased ==
    \A c \in Clients : (c \in closed /\ handler[c] = "streaming") ~> handler[c] = "off"

=============================================================================
