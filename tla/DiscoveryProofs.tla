-------------------------- MODULE DiscoveryProofs --------------------------
(***************************************************************************)
(* Theorems about Discovery: the types, that no send or close meets a      *)
(* closed channel, and that a client which has read everything agrees with *)
(* the registry, for any number of peers, sweepers and clients and any     *)
(* queue size.  The inductive arguments: the broker's map holds open       *)
(* queues of running handlers only (NoSubscriberLeak), so that what        *)
(* Publish sends to, and what the deferred cancel closes when it finds it, *)
(* is open; and the last word in the queue, snapshot or view of a          *)
(* subscriber about a peer nobody has unpublished events about is what the *)
(* registry says (ToldInv).                                                *)
(***************************************************************************)
EXTENDS Discovery, TLAPS

(* The broker's variables are changed by these steps only.                 *)
LEMMA BrokerSteps ==
    ASSUME [Next]_vars
    PROVE  \/ UNCHANGED <<brokerVars, handler>>
           \/ \E e : Send(e) /\ UNCHANGED handler
           \/ \E c \in Clients : Connect(c) \/ Snapshot(c) \/ Deliver(c) \/ Unsubscribe(c)
           \/ \E c \in Clients : Leave(c) /\ handler[c] = "streaming"
  BY DEF Next, SessionStep, SweeperStep, HandlerStep, Environment, vars, brokerVars, clientVars,
         registryVars, Start, Fire, Cancel, RunReturns, Tick, Upsert, Hear, Sweep, SweeperReturns,
         Publish, Replay, Dropped, Disconnected

(* Handlers are one of four, and the broker's sets hold clients.           *)
BrokerTypes ==
    /\ handler \in [Clients -> {"off", "subscribed", "streaming", "leaving"}]
    /\ subscribers \subseteq Clients

BrokerInv == BrokerTypes /\ NoSubscriberLeak /\ NoPanic

LEMMA BrokerInvStep ==
    ASSUME BrokerInv, [Next]_vars
    PROVE  BrokerInv'
<1> USE DEF BrokerInv, BrokerTypes, NoSubscriberLeak, NoPanic
<1>1. CASE UNCHANGED <<brokerVars, handler>>
  BY <1>1 DEF brokerVars
<1>2. CASE \E e : Send(e) /\ UNCHANGED handler
  BY <1>2 DEF Send
<1>3. CASE \E c \in Clients : Connect(c) \/ Snapshot(c) \/ Deliver(c) \/ Unsubscribe(c)
  <2>1. PICK c \in Clients : Connect(c) \/ Snapshot(c) \/ Deliver(c) \/ Unsubscribe(c)
    BY <1>3
  <2>2. CASE Connect(c)
    BY <2>2 DEF Connect
  <2>3. CASE Snapshot(c)
    BY <2>3 DEF Snapshot, brokerVars
  <2>4. CASE Deliver(c)
    BY <2>4 DEF Deliver
  <2>5. CASE Unsubscribe(c)
    <3> USE <2>5 DEF Unsubscribe
    <3>1. c \in subscribers => c \notin closed
      OBVIOUS
    <3>2. c \notin subscribers' /\ subscribers' \subseteq subscribers /\ closed' \subseteq closed \cup {c}
      BY Zenon
    <3>3. \A x \in Clients \ {c} : handler'[x] = handler[x]
      OBVIOUS
    <3>4. ~panicked'
      BY <3>1, Zenon
    <3>5. BrokerTypes' /\ NoSubscriberLeak'
      <4> HIDE <2>5 DEF Unsubscribe
      <4>1. handler' \in [Clients -> {"off", "subscribed", "streaming", "leaving"}]
        BY <2>5 DEF Unsubscribe
      <4>2. QED
        BY <3>2, <3>3, <4>1
    <3>6. QED
      BY <3>4, <3>5
  <2>6. QED
    BY <2>1, <2>2, <2>3, <2>4, <2>5
<1>4. CASE \E c \in Clients : Leave(c) /\ handler[c] = "streaming"
  BY <1>4 DEF Leave, brokerVars
<1>5. QED
  BY <1>1, <1>2, <1>3, <1>4, BrokerSteps

LEMMA BrokerInvInit == Init => BrokerInv
  BY DEF Init, BrokerInv, BrokerTypes, NoSubscriberLeak, NoPanic

(* The broker holds queues that are open and belong to handlers that run   *)
(* (broker.go:51, handler.go:65).                                          *)
THEOREM SubscribersAreServed == Spec => []NoSubscriberLeak
<1>1. BrokerInv => NoSubscriberLeak
  BY DEF BrokerInv
<1>2. QED
  BY <1>1, BrokerInvInit, BrokerInvStep, PTL DEF Spec

(* No event is sent on a closed channel and no channel is closed twice     *)
(* (broker.go:31, broker.go:54), whatever clients are slow, disconnect or  *)
(* unsubscribe while events are published.                                 *)
THEOREM NeverPanics == Spec => []NoPanic
<1>1. BrokerInv => NoPanic
  BY DEF BrokerInv
<1>2. QED
  BY <1>1, BrokerInvInit, BrokerInvStep, PTL DEF Spec

(* The types, part by part: what the registry, the goroutines and the      *)
(* clients hold.                                                           *)
RegistryTypes ==
    /\ registry \in [Devices -> Peer \cup {Absent}] /\ age \in [Devices -> 0..MaxAge]
    /\ advert \in Adverts \cup {Nothing}
    /\ pending \in [Publishers -> SUBSET Events]
    /\ raced \subseteq Devices

RunTypes ==
    /\ discovery \in {"off", "on", "stopping"}
    /\ sweeper \in [Sweepers -> {"off", "on", "cancelled"}]
    /\ lag \in [Sweepers -> {NoTick} \cup 0..MaxLag]

QueueTypes ==
    /\ subscribers \subseteq Clients /\ closed \subseteq Clients
    /\ queue \in [Clients -> Seq(Events)] /\ \A c \in Clients : Len(queue[c]) <= QueueSize
    /\ panicked \in BOOLEAN

ClientTypes ==
    /\ handler \in [Clients -> {"off", "subscribed", "streaming", "leaving"}]
    /\ replay \in [Clients -> SUBSET Events]
    /\ view \in [Clients -> [Devices -> Peer \cup {Absent}]]

(* The type invariant is these parts.                                      *)
LEMMA TypeParts == TypeOK <=> RegistryTypes /\ RunTypes /\ QueueTypes /\ ClientTypes
BY Zenon DEF TypeOK, RegistryTypes, RunTypes, QueueTypes, ClientTypes

(* So it is after a step.                                                  *)
LEMMA TypePartsNext == TypeOK' => RegistryTypes' /\ RunTypes' /\ QueueTypes' /\ ClientTypes'
BY Zenon DEF TypeOK, RegistryTypes, RunTypes, QueueTypes, ClientTypes

(* Upsert stores what the advertisement says of the peer.                  *)
LEMMA UpsertTypes == ASSUME RegistryTypes, Upsert PROVE RegistryTypes'
<1> USE DEF Upsert
<1> DEFINE d == advert.device
           new == [present |-> TRUE, hint |-> advert.hint, meta |-> advert.meta, online |-> TRUE]
<1>1. advert \in Adverts
  BY DEF RegistryTypes, Nothing
<1>2. d \in Devices /\ new \in Peer /\ advert.delay \in 0..MaxAge
  BY <1>1, DiscoveryAssumption DEF Adverts, Peer, MaxAge
<1>3. CASE UNCHANGED <<registryVars, pending>>
  BY <1>3 DEF RegistryTypes, registryVars
<1>4. CASE /\ registry' = [registry EXCEPT ![d] = new]
           /\ age' = [age EXCEPT ![d] = advert.delay]
           /\ \E e \in {{Event(d, new)}, {}} : pending' = [pending EXCEPT ![Session] = e]
           /\ raced' \in {raced, raced \cup {d}, raced \ {d}}
  <2>1. Event(d, new) \in Events
    BY <1>2 DEF Event, Events
  <2>2. registry' \in [Devices -> Peer \cup {Absent}] /\ age' \in [Devices -> 0..MaxAge]
    BY <1>2, <1>4 DEF RegistryTypes
  <2>3. pending' \in [Publishers -> SUBSET Events]
    <3>1. PICK e \in {{Event(d, new)}, {}} : pending' = [pending EXCEPT ![Session] = e]
      BY <1>4
    <3>2. e \subseteq Events
      BY <2>1
    <3> QED BY <3>1, <3>2 DEF RegistryTypes
  <2>4. raced' \subseteq Devices
    BY <1>2, <1>4 DEF RegistryTypes
  <2> QED BY <2>2, <2>3, <2>4 DEF RegistryTypes
<1> QED BY <1>3, <1>4, Zenon

(* A sweep leaves each peer as it is, offline, or absent.                  *)
LEMMA SweepTypes ==
    ASSUME RegistryTypes, RunTypes, NEW s \in Sweepers, Sweep(s)
    PROVE  RegistryTypes'
<1> USE DEF Sweep
<1>1. \A d \in Devices : Swept(registry[d], age[d] - lag[s]) \in Peer \cup {Absent}
  <2> TAKE d \in Devices
  <2>1. registry[d] \in Peer \cup {Absent}
    BY DEF RegistryTypes
  <2>2. registry[d].present => [registry[d] EXCEPT !.online = FALSE] \in Peer
    <3>1. ASSUME NEW p \in Peer PROVE [p EXCEPT !.online = FALSE] \in Peer
      BY <3>1 DEF Peer
    <3> QED BY <2>1, <3>1 DEF Absent
  <2>3. registry[d].present => registry[d] \in Peer
    BY <2>1 DEF Absent
  <2> QED BY <2>2, <2>3 DEF Swept
<1>2. registry' \in [Devices -> Peer \cup {Absent}]
  BY <1>1
<1>3. age' \in [Devices -> 0..MaxAge]
  BY DiscoveryAssumption DEF RegistryTypes, MaxAge
<1> DEFINE changed == {d \in Devices : registry'[d] # registry[d]}
<1>4. {Event(d, registry'[d]) : d \in changed} \subseteq Events
  BY <1>2 DEF Event, Events
<1>5. pending' \in [Publishers -> SUBSET Events]
  BY <1>4 DEF RegistryTypes
<1>6. raced' \subseteq Devices
  BY DEF RegistryTypes
<1> QED BY <1>2, <1>3, <1>5, <1>6 DEF RegistryTypes

(* The other steps publish, hear of a peer, or let time pass.              *)
LEMMA RegistryTypesStep ==
    ASSUME RegistryTypes, RunTypes, [Next]_vars
    PROVE  RegistryTypes'
<1>1. CASE UNCHANGED <<registryVars, advert, pending>>
  BY <1>1 DEF RegistryTypes, registryVars
<1>2. ASSUME NEW p \in Publishers, NEW e, Publish(p, e) PROVE RegistryTypes'
  BY <1>2 DEF RegistryTypes, Publish, registryVars
<1>3. ASSUME NEW d \in Devices, NEW h \in Hints \cup {NoHint}, NEW m \in Metas, Hear(d, h, m)
      PROVE  RegistryTypes'
  <2>1. advert' \in Adverts
    BY <1>3, DiscoveryAssumption DEF Hear, Adverts
  <2> QED BY <1>3, <2>1 DEF RegistryTypes, Hear, registryVars
<1>4. ASSUME Tick PROVE RegistryTypes'
  <2>1. advert' \in Adverts \cup {Nothing}
    <3>1. CASE advert \in Adverts
      <4>1. advert.heard /\ advert.delay \in 0..MaxLag
        BY <3>1 DEF Adverts
      <4>2. advert' = [advert EXCEPT !.delay = advert.delay + 1]
        BY <1>4, <4>1 DEF Tick
      <4>3. advert.delay + 1 \in 0..MaxLag
        BY <1>4, <4>1, DiscoveryAssumption DEF Tick
      <4> QED BY <3>1, <4>2, <4>3 DEF Adverts
    <3>2. CASE advert = Nothing
      BY <1>4, <3>2 DEF Tick, Nothing
    <3> QED BY <3>1, <3>2 DEF RegistryTypes
  <2>2. age' \in [Devices -> 0..MaxAge]
    BY <1>4, DiscoveryAssumption DEF Tick, RegistryTypes, MaxAge
  <2> QED BY <1>4, <2>1, <2>2 DEF Tick, RegistryTypes
<1>5. CASE Next
  <2>1. CASE SessionStep
    BY <1>2, <2>1, UpsertTypes, <1>1 DEF SessionStep, RunReturns, Publishers
  <2>2. ASSUME NEW s \in Sweepers, SweeperStep(s) PROVE RegistryTypes'
    BY <1>2, <2>2, SweepTypes, <1>1 DEF SweeperStep, SweeperReturns, Publishers
  <2>3. ASSUME NEW c \in Clients, HandlerStep(c) PROVE RegistryTypes'
    BY <1>1, <2>3 DEF HandlerStep, Snapshot, Replay, Deliver, Dropped, Leave, Unsubscribe
  <2>4. CASE Environment
    BY <1>1, <1>3, <1>4, <2>4 DEF Environment, Start, Fire, Cancel, Connect, Disconnected, Leave
  <2> QED BY <1>5, <2>1, <2>2, <2>3, <2>4 DEF Next
<1> QED BY <1>1, <1>5 DEF vars

(* The goroutines of Run start and end, and their tickers fire.            *)
LEMMA RunTypesStep == ASSUME RunTypes, [Next]_vars PROVE RunTypes'
<1> USE DEF RunTypes
<1>1. CASE UNCHANGED <<discovery, sweeper, lag>>
  BY <1>1
<1>2. CASE Tick
  BY <1>2, DiscoveryAssumption DEF Tick, NoTick
<1>3. CASE \E s \in Sweepers : Start(s) \/ Fire(s) \/ Sweep(s) \/ SweeperReturns(s)
  BY <1>3, DiscoveryAssumption DEF Start, Fire, Sweep, SweeperReturns, NoTick
<1>4. CASE Cancel \/ RunReturns
  BY <1>4 DEF Cancel, RunReturns
<1> QED
  BY <1>1, <1>2, <1>3, <1>4 DEF Next, SessionStep, SweeperStep, HandlerStep, Environment, vars,
     Upsert, Publish, Hear, Snapshot, Replay, Deliver, Dropped, Disconnected, Leave, Unsubscribe, Connect

(* Publish appends to queues that are not full, and closes the others.     *)
LEMMA QueueTypesStep ==
    ASSUME RegistryTypes, QueueTypes, [Next]_vars
    PROVE  QueueTypes'
<1>1. CASE UNCHANGED brokerVars
  BY <1>1 DEF QueueTypes, brokerVars
<1>2. ASSUME NEW p \in Publishers, NEW e, Publish(p, e) PROVE QueueTypes'
  <2>1. e \in Events
    BY <1>2 DEF Publish, RegistryTypes
  <2> DEFINE slow == {c \in subscribers : ~Deliverable(c)}
  <2>2. /\ queue' = [c \in Clients |-> IF c \in subscribers \ slow THEN Append(queue[c], e) ELSE queue[c]]
        /\ subscribers' = subscribers \ slow /\ closed' = closed \cup slow
        /\ panicked' \in BOOLEAN
    BY <1>2 DEF Publish, Send
  <2>3. ASSUME NEW c \in Clients
        PROVE  queue'[c] \in Seq(Events) /\ Len(queue'[c]) <= QueueSize
    <3>1. queue[c] \in Seq(Events) /\ Len(queue[c]) <= QueueSize /\ QueueSize \in Nat
      BY DiscoveryAssumption DEF QueueTypes
    <3>2. CASE c \in subscribers \ slow
      <4>1. Len(queue[c]) < QueueSize
        BY <3>2 DEF Deliverable
      <4> QED BY <2>1, <2>2, <3>1, <3>2, <4>1
    <3>3. CASE c \notin subscribers \ slow
      BY <2>2, <3>1, <3>3
    <3> QED BY <3>2, <3>3
  <2> HIDE DEF slow
  <2>4. queue' \in [Clients -> Seq(Events)]
    BY <2>2, <2>3
  <2>5. slow \subseteq Clients
    BY DEF slow, QueueTypes
  <2> QED BY <2>2, <2>3, <2>4, <2>5 DEF QueueTypes
<1>3. ASSUME NEW c \in Clients, Deliver(c) PROVE QueueTypes'
  <2>1. queue[c] \in Seq(Events) /\ queue[c] # <<>> /\ Len(queue[c]) <= QueueSize /\ QueueSize \in Nat
    BY <1>3, DiscoveryAssumption DEF QueueTypes, Deliver
  <2>2. Tail(queue[c]) \in Seq(Events) /\ Len(Tail(queue[c])) <= QueueSize
    BY <2>1
  <2> QED BY <1>3, <2>2 DEF Deliver, QueueTypes
<1>4. ASSUME NEW c \in Clients, Connect(c) PROVE QueueTypes'
  BY <1>4 DEF Connect, QueueTypes
<1>5. ASSUME NEW c \in Clients, Unsubscribe(c) PROVE QueueTypes'
  <2>1. subscribers' \subseteq Clients /\ closed' \subseteq Clients
    BY <1>5 DEF Unsubscribe, QueueTypes
  <2>2. panicked' \in BOOLEAN
    BY <1>5, Zenon DEF Unsubscribe, QueueTypes
  <2>3. queue' = [queue EXCEPT ![c] = <<>>]
    BY <1>5 DEF Unsubscribe
  <2>4. queue' \in [Clients -> Seq(Events)]
    BY <2>3 DEF QueueTypes
  <2>5. \A x \in Clients : Len(queue'[x]) <= QueueSize
    BY <2>3, DiscoveryAssumption DEF QueueTypes
  <2> QED BY <2>1, <2>2, <2>4, <2>5 DEF QueueTypes
<1> QED
  BY <1>1, <1>2, <1>3, <1>4, <1>5 DEF Next, SessionStep, SweeperStep, HandlerStep, Environment, vars,
     Upsert, RunReturns, Hear, Tick, Start, Fire, Cancel, Sweep, SweeperReturns, Snapshot, Replay,
     Dropped, Disconnected, Leave, Publishers

(* What a handler writes comes from the registry, through the snapshot or  *)
(* the queue.                                                              *)
LEMMA ClientTypesStep ==
    ASSUME RegistryTypes, QueueTypes, ClientTypes, [Next]_vars
    PROVE  ClientTypes'
<1>1. CASE UNCHANGED clientVars
  BY <1>1 DEF ClientTypes, clientVars
<1>2. ASSUME NEW c \in Clients, NEW e \in Events, Write(c, e)
      PROVE  view' \in [Clients -> [Devices -> Peer \cup {Absent}]]
  BY <1>2 DEF Write, ClientTypes, Events
<1>3. ASSUME NEW c \in Clients, Snapshot(c) PROVE ClientTypes'
  <2>1. {Event(d, registry[d]) : d \in {x \in Devices : registry[x].present}} \subseteq Events
    BY DEF Event, Events, RegistryTypes
  <2> QED BY <1>3, <2>1 DEF Snapshot, ClientTypes
<1>4. ASSUME NEW c \in Clients, Replay(c) PROVE ClientTypes'
  <2>1. PICK e \in replay[c] : Write(c, e) /\ replay' = [replay EXCEPT ![c] = @ \ {e}]
    BY <1>4 DEF Replay
  <2>2. e \in Events
    BY DEF ClientTypes
  <2> QED BY <1>2, <1>4, <2>1, <2>2 DEF Replay, ClientTypes
<1>5. ASSUME NEW c \in Clients, Deliver(c) PROVE ClientTypes'
  <2>1. Head(queue[c]) \in Events
    BY <1>5 DEF Deliver, QueueTypes
  <2> QED BY <1>2, <1>5, <2>1 DEF Deliver, ClientTypes
<1>6. ASSUME NEW c \in Clients, Connect(c) \/ Leave(c) \/ Unsubscribe(c) PROVE ClientTypes'
  <2>1. CASE Connect(c)
    BY <2>1 DEF Connect, ClientTypes
  <2>2. CASE Leave(c)
    BY <2>2 DEF Leave, ClientTypes
  <2>3. CASE Unsubscribe(c)
    BY <2>3 DEF Unsubscribe, ClientTypes
  <2> QED BY <1>6, <2>1, <2>2, <2>3
<1> QED
  BY <1>1, <1>3, <1>4, <1>5, <1>6 DEF Next, SessionStep, SweeperStep, HandlerStep, Environment, vars,
     Upsert, RunReturns, Publish, Hear, Tick, Start, Fire, Cancel, Sweep, SweeperReturns,
     Dropped, Disconnected

(* The types of all variables; no queue is longer than subscriberBuffer    *)
(* (broker.go:47).                                                         *)
THEOREM TypeCorrect == Spec => []TypeOK
<1>1. Init => TypeOK
  <2> USE DEF Init
  <2>1. Init => RegistryTypes
    BY DiscoveryAssumption DEF RegistryTypes, MaxAge
  <2>2. Init => RunTypes
    BY DEF RunTypes
  <2>3. Init => QueueTypes
    <3>1. <<>> \in Seq(Events)
      OBVIOUS
    <3>2. \A q : q = <<>> => Len(q) <= QueueSize
      BY DiscoveryAssumption
    <3>3. Init => queue \in [Clients -> Seq(Events)] /\ \A c \in Clients : queue[c] = <<>>
      BY <3>1
    <3> QED BY <3>2, <3>3 DEF QueueTypes
  <2>4. Init => ClientTypes
    BY DEF ClientTypes
  <2> HIDE DEF Init
  <2> QED BY <2>1, <2>2, <2>3, <2>4, TypeParts
<1>2. TypeOK /\ [Next]_vars => TypeOK'
  <2> SUFFICES ASSUME TypeOK, [Next]_vars PROVE TypeOK'
    OBVIOUS
  <2>1. RegistryTypes' /\ RunTypes' /\ QueueTypes' /\ ClientTypes'
    BY TypeParts, RegistryTypesStep, RunTypesStep, QueueTypesStep, ClientTypesStep
  <2> QED BY <2>1, Zenon DEF TypeOK, RegistryTypes, RunTypes, QueueTypes, ClientTypes
<1> QED BY <1>1, <1>2, PTL DEF Spec

-----------------------------------------------------------------------------
(* What a client is told.                                                  *)

(* A goroutine handles an advertisement after it has published the last.    *)
SessionIdle == advert.heard => pending[Session] = {}

(* What a goroutine is about to publish is what the registry holds, unless  *)
(* goroutines raced on the peer.                                           *)
PendingIsNews ==
    \A p \in Publishers : \A e \in pending[p] :
        e.device \notin raced => e.peer = registry[e.device]

(* A connection begins with nothing shown and an empty queue.               *)
FreshClients ==
    \A c \in Clients :
        /\ handler[c] # "streaming" => replay[c] = {}
        /\ handler[c] \in {"off", "subscribed"} =>
              \A d \in Devices : view[c][d] = Absent
        /\ handler[c] = "off" => queue[c] = <<>>

(* The last word a subscriber has been or will be told about a peer, in its *)
(* queue, else in its snapshot, else on its screen, is the registry's once  *)
(* every change of the peer has been published.                            *)
Settled(d) == d \notin raced /\ d \notin UnpublishedBy(Publishers)

About(c, d) == {i \in DOMAIN queue[c] : queue[c][i].device = d}

QueuedLast(c, d) ==
    \A i \in About(c, d) :
        (\A j \in About(c, d) : j <= i) => queue[c][i].peer = registry[d]

Replayed(c, d) == \A e \in replay[c] : e.device = d => e.peer = registry[d]

Shown(c, d) == (\A e \in replay[c] : e.device # d) => view[c][d] = registry[d]

Told(c, d) ==
    c \in subscribers /\ Settled(d) =>
        /\ handler[c] \in {"subscribed", "streaming"} => QueuedLast(c, d)
        /\ handler[c] = "streaming" /\ About(c, d) = {} =>
              Replayed(c, d) /\ Shown(c, d)

ToldInv ==
    /\ SessionIdle /\ PendingIsNews /\ FreshClients
    /\ \A c \in Clients, d \in Devices : Told(c, d)

(* Everything the proof of ToldInv rests on.                               *)
Known == RegistryTypes /\ RunTypes /\ QueueTypes /\ ClientTypes /\ BrokerInv

(* A peer is unpublished when some goroutine has an event about it.         *)
LEMMA UnpublishedIs ==
    ASSUME NEW S, NEW d
    PROVE  d \in UnpublishedBy(S) <=> \E q \in S : \E e \in pending[q] : e.device = d
  BY DEF UnpublishedBy

(* An event says of a peer what it was made with.                          *)
LEMMA EventSays ==
    ASSUME NEW d, NEW peer
    PROVE  Event(d, peer).device = d /\ Event(d, peer).peer = peer
  BY DEF Event

(* Hear takes an advertisement when nothing is pending; the other steps of  *)
(* the session publish, or drop the advertisement.                         *)
LEMMA SessionIdleStep ==
    ASSUME Known, SessionIdle, [Next]_vars
    PROVE  SessionIdle'
<1> USE DEF SessionIdle
<1>1. CASE UNCHANGED <<advert, pending>>
  BY <1>1
<1>2. CASE Upsert
  BY <1>2 DEF Upsert, Nothing
<1>3. ASSUME NEW p \in Publishers, NEW e, Publish(p, e)
      PROVE  SessionIdle'
  BY <1>3 DEF Publish, Known, RegistryTypes
<1>4. ASSUME NEW s \in Sweepers, Sweep(s)
      PROVE  SessionIdle'
  <2>1. s # Session
    BY DiscoveryAssumption DEF Session
  <2> QED BY <1>4, <2>1 DEF Sweep, Known, RegistryTypes
<1>5. CASE Tick
  <2>1. advert'.heard = advert.heard
    <3>1. CASE advert \in Adverts
      BY <1>5, <3>1 DEF Tick, Adverts
    <3>2. CASE advert = Nothing
      BY <1>5, <3>2 DEF Tick, Nothing
    <3> QED BY <3>1, <3>2 DEF Known, RegistryTypes
  <2> QED BY <1>5, <2>1 DEF Tick
<1>6. CASE \E d \in Devices, h \in Hints \cup {NoHint}, m \in Metas : Hear(d, h, m)
  BY <1>6 DEF Hear
<1> QED
  BY <1>1, <1>2, <1>3, <1>4, <1>5, <1>6 DEF Next, SessionStep, SweeperStep,
     HandlerStep, Environment, vars, RunReturns, Start, Fire, Cancel,
     SweeperReturns, Snapshot, Replay, Deliver, Dropped, Disconnected, Leave,
     Unsubscribe, Connect, Publishers

(* A goroutine that changes the registry leaves word of each change, and    *)
(* no peer stays unpublished by others without being raced on.              *)
Announced ==
    \A d \in Devices :
        /\ Settled(d)' => Settled(d) /\ registry'[d] = registry[d]
        /\ d \notin raced' =>
              \A p \in Publishers : \A e \in pending'[p] :
                  e.device = d => e.peer = registry'[d]

(* Upsert announces the peer it has stored (registry.go:61).                *)
LEMMA UpsertAnnounces ==
    ASSUME Known, SessionIdle, PendingIsNews, Upsert
    PROVE  Announced
<1> DEFINE d == advert.device
           new == [present |-> TRUE, hint |-> advert.hint, meta |-> advert.meta, online |-> TRUE]
           ev == IF registry[d] # new THEN {Event(d, new)} ELSE {}
<1>1. /\ d \in Devices /\ pending[Session] = {} /\ Session \in Publishers
      /\ pending \in [Publishers -> SUBSET Events]
      /\ registry \in [Devices -> Peer \cup {Absent}]
  <2>1. advert \in Adverts /\ advert.heard
    BY DEF Upsert, Known, RegistryTypes, Nothing
  <2>2. d \in Devices
    BY <2>1 DEF Adverts
  <2> QED BY <2>1, <2>2 DEF Known, RegistryTypes, SessionIdle, Publishers
<1>2. CASE UNCHANGED <<registryVars, pending>>
  BY <1>2 DEF Announced, Settled, UnpublishedBy, registryVars, PendingIsNews
<1>3. CASE /\ registry' = [registry EXCEPT ![d] = new]
           /\ pending' = [pending EXCEPT ![Session] = ev]
           /\ raced' = IF registry[d] = new THEN raced
                       ELSE IF d \in UnpublishedBy(Sweepers) THEN raced \cup {d}
                       ELSE raced \ {d}
  <2>1. /\ registry'[d] = new
        /\ \A x \in Devices : x # d => registry'[x] = registry[x]
        /\ pending'[Session] = ev
        /\ \A p \in Publishers : p # Session => pending'[p] = pending[p]
        /\ \A x \in Devices : x # d => (x \in raced' <=> x \in raced)
    BY <1>1, <1>3
  <2>2. \A e \in ev : e.device = d /\ e.peer = new
    BY EventSays
  <2>3. registry[d] # new => Event(d, new) \in pending'[Session]
    BY <2>1
  <2> HIDE DEF new, ev
  <2>4. ASSUME NEW x \in Devices, Settled(x)'
        PROVE  Settled(x) /\ registry'[x] = registry[x]
    <3>1. x = d => registry[d] = new
      <4> SUFFICES ASSUME x = d, registry[d] # new PROVE FALSE
        OBVIOUS
      <4>1. Event(d, new) \in pending'[Session] /\ Event(d, new).device = d
        BY <2>3, EventSays
      <4>2. x \in UnpublishedBy(Publishers)'
        BY <1>1, <4>1 DEF UnpublishedBy
      <4> QED BY <2>4, <4>2 DEF Settled
    <3>2. registry'[x] = registry[x] /\ x \notin raced
      BY <1>3, <2>1, <2>4, <3>1 DEF Settled
    <3>3. x \notin UnpublishedBy(Publishers)
      BY <1>1, <2>1, <2>4 DEF Settled, UnpublishedBy
    <3> QED BY <3>2, <3>3 DEF Settled
  <2>5. ASSUME NEW x \in Devices, x \notin raced', NEW p \in Publishers,
               NEW e \in pending'[p], e.device = x
        PROVE  e.peer = registry'[x]
    <3>1. CASE p = Session
      BY <2>1, <2>2, <2>5, <3>1
    <3>2. CASE p # Session
      <4>1. e \in pending[p] /\ p \in Sweepers
        BY <2>1, <2>5, <3>2 DEF Publishers
      <4>2. x = d => d \in UnpublishedBy(Sweepers)
        BY <2>5, <4>1 DEF UnpublishedBy
      <4>3. x \notin raced /\ registry'[x] = registry[x]
        BY <1>3, <2>1, <2>5, <4>2
      <4> QED BY <2>5, <4>1, <4>3 DEF PendingIsNews
    <3> QED BY <3>1, <3>2
  <2> QED BY <2>4, <2>5 DEF Announced
<1> QED BY <1>2, <1>3, Zenon DEF Upsert

(* A sweep announces every peer it has put offline or removed               *)
(* (registry.go:101).                                                      *)
LEMMA SweepAnnounces ==
    ASSUME Known, PendingIsNews, NEW s \in Sweepers, Sweep(s)
    PROVE  Announced
<1> DEFINE changed == {d \in Devices : registry'[d] # registry[d]}
           others == UnpublishedBy(Publishers \ {s})
<1>1. /\ s \in Publishers /\ pending \in [Publishers -> SUBSET Events]
      /\ pending[s] = {}
  BY DEF Sweep, Known, RegistryTypes, Publishers
<1>2. /\ pending' = [pending EXCEPT ![s] = {Event(d, registry'[d]) : d \in changed}]
      /\ raced' = (raced \ changed) \cup (changed \cap others)
  BY DEF Sweep
<1>3. /\ pending'[s] = {Event(d, registry'[d]) : d \in changed}
      /\ \A p \in Publishers : p # s => pending'[p] = pending[p]
  BY <1>1, <1>2
<1>4. ASSUME NEW x \in Devices, Settled(x)'
      PROVE  Settled(x) /\ registry'[x] = registry[x]
  <2>1. x \notin changed
    <3> SUFFICES ASSUME x \in changed PROVE FALSE
      OBVIOUS
    <3>1. Event(x, registry'[x]) \in pending'[s]
      BY <1>3
    <3>2. x \in UnpublishedBy(Publishers)'
      BY <1>1, <3>1, EventSays DEF UnpublishedBy
    <3> QED BY <1>4, <3>2 DEF Settled
  <2>2. x \notin raced
    BY <1>2, <1>4, <2>1 DEF Settled
  <2>3. x \notin UnpublishedBy(Publishers)
    BY <1>1, <1>3, <1>4 DEF Settled, UnpublishedBy
  <2> QED BY <2>1, <2>2, <2>3 DEF Settled
<1>5. ASSUME NEW x \in Devices, x \notin raced', NEW p \in Publishers,
             NEW e \in pending'[p], e.device = x
      PROVE  e.peer = registry'[x]
  <2>1. CASE p = s
    <3>1. PICK d \in changed : e = Event(d, registry'[d])
      BY <1>3, <1>5, <2>1
    <3> QED BY <1>5, <3>1, EventSays
  <2>2. CASE p # s
    <3>1. e \in pending[p] /\ p \in Publishers \ {s}
      BY <1>3, <1>5, <2>2
    <3>2. x \in others
      BY <1>5, <3>1 DEF UnpublishedBy
    <3>3. x \notin changed /\ x \notin raced
      BY <1>2, <1>5, <3>2
    <3> QED BY <1>5, <3>1, <3>3 DEF PendingIsNews
  <2> QED BY <2>1, <2>2
<1> QED BY <1>4, <1>5 DEF Announced

(* An announced change keeps what clients are told.                        *)
LEMMA AnnouncedTold ==
    ASSUME Known', ToldInv, Announced, UNCHANGED <<brokerVars, clientVars>>
    PROVE  PendingIsNews' /\ FreshClients' /\ \A c \in Clients, d \in Devices : Told(c, d)'
<1>1. PendingIsNews'
  <2> SUFFICES ASSUME NEW p \in Publishers, NEW e \in pending'[p],
                      e.device \notin raced'
               PROVE  e.peer = registry'[e.device]
    BY DEF PendingIsNews
  <2>1. e.device \in Devices
    BY DEF Known, RegistryTypes, Events
  <2> QED BY <2>1 DEF Announced
<1>2. FreshClients'
  BY DEF ToldInv, FreshClients, brokerVars, clientVars
<1>3. ASSUME NEW c \in Clients, NEW d \in Devices PROVE Told(c, d)'
  <2>1. /\ UNCHANGED <<subscribers, queue, handler, replay, view>>
        /\ Settled(d)' => Settled(d) /\ registry'[d] = registry[d]
    BY DEF Announced, brokerVars, clientVars
  <2>2. Told(c, d)
    BY DEF ToldInv
  <2> QED BY <2>1, <2>2 DEF Told, QueuedLast, Replayed, Shown, About
<1> QED BY <1>1, <1>2, <1>3

(* Publish tells every subscriber that is not slow; what it tells is news.  *)
LEMMA PublishTold ==
    ASSUME Known, ToldInv, NEW p \in Publishers, NEW e, Publish(p, e)
    PROVE  PendingIsNews' /\ FreshClients' /\ \A c \in Clients, d \in Devices : Told(c, d)'
<1> DEFINE slow == {c \in subscribers : ~Deliverable(c)}
<1>1. /\ e \in pending[p] /\ pending' = [pending EXCEPT ![p] = pending[p] \ {e}]
      /\ pending \in [Publishers -> SUBSET Events]
      /\ UNCHANGED <<registry, raced, handler, replay, view>>
      /\ queue' = [c \in Clients |-> IF c \in subscribers \ slow THEN Append(queue[c], e)
                                                                 ELSE queue[c]]
      /\ subscribers' = subscribers \ slow
  BY DEF Publish, Send, registryVars, clientVars, Known, RegistryTypes
<1>2. /\ pending'[p] = pending[p] \ {e}
      /\ \A q \in Publishers : q # p => pending'[q] = pending[q]
  BY <1>1
<1>3. PendingIsNews'
  BY <1>1, <1>2 DEF ToldInv, PendingIsNews
<1>4. FreshClients'
  <2>1. \A c \in Clients : handler[c] = "off" => c \notin subscribers
    BY DEF Known, BrokerInv, NoSubscriberLeak
  <2> HIDE DEF slow
  <2>2. \A c \in Clients : handler[c] = "off" => queue'[c] = queue[c]
    BY <1>1, <2>1
  <2> QED BY <1>1, <2>2 DEF ToldInv, FreshClients
<1>5. ASSUME NEW c \in Clients, NEW d \in Devices, c \in subscribers', Settled(d)'
      PROVE  /\ handler[c] \in {"subscribed", "streaming"} => QueuedLast(c, d)'
             /\ handler[c] = "streaming" /\ About(c, d)' = {} =>
                   Replayed(c, d)' /\ Shown(c, d)'
  <2>1. c \in subscribers /\ queue'[c] = Append(queue[c], e) /\ queue[c] \in Seq(Events)
    BY <1>1, <1>5 DEF Known, QueueTypes
  <2> DEFINE n == Len(queue[c])
  <2>2. /\ n \in Nat /\ DOMAIN queue[c] = 1..n /\ DOMAIN queue'[c] = 1..(n + 1)
        /\ queue'[c][n + 1] = e /\ \A i \in 1..n : queue'[c][i] = queue[c][i]
    <3>1. e \in Events
      BY <1>1
    <3> QED BY <2>1, <3>1
  <2> HIDE DEF n
  <2>3. CASE e.device = d
    <3>1. e.peer = registry[d]
      BY <1>1, <1>5, <2>3 DEF ToldInv, PendingIsNews, Settled
    <3>2. n + 1 \in About(c, d)' /\ \A i \in About(c, d)' : i \in Nat /\ i <= n + 1
      BY <2>2, <2>3 DEF About
    <3>3. \A i \in About(c, d)' : n + 1 <= i => i = n + 1
      BY <2>2, <3>2
    <3> QED BY <1>1, <2>2, <3>1, <3>2, <3>3 DEF QueuedLast
  <2>4. CASE e.device # d
    <3>1. Settled(d)
      BY <1>1, <1>2, <1>5, <2>4 DEF Settled, UnpublishedBy
    <3>2. About(c, d)' = About(c, d)
      BY <2>2, <2>4 DEF About
    <3>3. \A i \in About(c, d) : queue'[c][i] = queue[c][i]
      BY <2>2 DEF About
    <3>4. Told(c, d)
      BY DEF ToldInv
    <3> QED BY <1>1, <2>1, <3>1, <3>2, <3>3, <3>4 DEF Told, QueuedLast, Replayed, Shown
  <2> QED BY <2>3, <2>4
<1>6. \A c \in Clients, d \in Devices : Told(c, d)'
  BY <1>1, <1>5 DEF Told
<1> QED BY <1>3, <1>4, <1>6

(* The other steps that concern one client leave registry and pending       *)
(* events alone, and the other clients.                                    *)
LEMMA OneClientTold ==
    ASSUME ToldInv, NEW c \in Clients, UNCHANGED <<registry, raced, pending>>,
           \A x \in Clients : x # c =>
              /\ x \in subscribers' => x \in subscribers
              /\ queue'[x] = queue[x] /\ handler'[x] = handler[x]
              /\ replay'[x] = replay[x] /\ view'[x] = view[x],
           /\ handler'[c] # "streaming" => replay'[c] = {}
           /\ handler'[c] \in {"off", "subscribed"} => \A d \in Devices : view'[c][d] = Absent
           /\ handler'[c] = "off" => queue'[c] = <<>>,
           \A d \in Devices : Settled(d) => Told(c, d)'
    PROVE  PendingIsNews' /\ FreshClients' /\ \A x \in Clients, d \in Devices : Told(x, d)'
<1>1. PendingIsNews'
  BY DEF ToldInv, PendingIsNews
<1>2. FreshClients'
  <2>1. ASSUME NEW x \in Clients, x # c
        PROVE  /\ handler'[x] # "streaming" => replay'[x] = {}
               /\ handler'[x] \in {"off", "subscribed"} =>
                     \A d \in Devices : view'[x][d] = Absent
               /\ handler'[x] = "off" => queue'[x] = <<>>
    BY <2>1 DEF ToldInv, FreshClients
  <2> QED BY <2>1 DEF FreshClients
<1>3. \A d \in Devices : Settled(d)' <=> Settled(d)
  BY DEF Settled, UnpublishedBy
<1>4. ASSUME NEW x \in Clients, NEW d \in Devices, x # c
      PROVE  Told(x, d)'
  <2>1. Told(x, d)
    BY DEF ToldInv
  <2>2. About(x, d)' = About(x, d)
    BY <1>4 DEF About
  <2> QED BY <1>3, <1>4, <2>1, <2>2 DEF Told, QueuedLast, Replayed, Shown
<1>5. \A d \in Devices : Told(c, d)'
  BY <1>3 DEF Told
<1> QED BY <1>1, <1>2, <1>4, <1>5

(* Serve subscribes before it reads the snapshot (handler.go:52), so that    *)
(* no change falls between the two.                                        *)
LEMMA ClientTold ==
    ASSUME Known, ToldInv, NEW c \in Clients,
           \/ Connect(c) \/ Snapshot(c) \/ Replay(c) \/ Deliver(c)
           \/ Dropped(c) \/ Disconnected(c) \/ Unsubscribe(c)
    PROVE  PendingIsNews' /\ FreshClients' /\ \A x \in Clients, d \in Devices : Told(x, d)'
<1>0. /\ handler \in [Clients -> {"off", "subscribed", "streaming", "leaving"}]
      /\ queue \in [Clients -> Seq(Events)]
      /\ replay \in [Clients -> SUBSET Events]
      /\ view \in [Clients -> [Devices -> Peer \cup {Absent}]]
      /\ registry \in [Devices -> Peer \cup {Absent}]
  BY DEF Known, RegistryTypes, QueueTypes, ClientTypes
<1>1. /\ handler[c] # "streaming" => replay[c] = {}
      /\ handler[c] \in {"off", "subscribed"} => \A d \in Devices : view[c][d] = Absent
      /\ handler[c] = "off" => queue[c] = <<>>
      /\ \A d \in Devices : Told(c, d)
  BY DEF ToldInv, FreshClients
<1>2. CASE Connect(c)
  <2>1. \A d \in Devices : About(c, d)' = {}
    BY <1>1, <1>2 DEF Connect, About
  <2>2. \A d \in Devices : Told(c, d)'
    BY <1>0, <1>2, <2>1 DEF Connect, Told, QueuedLast
  <2> QED BY <1>0, <1>1, <1>2, <2>2, OneClientTold DEF Connect, registryVars
<1>3. CASE Snapshot(c)
  <2>1. /\ handler' = [handler EXCEPT ![c] = "streaming"] /\ handler[c] = "subscribed"
        /\ replay' = [replay EXCEPT ![c] =
              {Event(d, registry[d]) : d \in {x \in Devices : registry[x].present}}]
        /\ UNCHANGED <<registry, raced, pending, subscribers, queue, view>>
    BY <1>3 DEF Snapshot, registryVars, brokerVars
  <2>2. \A e \in replay'[c] : e.peer = registry[e.device]
    BY <1>0, <2>1, EventSays
  <2>3. \A d \in Devices : registry[d].present => \E e \in replay'[c] : e.device = d
    <3> SUFFICES ASSUME NEW d \in Devices, registry[d].present
                 PROVE  \E e \in replay'[c] : e.device = d
      OBVIOUS
    <3>1. Event(d, registry[d]) \in replay'[c]
      BY <1>0, <2>1
    <3> QED BY <3>1, EventSays
  <2>4. \A d \in Devices : ~registry[d].present => registry[d] = Absent
    BY <1>0 DEF Peer
  <2>5. ASSUME NEW d \in Devices, Settled(d)
        PROVE  Told(c, d)'
    <3>1. Replayed(c, d)'
      BY <2>1, <2>2 DEF Replayed
    <3>2. Shown(c, d)'
      BY <1>1, <2>1, <2>3, <2>4 DEF Shown
    <3>3. c \in subscribers => QueuedLast(c, d)'
      BY <1>1, <2>1, <2>5 DEF Told, QueuedLast, About
    <3> QED BY <2>1, <3>1, <3>2, <3>3 DEF Told
  <2> QED BY <1>0, <2>1, <2>5, OneClientTold
<1>4. CASE Replay(c)
  <2>1. PICK e \in replay[c] :
           /\ view' = [view EXCEPT ![c][e.device] = e.peer]
           /\ replay' = [replay EXCEPT ![c] = replay[c] \ {e}]
    BY <1>4 DEF Replay, Write
  <2>2. /\ UNCHANGED <<registry, raced, pending, subscribers, queue, handler>>
        /\ handler[c] = "streaming"
    BY <1>4 DEF Replay, registryVars, brokerVars
  <2>3. /\ e.device \in Devices /\ replay'[c] = replay[c] \ {e}
        /\ \A d \in Devices : view'[c][d] = IF d = e.device THEN e.peer ELSE view[c][d]
        /\ \A x \in Clients : x # c => replay'[x] = replay[x] /\ view'[x] = view[x]
    BY <1>0, <2>1 DEF Events
  <2>4. ASSUME NEW d \in Devices, Settled(d)
        PROVE  Told(c, d)'
    <3>1. About(c, d)' = About(c, d) /\ (QueuedLast(c, d) => QueuedLast(c, d)')
      BY <2>2 DEF About, QueuedLast
    <3>2. Replayed(c, d) => Replayed(c, d)'
      BY <2>2, <2>3 DEF Replayed
    <3>3. Replayed(c, d) /\ Shown(c, d) => Shown(c, d)'
      BY <2>2, <2>3 DEF Replayed, Shown
    <3> QED BY <1>1, <2>2, <2>4, <3>1, <3>2, <3>3 DEF Told
  <2> QED BY <2>2, <2>3, <2>4, OneClientTold
<1>5. CASE Deliver(c)
  <2> DEFINE e == Head(queue[c])
  <2>1. /\ UNCHANGED <<registry, raced, pending, subscribers, handler, replay>>
        /\ handler[c] = "streaming" /\ replay[c] = {} /\ queue[c] # <<>>
        /\ view' = [view EXCEPT ![c][e.device] = e.peer]
        /\ queue' = [queue EXCEPT ![c] = Tail(queue[c])]
    BY <1>5 DEF Deliver, Write, registryVars
  <2>2. queue[c] \in Seq(Events) /\ queue'[c] = Tail(queue[c]) /\ e \in Events
    BY <1>0, <2>1
  <2>3. /\ e.device \in Devices
        /\ \A d \in Devices : view'[c][d] = IF d = e.device THEN e.peer ELSE view[c][d]
        /\ \A x \in Clients : x # c => queue'[x] = queue[x] /\ view'[x] = view[x]
    BY <1>0, <2>1, <2>2 DEF Events
  <2> DEFINE n == Len(queue[c])
  <2>4. /\ n \in Nat /\ n >= 1 /\ DOMAIN queue[c] = 1..n /\ DOMAIN queue'[c] = 1..(n - 1)
        /\ queue[c][1] = e /\ \A i \in 1..(n - 1) : queue'[c][i] = queue[c][i + 1]
    <3> DEFINE q == queue[c]
    <3>1. q \in Seq(Events) /\ q # <<>>
      BY <2>1, <2>2
    <3> HIDE DEF q
    <3>2. /\ Len(q) \in Nat /\ Len(q) >= 1 /\ DOMAIN q = 1..Len(q)
          /\ Head(q) = q[1] /\ Tail(q) \in Seq(Events) /\ Len(Tail(q)) = Len(q) - 1
      BY <3>1
    <3>3. DOMAIN Tail(q) = 1..(Len(q) - 1)
      BY <3>2
    <3>4. \A i \in 1..(Len(q) - 1) : Tail(q)[i] = q[i + 1]
      BY <3>1, <3>2
    <3> QED BY <2>2, <3>2, <3>3, <3>4 DEF q
  <2> HIDE DEF n, e
  <2>5. ASSUME NEW d \in Devices, Settled(d), c \in subscribers
        PROVE  /\ QueuedLast(c, d)'
               /\ About(c, d)' = {} => Shown(c, d)'
    <3>1. QueuedLast(c, d) /\ (About(c, d) = {} => view[c][d] = registry[d])
      BY <1>1, <2>1, <2>5 DEF Told, Shown
    <3>2. \A i \in Nat : i \in About(c, d)' <=> i + 1 \in About(c, d) /\ i >= 1
      BY <2>4 DEF About
    <3>3. /\ About(c, d) \subseteq 1..n /\ About(c, d)' \subseteq 1..(n - 1)
          /\ 1 \in About(c, d) <=> e.device = d
      BY <2>4 DEF About
    <3>4. QueuedLast(c, d)'
      <4> SUFFICES ASSUME NEW i \in About(c, d)', \A j \in About(c, d)' : j <= i
                   PROVE  queue'[c][i].peer = registry[d]
        BY <2>1 DEF QueuedLast
      <4>1. i \in Nat /\ i + 1 \in About(c, d) /\ queue'[c][i] = queue[c][i + 1]
        BY <2>4, <3>2, <3>3
      <4>2. ASSUME NEW j \in About(c, d) PROVE j <= i + 1
        <5>1. j \in Nat /\ j >= 1
          BY <3>3
        <5>2. CASE j = 1
          BY <4>1, <5>2
        <5>3. CASE j # 1
          <6>1. j - 1 \in Nat /\ j - 1 >= 1 /\ (j - 1) + 1 = j
            BY <5>1, <5>3
          <6>2. j - 1 \in About(c, d)'
            BY <3>2, <6>1
          <6> QED BY <4>1, <5>1, <6>2
        <5> QED BY <5>2, <5>3
      <4> QED BY <3>1, <4>1, <4>2 DEF QueuedLast
    <3>5. ASSUME About(c, d)' = {} PROVE view'[c][d] = registry[d]
      <4>1. ASSUME NEW j \in About(c, d) PROVE j = 1
        <5>1. j \in Nat /\ j >= 1
          BY <3>3
        <5>2. j # 1 => j - 1 \in Nat /\ j - 1 >= 1 /\ (j - 1) + 1 = j
          BY <5>1
        <5> QED BY <3>2, <3>5, <5>2
      <4>2. CASE e.device = d
        <5>1. 1 \in About(c, d) /\ \A j \in About(c, d) : j <= 1
          BY <3>3, <4>1, <4>2
        <5>2. queue[c][1].peer = registry[d]
          BY <3>1, <5>1 DEF QueuedLast
        <5> QED BY <2>3, <2>4, <4>2, <5>2
      <4>3. CASE e.device # d
        <5>1. About(c, d) = {}
          BY <3>3, <4>1, <4>3
        <5> QED BY <2>3, <3>1, <4>3, <5>1
      <4> QED BY <4>2, <4>3
    <3> QED BY <2>1, <3>4, <3>5 DEF Shown
  <2>6. \A d \in Devices : Settled(d) => Told(c, d)'
    BY <2>1, <2>5 DEF Told, Replayed
  <2> QED BY <2>1, <2>3, <2>6, OneClientTold
<1>6. CASE Dropped(c) \/ Disconnected(c)
  <2>1. /\ handler' = [handler EXCEPT ![c] = "leaving"]
        /\ replay' = [replay EXCEPT ![c] = {}]
        /\ UNCHANGED <<registry, raced, pending, subscribers, queue, view>>
    BY <1>6 DEF Dropped, Disconnected, Leave, registryVars, brokerVars
  <2>2. \A d \in Devices : Told(c, d)'
    BY <1>0, <2>1 DEF Told
  <2> QED BY <1>0, <2>1, <2>2, OneClientTold
<1>7. CASE Unsubscribe(c)
  <2>1. /\ handler' = [handler EXCEPT ![c] = "off"] /\ handler[c] = "leaving"
        /\ queue' = [queue EXCEPT ![c] = <<>>]
        /\ view' = [view EXCEPT ![c] = [d \in Devices |-> Absent]]
        /\ UNCHANGED <<registry, raced, pending, replay>>
    BY <1>7 DEF Unsubscribe, registryVars
  <2>2. c \notin subscribers' /\ subscribers' \subseteq subscribers
    BY <1>7, Zenon DEF Unsubscribe
  <2>3. \A d \in Devices : Told(c, d)'
    BY <2>2 DEF Told
  <2> QED BY <1>0, <1>1, <2>1, <2>2, <2>3, OneClientTold
<1> QED BY <1>2, <1>3, <1>4, <1>5, <1>6, <1>7

(* The steps that change neither registry nor events nor clients.           *)
LEMMA ToldUnchanged ==
    ASSUME ToldInv, UNCHANGED <<registryVars, pending, brokerVars, clientVars>>
    PROVE  PendingIsNews' /\ FreshClients' /\ \A c \in Clients, d \in Devices : Told(c, d)'
<1> USE DEF ToldInv, registryVars, brokerVars, clientVars
<1>1. PendingIsNews'
  BY DEF PendingIsNews
<1>2. FreshClients'
  BY DEF FreshClients
<1>3. \A c \in Clients, d \in Devices : Told(c, d)'
  BY DEF Told, Settled, UnpublishedBy, QueuedLast, Replayed, Shown, About
<1> QED BY <1>1, <1>2, <1>3

(* Every step keeps what clients are told.                                 *)
LEMMA ToldStep ==
    ASSUME Known, Known', ToldInv, [Next]_vars
    PROVE  ToldInv'
<1>1. SessionIdle'
  BY SessionIdleStep DEF ToldInv
<1>2. CASE UNCHANGED <<registryVars, pending, brokerVars, clientVars>>
  BY <1>1, <1>2, ToldUnchanged DEF ToldInv
<1>3. CASE Upsert
  <2>1. UNCHANGED <<brokerVars, clientVars>>
    BY <1>3 DEF Upsert
  <2> QED BY <1>1, <1>3, <2>1, UpsertAnnounces, AnnouncedTold DEF ToldInv
<1>4. ASSUME NEW s \in Sweepers, Sweep(s) PROVE ToldInv'
  <2>1. UNCHANGED <<brokerVars, clientVars>>
    BY <1>4 DEF Sweep
  <2> QED BY <1>1, <1>4, <2>1, SweepAnnounces, AnnouncedTold DEF ToldInv
<1>5. ASSUME NEW p \in Publishers, NEW e, Publish(p, e) PROVE ToldInv'
  BY <1>1, <1>5, PublishTold DEF ToldInv
<1>6. CASE Tick
  <2>1. Announced
    BY <1>6 DEF Tick, Announced, Settled, UnpublishedBy, ToldInv, PendingIsNews
  <2>2. UNCHANGED <<brokerVars, clientVars>>
    BY <1>6 DEF Tick
  <2> QED BY <1>1, <2>1, <2>2, AnnouncedTold DEF ToldInv
<1>7. ASSUME NEW c \in Clients,
             \/ Connect(c) \/ Snapshot(c) \/ Replay(c) \/ Deliver(c)
             \/ Dropped(c) \/ Disconnected(c) \/ Unsubscribe(c)
      PROVE  ToldInv'
  BY <1>1, <1>7, ClientTold DEF ToldInv
<1>8. CASE RunReturns \/ Cancel \/ \E s \in Sweepers : Start(s) \/ Fire(s) \/ SweeperReturns(s)
  BY <1>2, <1>8 DEF RunReturns, Cancel, Start, Fire, SweeperReturns
<1>9. CASE \E d \in Devices, h \in Hints \cup {NoHint}, m \in Metas : Hear(d, h, m)
  BY <1>2, <1>9 DEF Hear
<1>10. CASE UNCHANGED vars
  BY <1>2, <1>10 DEF vars
<1> QED
  BY <1>3, <1>4, <1>5, <1>6, <1>7, <1>8, <1>9, <1>10 DEF Next, SessionStep, SweeperStep,
     HandlerStep, Environment, Publishers

(* Nobody has heard of a peer at first, and no client is connected.         *)
LEMMA ToldInit == Init => ToldInv
<1> SUFFICES ASSUME Init PROVE ToldInv
  OBVIOUS
<1>1. SessionIdle /\ PendingIsNews
  BY DEF Init, SessionIdle, PendingIsNews, Publishers
<1>2. FreshClients
  BY DEF Init, FreshClients
<1>3. \A c \in Clients, d \in Devices : Told(c, d)
  BY DEF Init, Told
<1> QED BY <1>1, <1>2, <1>3 DEF ToldInv

(* A client that is still subscribed and has read everything shows the      *)
(* registry, whatever changed while it connected (handler.go:52): it missed *)
(* no event and the last one it got about a peer is the registry's, except  *)
(* for peers that two goroutines changed at once (registry.go:101).         *)
THEOREM ClientsAgree == Spec => []CaughtUpAgrees
<1>1. BrokerInv /\ [Next]_vars => BrokerInv'
  BY BrokerInvStep
<1>2. ToldInv /\ BrokerInv /\ BrokerInv' /\ TypeOK /\ TypeOK' /\ [Next]_vars => ToldInv'
  BY ToldStep, TypeParts, TypePartsNext DEF Known
<1>3. ToldInv => CaughtUpAgrees
  <2> SUFFICES ASSUME ToldInv, NEW c \in Clients, CaughtUp(c), NEW d \in Devices \ raced
               PROVE  view[c][d] = registry[d]
    BY DEF CaughtUpAgrees
  <2>1. Settled(d)
    BY DEF CaughtUp, Settled, UnpublishedBy
  <2>2. About(c, d) = {}
    BY DEF CaughtUp, About
  <2>3. Shown(c, d)
    BY <2>1, <2>2 DEF CaughtUp, ToldInv, Told
  <2> QED BY <2>3 DEF CaughtUp, Shown
<1> QED BY <1>1, <1>2, <1>3, BrokerInvInit, ToldInit, TypeCorrect, PTL DEF Spec

=============================================================================
