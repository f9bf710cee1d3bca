--------------------------- MODULE PairingProofs ---------------------------
(***************************************************************************)
(* Proofs about Pairing, for any set of requests and any bound on the      *)
(* messages on their way.  Trust is saved by finalizeLocked, in three      *)
(* handlers; each relies on two flags of the session.  The invariant says  *)
(* what stands behind a flag, and behind a message that will set it.       *)
(***************************************************************************)
EXTENDS Pairing, TLAPS

(* A request that has a session or a message was made by somebody.         *)
Known(r) == from[r] # "none"

KnownInv ==
    /\ \A d \in Devices, r \in Requests : HasSession(d, r) => Known(r)
    /\ \A m \in proofs : Known(m.request)
    /\ \A m \in decisions : Known(m.request)

(* The flags of a session stand for confirmations that were given.         *)
FlagInv ==
    \A d \in Devices, r \in Requests :
        /\ sessions[d][r].local => r \in confirmed[d]
        /\ sessions[d][r].remote => r \in confirmed[Peer(d)]

(* So do the messages that will set them.                                  *)
MessageInv ==
    /\ \A m \in proofs :
          m.action = "confirm" => m.request \in confirmed[from[m.request]]
    /\ \A m \in decisions :
          m.local => m.request \in confirmed[Peer(from[m.request])]

TrustInv ==
    \A d \in Devices :
        trust[d] # NoTrust => /\ trust[d].key \in confirmed[d]
                              /\ trust[d].key \in confirmed[Peer(d)]

Inv == /\ TypeOK /\ PendingHasSession /\ KnownInv /\ FlagInv /\ MessageInv
       /\ TrustInv

-----------------------------------------------------------------------------
(* There are two devices.                                                  *)
LEMMA TwoDevices ==
    ASSUME NEW d \in Devices
    PROVE  /\ Peer(d) \in Devices /\ Peer(d) # d
           /\ Peer(Peer(d)) = d
           /\ \A e \in Devices : e = d \/ e = Peer(d)
           /\ d # "none"
<1>1. PICK a, b \in Devices : a # b /\ Devices = {a, b}
  BY PairingAssumption
<1>2. \A x \in Devices : Peer(x) \in Devices /\ Peer(x) # x
  BY <1>1 DEF Peer
<1> QED BY <1>1, <1>2, PairingAssumption

(* NoSession and NoTrust are not values of a row or a session.             *)
LEMMA Shapes ==
    /\ NoSession = [state |-> "absent", local |-> FALSE, remote |-> FALSE,
                    trusted |-> FALSE]
    /\ NewSession \in Session
    /\ \A s \in Session : s.state # "absent"
    /\ \A t \in Trust : t # NoTrust
<1>1. NoSession = [state |-> "absent", local |-> FALSE, remote |-> FALSE,
                   trusted |-> FALSE]
  BY DEF NoSession
<1>2. NewSession \in Session /\ \A s \in Session : s.state # "absent"
  BY DEF NewSession, Session, State
<1>3. ASSUME NEW t \in Trust PROVE t # NoTrust
  <2>1. t.key \in Requests
    BY DEF Trust
  <2>2. NoTrust.key = "none"
    BY DEF NoTrust
  <2> QED BY <2>1, <2>2, PairingAssumption
<1> QED BY <1>1, <1>2, <1>3

(* The initial state satisfies the invariant.                              *)
LEMMA InitInv == Init => Inv
<1> SUFFICES ASSUME Init PROVE Inv
  OBVIOUS
<1> USE Shapes
<1>1. TypeOK
  BY DEF Init, TypeOK
<1>2. PendingHasSession /\ KnownInv /\ FlagInv /\ MessageInv /\ TrustInv
  BY DEF Init, PendingHasSession, KnownInv, FlagInv, MessageInv, TrustInv,
         HasSession
<1> QED BY <1>1, <1>2 DEF Inv

-----------------------------------------------------------------------------
(* The key exchange: new requests, new sessions without flags.             *)
LEMMA ExchangeInv ==
    ASSUME Inv, NEW d \in Devices, NEW r \in Requests, Exchange(d, r)
    PROVE  Inv'
<1> USE Shapes, PairingAssumption DEF Inv
<1> /\ d # "none" /\ Peer(d) \in Devices /\ Peer(d) # "none"
  BY TwoDevices
<1>1. CASE RequestPairing(d, r)
  <2>1. TypeOK'
    BY <1>1 DEF RequestPairing, TypeOK
  <2>2. /\ \A q \in Requests : from[q] # "none" => from'[q] = from[q]
        /\ UNCHANGED <<sessions, pending, trust, proofs, decisions, confirmed>>
    BY <1>1 DEF RequestPairing, TypeOK
  <2>3. PendingHasSession' /\ FlagInv' /\ TrustInv'
    BY <2>2 DEF PendingHasSession, FlagInv, TrustInv, HasSession
  <2>4. KnownInv' /\ MessageInv'
    BY <2>2 DEF KnownInv, MessageInv, Known, HasSession, TypeOK, Proof,
                PeerDecision
  <2> QED BY <2>1, <2>3, <2>4
<1>2. CASE ReceiveBegin(d, r)
  <2>1. TypeOK'
    BY <1>2 DEF ReceiveBegin, TypeOK
  <2> QED BY <1>2, <2>1 DEF ReceiveBegin, PendingHasSession, KnownInv, FlagInv,
             MessageInv, TrustInv, Known, HasSession
<1>3. CASE InstallIncoming(d, r) \/ InstallOutgoing(d, r)
  <2>1. /\ UNCHANGED <<from, trust, proofs, decisions, confirmed>>
        /\ from[r] # "none"
        /\ pending' = [pending EXCEPT ![d] = r]
    BY <1>3 DEF InstallIncoming, InstallOutgoing, Outgoing
  <2>2. /\ sessions' \in [Devices -> [Requests -> Session \cup {NoSession}]]
        /\ sessions'[d][r] = NewSession
        /\ \A e \in Devices, q \in Requests :
              \/ sessions'[e][q] = sessions[e][q]
              \/ e = d /\ sessions'[e][q] = NoSession
              \/ e = d /\ q = r
        /\ \A e \in Devices : e # d => sessions'[e] = sessions[e]
    <3>1. CASE InstallIncoming(d, r)
      <4> DEFINE new == [q \in Requests |-> IF q = r THEN NewSession
                                            ELSE IF q = pending[d] THEN NoSession
                                            ELSE sessions[d][q]]
      <4>1. sessions' = [sessions EXCEPT ![d] = new]
        BY <3>1 DEF InstallIncoming
      <4>2. new \in [Requests -> Session \cup {NoSession}] /\ new[r] = NewSession
        BY DEF TypeOK
      <4>3. \A q \in Requests :
               new[q] = sessions[d][q] \/ new[q] = NoSession \/ q = r
        OBVIOUS
      <4> HIDE DEF new
      <4> QED BY <4>1, <4>2, <4>3 DEF TypeOK
    <3>2. CASE InstallOutgoing(d, r)
      BY <3>2 DEF InstallOutgoing, Put, TypeOK
    <3> QED BY <1>3, <3>1, <3>2
  <2>3. TypeOK'
    BY <1>3, <2>2 DEF InstallIncoming, InstallOutgoing, TypeOK
  <2>4. PendingHasSession'
    BY <2>1, <2>2 DEF PendingHasSession, HasSession, TypeOK
  <2>5. FlagInv' /\ KnownInv'
    BY <2>1, <2>2 DEF FlagInv, KnownInv, Known, HasSession, NewSession
  <2> QED BY <2>1, <2>3, <2>4, <2>5 DEF MessageInv, TrustInv
<1>4. CASE RequestFails(d, r)
  <2>1. TypeOK'
    BY <1>4 DEF RequestFails, TypeOK
  <2> QED BY <1>4, <2>1 DEF RequestFails, PendingHasSession, KnownInv, FlagInv,
             MessageInv, TrustInv, Known, HasSession
<1> QED BY <1>1, <1>2, <1>3, <1>4 DEF Exchange

(* What a handler may do to one session, and to trust if it finalizes it.  *)
Updated(d, r, s) ==
    /\ sessions' = [sessions EXCEPT ![d][r] = s]
    /\ \/ UNCHANGED <<trust, pending>>
       \/ /\ s.local /\ s.remote
          /\ trust' = [trust EXCEPT ![d] = [key |-> r, blocked |-> FALSE]]
          /\ pending' = [pending EXCEPT ![d] = "none"]

(* A handler that changes one session keeps the invariant if its flags are *)
(* backed by confirmations.                                                *)
LEMMA UpdateInv ==
    ASSUME Inv, NEW d \in Devices, NEW r \in Requests, NEW s \in Session,
           HasSession(d, r), Updated(d, r, s), UNCHANGED begin,
           confirmed' \in [Devices -> SUBSET Requests],
           \A e \in Devices : confirmed[e] \subseteq confirmed'[e],
           s.local => r \in confirmed'[d],
           s.remote => r \in confirmed'[Peer(d)]
    PROVE  /\ PendingHasSession' /\ FlagInv' /\ TrustInv'
           /\ \A e \in Devices, q \in Requests : HasSession(e, q)' => Known(q)'
           /\ sessions' \in [Devices -> [Requests -> Session \cup {NoSession}]]
           /\ pending' \in [Devices -> Requests \cup {"none"}]
           /\ trust' \in [Devices -> Trust \cup {NoTrust}]
<1> USE Shapes, PairingAssumption DEF Inv
<1>1. /\ sessions' \in [Devices -> [Requests -> Session \cup {NoSession}]]
      /\ sessions'[d][r] = s
      /\ \A e \in Devices, q \in Requests :
            sessions'[e][q] = sessions[e][q] \/ (e = d /\ q = r)
  BY DEF Updated, TypeOK
<1>2. /\ pending' \in [Devices -> Requests \cup {"none"}]
      /\ trust' \in [Devices -> Trust \cup {NoTrust}]
      /\ \A e \in Devices : pending'[e] = pending[e] \/ pending'[e] = "none"
      /\ \A e \in Devices :
            \/ trust'[e] = trust[e]
            \/ /\ e = d /\ trust'[e].key = r
               /\ r \in confirmed'[d] /\ r \in confirmed'[Peer(d)]
  <2>1. CASE UNCHANGED <<trust, pending>>
    BY <2>1 DEF TypeOK
  <2>2. CASE ~UNCHANGED <<trust, pending>>
    <3>1. /\ s.local /\ s.remote
          /\ trust' = [trust EXCEPT ![d] = [key |-> r, blocked |-> FALSE]]
          /\ pending' = [pending EXCEPT ![d] = "none"]
      BY <2>2 DEF Updated
    <3>2. [key |-> r, blocked |-> FALSE] \in Trust
      BY DEF Trust
    <3> QED BY <3>1, <3>2 DEF TypeOK
  <2> QED BY <2>1, <2>2
<1>3. PendingHasSession'
  BY <1>1, <1>2 DEF PendingHasSession, HasSession, TypeOK
<1>4. FlagInv'
  BY <1>1, TwoDevices DEF FlagInv
<1>5. TrustInv'
  BY <1>2, TwoDevices DEF TrustInv
<1>6. \A e \in Devices, q \in Requests : HasSession(e, q)' => Known(q)'
  BY <1>1 DEF KnownInv, Known, HasSession, begin
<1> QED BY <1>1, <1>2, <1>3, <1>4, <1>5, <1>6

(* The user's decisions.                                                   *)
LEMMA UserInv ==
    ASSUME Inv, NEW d \in Devices, NEW r \in Requests, User(d, r)
    PROVE  Inv'
<1> USE Shapes DEF Inv
<1>0. /\ HasSession(d, r) /\ sessions[d][r] \in Session /\ UNCHANGED begin
      /\ UNCHANGED decisions /\ Known(r)
      /\ Peer(d) \in Devices /\ Peer(d) # d
  BY TwoDevices DEF User, AcceptIncoming, AcceptOutgoing, Refresh, Reject,
     MayAccept, TypeOK, HasSession, KnownInv
<1>1. /\ confirmed' \in [Devices -> SUBSET Requests]
      /\ \A e \in Devices : confirmed[e] \subseteq confirmed'[e]
      /\ AcceptIncoming(d, r) \/ AcceptOutgoing(d, r) => r \in confirmed'[d]
  <2>1. CASE confirmed' = [confirmed EXCEPT ![d] = @ \cup {r}]
    BY <2>1 DEF TypeOK
  <2>2. CASE confirmed' = confirmed /\ ~AcceptIncoming(d, r) /\ ~AcceptOutgoing(d, r)
    BY <2>2 DEF TypeOK
  <2> QED BY <2>1, <2>2 DEF User, AcceptIncoming, AcceptOutgoing, Refresh, Reject,
             Confirm
<1>2. \A m \in proofs' :
         \/ m \in proofs
         \/ /\ m \in Proof /\ m.request = r /\ Outgoing(d, r)
            /\ m.action = "confirm" => r \in confirmed'[d]
  <2>1. CASE AcceptIncoming(d, r)
    BY <2>1 DEF AcceptIncoming
  <2>2. CASE AcceptOutgoing(d, r)
    BY <2>2, <1>1 DEF AcceptOutgoing, SendProof, Proof
  <2>3. CASE Refresh(d, r)
    BY <2>3 DEF Refresh, SendProof, Proof
  <2>4. CASE Reject(d, r)
    BY <2>4 DEF Reject, SendProof, Proof
  <2> QED BY <2>1, <2>2, <2>3, <2>4 DEF User
<1>3. \E s \in Session : /\ Updated(d, r, s)
                         /\ s.local => r \in confirmed'[d]
                         /\ s.remote => r \in confirmed'[Peer(d)]
  <2>0. /\ sessions[d][r].local => r \in confirmed'[d]
        /\ sessions[d][r].remote => r \in confirmed'[Peer(d)]
    BY <1>0, <1>1 DEF FlagInv
  <2> DEFINE s0 == sessions[d][r]
             sA == [s0 EXCEPT !.local = TRUE, !.state = "confirming"]
             sF == [state |-> "paired", local |-> TRUE, remote |-> TRUE,
                    trusted |-> TRUE]
             sR == [s0 EXCEPT !.state = "rejected"]
  <2>1. /\ sA \in Session /\ sF \in Session /\ sR \in Session
        /\ sA.local /\ sA.remote = s0.remote /\ sF.local /\ sF.remote
        /\ sR.local = s0.local /\ sR.remote = s0.remote
    BY <1>0 DEF Session, State
  <2>2. CASE AcceptIncoming(d, r)
    <3>1. CASE s0.remote /\ FinalizeLocked(d, r)
      <4>1. Updated(d, r, sF)
        BY <3>1 DEF FinalizeLocked, Put, Updated
      <4> QED BY <4>1, <3>1, <2>0, <2>1, <2>2, <1>1
    <3>2. CASE StoreFails(d, r, sA)
      <4>1. Updated(d, r, sA)
        BY <3>2 DEF StoreFails, Put, Updated
      <4> QED BY <4>1, <2>0, <2>1, <2>2, <1>1
    <3> QED BY <2>2, <2>1, <3>1, <3>2 DEF AcceptIncoming
  <2>3. CASE AcceptOutgoing(d, r)
    <3>1. Updated(d, r, sA)
      BY <2>3 DEF AcceptOutgoing, Put, Updated
    <3> QED BY <3>1, <2>0, <2>1, <2>3, <1>1
  <2>4. CASE Refresh(d, r)
    <3>1. Updated(d, r, s0)
      BY <2>4 DEF Refresh, Updated, TypeOK
    <3> QED BY <3>1, <2>0, <1>0
  <2>5. CASE Reject(d, r)
    <3>1. Updated(d, r, sR)
      BY <2>5 DEF Reject, Put, Updated
    <3> QED BY <3>1, <2>0, <2>1
  <2> QED BY <2>2, <2>3, <2>4, <2>5 DEF User
<1>4. /\ PendingHasSession' /\ FlagInv' /\ TrustInv'
      /\ \A e \in Devices, q \in Requests : HasSession(e, q)' => Known(q)'
      /\ sessions' \in [Devices -> [Requests -> Session \cup {NoSession}]]
      /\ pending' \in [Devices -> Requests \cup {"none"}]
      /\ trust' \in [Devices -> Trust \cup {NoTrust}]
  BY <1>0, <1>1, <1>3, UpdateInv
<1>5. TypeOK'
  BY <1>0, <1>1, <1>2, <1>4 DEF TypeOK, begin
<1>6. KnownInv'
  BY <1>0, <1>2, <1>4 DEF KnownInv, Known, begin
<1>7. MessageInv'
  <2>1. \A q \in Requests : Known(q) =>
           from[q] \in Devices /\ Peer(from[q]) \in Devices
    BY TwoDevices DEF TypeOK, Known
  <2>2. (\A m \in proofs : m.request \in Requests)
        /\ (\A m \in decisions : m.request \in Requests)
    BY DEF TypeOK, Proof, PeerDecision
  <2> QED BY <2>1, <2>2, <1>0, <1>1, <1>2 DEF MessageInv, KnownInv, Known,
             begin, Outgoing
<1> QED BY <1>4, <1>5, <1>6, <1>7

-----------------------------------------------------------------------------
(* A proof at the responder.                                               *)
LEMMA ReceiveProofInv ==
    ASSUME Inv, NEW d \in Devices, NEW m \in proofs, ReceiveProof(d, m)
    PROVE  Inv'
<1> USE Shapes DEF Inv
<1> DEFINE r == m.request
           s0 == sessions[d][r]
           s == Proven(s0, m.action)
           sF == [state |-> "paired", local |-> TRUE, remote |-> TRUE,
                  trusted |-> TRUE]
<1>0. /\ r \in Requests /\ HasSession(d, r) /\ s0 \in Session /\ Known(r)
      /\ m.action \in {"confirm", "reject", "status"}
      /\ from[r] = Peer(d) /\ Peer(from[r]) = d
      /\ Peer(d) \in Devices /\ Peer(d) # d
      /\ UNCHANGED begin /\ UNCHANGED confirmed /\ proofs' \subseteq proofs
  BY TwoDevices DEF ReceiveProof, TypeOK, Proof, HasSession, KnownInv
<1>1. /\ s \in Session /\ s.local = s0.local
      /\ s.remote = (s0.remote \/ m.action = "confirm")
  BY <1>0 DEF Proven, Session, State
<1>2. /\ s.local => r \in confirmed[d]
      /\ s.remote => r \in confirmed[Peer(d)]
  BY <1>0, <1>1 DEF FlagInv, MessageInv
<1>3. /\ decisions' \subseteq PeerDecision
      /\ \A n \in decisions' :
            n \in decisions \/ (n.request = r /\ (n.local => s.local))
  <2>1. [request |-> r, rejected |-> s.state = "rejected", local |-> s.local]
           \in PeerDecision
    BY <1>0, <1>1 DEF PeerDecision, Session
  <2> QED BY <2>1 DEF ReceiveProof, Answer, TypeOK
<1>4. Updated(d, r, s) \/ (s.local /\ s.remote /\ Updated(d, r, sF))
  BY DEF ReceiveProof, MayFinalize, FinalizeLocked, StoreFails, Put, Updated
<1>5. sF \in Session /\ sF.local /\ sF.remote
  BY DEF Session, State
<1>6. /\ PendingHasSession' /\ FlagInv' /\ TrustInv'
      /\ \A e \in Devices, q \in Requests : HasSession(e, q)' => Known(q)'
      /\ sessions' \in [Devices -> [Requests -> Session \cup {NoSession}]]
      /\ pending' \in [Devices -> Requests \cup {"none"}]
      /\ trust' \in [Devices -> Trust \cup {NoTrust}]
  <2>1. /\ confirmed' \in [Devices -> SUBSET Requests]
        /\ \A e \in Devices : confirmed[e] \subseteq confirmed'[e]
    BY <1>0 DEF TypeOK
  <2>2. CASE Updated(d, r, s)
    <3> HIDE DEF s
    <3> QED BY <2>1, <2>2, <1>0, <1>1, <1>2, UpdateInv
  <2>3. CASE s.local /\ s.remote /\ Updated(d, r, sF)
    <3> HIDE DEF s, sF
    <3> QED BY <2>1, <2>3, <1>0, <1>1, <1>2, <1>5, UpdateInv
  <2> QED BY <1>4, <2>2, <2>3
<1>7. TypeOK'
  BY <1>0, <1>3, <1>6 DEF TypeOK, begin
<1>8. KnownInv' /\ MessageInv'
  <2> HIDE DEF s
  <2> QED BY <1>0, <1>2, <1>3, <1>6 DEF KnownInv, MessageInv, Known, begin
<1> QED BY <1>6, <1>7, <1>8

(* An answer at the initiator.                                             *)
LEMMA ApplyPeerDecisionInv ==
    ASSUME Inv, NEW d \in Devices, NEW m \in decisions, ApplyPeerDecision(d, m)
    PROVE  Inv'
<1> USE Shapes DEF Inv
<1> DEFINE r == m.request
           s0 == sessions[d][r]
           s == [s0 EXCEPT !.remote = PeerConfirmed(m)]
           sR == [s EXCEPT !.state = "rejected"]
           sC == [s EXCEPT !.state = "confirming"]
           sF == [state |-> "paired", local |-> TRUE, remote |-> TRUE,
                  trusted |-> TRUE]
<1>0. /\ r \in Requests /\ HasSession(d, r) /\ s0 \in Session
      /\ m.local \in BOOLEAN /\ from[r] = d
      /\ Peer(d) \in Devices
      /\ UNCHANGED begin /\ UNCHANGED confirmed /\ UNCHANGED proofs
      /\ decisions' \subseteq decisions
  BY TwoDevices DEF ApplyPeerDecision, TypeOK, PeerDecision, HasSession, Outgoing
<1>1. /\ s \in Session /\ sR \in Session /\ sC \in Session /\ sF \in Session
      /\ s.local = s0.local /\ sR.local = s0.local /\ sC.local = s0.local
      /\ s.remote = m.local /\ sR.remote = m.local /\ sC.remote = m.local
      /\ sF.local /\ sF.remote
  BY <1>0 DEF Session, State, PeerConfirmed
<1>2. /\ s0.local => r \in confirmed[d]
      /\ m.local => r \in confirmed[Peer(d)]
  BY <1>0 DEF FlagInv, MessageInv
<1>3. \E n \in {s, sR, sC, sF} : /\ Updated(d, r, n)
                                 /\ n = sF => s0.local /\ m.local
  <2>1. CASE Put(d, r, sR) /\ UNCHANGED <<trust, pending>>
    <3>1. Updated(d, r, sR) /\ sR.state = "rejected" /\ sF.state = "paired"
      BY <2>1, <1>0 DEF Put, Updated, Session
    <3> QED BY <3>1
  <2>2. CASE s.local /\ s.remote /\ FinalizeLocked(d, r)
    <3>1. Updated(d, r, sF)
      BY <2>2 DEF FinalizeLocked, Put, Updated
    <3> QED BY <3>1, <2>2, <1>1
  <2>3. CASE s.local /\ s.remote /\ StoreFails(d, r, s)
    <3>1. Updated(d, r, s)
      BY <2>3 DEF StoreFails, Put, Updated
    <3> QED BY <3>1, <2>3, <1>1
  <2>4. CASE Put(d, r, sC) /\ UNCHANGED <<trust, pending>>
    <3>1. Updated(d, r, sC) /\ sC.state = "confirming" /\ sF.state = "paired"
      BY <2>4, <1>0 DEF Put, Updated, Session
    <3> QED BY <3>1
  <2> QED BY <2>1, <2>2, <2>3, <2>4 DEF ApplyPeerDecision
<1>4. /\ PendingHasSession' /\ FlagInv' /\ TrustInv'
      /\ \A e \in Devices, q \in Requests : HasSession(e, q)' => Known(q)'
      /\ sessions' \in [Devices -> [Requests -> Session \cup {NoSession}]]
      /\ pending' \in [Devices -> Requests \cup {"none"}]
      /\ trust' \in [Devices -> Trust \cup {NoTrust}]
  <2>1. /\ confirmed' \in [Devices -> SUBSET Requests]
        /\ \A e \in Devices : confirmed[e] \subseteq confirmed'[e]
    BY <1>0 DEF TypeOK
  <2>2. PICK n \in {s, sR, sC, sF} : /\ Updated(d, r, n)
                                     /\ n = sF => s0.local /\ m.local
    BY <1>3
  <2>3. /\ n \in Session
        /\ n.local => r \in confirmed'[d]
        /\ n.remote => r \in confirmed'[Peer(d)]
    <3> HIDE DEF s, sR, sC, sF
    <3> QED BY <2>2, <1>0, <1>1, <1>2
  <2> HIDE DEF s, sR, sC, sF, r
  <2> QED BY <2>1, <2>2, <2>3, <1>0, UpdateInv
<1>5. TypeOK'
  BY <1>0, <1>4 DEF TypeOK, begin
<1>6. KnownInv' /\ MessageInv'
  BY <1>0, <1>4 DEF KnownInv, MessageInv, Known, begin
<1> QED BY <1>4, <1>5, <1>6

(* Expiry, the trusted device list and a restart set no flag.              *)
LEMMA RestInv ==
    ASSUME Inv, NEW d \in Devices,
           \/ \E blocked \in BOOLEAN : SetBlocked(d, blocked)
           \/ \E r \in Requests : Prune(d, r)
           \/ RemoveTrustedDevice(d) \/ Restart(d)
    PROVE  Inv'
<1> USE Shapes, PairingAssumption DEF Inv
<1>1. CASE \E blocked \in BOOLEAN : SetBlocked(d, blocked)
  <2>1. PICK blocked \in BOOLEAN : SetBlocked(d, blocked)
    BY <1>1
  <2>2. trust[d] \in Trust
    BY <2>1 DEF SetBlocked, TypeOK
  <2>3. /\ trust' \in [Devices -> Trust \cup {NoTrust}]
        /\ \A e \in Devices : /\ trust'[e].key = trust[e].key
                              /\ trust'[e] # NoTrust => trust[e] # NoTrust
    BY <2>1, <2>2 DEF SetBlocked, TypeOK, Trust
  <2>4. TypeOK'
    BY <2>1, <2>3 DEF SetBlocked, TypeOK, begin
  <2> QED BY <2>1, <2>3, <2>4 DEF SetBlocked, begin, PendingHasSession, KnownInv,
             FlagInv, MessageInv, TrustInv, Known, HasSession
<1>2. CASE RemoveTrustedDevice(d)
  <2>1. TypeOK' /\ TrustInv'
    BY <1>2 DEF RemoveTrustedDevice, TypeOK, TrustInv, begin
  <2> QED BY <1>2, <2>1 DEF RemoveTrustedDevice, begin, PendingHasSession,
             KnownInv, FlagInv, MessageInv, Known, HasSession
<1>3. CASE \E r \in Requests : Prune(d, r)
  <2>1. PICK r \in Requests : Prune(d, r)
    BY <1>3
  <2>2. TypeOK'
    BY <2>1 DEF Prune, Put, TypeOK, begin
  <2>3. PendingHasSession'
    BY <2>1 DEF Prune, Put, PendingHasSession, HasSession, TypeOK
  <2>4. KnownInv' /\ FlagInv'
    BY <2>1 DEF Prune, Put, begin, KnownInv, FlagInv, Known, HasSession, TypeOK
  <2> QED BY <2>1, <2>2, <2>3, <2>4 DEF Prune, begin, MessageInv, TrustInv
<1>4. CASE Restart(d)
  <2>1. TypeOK'
    BY <1>4 DEF Restart, TypeOK
  <2>2. PendingHasSession' /\ KnownInv' /\ FlagInv'
    BY <1>4 DEF Restart, PendingHasSession, KnownInv, FlagInv, Known,
                HasSession, TypeOK
  <2> QED BY <1>4, <2>1, <2>2 DEF Restart, MessageInv, TrustInv
<1> QED BY <1>1, <1>2, <1>3, <1>4

(* A message that is discarded says nothing.                               *)
LEMMA DiscardInv ==
    ASSUME Inv, NEW m, Discard(m)
    PROVE  Inv'
<1>1. /\ proofs' \subseteq proofs /\ decisions' \subseteq decisions
      /\ UNCHANGED <<begin, sessions, pending, trust, confirmed>>
  BY DEF Discard
<1>2. TypeOK'
  BY <1>1 DEF Inv, TypeOK, begin
<1> QED BY <1>1, <1>2 DEF Inv, begin, PendingHasSession, KnownInv, FlagInv,
           MessageInv, TrustInv, Known, HasSession

(* Every step keeps the invariant.                                         *)
LEMMA NextInv == Inv /\ [Next]_vars => Inv'
<1> SUFFICES ASSUME Inv, [Next]_vars PROVE Inv'
  OBVIOUS
<1>1. CASE UNCHANGED vars
  BY <1>1 DEF Inv, vars, TypeOK, PendingHasSession, KnownInv, FlagInv,
     MessageInv, TrustInv, Known, HasSession
<1>2. CASE Next
  BY <1>2, ExchangeInv, UserInv, ReceiveProofInv, ApplyPeerDecisionInv, RestInv,
     DiscardInv DEF Next
<1> QED BY <1>1, <1>2

(* The invariant of Pairing.                                               *)
THEOREM PairingInvariant == Spec => []Inv
BY InitInv, NextInv, PTL DEF Spec

(* The types of the sessions, the trust and the messages.                  *)
THEOREM TypeCorrect == Spec => []TypeOK
<1>1. Inv => TypeOK
  BY DEF Inv
<1> QED BY <1>1, PairingInvariant, PTL

(* pendingByDevice only names sessions that exist: RequestPairing never    *)
(* reads the request of a nil session.                                     *)
THEOREM PendingIsBacked == Spec => []PendingHasSession
<1>1. Inv => PendingHasSession
  BY DEF Inv
<1> QED BY <1>1, PairingInvariant, PTL

(* Whatever is lost, late, crossed or restarted, finalizeLocked saves trust *)
(* only after both users have confirmed the request it names.              *)
THEOREM BothConfirmed == Spec => []TrustNeedsBothConfirmations
<1>1. Inv => TrustNeedsBothConfirmations
  BY TwoDevices DEF Inv, TrustInv, TrustNeedsBothConfirmations
<1> QED BY <1>1, PairingInvariant, PTL

(* A step that saves trust for a rejected session is taken by the initiator.*)
LEMMA RejectedStep ==
    ASSUME Inv, [Next]_vars, NEW d \in Devices, NEW r \in Requests,
           sessions[d][r].state = "rejected", from[r] = Peer(d),
           trust[d].key # r
    PROVE  trust'[d].key # r
<1> USE Shapes, TwoDevices DEF Inv
<1>0. sessions[d][r] \in Session /\ d # Peer(d)
  BY DEF TypeOK
<1>1. SUFFICES ASSUME trust'[d].key = r PROVE FALSE
  OBVIOUS
<1>2. ASSUME NEW e \in Devices, NEW q \in Requests, FinalizeLocked(e, q)
      PROVE  e = d /\ q = r
  BY <1>1, <1>2 DEF FinalizeLocked, TypeOK
<1>3. ASSUME NEW e \in Devices, NEW q \in Requests, Exchange(e, q) \/ User(e, q)
      PROVE  FALSE
  <2>1. CASE AcceptIncoming(e, q)
    BY <2>1, <1>1, <1>2 DEF AcceptIncoming, MayAccept, StoreFails
  <2> QED BY <2>1, <1>1, <1>3 DEF Exchange, User, RequestPairing, ReceiveBegin,
             InstallIncoming, InstallOutgoing, RequestFails, AcceptOutgoing,
             Refresh, Reject
<1>4. ASSUME NEW e \in Devices, NEW m \in proofs, ReceiveProof(e, m)
      PROVE  FALSE
  <2>1. m.request \in Requests /\ m.action \in {"confirm", "reject", "status"}
    BY DEF TypeOK, Proof
  <2>2. CASE FinalizeLocked(e, m.request) /\ MayFinalize(Proven(sessions[e][m.request], m.action))
    <3>1. e = d /\ m.request = r
      BY <2>1, <2>2, <1>2
    <3>2. Proven(sessions[d][r], m.action).state = "rejected"
      BY <2>1, <1>0 DEF Proven, Session
    <3> QED BY <2>2, <3>1, <3>2 DEF MayFinalize
  <2> QED BY <2>2, <1>1, <1>4 DEF ReceiveProof, StoreFails
<1>5. ASSUME NEW e \in Devices, NEW m \in decisions, ApplyPeerDecision(e, m)
      PROVE  FALSE
  <2>1. m.request \in Requests /\ from[m.request] = e
    BY <1>5 DEF TypeOK, PeerDecision, ApplyPeerDecision, Outgoing
  <2>2. CASE FinalizeLocked(e, m.request)
    BY <2>1, <2>2, <1>0, <1>2
  <2> QED BY <2>2, <1>1, <1>5 DEF ApplyPeerDecision, StoreFails
<1>6. ASSUME NEW e \in Devices,
             \/ \E blocked \in BOOLEAN : SetBlocked(e, blocked)
             \/ \E q \in Requests : Prune(e, q)
             \/ RemoveTrustedDevice(e) \/ Restart(e)
      PROVE  FALSE
  <2>1. NoTrust.key # r
    BY PairingAssumption DEF NoTrust
  <2>2. \A blocked \in BOOLEAN :
           trust' = [trust EXCEPT ![e].blocked = blocked] =>
              trust'[d].key = trust[d].key
    BY DEF TypeOK, Trust, NoTrust
  <2> QED BY <2>1, <2>2, <1>1, <1>6 DEF SetBlocked, Prune, RemoveTrustedDevice,
             Restart, TypeOK
<1>7. CASE UNCHANGED vars
  BY <1>7, <1>1 DEF vars
<1>8. ASSUME NEW m, Discard(m) PROVE FALSE
  BY <1>1, <1>8 DEF Discard
<1> QED BY <1>3, <1>4, <1>5, <1>6, <1>7, <1>8 DEF Next

(* The responder never comes to trust through a request that was rejected: *)
(* ReceiveProof and Accept look at the state before they finalize.         *)
THEOREM RejectedStaysRejected == Spec => ResponderRejectionIsFinal
<1>1. Inv /\ [Next]_vars =>
        [\A d \in Devices, r \in Requests :
            /\ sessions[d][r].state = "rejected" /\ from[r] = Peer(d)
            /\ trust[d].key # r
            => trust'[d].key # r]_vars
  BY RejectedStep
<1> QED BY <1>1, PairingInvariant, PTL DEF Spec, ResponderRejectionIsFinal

-----------------------------------------------------------------------------
(* Refinement of PairingPromise.                                           *)

(* A session of the device that was asked has been answered: it is not of a *)
(* request that is still to be checked or installed there.                 *)
AnsweredInv ==
    \A d \in Devices, r \in Requests :
        from[r] = Peer(d) /\ HasSession(d, r) => exchange[r] = "answered"

(* A step that leaves the key exchange alone and adds no session.          *)
LEMMA AnsweredKept ==
    ASSUME AnsweredInv, UNCHANGED begin,
           \A d \in Devices, r \in Requests : HasSession(d, r)' => HasSession(d, r)
    PROVE  AnsweredInv'
BY DEF AnsweredInv, begin

(* A step that changes one session, which its device has.                  *)
LEMMA SessionsOf ==
    ASSUME TypeOK, NEW d \in Devices, NEW r \in Requests, NEW s,
           HasSession(d, r), Put(d, r, s), s.state # "absent"
    PROVE  /\ sessions'[d][r] = s /\ HasSession(d, r)'
           /\ \A e \in Devices, q \in Requests :
                 /\ HasSession(e, q)' <=> HasSession(e, q)
                 /\ sessions'[e][q] = sessions[e][q] \/ (e = d /\ q = r)
<1>1. /\ sessions'[d][r] = s
      /\ \A e \in Devices, q \in Requests :
            sessions'[e][q] = sessions[e][q] \/ (e = d /\ q = r)
  BY DEF Put, TypeOK
<1> QED BY <1>1 DEF HasSession

(* What the handlers on a session write.                                   *)
LEMMA UserSessions ==
    ASSUME TypeOK, NEW d \in Devices, NEW r \in Requests, User(d, r)
    PROVE  /\ HasSession(d, r) /\ UNCHANGED begin
           /\ \A e \in Devices, q \in Requests :
                 /\ HasSession(e, q)' <=> HasSession(e, q)
                 /\ sessions'[e][q] = sessions[e][q] \/ (e = d /\ q = r)
<1> DEFINE s0 == sessions[d][r]
           sA == [s0 EXCEPT !.local = TRUE, !.state = "confirming"]
           sF == [state |-> "paired", local |-> TRUE, remote |-> TRUE,
                  trusted |-> TRUE]
           sR == [s0 EXCEPT !.state = "rejected"]
<1>0. HasSession(d, r) /\ UNCHANGED begin /\ s0 \in Session
  BY Shapes DEF User, AcceptIncoming, AcceptOutgoing, Refresh, Reject,
     MayAccept, HasSession, TypeOK
<1>1. sA.state # "absent" /\ sF.state # "absent" /\ sR.state # "absent"
  BY <1>0 DEF Session
<1>2. Put(d, r, sA) \/ Put(d, r, sF) \/ Put(d, r, sR) \/ UNCHANGED sessions
  BY DEF User, AcceptIncoming, AcceptOutgoing, Refresh, Reject, StoreFails,
         FinalizeLocked
<1>3. CASE UNCHANGED sessions
  BY <1>0, <1>3 DEF HasSession
<1> HIDE DEF sA, sF, sR
<1> QED BY <1>0, <1>1, <1>2, <1>3, SessionsOf

(* What a proof writes at the responder.                                   *)
LEMMA ProofSessions ==
    ASSUME TypeOK, NEW d \in Devices, NEW m \in proofs, ReceiveProof(d, m)
    PROVE  /\ m.request \in Requests /\ HasSession(d, m.request)
           /\ UNCHANGED begin
           /\ \A e \in Devices, q \in Requests :
                 /\ HasSession(e, q)' <=> HasSession(e, q)
                 /\ \/ sessions'[e][q] = sessions[e][q]
                    \/ e = d /\ q = m.request
           /\ MayAccept(d, m.request)' => MayAccept(d, m.request)
           /\ FinalizeLocked(d, m.request) =>
                 MayAccept(d, m.request) /\ MayAccept(d, m.request)'
<1> DEFINE r == m.request
           s0 == sessions[d][r]
           s == Proven(s0, m.action)
           sF == [state |-> "paired", local |-> TRUE, remote |-> TRUE,
                  trusted |-> TRUE]
<1>0. /\ r \in Requests /\ HasSession(d, r) /\ UNCHANGED begin
      /\ s0 \in Session /\ m.action \in {"confirm", "reject", "status"}
  BY Shapes DEF ReceiveProof, HasSession, TypeOK, Proof
<1>1. /\ s.state # "absent" /\ sF.state # "absent" /\ sF.state # "rejected"
      /\ s0.state = "rejected" => s.state = "rejected"
  BY <1>0 DEF Proven, Session, State
<1>2. Put(d, r, s) \/ (Put(d, r, sF) /\ s.state # "rejected")
  BY DEF ReceiveProof, MayFinalize, FinalizeLocked, StoreFails
<1>3. FinalizeLocked(d, r) => Put(d, r, sF)
  BY DEF FinalizeLocked
<1>4. FinalizeLocked(d, r) => s.state # "rejected"
  <2>1. SUFFICES ASSUME FinalizeLocked(d, r), s.state = "rejected" PROVE FALSE
    OBVIOUS
  <2>2. ~MayFinalize(s)
    BY <2>1 DEF MayFinalize
  <2>3. Put(d, r, s)
    BY <2>2 DEF ReceiveProof
  <2>4. sessions'[d][r] = s /\ sessions'[d][r] = sF
    BY <2>1, <2>3, <1>0, <1>3 DEF Put, TypeOK
  <2> QED BY <2>1, <2>4, <1>1
<1> HIDE DEF s, sF
<1>5. /\ \A e \in Devices, q \in Requests :
            /\ HasSession(e, q)' <=> HasSession(e, q)
            /\ sessions'[e][q] = sessions[e][q] \/ (e = d /\ q = r)
      /\ sessions'[d][r] = s \/ (sessions'[d][r] = sF /\ s.state # "rejected")
      /\ FinalizeLocked(d, r) => sessions'[d][r] = sF
  BY <1>0, <1>1, <1>2, <1>3, SessionsOf
<1> QED BY <1>0, <1>1, <1>4, <1>5 DEF MayAccept

(* What an answer writes at the initiator.                                 *)
LEMMA DecisionSessions ==
    ASSUME TypeOK, NEW d \in Devices, NEW m \in decisions,
           ApplyPeerDecision(d, m)
    PROVE  /\ m.request \in Requests /\ HasSession(d, m.request)
           /\ UNCHANGED begin
           /\ \A e \in Devices, q \in Requests :
                 /\ HasSession(e, q)' <=> HasSession(e, q)
                 /\ \/ sessions'[e][q] = sessions[e][q]
                    \/ e = d /\ q = m.request
<1> DEFINE r == m.request
           s0 == sessions[d][r]
           s == [s0 EXCEPT !.remote = PeerConfirmed(m)]
           sR == [s EXCEPT !.state = "rejected"]
           sC == [s EXCEPT !.state = "confirming"]
           sF == [state |-> "paired", local |-> TRUE, remote |-> TRUE,
                  trusted |-> TRUE]
<1>0. /\ r \in Requests /\ HasSession(d, r) /\ UNCHANGED begin
      /\ s0 \in Session
  BY Shapes DEF ApplyPeerDecision, HasSession, TypeOK, PeerDecision
<1>1. /\ s.state # "absent" /\ sR.state # "absent" /\ sC.state # "absent"
      /\ sF.state # "absent"
  BY <1>0 DEF Session, State
<1>2. Put(d, r, s) \/ Put(d, r, sR) \/ Put(d, r, sC) \/ Put(d, r, sF)
  BY DEF ApplyPeerDecision, FinalizeLocked, StoreFails
<1> HIDE DEF s, sR, sC, sF
<1> QED BY <1>0, <1>1, <1>2, SessionsOf

(* Installing a session is the end of its key exchange.                    *)
LEMMA ExchangeAnswered ==
    ASSUME Inv, AnsweredInv, NEW d \in Devices, NEW r \in Requests,
           Exchange(d, r)
    PROVE  AnsweredInv'
<1> USE TwoDevices, Shapes DEF Inv
<1>1. CASE RequestPairing(d, r)
  BY <1>1 DEF RequestPairing, AnsweredInv, KnownInv, Known, HasSession, TypeOK
<1>2. CASE ReceiveBegin(d, r)
  BY <1>2 DEF ReceiveBegin, AnsweredInv, HasSession, TypeOK
<1>3. CASE InstallIncoming(d, r)
  <2> DEFINE new == [q \in Requests |-> IF q = r THEN NewSession
                                        ELSE IF q = pending[d] THEN NoSession
                                        ELSE sessions[d][q]]
  <2>1. /\ exchange' = [exchange EXCEPT ![r] = "answered"] /\ UNCHANGED from
        /\ sessions' = [sessions EXCEPT ![d] = new]
    BY <1>3 DEF InstallIncoming
  <2>2. \A q \in Requests : q # r => new[q] = sessions[d][q] \/ new[q] = NoSession
    OBVIOUS
  <2> HIDE DEF new
  <2>3. \A e \in Devices, q \in Requests : q # r =>
           sessions'[e][q] = sessions[e][q] \/ sessions'[e][q] = NoSession
    BY <2>1, <2>2 DEF TypeOK
  <2>4. ASSUME NEW e \in Devices, NEW q \in Requests, from'[q] = Peer(e),
               HasSession(e, q)'
        PROVE  exchange'[q] = "answered"
    <3>1. CASE q = r
      BY <2>1, <3>1 DEF TypeOK
    <3>2. CASE q # r
      <4>1. HasSession(e, q) /\ exchange'[q] = exchange[q]
        BY <2>1, <2>3, <2>4, <3>2 DEF HasSession, TypeOK
      <4> QED BY <4>1, <2>1, <2>4 DEF AnsweredInv
    <3> QED BY <3>1, <3>2
  <2> QED BY <2>4 DEF AnsweredInv
<1>4. CASE InstallOutgoing(d, r)
  BY <1>4 DEF InstallOutgoing, Outgoing, Put, AnsweredInv, HasSession, TypeOK
<1>5. CASE RequestFails(d, r)
  BY <1>5 DEF RequestFails, AnsweredInv, HasSession
<1> QED BY <1>1, <1>2, <1>3, <1>4, <1>5 DEF Exchange

(* Every step keeps AnsweredInv.                                           *)
LEMMA NextAnswered ==
    ASSUME Inv, AnsweredInv, [Next]_vars
    PROVE  AnsweredInv'
<1> USE DEF Inv
<1>1. ASSUME NEW d \in Devices, NEW r \in Requests, User(d, r)
      PROVE  AnsweredInv'
  BY <1>1, UserSessions, AnsweredKept
<1>2. ASSUME NEW d \in Devices, NEW m \in proofs, ReceiveProof(d, m)
      PROVE  AnsweredInv'
  BY <1>2, ProofSessions, AnsweredKept
<1>3. ASSUME NEW d \in Devices, NEW m \in decisions, ApplyPeerDecision(d, m)
      PROVE  AnsweredInv'
  BY <1>3, DecisionSessions, AnsweredKept
<1>4. ASSUME NEW d \in Devices, NEW r \in Requests, Prune(d, r)
      PROVE  AnsweredInv'
  <2>1. /\ UNCHANGED begin
        /\ \A e \in Devices, q \in Requests : HasSession(e, q)' => HasSession(e, q)
    BY <1>4, Shapes DEF Prune, Put, HasSession, TypeOK
  <2> QED BY <2>1, AnsweredKept
<1>5. ASSUME NEW d \in Devices, Restart(d)
      PROVE  AnsweredInv'
  BY <1>5, Shapes DEF Restart, AnsweredInv, HasSession, TypeOK
<1>6. ASSUME UNCHANGED <<begin, sessions>>
      PROVE  AnsweredInv'
  BY <1>6 DEF AnsweredInv, HasSession, begin
<1>7. ASSUME NEW d \in Devices,
             \/ \E blocked \in BOOLEAN : SetBlocked(d, blocked)
             \/ RemoveTrustedDevice(d)
      PROVE  AnsweredInv'
  BY <1>6, <1>7 DEF SetBlocked, RemoveTrustedDevice
<1>8. ASSUME NEW m, Discard(m)
      PROVE  AnsweredInv'
  BY <1>6, <1>8 DEF Discard
<1>9. CASE UNCHANGED vars
  BY <1>6, <1>9 DEF vars, begin
<1> QED BY <1>1, <1>2, <1>3, <1>4, <1>5, <1>7, <1>8, <1>9, ExchangeAnswered
        DEF Next

(* Phase: of a request the device has made,                                *)
LEMMA PhaseOutgoing ==
    ASSUME NEW d \in Devices, NEW r \in Requests, from[r] = d
    PROVE  /\ Phase(d, r) = "open" <=> r \in waiting \/ HasSession(d, r)
           /\ Phase(d, r) = "over" <=> ~(r \in waiting \/ HasSession(d, r))
BY DEF Phase, Outgoing

(* and of one it has not.                                                  *)
LEMMA PhaseIncoming ==
    ASSUME NEW d \in Devices, NEW r \in Requests, from[r] # d
    PROVE  /\ Phase(d, r) = "new" <=> exchange[r] \in {"unused", "sent"}
           /\ exchange[r] \notin {"unused", "sent"} =>
                 /\ Phase(d, r) = "open" <=>
                       exchange[r] = "checked" \/ MayAccept(d, r)
                 /\ Phase(d, r) = "over" <=>
                       ~(exchange[r] = "checked" \/ MayAccept(d, r))
BY DEF Phase, Outgoing

(* A phase stays when what it is read from stays.                          *)
LEMMA PhaseStays ==
    ASSUME NEW d \in Devices, NEW r \in Requests,
           from'[r] = from[r], exchange'[r] = exchange[r],
           sessions'[d][r] = sessions[d][r],
           from[r] = d => (r \in waiting' <=> r \in waiting)
    PROVE  Phase(d, r)' = Phase(d, r)
BY DEF Phase, Outgoing, MayAccept, HasSession

(* A handler on a session of its device: the phase of no other request     *)
(* changes, and a request made here stays open.                            *)
LEMMA PhaseOnSession ==
    ASSUME NEW d \in Devices, NEW r \in Requests, UNCHANGED begin,
           HasSession(d, r), HasSession(d, r)',
           \A e \in Devices, q \in Requests :
              sessions'[e][q] = sessions[e][q] \/ (e = d /\ q = r)
    PROVE  /\ \A e \in Devices, q \in Requests :
                 Phase(e, q)' = Phase(e, q) \/ (e = d /\ q = r)
           /\ from[r] = d => Phase(d, r) = "open" /\ Phase(d, r)' = "open"
<1>1. \A e \in Devices, q \in Requests :
         Phase(e, q)' = Phase(e, q) \/ (e = d /\ q = r)
  BY PhaseStays DEF begin
<1>2. from[r] = d => Phase(d, r) = "open" /\ Phase(d, r)' = "open"
  BY DEF begin, Phase, Outgoing
<1> QED BY <1>1, <1>2

-----------------------------------------------------------------------------
(* The steps of PairingPromise, in terms of this module.                   *)
PhaseFcn == [d \in Devices |-> [r \in Requests |-> Phase(d, r)]]

LEMMA PhaseUpdate ==
    ASSUME NEW d \in Devices, NEW r \in Requests, NEW p, Phase(d, r)' = p,
           \A e \in Devices, q \in Requests :
              Phase(e, q)' = Phase(e, q) \/ (e = d /\ q = r)
    PROVE  PhaseFcn' = [PhaseFcn EXCEPT ![d][r] = p]
BY DEF PhaseFcn

LEMMA PhaseSame ==
    ASSUME \A e \in Devices, q \in Requests : Phase(e, q)' = Phase(e, q)
    PROVE  UNCHANGED PhaseFcn
BY DEF PhaseFcn

LEMMA BeginStep ==
    ASSUME NEW d \in Devices, NEW r \in Requests,
           UNCHANGED <<confirmed, trust>>, trust[d] = NoTrust,
           Phase(d, r) = "new", Phase(d, r)' = "open",
           \A e \in Devices, q \in Requests :
              Phase(e, q)' = Phase(e, q) \/ (e = d /\ q = r)
    PROVE  Promise!PromiseNext
<1>1. PhaseFcn' = [PhaseFcn EXCEPT ![d][r] = "open"] /\ PhaseFcn[d][r] = "new"
  BY PhaseUpdate DEF PhaseFcn
<1>2. Promise!Begin(d, r)
  BY <1>1 DEF PhaseFcn, Promise!Begin, Promise!NoTrust, NoTrust
<1> QED BY <1>2 DEF Promise!PromiseNext

LEMMA CloseStep ==
    ASSUME NEW d \in Devices, UNCHANGED <<confirmed, trust>>,
           \A e \in Devices, q \in Requests :
              \/ Phase(e, q)' = Phase(e, q)
              \/ e = d /\ Phase(e, q) = "open" /\ Phase(e, q)' = "over"
    PROVE  Promise!PromiseNext
<1>1. \A e \in Devices, q \in Requests :
         PhaseFcn[e][q] = Phase(e, q) /\ PhaseFcn'[e][q] = Phase(e, q)'
  BY DEF PhaseFcn
<1>2. Promise!Close(d)
  BY <1>1 DEF PhaseFcn, Promise!Close
<1> QED BY <1>2 DEF Promise!PromiseNext

(* Trust that is saved.                                                    *)
Saved(d, r) == /\ trust' = [trust EXCEPT ![d] = [key |-> r, blocked |-> FALSE]]
               /\ \A e \in Devices : r \in confirmed'[e]

LEMMA AcceptStep ==
    ASSUME NEW d \in Devices, NEW r \in Requests, Confirm(d, r),
           Saved(d, r) \/ UNCHANGED trust, Phase(d, r) = "open",
           \A e \in Devices, q \in Requests : Phase(e, q)' = Phase(e, q)
    PROVE  Promise!PromiseNext
<1>1. UNCHANGED PhaseFcn /\ PhaseFcn[d][r] = "open"
  BY PhaseSame DEF PhaseFcn
<1>2. Promise!Accept(d, r)
  BY <1>1 DEF PhaseFcn, Promise!Accept, Promise!Established, Saved, Confirm
<1> QED BY <1>2 DEF Promise!PromiseNext

LEMMA EstablishStep ==
    ASSUME NEW d \in Devices, NEW r \in Requests, UNCHANGED confirmed,
           Saved(d, r), Phase(d, r) = "open",
           \A e \in Devices, q \in Requests : Phase(e, q)' = Phase(e, q)
    PROVE  Promise!PromiseNext
<1>1. UNCHANGED PhaseFcn /\ PhaseFcn[d][r] = "open"
  BY PhaseSame DEF PhaseFcn
<1>2. Promise!Establish(d, r)
  BY <1>1 DEF PhaseFcn, Promise!Establish, Promise!Established, Saved
<1> QED BY <1>2 DEF Promise!PromiseNext

-----------------------------------------------------------------------------
(* Every action takes a step of PairingPromise or none.                    *)
Kept == Promise!PromiseNext \/ UNCHANGED <<PhaseFcn, confirmed, trust>>

LEMMA RequestKept ==
    ASSUME Inv, AnsweredInv, NEW d \in Devices, NEW r \in Requests,
           RequestPairing(d, r) \/ ReceiveBegin(d, r)
    PROVE  Kept
<1> USE TwoDevices DEF Inv
<1>1. CASE RequestPairing(d, r)
  <2>1. /\ from[r] = "none" /\ exchange[r] = "unused"
        /\ from' = [from EXCEPT ![r] = d]
        /\ exchange' = [exchange EXCEPT ![r] = "sent"]
        /\ waiting' = waiting \cup {r} /\ trust[d] = NoTrust
        /\ UNCHANGED <<sessions, confirmed, trust>>
    BY <1>1 DEF RequestPairing, TypeOK
  <2>2. Phase(d, r) = "new" /\ Phase(d, r)' = "open"
    BY <2>1 DEF Phase, Outgoing, TypeOK
  <2>3. \A e \in Devices, q \in Requests : q # r => Phase(e, q)' = Phase(e, q)
    BY <2>1, PhaseStays DEF TypeOK
  <2>4. \A e \in Devices : e # d => Phase(e, r)' = Phase(e, r)
    BY <2>1 DEF Phase, Outgoing, TypeOK
  <2> QED BY <2>1, <2>2, <2>3, <2>4, BeginStep DEF Kept
<1>2. CASE ReceiveBegin(d, r)
  <2>1. /\ from[r] = Peer(d) /\ exchange[r] = "sent" /\ UNCHANGED from
        /\ exchange' = [exchange EXCEPT ![r] = "checked"]
        /\ UNCHANGED waiting /\ trust[d] = NoTrust
        /\ UNCHANGED <<sessions, confirmed, trust>>
    BY <1>2 DEF ReceiveBegin
  <2>2. Phase(d, r) = "new" /\ Phase(d, r)' = "open"
    BY <2>1 DEF Phase, Outgoing, TypeOK
  <2>3. \A e \in Devices, q \in Requests : q # r => Phase(e, q)' = Phase(e, q)
    BY <2>1, PhaseStays DEF TypeOK
  <2>4. \A e \in Devices : e # d => Phase(e, r)' = Phase(e, r)
    BY <2>1 DEF Phase, Outgoing, HasSession
  <2> QED BY <2>1, <2>2, <2>3, <2>4, BeginStep DEF Kept
<1> QED BY <1>1, <1>2

LEMMA InstallKept ==
    ASSUME Inv, AnsweredInv, NEW d \in Devices, NEW r \in Requests,
           InstallIncoming(d, r) \/ InstallOutgoing(d, r)
    PROVE  Kept
<1> USE TwoDevices, Shapes DEF Inv
<1>1. CASE InstallIncoming(d, r)
  <2> DEFINE new == [q \in Requests |-> IF q = r THEN NewSession
                                        ELSE IF q = pending[d] THEN NoSession
                                        ELSE sessions[d][q]]
  <2>1. /\ from[r] = Peer(d) /\ exchange[r] = "checked"
        /\ exchange' = [exchange EXCEPT ![r] = "answered"]
        /\ sessions' = [sessions EXCEPT ![d] = new]
        /\ UNCHANGED <<from, waiting, confirmed, trust>>
    BY <1>1 DEF InstallIncoming
  <2>2. /\ new[r] = NewSession
        /\ \A q \in Requests : q # r /\ q # pending[d] => new[q] = sessions[d][q]
        /\ pending[d] # r => new[pending[d]] = NoSession \/ pending[d] \notin Requests
    OBVIOUS
  <2> HIDE DEF new
  <2>3. /\ sessions'[d] = new
        /\ \A e \in Devices : e # d => sessions'[e] = sessions[e]
        /\ exchange'[r] = "answered"
        /\ \A q \in Requests : q # r => exchange'[q] = exchange[q]
    BY <2>1 DEF TypeOK
  <2>4. Phase(d, r)' = Phase(d, r)
    BY <2>1, <2>2, <2>3 DEF Phase, Outgoing, MayAccept, HasSession, NewSession,
       NoSession
  <2>5. \A e \in Devices : e # d => Phase(e, r)' = Phase(e, r)
    BY <2>1, <2>3 DEF Phase, Outgoing, HasSession
  <2>6. \A e \in Devices, q \in Requests :
           q # r /\ (e # d \/ q # pending[d]) => Phase(e, q)' = Phase(e, q)
    BY <2>1, <2>2, <2>3, PhaseStays
  <2>7. ASSUME NEW q \in Requests, q # r, q = pending[d]
        PROVE  \/ Phase(d, q)' = Phase(d, q)
               \/ Phase(d, q) = "open" /\ Phase(d, q)' = "over"
    <3>1. HasSession(d, q) /\ ~HasSession(d, q)' /\ ~MayAccept(d, q)'
      BY <2>2, <2>3, <2>7, PairingAssumption
         DEF PendingHasSession, HasSession, MayAccept
    <3>2. CASE from[q] = d
      BY <2>1, <2>3, <2>7, <3>1, <3>2 DEF Phase, Outgoing
    <3>3. CASE from[q] # d
      <4>1. exchange[q] = "answered" /\ exchange'[q] = "answered"
        BY <2>3, <2>7, <3>1, <3>3 DEF AnsweredInv, KnownInv, Known, TypeOK
      <4> QED BY <2>1, <3>1, <3>3, <4>1 DEF Phase, Outgoing
    <3> QED BY <3>2, <3>3
  <2>8. \A e \in Devices, q \in Requests :
           \/ Phase(e, q)' = Phase(e, q)
           \/ e = d /\ Phase(e, q) = "open" /\ Phase(e, q)' = "over"
    BY <2>4, <2>5, <2>6, <2>7
  <2> QED BY <2>1, <2>8, CloseStep DEF Kept
<1>2. CASE InstallOutgoing(d, r)
  <2>1. /\ from[r] = d /\ r \in waiting /\ waiting' = waiting \ {r}
        /\ sessions' = [sessions EXCEPT ![d][r] = NewSession]
        /\ UNCHANGED <<from, exchange, confirmed, trust>>
    BY <1>2 DEF InstallOutgoing, Put, Outgoing
  <2>2. Phase(d, r)' = Phase(d, r)
    BY <2>1 DEF Phase, Outgoing, HasSession, TypeOK, Session
  <2>3. \A e \in Devices, q \in Requests : q # r \/ e # d =>
           Phase(e, q)' = Phase(e, q)
    BY <2>1, PhaseStays DEF TypeOK
  <2>4. UNCHANGED PhaseFcn
    BY <2>2, <2>3, PhaseSame
  <2> QED BY <2>1, <2>4 DEF Kept
<1> QED BY <1>1, <1>2

LEMMA EndKept ==
    ASSUME Inv, AnsweredInv, NEW d \in Devices,
           \/ \E r \in Requests : RequestFails(d, r) \/ Prune(d, r)
           \/ Restart(d)
    PROVE  Kept
<1> USE TwoDevices, Shapes DEF Inv
<1>1. ASSUME NEW r \in Requests, RequestFails(d, r)
      PROVE  Kept
  <2>1. /\ from[r] = d /\ r \in waiting /\ waiting' = waiting \ {r}
        /\ UNCHANGED <<from, exchange, sessions, confirmed, trust>>
    BY <1>1 DEF RequestFails, Outgoing
  <2>2. \/ Phase(d, r)' = Phase(d, r)
        \/ Phase(d, r) = "open" /\ Phase(d, r)' = "over"
    BY <2>1 DEF Phase, Outgoing, HasSession
  <2>3. \A e \in Devices, q \in Requests : q # r \/ e # d =>
           Phase(e, q)' = Phase(e, q)
    BY <2>1, PhaseStays
  <2> QED BY <2>1, <2>2, <2>3, CloseStep DEF Kept
<1>2. ASSUME NEW r \in Requests, Prune(d, r)
      PROVE  Kept
  <2>1. /\ HasSession(d, r) /\ sessions' = [sessions EXCEPT ![d][r] = NoSession]
        /\ UNCHANGED <<from, exchange, waiting, confirmed, trust>>
    BY <1>2 DEF Prune, Put, begin
  <2>2. ~HasSession(d, r)' /\ ~MayAccept(d, r)'
    BY <2>1 DEF HasSession, MayAccept, TypeOK
  <2>3. \/ Phase(d, r)' = Phase(d, r)
        \/ Phase(d, r) = "open" /\ Phase(d, r)' = "over"
    <3>1. CASE from[r] = d
      BY <2>1, <2>2, <3>1 DEF Phase, Outgoing
    <3>2. CASE from[r] # d
      <4>1. exchange[r] = "answered"
        BY <2>1, <3>2 DEF AnsweredInv, KnownInv, Known, TypeOK
      <4> QED BY <2>1, <2>2, <3>2, <4>1 DEF Phase, Outgoing
    <3> QED BY <3>1, <3>2
  <2>4. \A e \in Devices, q \in Requests : q # r \/ e # d =>
           Phase(e, q)' = Phase(e, q)
    BY <2>1, PhaseStays DEF TypeOK
  <2> QED BY <2>1, <2>3, <2>4, CloseStep DEF Kept
<1>3. CASE Restart(d)
  <2>1. /\ sessions' = [sessions EXCEPT ![d] = [r \in Requests |-> NoSession]]
        /\ waiting' = {r \in waiting : from[r] # d}
        /\ \A q \in Requests : exchange'[q] =
              IF exchange[q] = "checked" /\ from[q] # d THEN "lost" ELSE exchange[q]
        /\ UNCHANGED <<from, confirmed, trust>>
    BY <1>3 DEF Restart, Outgoing
  <2>2. \A q \in Requests : ~HasSession(d, q)' /\ ~MayAccept(d, q)'
    BY <2>1 DEF HasSession, MayAccept, TypeOK
  <2>3. ASSUME NEW q \in Requests
        PROVE  \/ Phase(d, q)' = Phase(d, q)
               \/ Phase(d, q) = "open" /\ Phase(d, q)' = "over"
    <3>1. CASE from[q] = d
      BY <2>1, <2>2, <3>1 DEF Phase, Outgoing
    <3>2. CASE from[q] # d
      BY <2>1, <2>2, <3>2 DEF Phase, Outgoing
    <3> QED BY <3>1, <3>2
  <2>4. ASSUME NEW e \in Devices, NEW q \in Requests, e # d
        PROVE  Phase(e, q)' = Phase(e, q)
    <3>1. sessions'[e] = sessions[e]
      BY <2>1, <2>4 DEF TypeOK
    <3>2. CASE from[q] = e
      BY <2>1, <2>4, <3>1, <3>2 DEF Phase, Outgoing, HasSession
    <3>3. CASE from[q] # e
      <4>1. from[q] = d \/ exchange[q] = "unused"
        <5>1. from[q] = "none" \/ from[q] \in Devices
          BY DEF TypeOK
        <5>2. e = Peer(d)
          BY <2>4
        <5> QED BY <5>1, <5>2, <3>3 DEF TypeOK
      <4>2. exchange'[q] = exchange[q]
        BY <2>1, <4>1
      <4> QED BY <2>1, <3>1, <3>3, <4>2, PhaseStays
    <3> QED BY <3>2, <3>3
  <2> QED BY <2>1, <2>3, <2>4, CloseStep DEF Kept
<1> QED BY <1>1, <1>2, <1>3

(* Trust that FinalizeLocked saves is of a request both have confirmed.    *)
LEMMA SavedTrust ==
    ASSUME Inv', NEW d \in Devices, NEW r \in Requests, TypeOK,
           FinalizeLocked(d, r)
    PROVE  Saved(d, r)
<1>1. trust' = [trust EXCEPT ![d] = [key |-> r, blocked |-> FALSE]]
  BY DEF FinalizeLocked
<1>2. trust'[d].key = r /\ trust'[d] # NoTrust
  <2>1. trust'[d] = [key |-> r, blocked |-> FALSE]
    BY <1>1 DEF TypeOK
  <2>2. NoTrust.key = "none" /\ r # "none"
    BY PairingAssumption DEF NoTrust
  <2> QED BY <2>1, <2>2
<1>3. r \in confirmed'[d] /\ r \in confirmed'[Peer(d)]
  BY <1>2 DEF Inv, TrustInv
<1> QED BY <1>1, <1>3, TwoDevices DEF Saved

LEMMA UserKept ==
    ASSUME Inv, AnsweredInv, Inv', NEW d \in Devices, NEW r \in Requests,
           User(d, r)
    PROVE  Kept
<1> USE TwoDevices DEF Inv
<1>1. /\ HasSession(d, r) /\ HasSession(d, r)' /\ UNCHANGED begin
      /\ \A e \in Devices, q \in Requests :
            Phase(e, q)' = Phase(e, q) \/ (e = d /\ q = r)
      /\ from[r] = d => Phase(d, r) = "open" /\ Phase(d, r)' = "open"
  BY UserSessions, PhaseOnSession
<1>2. from[r] # d => exchange[r] = "answered" /\ exchange'[r] = "answered"
  BY <1>1 DEF AnsweredInv, KnownInv, Known, TypeOK, begin
<1>3. from[r] # d => /\ MayAccept(d, r) => Phase(d, r) = "open"
                     /\ ~MayAccept(d, r) => Phase(d, r) = "over"
                     /\ MayAccept(d, r)' => Phase(d, r)' = "open"
                     /\ ~MayAccept(d, r)' => Phase(d, r)' = "over"
  BY <1>1, <1>2 DEF Phase, Outgoing, begin
<1>4. CASE AcceptIncoming(d, r)
  <2>1. MayAccept(d, r) /\ from[r] # d /\ Confirm(d, r)
    BY <1>4 DEF AcceptIncoming, Outgoing
  <2>2. Saved(d, r) \/ UNCHANGED trust
    BY <1>4, SavedTrust DEF AcceptIncoming, StoreFails
  <2>3. MayAccept(d, r)'
    <3> DEFINE sA == [sessions[d][r] EXCEPT !.local = TRUE, !.state = "confirming"]
               sF == [state |-> "paired", local |-> TRUE, remote |-> TRUE,
                      trusted |-> TRUE]
    <3>1. sessions[d][r] \in Session
      BY <1>1, Shapes DEF TypeOK, HasSession
    <3>2. sA.state = "confirming" /\ sF.state = "paired"
      BY <3>1 DEF Session
    <3>3. Put(d, r, sA) \/ Put(d, r, sF)
      BY <1>4 DEF AcceptIncoming, StoreFails, FinalizeLocked
    <3> HIDE DEF sA, sF
    <3>4. sessions'[d][r] = sA \/ sessions'[d][r] = sF
      BY <3>3 DEF Put, TypeOK
    <3> QED BY <1>1, <3>2, <3>4 DEF MayAccept
  <2>4. \A e \in Devices, q \in Requests : Phase(e, q)' = Phase(e, q)
    BY <1>1, <1>3, <2>1, <2>3
  <2> QED BY <1>3, <2>1, <2>2, <2>4, AcceptStep DEF Kept
<1>5. CASE AcceptOutgoing(d, r)
  <2>1. from[r] = d /\ Confirm(d, r) /\ UNCHANGED trust
    BY <1>5 DEF AcceptOutgoing, Outgoing
  <2> QED BY <1>1, <2>1, AcceptStep DEF Kept
<1>6. CASE Refresh(d, r)
  <2>1. from[r] = d /\ UNCHANGED <<confirmed, trust>>
    BY <1>6 DEF Refresh, Outgoing
  <2> QED BY <1>1, <2>1, PhaseSame DEF Kept
<1>7. CASE Reject(d, r)
  <2>1. UNCHANGED <<confirmed, trust>>
    BY <1>7 DEF Reject
  <2>2. ~MayAccept(d, r)'
    <3> DEFINE sR == [sessions[d][r] EXCEPT !.state = "rejected"]
    <3>1. sR.state = "rejected"
      BY <1>1, Shapes DEF TypeOK, HasSession, Session
    <3>2. Put(d, r, sR)
      BY <1>7 DEF Reject
    <3> HIDE DEF sR
    <3> QED BY <3>1, <3>2 DEF Put, TypeOK, MayAccept
  <2> QED BY <1>1, <1>3, <2>1, <2>2, CloseStep DEF Kept
<1> QED BY <1>4, <1>5, <1>6, <1>7 DEF User

LEMMA ReceiveProofKept ==
    ASSUME Inv, AnsweredInv, Inv', NEW d \in Devices, NEW m \in proofs,
           ReceiveProof(d, m)
    PROVE  Kept
<1> USE TwoDevices DEF Inv
<1> DEFINE r == m.request
<1>1. /\ r \in Requests /\ HasSession(d, r) /\ HasSession(d, r)'
      /\ UNCHANGED begin /\ UNCHANGED confirmed /\ from[r] # d
      /\ MayAccept(d, r)' => MayAccept(d, r)
      /\ FinalizeLocked(d, r) => MayAccept(d, r) /\ MayAccept(d, r)'
      /\ \A e \in Devices, q \in Requests :
            sessions'[e][q] = sessions[e][q] \/ (e = d /\ q = r)
  BY ProofSessions DEF ReceiveProof
<1>2. \A e \in Devices, q \in Requests :
         Phase(e, q)' = Phase(e, q) \/ (e = d /\ q = r)
  BY <1>1, PhaseOnSession
<1>3. exchange[r] = "answered" /\ exchange'[r] = "answered"
  BY <1>1 DEF AnsweredInv, KnownInv, Known, TypeOK, begin
<1>4. /\ MayAccept(d, r) => Phase(d, r) = "open"
      /\ ~MayAccept(d, r) => Phase(d, r) = "over"
      /\ MayAccept(d, r)' => Phase(d, r)' = "open"
      /\ ~MayAccept(d, r)' => Phase(d, r)' = "over"
  BY <1>1, <1>3 DEF Phase, Outgoing, begin
<1>5. CASE FinalizeLocked(d, r)
  <2>1. Saved(d, r)
    BY <1>1, <1>5, SavedTrust
  <2> QED BY <1>1, <1>2, <1>4, <1>5, <2>1, EstablishStep DEF Kept
<1>6. CASE UNCHANGED trust
  BY <1>1, <1>2, <1>4, <1>6, CloseStep DEF Kept
<1> QED BY <1>5, <1>6 DEF ReceiveProof, StoreFails

LEMMA ApplyPeerDecisionKept ==
    ASSUME Inv, Inv', NEW d \in Devices, NEW m \in decisions,
           ApplyPeerDecision(d, m)
    PROVE  Kept
<1> USE DEF Inv
<1> DEFINE r == m.request
<1>0. from[r] = d /\ UNCHANGED confirmed
  BY DEF ApplyPeerDecision, Outgoing
<1>1. /\ r \in Requests
      /\ HasSession(d, r) /\ HasSession(d, r)' /\ UNCHANGED begin
      /\ \A e \in Devices, q \in Requests :
            sessions'[e][q] = sessions[e][q] \/ (e = d /\ q = r)
  BY DecisionSessions
<1>2. /\ \A e \in Devices, q \in Requests : Phase(e, q)' = Phase(e, q)
      /\ Phase(d, r) = "open"
  BY <1>0, <1>1, PhaseOnSession
<1>3. CASE FinalizeLocked(d, r)
  <2>1. Saved(d, r)
    BY <1>1, <1>3, SavedTrust
  <2> QED BY <1>0, <1>1, <1>2, <2>1, EstablishStep DEF Kept
<1>4. CASE UNCHANGED trust
  BY <1>0, <1>2, <1>4, PhaseSame DEF Kept
<1> QED BY <1>3, <1>4 DEF ApplyPeerDecision, StoreFails

LEMMA TrustKept ==
    ASSUME Inv, NEW d \in Devices,
           \/ \E blocked \in BOOLEAN : SetBlocked(d, blocked)
           \/ RemoveTrustedDevice(d)
    PROVE  Kept
<1>1. UNCHANGED begin /\ UNCHANGED sessions /\ UNCHANGED confirmed
  BY DEF SetBlocked, RemoveTrustedDevice
<1>2. \A e \in Devices, q \in Requests : Phase(e, q)' = Phase(e, q)
  BY <1>1, PhaseStays DEF begin
<1>3. UNCHANGED PhaseFcn
  BY <1>2, PhaseSame
<1>4. \/ \E blocked \in BOOLEAN : Promise!Block(d, blocked)
      \/ Promise!Forget(d)
  BY <1>1, <1>3 DEF SetBlocked, RemoveTrustedDevice, Promise!Block,
     Promise!Forget, Promise!NoTrust, NoTrust, PhaseFcn
<1> QED BY <1>4 DEF Kept, Promise!PromiseNext

LEMMA NextKept ==
    ASSUME Inv, AnsweredInv, Inv', [Next]_vars
    PROVE  Kept
<1>1. ASSUME UNCHANGED <<begin, sessions, trust, confirmed>>
      PROVE  Kept
  <2>1. \A e \in Devices, q \in Requests : Phase(e, q)' = Phase(e, q)
    BY <1>1, PhaseStays DEF begin
  <2> QED BY <1>1, <2>1, PhaseSame DEF Kept
<1>2. ASSUME NEW m, Discard(m) PROVE Kept
  BY <1>1, <1>2 DEF Discard
<1>3. CASE UNCHANGED vars
  BY <1>1, <1>3 DEF vars, begin
<1>4. ASSUME NEW d \in Devices, NEW r \in Requests, Exchange(d, r)
      PROVE  Kept
  BY <1>4, RequestKept, InstallKept, EndKept DEF Exchange
<1>5. ASSUME NEW d \in Devices, NEW r \in Requests, User(d, r) \/ Prune(d, r)
      PROVE  Kept
  BY <1>5, UserKept, EndKept
<1>6. ASSUME NEW d \in Devices,
             \/ \E m \in proofs : ReceiveProof(d, m)
             \/ \E m \in decisions : ApplyPeerDecision(d, m)
      PROVE  Kept
  BY <1>6, ReceiveProofKept, ApplyPeerDecisionKept
<1>7. ASSUME NEW d \in Devices,
             \/ \E blocked \in BOOLEAN : SetBlocked(d, blocked)
             \/ RemoveTrustedDevice(d) \/ Restart(d)
      PROVE  Kept
  BY <1>7, TrustKept, EndKept
<1> QED BY <1>2, <1>3, <1>4, <1>5, <1>6, <1>7 DEF Next

(* Two devices that lose messages, cross their requests, restart and fail   *)
(* to save take only the steps PairingPromise allows: trust comes from a    *)
(* request both users have confirmed and that is not over, and what is over *)
(* stays over (RequestPairing, ReceiveBegin, Accept, Reject, ReceiveProof,  *)
(* applyPeerDecision, pruneLocked).                                         *)
THEOREM PromiseIsKept == Spec => PromiseKept
<1>1. Init => Inv /\ AnsweredInv /\ Promise!PromiseInit
  <2> SUFFICES ASSUME Init PROVE AnsweredInv /\ Promise!PromiseInit
    BY InitInv
  <2>1. \A d \in Devices, r \in Requests : ~HasSession(d, r)
    BY Shapes DEF Init, HasSession
  <2>2. \A d \in Devices, r \in Requests : Phase(d, r) = "new"
    BY TwoDevices DEF Init, Phase, Outgoing
  <2>3. PhaseFcn = [d \in Devices |-> [r \in Requests |-> "new"]]
    BY <2>2 DEF PhaseFcn
  <2> QED BY <2>1, <2>3 DEF AnsweredInv, PhaseFcn, Promise!PromiseInit, Init,
             Promise!NoTrust, NoTrust
<1>2. Inv /\ AnsweredInv /\ [Next]_vars => (Inv /\ AnsweredInv)'
  BY NextInv, NextAnswered
<1>3. Inv /\ AnsweredInv /\ Inv' /\ [Next]_vars
         => [Promise!PromiseNext]_(Promise!promiseVars)
  BY NextKept DEF Kept, Promise!promiseVars, PhaseFcn
<1> QED BY <1>1, <1>2, <1>3, PTL
        DEF Spec, PromiseKept, Promise!PromiseSpec

=============================================================================
