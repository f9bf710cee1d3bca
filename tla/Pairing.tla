------------------------------ MODULE Pairing ------------------------------
(***************************************************************************)
(* internal/pairing: two devices come to trust each other.  The initiator   *)
(* and the responder exchange keys (BeginRequest, BeginResponse), both       *)
(* users compare a code and confirm, the initiator tells the responder with *)
(* a Proof and learns the responder's state from its PeerDecision.  Sessions*)
(* are in memory, trust is in table trusted_devices.                        *)
(*                                                                         *)
(* A step is one critical section of Service.mu, or one message.  The mutex *)
(* is not held over the network nor between the checks of RequestPairing or *)
(* ReceiveBegin and the installation of their session, so that anything can *)
(* happen in between.  A message is handled once, late or never: the        *)
(* transport does not repeat a POST.                                       *)
(*                                                                         *)
(* Signatures and MACs are taken as unforgeable, and the keys of the devices*)
(* do not change: the secret of a session is its request ID.  maxPending and*)
(* the cooldown make ReceiveBegin refuse, as does a lost message.           *)
(***************************************************************************)
EXTENDS Naturals, FiniteSets

CONSTANTS
    Devices,     \* the two devices
    Requests,    \* pairing request IDs
    MayRestart,  \* whether a process may die and start again
    MaxMessages  \* bound: proofs and decisions on their way at once

ASSUME PairingAssumption ==
    /\ \E a, b \in Devices : a # b /\ Devices = {a, b}
    /\ "none" \notin Devices \cup Requests
    /\ MayRestart \in BOOLEAN
    /\ MaxMessages \in Nat

Peer(d) == CHOOSE e \in Devices : e # d

State == {"pending", "confirming", "paired", "rejected"}
Session == [state : State, local : BOOLEAN, remote : BOOLEAN, trusted : BOOLEAN]
NewSession == [state |-> "pending", local |-> FALSE, remote |-> FALSE,
               trusted |-> FALSE]
NoSession == [state |-> "absent", local |-> FALSE, remote |-> FALSE,
              trusted |-> FALSE]
Trust == [key : Requests, blocked : BOOLEAN]
NoTrust == [key |-> "none", blocked |-> FALSE]
Proof == [request : Requests, action : {"confirm", "reject", "status"}]
(* Of a PeerDecision the initiator reads these two fields only.             *)
PeerDecision == [request : Requests, rejected : BOOLEAN, local : BOOLEAN]

VARIABLES
    from,       \* per request, the device that made it
    exchange,   \* per request, where its key exchange is
    waiting,    \* requests whose RequestPairing waits for the answer
    sessions,   \* per device, its sessions by request
    pending,    \* per device, pendingByDevice[the peer]
    trust,      \* per device, its row for the peer in trusted_devices
    proofs,     \* proofs on their way to the responder
    decisions,  \* answers to proofs on their way to the initiator
    confirmed   \* history: per device, requests its user has accepted

vars == <<from, exchange, waiting, sessions, pending, trust, proofs,
          decisions, confirmed>>
begin == <<from, exchange, waiting>>

Init ==
    /\ from = [r \in Requests |-> "none"]
    /\ exchange = [r \in Requests |-> "unused"]
    /\ waiting = {}
    /\ sessions = [d \in Devices |-> [r \in Requests |-> NoSession]]
    /\ pending = [d \in Devices |-> "none"]
    /\ trust = [d \in Devices |-> NoTrust]
    /\ proofs = {} /\ decisions = {}
    /\ confirmed = [d \in Devices |-> {}]

HasSession(d, r) == sessions[d][r].state # "absent"
Outgoing(d, r) == from[r] = d
Put(d, r, s) == sessions' = [sessions EXCEPT ![d][r] = s]

-----------------------------------------------------------------------------
(* The key exchange.                                                       *)

(* RequestPairing until it lets go of the mutex to contact the peer.  With a*)
(* pending request it returns that one and changes nothing.                 *)
RequestPairing(d, r) ==
    /\ from[r] = "none"
    /\ trust[d] = NoTrust
    /\ pending[d] = "none"
    /\ from' = [from EXCEPT ![r] = d]
    /\ exchange' = [exchange EXCEPT ![r] = "sent"]
    /\ waiting' = waiting \cup {r}
    /\ UNCHANGED <<sessions, pending, trust, proofs, decisions, confirmed>>

(* ReceiveBegin until it lets go of the mutex to make its keys.             *)
ReceiveBegin(d, r) ==
    /\ exchange[r] = "sent" /\ from[r] = Peer(d)
    /\ trust[d] = NoTrust
    /\ exchange' = [exchange EXCEPT ![r] = "checked"]
    /\ UNCHANGED <<from, waiting, sessions, pending, trust, proofs, decisions,
                   confirmed>>

(* The rest of ReceiveBegin: the session replaces a pending one.            *)
InstallIncoming(d, r) ==
    /\ exchange[r] = "checked" /\ from[r] = Peer(d)
    /\ exchange' = [exchange EXCEPT ![r] = "answered"]
    /\ sessions' = [sessions EXCEPT ![d] =
                      [q \in Requests |-> IF q = r THEN NewSession
                                          ELSE IF q = pending[d] THEN NoSession
                                          ELSE @[q]]]
    /\ pending' = [pending EXCEPT ![d] = r]
    /\ UNCHANGED <<from, waiting, trust, proofs, decisions, confirmed>>

(* The rest of RequestPairing, with the peer's answer.  It does not look at *)
(* what has become pending meanwhile.                                      *)
InstallOutgoing(d, r) ==
    /\ Outgoing(d, r)
    /\ exchange[r] = "answered" /\ r \in waiting
    /\ waiting' = waiting \ {r}
    /\ Put(d, r, NewSession)
    /\ pending' = [pending EXCEPT ![d] = r]
    /\ UNCHANGED <<from, exchange, trust, proofs, decisions, confirmed>>

-----------------------------------------------------------------------------
(* Confirmation.                                                           *)

(* The end of a handler that may save trust: s is the session as the handler*)
(* has changed it.                                                         *)
FinalizeLocked(d, r) ==
    /\ trust' = [trust EXCEPT ![d] = [key |-> r, blocked |-> FALSE]]
    /\ Put(d, r, [state |-> "paired", local |-> TRUE, remote |-> TRUE,
                  trusted |-> TRUE])
    /\ pending' = [pending EXCEPT ![d] = "none"]

StoreFails(d, r, s) ==
    /\ Put(d, r, s)
    /\ UNCHANGED <<trust, pending>>

MayAccept(d, r) == HasSession(d, r) /\ sessions[d][r].state # "rejected"

Confirm(d, r) == confirmed' = [confirmed EXCEPT ![d] = @ \cup {r}]

(* Accept of a request the peer made.                                       *)
AcceptIncoming(d, r) ==
    /\ MayAccept(d, r) /\ ~Outgoing(d, r)
    /\ LET s == [sessions[d][r] EXCEPT !.local = TRUE, !.state = "confirming"] IN
       \/ s.remote /\ FinalizeLocked(d, r)
       \/ StoreFails(d, r, s)
    /\ Confirm(d, r)
    /\ UNCHANGED <<begin, proofs, decisions>>

(* A call of transport.Proof: the proof sets out, or is lost at once.       *)
SendProof(r, action) ==
    \/ UNCHANGED proofs
    \/ /\ Cardinality(proofs) + Cardinality(decisions) < MaxMessages
       /\ proofs' = proofs \cup {[request |-> r, action |-> action]}

(* Accept of a request made here: the responder is told.                    *)
AcceptOutgoing(d, r) ==
    /\ MayAccept(d, r) /\ Outgoing(d, r)
    /\ Put(d, r, [sessions[d][r] EXCEPT !.local = TRUE, !.state = "confirming"])
    /\ SendProof(r, "confirm")
    /\ Confirm(d, r)
    /\ UNCHANGED <<begin, pending, trust, decisions>>

(* Refresh asks the responder, as long as the session has no trust.         *)
Refresh(d, r) ==
    /\ HasSession(d, r) /\ ~sessions[d][r].trusted
    /\ Outgoing(d, r) /\ sessions[d][r].local
    /\ SendProof(r, "status")
    /\ UNCHANGED <<begin, sessions, pending, trust, decisions, confirmed>>

(* Reject tells the responder; the initiator learns it from its next proof. *)
Reject(d, r) ==
    /\ HasSession(d, r)
    /\ Put(d, r, [sessions[d][r] EXCEPT !.state = "rejected"])
    /\ IF Outgoing(d, r) THEN SendProof(r, "reject") ELSE UNCHANGED proofs
    /\ UNCHANGED <<begin, pending, trust, decisions, confirmed>>

(* What a proof does to the responder's session.                            *)
Proven(s, action) ==
    CASE action = "confirm" ->
           [s EXCEPT !.remote = TRUE,
                     !.state = IF @ = "pending" THEN "confirming" ELSE @]
      [] action = "reject" -> [s EXCEPT !.state = "rejected"]
      [] action = "status" -> s

(* The answer to a proof.  It may be lost; Reject ignores it.               *)
Answer(m, s) ==
    \/ UNCHANGED decisions
    \/ /\ m.action # "reject"
       /\ decisions' = decisions \cup {[request |-> m.request,
                                       rejected |-> s.state = "rejected",
                                       local |-> s.local]}

(* Mutant of MayFinalize: a rejected session is finalized.                  *)
MayFinalizeRejected(s) == s.local /\ s.remote /\ ~s.trusted

MayFinalize(s) == s.local /\ s.remote /\ s.state # "rejected" /\ ~s.trusted

ReceiveProof(d, m) ==
    /\ m \in proofs /\ from[m.request] = Peer(d)
    /\ HasSession(d, m.request)
    /\ proofs' = proofs \ {m}
    /\ LET s == Proven(sessions[d][m.request], m.action) IN
       \/ /\ MayFinalize(s)
          /\ FinalizeLocked(d, m.request)
          /\ Answer(m, s)
       \/ /\ MayFinalize(s)
          /\ StoreFails(d, m.request, s)
          /\ UNCHANGED decisions
       \/ /\ ~MayFinalize(s)
          /\ Put(d, m.request, s)
          /\ Answer(m, s)
          /\ UNCHANGED <<trust, pending>>
    /\ UNCHANGED <<begin, confirmed>>

(* Mutant of PeerConfirmed: a peer that has not rejected has confirmed.     *)
PeerConfirmedByState(m) == ~m.rejected

PeerConfirmed(m) == m.local

(* The initiator looks neither at its own state, which may be rejected or   *)
(* paired by now, nor at its trust, which may be blocked or forgotten.      *)
ApplyPeerDecision(d, m) ==
    /\ m \in decisions /\ Outgoing(d, m.request)
    /\ HasSession(d, m.request)
    /\ decisions' = decisions \ {m}
    /\ LET s == [sessions[d][m.request] EXCEPT !.remote = PeerConfirmed(m)] IN
       \/ /\ m.rejected
          /\ Put(d, m.request, [s EXCEPT !.state = "rejected"])
          /\ UNCHANGED <<trust, pending>>
       \/ /\ ~m.rejected /\ s.local /\ s.remote
          /\ FinalizeLocked(d, m.request) \/ StoreFails(d, m.request, s)
       \/ /\ ~m.rejected /\ ~(s.local /\ s.remote)
          /\ Put(d, m.request, [s EXCEPT !.state = "confirming"])
          /\ UNCHANGED <<trust, pending>>
    /\ UNCHANGED <<begin, proofs, confirmed>>

(* A proof or an answer finds no session (ErrProtocol), and changes nothing. *)
Discard(m) ==
    /\ m \in proofs \cup decisions
    /\ \E d \in Devices : /\ Outgoing(d, m.request) <=> m \in decisions
                         /\ ~HasSession(d, m.request)
    /\ proofs' = proofs \ {m}
    /\ decisions' = decisions \ {m}
    /\ UNCHANGED <<begin, sessions, pending, trust, confirmed>>

-----------------------------------------------------------------------------
(* Expiry, trust, restart.                                                 *)

(* RequestPairing got no valid answer, for the message or the answer is lost*)
(* or refused: an error is returned and nothing is installed.               *)
RequestFails(d, r) ==
    /\ Outgoing(d, r) /\ r \in waiting
    /\ waiting' = waiting \ {r}
    /\ UNCHANGED <<from, exchange, sessions, pending, trust, proofs, decisions,
                   confirmed>>

(* Mutant of Prune: the entry of pendingByDevice stays.                     *)
PruneKeepsPending(d, r) ==
    /\ HasSession(d, r)
    /\ Put(d, r, NoSession)
    /\ UNCHANGED <<begin, pending, trust, proofs, decisions, confirmed>>

(* pruneLocked, the first thing most handlers do: a session older than      *)
(* requestTTL goes, and the entry of its peer in pendingByDevice with it,   *)
(* whatever that entry is.  The clock is left out: any session may go.      *)
Prune(d, r) ==
    /\ HasSession(d, r)
    /\ Put(d, r, NoSession)
    /\ pending' = [pending EXCEPT ![d] = "none"]
    /\ UNCHANGED <<begin, trust, proofs, decisions, confirmed>>

RemoveTrustedDevice(d) ==
    /\ trust[d] # NoTrust
    /\ trust' = [trust EXCEPT ![d] = NoTrust]
    /\ UNCHANGED <<begin, sessions, pending, proofs, decisions, confirmed>>

SetBlocked(d, blocked) ==
    /\ trust[d] # NoTrust
    /\ trust' = [trust EXCEPT ![d].blocked = blocked]
    /\ UNCHANGED <<begin, sessions, pending, proofs, decisions, confirmed>>

(* The process dies and starts again: everything but the trust is gone.     *)
Restart(d) ==
    /\ MayRestart
    /\ sessions' = [sessions EXCEPT ![d] = [r \in Requests |-> NoSession]]
    /\ pending' = [pending EXCEPT ![d] = "none"]
    /\ waiting' = {r \in waiting : ~Outgoing(d, r)}
    /\ exchange' = [r \in Requests |->
                      IF exchange[r] = "checked" /\ ~Outgoing(d, r) THEN "lost"
                      ELSE exchange[r]]
    /\ UNCHANGED <<from, trust, proofs, decisions, confirmed>>

Exchange(d, r) ==
    \/ RequestPairing(d, r) \/ ReceiveBegin(d, r)
    \/ InstallIncoming(d, r) \/ InstallOutgoing(d, r) \/ RequestFails(d, r)

User(d, r) ==
    AcceptIncoming(d, r) \/ AcceptOutgoing(d, r) \/ Refresh(d, r) \/ Reject(d, r)

Next ==
    \/ \E d \in Devices :
          \/ \E r \in Requests : Exchange(d, r) \/ User(d, r) \/ Prune(d, r)
          \/ \E m \in proofs : ReceiveProof(d, m)
          \/ \E m \in decisions : ApplyPeerDecision(d, m)
          \/ \E blocked \in BOOLEAN : SetBlocked(d, blocked)
          \/ RemoveTrustedDevice(d) \/ Restart(d)
    \/ \E m \in proofs \cup decisions : Discard(m)

Spec == Init /\ [][Next]_vars

-----------------------------------------------------------------------------
(* Properties.                                                             *)

(* Every variable has its type; an unused request has no maker.             *)
TypeOK ==
    /\ from \in [Requests -> Devices \cup {"none"}]
    /\ exchange \in [Requests -> {"unused", "sent", "checked", "answered", "lost"}]
    /\ \A r \in Requests : from[r] = "none" <=> exchange[r] = "unused"
    /\ waiting \subseteq Requests
    /\ sessions \in [Devices -> [Requests -> Session \cup {NoSession}]]
    /\ pending \in [Devices -> Requests \cup {"none"}]
    /\ trust \in [Devices -> Trust \cup {NoTrust}]
    /\ proofs \subseteq Proof /\ decisions \subseteq PeerDecision
    /\ confirmed \in [Devices -> SUBSET Requests]

(* The request RequestPairing finds in pendingByDevice has a session: it    *)
(* reads s.sessions[requestID].request without looking.                     *)
PendingHasSession ==
    \A d \in Devices : pending[d] # "none" => HasSession(d, pending[d])

(* A device trusts its peer only through a request that both users have     *)
(* confirmed, whatever is lost, late, crossed, restarted or fails: neither  *)
(* a status proof nor a decision stands for a confirmation that was never   *)
(* given (applyPeerDecision, ReceiveProof, Accept).                         *)
TrustNeedsBothConfirmations ==
    \A d \in Devices :
        trust[d] # NoTrust => \A e \in Devices : trust[d].key \in confirmed[e]

(* Once a request is rejected at the responder, by either user, no late     *)
(* proof and no second Accept makes the responder trust it.                 *)
ResponderRejectionIsFinal ==
    [][\A d \in Devices, r \in Requests :
          /\ sessions[d][r].state = "rejected" /\ from[r] = Peer(d)
          /\ trust[d].key # r
          => trust'[d].key # r]_vars

-----------------------------------------------------------------------------
(* Refinement of PairingPromise.                                           *)

(* How far a request has come at a device.  One the device has made is over *)
(* when it has failed or its session is gone; one it was asked for, which   *)
(* has passed the checks of ReceiveBegin, also when it has been rejected.   *)
Phase(d, r) ==
    IF Outgoing(d, r)
    THEN IF r \in waiting \/ HasSession(d, r) THEN "open" ELSE "over"
    ELSE IF exchange[r] \in {"unused", "sent"} THEN "new"
    ELSE IF exchange[r] = "checked" \/ MayAccept(d, r) THEN "open" ELSE "over"

Promise == INSTANCE PairingPromise WITH
    None <- "none",
    phase <- [d \in Devices |-> [r \in Requests |-> Phase(d, r)]],
    accepted <- confirmed

(* Whatever is lost, late, crossed or restarted, and whichever statement    *)
(* fails, the two devices take only the steps PairingPromise allows: trust  *)
(* comes from a request that both users have confirmed and that is not over *)
(* at the device, and a request that is over stays over.                   *)
PromiseKept == Promise!PromiseSpec

=============================================================================
