--------------------------- MODULE PairingPromise ---------------------------
(***************************************************************************)
(* What docs/architecture.md promises of pairing, section "Identity and     *)
(* pairing".  Both users must confirm before trust persists; a pairing      *)
(* session is short-lived, and one that is over, by a rejection at the      *)
(* device that was asked, by its expiry or by a restart, has to be started  *)
(* again as another request; completed trust survives restarts, blocking    *)
(* keeps it and only forgetting deletes it.  Pairing implements this        *)
(* specification.                                                          *)
(***************************************************************************)
CONSTANTS
    Devices,    \* the two devices
    Requests,   \* pairing request IDs
    None        \* no request

NoTrust == [key |-> None, blocked |-> FALSE]

VARIABLES
    phase,      \* per device and request: "new", "open" or "over"
    accepted,   \* per device, the requests its user has confirmed
    trust       \* per device, the request its trust comes from, and whether
                \* its user has blocked the peer

promiseVars == <<phase, accepted, trust>>

PromiseInit ==
    /\ phase = [d \in Devices |-> [r \in Requests |-> "new"]]
    /\ accepted = [d \in Devices |-> {}]
    /\ trust = [d \in Devices |-> NoTrust]

(* A request comes to a device that does not trust its peer yet, from its   *)
(* user or from the peer.                                                  *)
Begin(d, r) ==
    /\ UNCHANGED <<accepted, trust>>
    /\ trust[d] = NoTrust
    /\ phase[d][r] = "new"
    /\ phase' = [phase EXCEPT ![d][r] = "open"]

(* Requests expire, are replaced or rejected, or are lost by a restart.      *)
Close(d) ==
    /\ UNCHANGED <<accepted, trust>>
    /\ \A e \in Devices, r \in Requests :
          \/ phase'[e][r] = phase[e][r]
          \/ e = d /\ phase[e][r] = "open" /\ phase'[e][r] = "over"

Established(d, r) ==
    /\ trust' = [trust EXCEPT ![d] = [key |-> r, blocked |-> FALSE]]
    /\ \A e \in Devices : r \in accepted'[e]

(* The user confirms; with the other user's confirmation there is trust.    *)
Accept(d, r) ==
    /\ accepted' = [accepted EXCEPT ![d] = @ \cup {r}]
    /\ Established(d, r) \/ UNCHANGED trust
    /\ phase[d][r] = "open"
    /\ UNCHANGED phase

(* The other user's confirmation arrives.                                   *)
Establish(d, r) ==
    /\ UNCHANGED accepted
    /\ Established(d, r)
    /\ phase[d][r] = "open"
    /\ UNCHANGED phase

(* The user forgets the peer, blocks it, or lets it in again.               *)
Forget(d) ==
    /\ trust' = [trust EXCEPT ![d] = NoTrust]
    /\ UNCHANGED <<accepted, phase>>

Block(d, b) ==
    /\ trust[d] # NoTrust
    /\ trust' = [trust EXCEPT ![d].blocked = b]
    /\ UNCHANGED <<accepted, phase>>

PromiseNext ==
    \E d \in Devices :
        \/ Close(d) \/ Forget(d)
        \/ \E r \in Requests : Begin(d, r) \/ Accept(d, r) \/ Establish(d, r)
        \/ \E b \in BOOLEAN : Block(d, b)

PromiseSpec == PromiseInit /\ [][PromiseNext]_promiseVars

=============================================================================
