---------------------------- MODULE OfferNonces ----------------------------
(***************************************************************************)
(* The replay control of transfer offers (internal/transfer/service.go,     *)
(* ReceiveOffer with validProtocolTime and useAuthenticationNonce).  A      *)
(* signed offer carries its sender's time in seconds and a nonce.  The      *)
(* receiver refuses a timestamp that is off by more than Skew, verifies the *)
(* signature, reads the clock again and refuses a nonce it remembers; it    *)
(* forgets a nonce after Retention.  The network may deliver an offer late, *)
(* again, twice at once, or never.  An offer that gets past is answered     *)
(* with its transfer's row if there is one, and makes the row otherwise.    *)
(* The user may delete the rows of ended transfers, and the receiver may    *)
(* stop and start again: the rows are durable, the nonces are not.          *)
(*                                                                         *)
(* The receiver's clock counts ticks of 1/TicksPerSecond seconds: the       *)
(* timestamp is compared in whole seconds, the age of a nonce exactly.      *)
(* A row's status is not here (TransferReceiver has it): DeleteHistory may  *)
(* find any of the rows ended.                                              *)
(***************************************************************************)
EXTENDS Integers

CONSTANTS
    Handlers,        \* goroutines serving POST offers
    Nonces,          \* nonces of the offers that are ever signed (uuids)
    Transfers,       \* transfer IDs
    TransferOf,      \* per nonce, the ID its offer carries: a sender that
                     \* tries again signs the same transfer with a new nonce
    TicksPerSecond,
    Skew,            \* 2 minutes, in seconds
    Retention,       \* 5 minutes, in seconds
    MaxDelay,        \* bound on the time between a handler's two clock reads
    MaxTime          \* bound on the receiver's clock; both in ticks

ASSUME NoncesAssumption ==
    /\ TicksPerSecond \in Nat \ {0}
    /\ Skew \in Nat /\ Retention \in Nat /\ MaxDelay \in Nat /\ MaxTime \in Nat
    /\ TransferOf \in [Nonces -> Transfers]

(* The code keeps a nonce longer than its timestamp can be valid: from Skew *)
(* before the receiver's clock to Skew after it, the second that rounding   *)
(* adds, and the delay of a handler (at most 59 of its 300 seconds).        *)
ASSUME RetentionCoversSkew ==
    Retention * TicksPerSecond >= (2 * Skew + 1) * TicksPerSecond + MaxDelay

VARIABLES
    now,       \* the receiver's clock, in ticks
    sent,      \* per nonce, the timestamp of the one offer that carries it,
               \* or Never
    seen,      \* authNonces: per nonce, when it was used, or Never
    pending,   \* per handler, the nonce of the offer whose timestamp it has
               \* found valid, or None
    checked,   \* per handler, when it did
    passed,    \* per handler, the nonce of the offer it has let past, or None
    absent,    \* per handler, whether GetTransfer has found no row for it
    rows,      \* the transfers with a row in the database
    accepted,  \* history: per nonce, how many of its deliveries got past
               \* since the receiver was started
    lost,      \* history: nonces that got past before a restart
    made,      \* history: nonces whose offer has made a row
    again,     \* history: nonces whose offer has made one twice
    deleted    \* history: transfers whose row the user has deleted

cache == <<sent, seen, pending, checked, accepted, lost>>
store == <<passed, absent, rows, made, again, deleted>>
vars == <<now, cache, store>>

Never == -1
None == "none"
Time == 0..MaxTime
Seconds == 0..(MaxTime \div TicksPerSecond + Skew)

Unix(t) == t \div TicksPerSecond
Distance(a, b) == IF a <= b THEN b - a ELSE a - b

Init ==
    /\ now = 0
    /\ sent = [n \in Nonces |-> Never]
    /\ seen = [n \in Nonces |-> Never]
    /\ pending = [h \in Handlers |-> None]
    /\ checked = [h \in Handlers |-> 0]
    /\ accepted = [n \in Nonces |-> 0]
    /\ passed = [h \in Handlers |-> None]
    /\ absent = [h \in Handlers |-> FALSE]
    /\ rows = {} /\ lost = {} /\ made = {} /\ again = {} /\ deleted = {}

(* A paired sender signs an offer, its clock anywhere.                      *)
SignOffer(n, seconds) ==
    /\ sent[n] = Never
    /\ sent' = [sent EXCEPT ![n] = seconds]
    /\ UNCHANGED <<now, seen, pending, checked, accepted, lost, store>>

ValidProtocolTime(timestamp, t) == Distance(Unix(t), timestamp) <= Skew

(* A delivery of an offer, with a valid timestamp and signature.            *)
ReceiveOffer(h, n) ==
    /\ pending[h] = None /\ passed[h] = None
    /\ sent[n] # Never
    /\ ValidProtocolTime(sent[n], now)
    /\ pending' = [pending EXCEPT ![h] = n]
    /\ checked' = [checked EXCEPT ![h] = now]
    /\ UNCHANGED <<now, sent, seen, accepted, lost, store>>

(* Mutant of Forget: a nonce is kept as long as a timestamp may be old.     *)
ForgetAfterSkew(used, t) == t - used > Skew * TicksPerSecond

Forget(used, t) == t - used > Retention * TicksPerSecond

(* The nonces that are left after the loop of useAuthenticationNonce.       *)
Kept(t) ==
    [n \in Nonces |->
        IF seen[n] # Never /\ Forget(seen[n], t) THEN Never ELSE seen[n]]

(* The clock is read before authMu is locked, so t may lie behind now.      *)
UseAuthenticationNonce(h, t) ==
    LET n == pending[h] IN
    /\ n # None
    /\ checked[h] <= t /\ t <= now
    /\ IF Kept(t)[n] # Never
       THEN seen' = Kept(t) /\ UNCHANGED <<accepted, passed>>
       ELSE /\ seen' = [Kept(t) EXCEPT ![n] = t]
            /\ accepted' = [accepted EXCEPT ![n] = @ + 1]
            /\ passed' = [passed EXCEPT ![h] = n]
    /\ pending' = [pending EXCEPT ![h] = None]
    /\ checked' = [checked EXCEPT ![h] = 0]
    /\ UNCHANGED <<now, sent, lost, absent, rows, made, again, deleted>>

(* The request ends: answered, refused for another reason, or failed.       *)
EndRequest(h) ==
    /\ passed' = [passed EXCEPT ![h] = None]
    /\ absent' = [absent EXCEPT ![h] = FALSE]

Refuse(h) ==
    /\ passed[h] # None
    /\ EndRequest(h)
    /\ UNCHANGED <<now, cache, rows, made, again, deleted>>

(* Mutant of HasRow: the offer's ID is not looked up.                       *)
HasRowUnchecked(id) == FALSE

HasRow(id) == id \in rows

(* GetTransfer: a transfer that is known is the answer.                     *)
FindTransfer(h) ==
    /\ passed[h] # None /\ ~absent[h]
    /\ IF HasRow(TransferOf[passed[h]])
       THEN EndRequest(h)
       ELSE absent' = [absent EXCEPT ![h] = TRUE] /\ UNCHANGED passed
    /\ UNCHANGED <<now, cache, rows, made, again, deleted>>

(* SaveTransfer writes the row, over one that was made meanwhile.           *)
SaveTransfer(h) ==
    LET n == passed[h] IN
    /\ n # None /\ absent[h]
    /\ rows' = rows \cup {TransferOf[n]}
    /\ made' = made \cup {n}
    /\ again' = again \cup ({n} \cap made)
    /\ EndRequest(h)
    /\ UNCHANGED <<now, cache, deleted>>

(* The user deletes the history: the rows of the transfers that have ended. *)
DeleteHistory(ended) ==
    /\ ended # {}
    /\ rows' = rows \ ended
    /\ deleted' = deleted \cup ended
    /\ UNCHANGED <<now, cache, passed, absent, made, again>>

(* The receiver stops, with its requests, and starts with an empty cache.   *)
Restart ==
    /\ seen' = [n \in Nonces |-> Never]
    /\ pending' = [h \in Handlers |-> None]
    /\ checked' = [h \in Handlers |-> 0]
    /\ passed' = [h \in Handlers |-> None]
    /\ absent' = [h \in Handlers |-> FALSE]
    /\ accepted' = [n \in Nonces |-> 0]
    /\ lost' = lost \cup {n \in Nonces : accepted[n] # 0}
    /\ UNCHANGED <<now, sent, rows, made, again, deleted>>

(* Time passes, but not past what a handler takes at most.                  *)
Tick ==
    /\ now < MaxTime
    /\ \A h \in Handlers : pending[h] # None => now < checked[h] + MaxDelay
    /\ now' = now + 1
    /\ UNCHANGED <<cache, store>>

Next ==
    \/ \E n \in Nonces : \E s \in Seconds : SignOffer(n, s)
    \/ \E h \in Handlers : \/ \E n \in Nonces : ReceiveOffer(h, n)
                           \/ \E t \in Time : UseAuthenticationNonce(h, t)
                           \/ FindTransfer(h) \/ SaveTransfer(h) \/ Refuse(h)
    \/ \E ended \in SUBSET rows : DeleteHistory(ended)
    \/ Restart
    \/ Tick

Spec == Init /\ [][Next]_vars

-----------------------------------------------------------------------------
(* Properties.                                                             *)

(* Every variable has its type.                                            *)
TypeOK ==
    /\ now \in Time
    /\ sent \in [Nonces -> Seconds \cup {Never}]
    /\ seen \in [Nonces -> Time \cup {Never}]
    /\ pending \in [Handlers -> Nonces \cup {None}]
    /\ checked \in [Handlers -> Time]
    /\ accepted \in [Nonces -> Nat]
    /\ passed \in [Handlers -> Nonces \cup {None}]
    /\ absent \in [Handlers -> BOOLEAN]
    /\ rows \subseteq Transfers /\ deleted \subseteq Transfers
    /\ lost \subseteq Nonces /\ made \subseteq Nonces /\ again \subseteq Nonces

(* However often, however late and however closely together the network     *)
(* delivers an offer, it gets past the replay control of a running receiver *)
(* once at most: when its nonce is forgotten its timestamp is too old       *)
(* (docs/api.md:177, "a one-use nonce").                                   *)
AcceptedOnce == \A n \in Nonces : accepted[n] <= 1

(* A delivery of an offer makes its transfer a second time only after both  *)
(* guards of ReceiveOffer have gone: the receiver was restarted, so that    *)
(* the nonce is no longer known, and the user has deleted the row that the  *)
(* look-up by ID would have found.  Neither alone is enough, at whatever    *)
(* point of a request it comes.                                             *)
TransferMadeOnce ==
    \A n \in again : n \in lost /\ TransferOf[n] \in deleted

(* The parts of the argument.  A handler that waits has found the timestamp *)
(* valid, not long ago.                                                    *)
PendingIsFresh ==
    \A h \in Handlers : pending[h] # None =>
        /\ sent[pending[h]] # Never
        /\ ValidProtocolTime(sent[pending[h]], checked[h])
        /\ checked[h] <= now /\ now <= checked[h] + MaxDelay

(* The first moment, in ticks, at which the timestamp s may be used, and    *)
(* the first one at which no handler can use it any more.                   *)
Earliest(s) == (s - Skew) * TicksPerSecond
Expired(s) == (s + Skew + 1) * TicksPerSecond + MaxDelay

(* A nonce in the cache belongs to an accepted offer and was not used       *)
(* before its timestamp could be valid.                                    *)
SeenIsAccepted ==
    \A n \in Nonces : seen[n] # Never =>
        /\ sent[n] # Never
        /\ accepted[n] = 1
        /\ Earliest(sent[n]) <= seen[n]

(* An accepted offer is remembered or has expired.                          *)
RememberedOrExpired ==
    \A n \in Nonces : accepted[n] # 0 =>
        /\ accepted[n] = 1
        /\ seen[n] = Never => sent[n] # Never /\ now >= Expired(sent[n])

(* A handler waits at one place at most, and has looked for the row only of *)
(* an offer that it has let past.                                           *)
OnePlace ==
    \A h \in Handlers :
        /\ pending[h] # None => passed[h] = None
        /\ absent[h] => passed[h] # None

(* A handler that is past the replay control is the only one with its       *)
(* nonce, and has let it past in this life of the receiver.                 *)
PassedIsAccepted ==
    \A h \in Handlers : passed[h] # None =>
        /\ accepted[passed[h]] = 1
        /\ \A g \in Handlers : passed[g] = passed[h] => g = h

(* If its offer has made a row before, that was before a restart, and if    *)
(* the look-up has found nothing the row has been deleted.                  *)
PassedAgain ==
    \A h \in Handlers : passed[h] # None /\ passed[h] \in made =>
        /\ passed[h] \in lost
        /\ absent[h] => TransferOf[passed[h]] \in deleted

(* A row that an offer has made is there or deleted, and the offer got past *)
(* in this life of the receiver or in an earlier one.                       *)
MadeIsKept ==
    \A n \in made :
        /\ TransferOf[n] \in rows \cup deleted
        /\ n \in lost \/ accepted[n] = 1

(* The inductive invariants of the proofs.                                  *)
NonceInv == TypeOK /\ PendingIsFresh /\ SeenIsAccepted /\ RememberedOrExpired
MadeInv ==
    /\ NonceInv
    /\ OnePlace /\ PassedIsAccepted /\ PassedAgain /\ MadeIsKept
    /\ TransferMadeOnce

=============================================================================
