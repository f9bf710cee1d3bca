------------------------- MODULE OfferNoncesProofs -------------------------
(***************************************************************************)
(* Proof that an offer gets past the replay control once at most, for any   *)
(* number of handlers and offers, any clock resolution and any Skew and     *)
(* Retention with RetentionCoversSkew, and that it makes its transfer a     *)
(* second time only after a restart and a deletion of its row.              *)
(***************************************************************************)
EXTENDS OfferNonces, TLAPS

(* Whole seconds and ticks: Unix rounds down.                               *)
LEMMA UnixRoundsDown ==
    ASSUME NEW t \in Nat
    PROVE  /\ Unix(t) \in Nat
           /\ Unix(t) * TicksPerSecond <= t
           /\ t < (Unix(t) + 1) * TicksPerSecond
BY NoncesAssumption, Z3 DEF Unix

(* Multiplication by the clock's resolution keeps an order.                 *)
LEMMA ScaleMonotone ==
    ASSUME NEW a \in Int, NEW b \in Int, a <= b
    PROVE  a * TicksPerSecond <= b * TicksPerSecond
BY NoncesAssumption, Z3

(* A timestamp s that validProtocolTime accepts at t bounds t on both sides.*)
LEMMA ValidBounds ==
    ASSUME NEW s \in Int, NEW t \in Nat, ValidProtocolTime(s, t)
    PROVE  /\ Earliest(s) <= t
           /\ t + MaxDelay < Expired(s)
<1> DEFINE u == Unix(t)
<1>1. u \in Nat /\ u * TicksPerSecond <= t /\ t < (u + 1) * TicksPerSecond
  BY UnixRoundsDown
<1>2. s - Skew <= u /\ u + 1 <= s + Skew + 1
  BY <1>1, NoncesAssumption DEF ValidProtocolTime, Distance
<1> HIDE DEF u
<1>3. (s - Skew) * TicksPerSecond <= u * TicksPerSecond
  BY <1>1, <1>2, ScaleMonotone, NoncesAssumption
<1>4. (u + 1) * TicksPerSecond <= (s + Skew + 1) * TicksPerSecond
  BY <1>1, <1>2, ScaleMonotone, NoncesAssumption
<1>5. /\ (s - Skew) * TicksPerSecond \in Int
      /\ (s + Skew + 1) * TicksPerSecond \in Int
      /\ u * TicksPerSecond \in Int
      /\ (u + 1) * TicksPerSecond \in Int
  BY <1>1, NoncesAssumption
<1> QED
  BY <1>1, <1>3, <1>4, <1>5, NoncesAssumption DEF Earliest, Expired

(* A nonce that is forgotten belongs to an offer that has expired: this is  *)
(* what RetentionCoversSkew is for.                                        *)
LEMMA ForgottenIsExpired ==
    ASSUME NEW s \in Int, NEW used \in Nat, NEW t \in Nat,
           Earliest(s) <= used, Forget(used, t)
    PROVE  t >= Expired(s)
<1>1. (s + Skew + 1) * TicksPerSecond
        = (s - Skew) * TicksPerSecond + (2 * Skew + 1) * TicksPerSecond
  BY NoncesAssumption, Z3
<1>2. /\ (s + Skew + 1) * TicksPerSecond \in Int
      /\ (s - Skew) * TicksPerSecond \in Int
      /\ (2 * Skew + 1) * TicksPerSecond \in Int
      /\ Retention * TicksPerSecond \in Int
  BY NoncesAssumption
<1> QED
  BY <1>1, <1>2, NoncesAssumption, RetentionCoversSkew
  DEF Earliest, Expired, Forget

-----------------------------------------------------------------------------
(* The invariant holds initially.                                           *)
LEMMA InitEstablishes == Init => NonceInv
BY NoncesAssumption DEF Init, NonceInv, TypeOK, PendingIsFresh, SeenIsAccepted,
   RememberedOrExpired, Time, Seconds, Never, None

(* Every step keeps the types.                                              *)
LEMMA TypeStep == ASSUME TypeOK, [Next]_vars PROVE TypeOK'
<1> USE NoncesAssumption DEF TypeOK, Time
<1>1. ASSUME NEW n \in Nonces, NEW x \in Seconds, SignOffer(n, x) PROVE TypeOK'
  BY <1>1 DEF SignOffer, store
<1>2. ASSUME NEW h \in Handlers, NEW n \in Nonces, ReceiveOffer(h, n) PROVE TypeOK'
  BY <1>2 DEF ReceiveOffer, store
<1>3. ASSUME NEW h \in Handlers, NEW t \in Time, UseAuthenticationNonce(h, t)
      PROVE  TypeOK'
  <2>1. Kept(t) \in [Nonces -> Time \cup {Never}]
    BY DEF Kept
  <2> QED
    BY <1>3, <2>1 DEF UseAuthenticationNonce
<1>4. CASE Tick
  BY <1>4 DEF Tick, cache, store
<1>5. ASSUME NEW h \in Handlers, FindTransfer(h) PROVE TypeOK'
  BY <1>5 DEF FindTransfer, EndRequest, cache
<1>6. ASSUME NEW h \in Handlers, SaveTransfer(h) PROVE TypeOK'
  BY <1>6 DEF SaveTransfer, EndRequest, cache
<1>7. ASSUME NEW h \in Handlers, Refuse(h) PROVE TypeOK'
  BY <1>7 DEF Refuse, EndRequest, cache
<1>8. ASSUME NEW ended \in SUBSET rows, DeleteHistory(ended) PROVE TypeOK'
  BY <1>8 DEF DeleteHistory, cache
<1>9. CASE Restart
  BY <1>9 DEF Restart
<1>10. CASE UNCHANGED vars
  BY <1>10 DEF vars, cache, store
<1> QED
  BY <1>1, <1>2, <1>3, <1>4, <1>5, <1>6, <1>7, <1>8, <1>9, <1>10 DEF Next

(* The use of a nonce keeps the invariant: if it is not in the cache the    *)
(* offer was never accepted, because the handler's own check of the         *)
(* timestamp shows that it has not expired.                                 *)
LEMMA UseStep ==
    ASSUME NonceInv, NEW h \in Handlers, NEW t \in Time,
           UseAuthenticationNonce(h, t)
    PROVE  /\ NonceInv'
           /\ Kept(t)[pending[h]] = Never => accepted[pending[h]] = 0
<1> DEFINE n == pending[h]
<1>t. TypeOK /\ TypeOK'
  <2>1. [Next]_vars
    BY DEF Next
  <2> QED
    BY <2>1, TypeStep DEF NonceInv
<1>n. /\ n \in Nonces /\ n # None
      /\ sent[n] \in Int /\ sent[n] # Never
      /\ checked[h] \in Nat
      /\ ValidProtocolTime(sent[n], checked[h])
      /\ checked[h] <= t /\ t <= now /\ now <= checked[h] + MaxDelay
  BY <1>t DEF UseAuthenticationNonce, NonceInv, PendingIsFresh, TypeOK, Time,
     Seconds, Never
<1>b. Earliest(sent[n]) <= checked[h] /\ checked[h] + MaxDelay < Expired(sent[n])
  BY <1>n, ValidBounds
<1>i. \A k \in Nonces : sent[k] \in Int /\ Earliest(sent[k]) \in Int /\ Expired(sent[k]) \in Int
  BY <1>t, NoncesAssumption DEF TypeOK, Seconds, Never, Earliest, Expired
<1>now. now \in Nat /\ MaxDelay \in Nat /\ t \in Nat
  BY <1>t, NoncesAssumption DEF TypeOK, Time
<1>k. ASSUME NEW k \in Nonces, accepted[k] # 0, Kept(t)[k] = Never
      PROVE  accepted[k] = 1 /\ sent[k] # Never /\ now >= Expired(sent[k])
  <2>1. CASE seen[k] = Never
    BY <1>k, <2>1 DEF NonceInv, RememberedOrExpired
  <2>2. CASE seen[k] # Never
    <3>1. Forget(seen[k], t)
      BY <1>k, <2>2 DEF Kept
    <3>2. /\ seen[k] \in Nat /\ sent[k] # Never
          /\ accepted[k] = 1 /\ Earliest(sent[k]) <= seen[k]
      BY <1>t, <2>2 DEF NonceInv, SeenIsAccepted, TypeOK, Time, Never
    <3> QED
      BY <3>1, <3>2, <1>i, <1>now, <1>n, ForgottenIsExpired
  <2> QED
    BY <2>1, <2>2
<1>a. Kept(t)[n] = Never => accepted[n] = 0
  <2> SUFFICES ASSUME Kept(t)[n] = Never, accepted[n] # 0 PROVE FALSE
    OBVIOUS
  <2>1. now >= Expired(sent[n])
    BY <1>k, <1>n
  <2> QED
    BY <2>1, <1>b, <1>n, <1>i, <1>now
<1> HIDE DEF n
<1>u. /\ pending' = [pending EXCEPT ![h] = None]
      /\ now' = now /\ sent' = sent /\ checked' = [checked EXCEPT ![h] = 0]
      /\ \/ Kept(t)[n] # Never /\ seen' = Kept(t) /\ accepted' = accepted
         \/ /\ Kept(t)[n] = Never
            /\ seen' = [Kept(t) EXCEPT ![n] = t]
            /\ accepted' = [accepted EXCEPT ![n] = @ + 1]
  BY DEF UseAuthenticationNonce, n
<1>kept. \A k \in Nonces : Kept(t)[k] # Never => Kept(t)[k] = seen[k]
  BY DEF Kept
<1>dom. DOMAIN Kept(t) = Nonces
  BY DEF Kept
<1>1. PendingIsFresh'
  BY <1>u, <1>t DEF NonceInv, PendingIsFresh, ValidProtocolTime, Distance, Unix, TypeOK
<1>2. SeenIsAccepted'
  <2> SUFFICES ASSUME NEW k \in Nonces, seen'[k] # Never
               PROVE  /\ sent[k] # Never /\ accepted'[k] = 1
                      /\ Earliest(sent[k]) <= seen'[k]
    BY <1>u DEF SeenIsAccepted, Earliest
  <2>1. CASE k = n /\ Kept(t)[n] = Never
    <3>1. seen'[k] = t /\ accepted'[k] = 1
      BY <2>1, <1>u, <1>a, <1>t, <1>dom, <1>n DEF TypeOK
    <3> QED
      BY <2>1, <3>1, <1>b, <1>n, <1>i, <1>now
  <2>2. CASE ~(k = n /\ Kept(t)[n] = Never)
    <3>1. seen'[k] = Kept(t)[k] /\ accepted'[k] = accepted[k]
      BY <2>2, <1>u, <1>t, <1>dom, <1>n DEF TypeOK
    <3>2. Kept(t)[k] = seen[k] /\ seen[k] # Never
      BY <3>1, <1>kept
    <3> QED
      BY <3>1, <3>2 DEF NonceInv, SeenIsAccepted
  <2> QED
    BY <2>1, <2>2
<1>3. RememberedOrExpired'
  <2> SUFFICES ASSUME NEW k \in Nonces, accepted'[k] # 0
               PROVE  /\ accepted'[k] = 1
                      /\ seen'[k] = Never => sent[k] # Never /\ now >= Expired(sent[k])
    BY <1>u DEF RememberedOrExpired, Expired
  <2>1. CASE k = n /\ Kept(t)[n] = Never
    <3>1. seen'[k] = t /\ accepted'[k] = 1
      BY <2>1, <1>u, <1>a, <1>t, <1>dom, <1>n DEF TypeOK
    <3> QED
      BY <3>1, <1>now DEF Never
  <2>2. CASE ~(k = n /\ Kept(t)[n] = Never)
    <3>1. seen'[k] = Kept(t)[k] /\ accepted'[k] = accepted[k]
      BY <2>2, <1>u, <1>t, <1>dom, <1>n DEF TypeOK
    <3> QED
      BY <3>1, <1>k DEF NonceInv, RememberedOrExpired
  <2> QED
    BY <2>1, <2>2
<1> QED
  BY <1>t, <1>a, <1>1, <1>2, <1>3 DEF NonceInv, n

(* The invariant is inductive.                                              *)
LEMMA StepPreserves == ASSUME NonceInv, [Next]_vars PROVE NonceInv'
<1>t. TypeOK /\ TypeOK'
  BY TypeStep DEF NonceInv
<1> USE DEF NonceInv, PendingIsFresh, SeenIsAccepted, RememberedOrExpired,
        ValidProtocolTime, Distance, Unix, Earliest, Expired
<1>1. ASSUME NEW n \in Nonces, NEW x \in Seconds, SignOffer(n, x) PROVE NonceInv'
  <2>1. /\ UNCHANGED <<now, seen, pending, checked, accepted>>
        /\ \A k \in Nonces : sent[k] # Never => sent'[k] = sent[k]
    BY <1>t, <1>1 DEF SignOffer, TypeOK
  <2>2. \A h \in Handlers : pending[h] # None => pending[h] \in Nonces
    BY <1>t DEF TypeOK
  <2> QED
    BY <1>t, <2>1, <2>2
<1>2. ASSUME NEW h \in Handlers, NEW n \in Nonces, ReceiveOffer(h, n) PROVE NonceInv'
  <2>1. PendingIsFresh'
    <3> SUFFICES ASSUME NEW g \in Handlers, pending'[g] # None
                 PROVE  (/\ sent[pending[g]] # Never
                         /\ ValidProtocolTime(sent[pending[g]], checked[g])
                         /\ checked[g] <= now /\ now <= checked[g] + MaxDelay)'
      OBVIOUS
    <3>1. CASE g = h
      BY <1>2, <1>t, <3>1, NoncesAssumption DEF ReceiveOffer, TypeOK, Time
    <3>2. CASE g # h
      BY <1>2, <1>t, <3>2 DEF ReceiveOffer, TypeOK
    <3> QED
      BY <3>1, <3>2
  <2> QED
    BY <1>t, <1>2, <2>1 DEF ReceiveOffer
<1>3. ASSUME NEW h \in Handlers, NEW t \in Time, UseAuthenticationNonce(h, t)
      PROVE  NonceInv'
  BY <1>3, UseStep
<1>4. CASE Tick
  <2>1. PendingIsFresh'
    BY <1>4, <1>t, NoncesAssumption DEF Tick, cache, TypeOK, Time
  <2>2. \A k \in Nonces : Expired(sent[k]) \in Int
    BY <1>t, NoncesAssumption DEF TypeOK, Seconds, Never
  <2>3. RememberedOrExpired'
    <3> HIDE DEF Expired
    <3>1. now' = now + 1 /\ now \in Int /\ sent' = sent /\ seen' = seen /\ accepted' = accepted
      BY <1>4, <1>t DEF Tick, cache, TypeOK, Time
    <3>2. \A k \in Nonces : Expired(sent[k])' = Expired(sent[k])
      BY <3>1 DEF Expired
    <3> QED
      BY <3>1, <3>2, <2>2
  <2> QED
    BY <1>4, <1>t, <2>1, <2>3 DEF Tick, cache
<1>5. ASSUME UNCHANGED <<now, cache>> PROVE NonceInv'
  BY <1>5, <1>t DEF cache
<1>6. ASSUME NEW h \in Handlers, FindTransfer(h) \/ SaveTransfer(h) \/ Refuse(h)
      PROVE  NonceInv'
  BY <1>5, <1>6 DEF FindTransfer, SaveTransfer, Refuse
<1>7. ASSUME NEW ended \in SUBSET rows, DeleteHistory(ended) PROVE NonceInv'
  BY <1>5, <1>7 DEF DeleteHistory
<1>8. CASE Restart
  <2>1. /\ \A n \in Nonces : seen'[n] = Never /\ accepted'[n] = 0
        /\ \A h \in Handlers : pending'[h] = None
    BY <1>8 DEF Restart
  <2> QED
    BY <1>t, <2>1
<1>9. CASE UNCHANGED vars
  BY <1>5, <1>9 DEF vars
<1> QED
  BY <1>1, <1>2, <1>3, <1>4, <1>6, <1>7, <1>8, <1>9 DEF Next

(* The invariant behind the replay control, for all constants.              *)
THEOREM NonceInvariant == Spec => []NonceInv
BY InitEstablishes, StepPreserves, PTL DEF Spec

(* useAuthenticationNonce and validProtocolTime together let an offer       *)
(* through once at most, whatever the network does with it.                 *)
THEOREM OfferAcceptedOnce == Spec => []AcceptedOnce
<1>1. NonceInv => AcceptedOnce
  BY DEF NonceInv, RememberedOrExpired, AcceptedOnce, TypeOK
<1> QED
  BY <1>1, NonceInvariant, PTL

-----------------------------------------------------------------------------
(* What becomes of the offers that got past.                                *)
LEMMA InitMade == Init => MadeInv
BY InitEstablishes DEF Init, MadeInv, OnePlace, PassedIsAccepted, PassedAgain, MadeIsKept,
   TransferMadeOnce

(* Letting an offer past: no handler has it yet, and if it has made its row *)
(* before, that was before the last restart.                                *)
LEMMA UseMade ==
    ASSUME MadeInv, NEW h \in Handlers, NEW t \in Time,
           UseAuthenticationNonce(h, t)
    PROVE  MadeInv'
<1> DEFINE n == pending[h]
<1>t. TypeOK
  BY DEF MadeInv, NonceInv
<1>i. NonceInv' /\ (Kept(t)[n] = Never => accepted[n] = 0)
  BY UseStep DEF MadeInv
<1>n. n \in Nonces
  BY <1>t DEF UseAuthenticationNonce, TypeOK
<1>1. CASE Kept(t)[n] # Never
  <2>1. UNCHANGED <<accepted, passed, lost, absent, rows, made, again, deleted>>
    BY <1>1 DEF UseAuthenticationNonce
  <2> QED
    BY <1>i, <2>1 DEF MadeInv, OnePlace, PassedIsAccepted, PassedAgain, MadeIsKept,
       TransferMadeOnce, UseAuthenticationNonce, TypeOK
<1>2. CASE Kept(t)[n] = Never
  <2>1. /\ accepted' = [accepted EXCEPT ![n] = @ + 1]
        /\ passed' = [passed EXCEPT ![h] = n]
        /\ UNCHANGED <<lost, absent, rows, made, again, deleted>>
    BY <1>2 DEF UseAuthenticationNonce
  <2>2. accepted[n] = 0
    BY <1>2, <1>i
  <2> HIDE DEF n
  <2>3. /\ accepted'[n] = 1
        /\ \A k \in Nonces : k # n => accepted'[k] = accepted[k]
    BY <1>t, <1>n, <2>1, <2>2 DEF TypeOK
  <2>4. /\ passed'[h] = n
        /\ \A g \in Handlers : g # h => passed'[g] = passed[g]
    BY <1>t, <2>1 DEF TypeOK
  <2>5. \A g \in Handlers : passed[g] # None => passed[g] \in Nonces /\ passed[g] # n
    BY <1>t, <2>2 DEF MadeInv, PassedIsAccepted, TypeOK
  <2>6. n \in made => n \in lost /\ TransferOf[n] \in rows \cup deleted
    BY <2>2 DEF MadeInv, MadeIsKept
  <2>7. pending[h] # None /\ passed[h] = None /\ absent[h] = FALSE
    BY <1>t DEF UseAuthenticationNonce, MadeInv, OnePlace, TypeOK
  <2>8. /\ pending'[h] = None
        /\ \A g \in Handlers : g # h => pending'[g] = pending[g]
    BY <1>t DEF UseAuthenticationNonce, TypeOK
  <2>9. OnePlace'
    <3> SUFFICES ASSUME NEW g \in Handlers
                 PROVE  /\ pending'[g] # None => passed'[g] = None
                        /\ absent[g] => passed'[g] # None
      BY <2>1 DEF OnePlace
    <3>1. CASE g = h
      BY <3>1, <2>7, <2>8
    <3>2. CASE g # h
      BY <3>2, <2>4, <2>8 DEF MadeInv, OnePlace
    <3> QED
      BY <3>1, <3>2
  <2>10. PassedIsAccepted'
    <3> SUFFICES ASSUME NEW g \in Handlers, passed'[g] # None
                 PROVE  /\ accepted'[passed'[g]] = 1
                        /\ \A f \in Handlers : passed'[f] = passed'[g] => f = g
      BY DEF PassedIsAccepted
    <3>1. CASE g = h
      <4> SUFFICES ASSUME NEW f \in Handlers, f # h PROVE passed'[f] # n
        BY <3>1, <2>3, <2>4
      <4> QED
        BY <2>4, <2>5, <1>n, <2>7 DEF n
    <3>2. CASE g # h
      <4>1. passed[g] \in Nonces /\ passed[g] # n /\ passed'[g] = passed[g]
        BY <3>2, <2>4, <2>5
      <4>2. \A f \in Handlers : passed'[f] = passed[g] => f # h /\ passed[f] = passed[g]
        BY <4>1, <2>4
      <4> QED
        BY <4>1, <4>2, <2>3, <3>2, <2>4 DEF MadeInv, PassedIsAccepted
    <3> QED
      BY <3>1, <3>2
  <2>11. PassedAgain'
    <3> SUFFICES ASSUME NEW g \in Handlers, passed'[g] # None, passed'[g] \in made
                 PROVE  /\ passed'[g] \in lost
                        /\ absent[g] => TransferOf[passed'[g]] \in deleted
      BY <2>1 DEF PassedAgain
    <3>1. CASE g = h
      BY <3>1, <2>4, <2>6, <2>7
    <3>2. CASE g # h
      BY <3>2, <2>4 DEF MadeInv, PassedAgain
    <3> QED
      BY <3>1, <3>2
  <2>12. MadeIsKept'
    <3> SUFFICES ASSUME NEW k \in made
                 PROVE  /\ TransferOf[k] \in rows \cup deleted
                        /\ k \in lost \/ accepted'[k] = 1
      BY <2>1 DEF MadeIsKept
    <3> QED
      BY <2>3, <1>t DEF MadeInv, MadeIsKept, TypeOK
  <2>13. TransferMadeOnce'
    BY <2>1 DEF MadeInv, TransferMadeOnce
  <2> QED
    BY <1>i, <2>9, <2>10, <2>11, <2>12, <2>13 DEF MadeInv
<1> QED
  BY <1>1, <1>2

(* The end of a request, whatever else happens to the rows: what is claimed *)
(* of the other handlers stays as it was.                                   *)
LEMMA EndMade ==
    ASSUME MadeInv, NEW h \in Handlers, EndRequest(h), UNCHANGED cache,
           lost' = lost, deleted' = deleted, made \subseteq made',
           \A g \in Handlers : g # h /\ passed[g] # None =>
               (passed[g] \in made' => passed[g] \in made)
    PROVE  OnePlace' /\ PassedIsAccepted' /\ PassedAgain'
<1>t. TypeOK
  BY DEF MadeInv, NonceInv
<1>1. /\ passed'[h] = None /\ absent'[h] = FALSE
      /\ \A g \in Handlers : g # h =>
             passed'[g] = passed[g] /\ absent'[g] = absent[g]
  BY <1>t DEF EndRequest, TypeOK
<1>2. UNCHANGED <<pending, accepted, lost, deleted>>
  BY DEF cache
<1>3. OnePlace'
  BY <1>1, <1>2 DEF MadeInv, OnePlace
<1>4. PassedIsAccepted'
  BY <1>1, <1>2 DEF MadeInv, PassedIsAccepted
<1>5. PassedAgain'
  BY <1>1, <1>2 DEF MadeInv, PassedAgain
<1> QED
  BY <1>3, <1>4, <1>5

(* The row is written: if the offer had made one before, it was deleted.    *)
LEMMA SaveMade ==
    ASSUME MadeInv, NonceInv', NEW h \in Handlers, SaveTransfer(h)
    PROVE  MadeInv'
<1> DEFINE n == passed[h]
<1>t. TypeOK
  BY DEF MadeInv, NonceInv
<1>1. /\ n # None /\ n \in Nonces /\ absent[h]
      /\ rows' = rows \cup {TransferOf[n]} /\ made' = made \cup {n}
      /\ again' = again \cup ({n} \cap made)
      /\ EndRequest(h) /\ UNCHANGED <<cache, deleted>>
      /\ lost' = lost /\ accepted' = accepted
  BY <1>t DEF SaveTransfer, TypeOK, cache
<1>2. accepted[n] = 1 /\ \A g \in Handlers : passed[g] = n => g = h
  BY <1>1 DEF MadeInv, PassedIsAccepted
<1>3. n \in made => n \in lost /\ TransferOf[n] \in deleted
  BY <1>1 DEF MadeInv, PassedAgain
<1> HIDE DEF n
<1>4. OnePlace' /\ PassedIsAccepted' /\ PassedAgain'
  BY <1>1, <1>2, EndMade
<1>5. MadeIsKept'
  BY <1>1, <1>2 DEF MadeInv, MadeIsKept
<1>6. TransferMadeOnce'
  BY <1>1, <1>3 DEF MadeInv, TransferMadeOnce
<1> QED
  BY <1>4, <1>5, <1>6 DEF MadeInv

(* A request that ends without a row, or finds that there is none.          *)
LEMMA FindMade ==
    ASSUME MadeInv, NonceInv', NEW h \in Handlers, FindTransfer(h) \/ Refuse(h)
    PROVE  MadeInv'
<1>t. TypeOK
  BY DEF MadeInv, NonceInv
<1>u. UNCHANGED <<cache, rows, made, again, deleted>> /\ UNCHANGED <<pending, lost, accepted>>
  BY DEF FindTransfer, Refuse, cache
<1>k. MadeIsKept' /\ TransferMadeOnce'
  BY <1>u DEF MadeInv, MadeIsKept, TransferMadeOnce
<1>1. CASE EndRequest(h)
  BY <1>1, <1>u, <1>k, EndMade DEF MadeInv
<1>2. CASE ~EndRequest(h)
  <2>1. /\ passed[h] # None /\ TransferOf[passed[h]] \notin rows
        /\ absent' = [absent EXCEPT ![h] = TRUE] /\ passed' = passed
    BY <1>2 DEF FindTransfer, Refuse, HasRow
  <2>2. \A g \in Handlers : g # h => absent'[g] = absent[g]
    BY <2>1, <1>t DEF TypeOK
  <2>3. passed[h] \in made => TransferOf[passed[h]] \in deleted
    BY <2>1 DEF MadeInv, MadeIsKept
  <2>4. OnePlace'
    BY <2>1, <2>2, <1>u DEF MadeInv, OnePlace
  <2>5. PassedIsAccepted'
    BY <2>1, <1>u DEF MadeInv, PassedIsAccepted
  <2>6. PassedAgain'
    BY <2>1, <2>2, <2>3, <1>u DEF MadeInv, PassedAgain
  <2> QED
    BY <1>k, <2>4, <2>5, <2>6 DEF MadeInv
<1> QED
  BY <1>1, <1>2

(* A deletion and a restart only add to deleted and to lost.                *)
LEMMA DeleteMade ==
    ASSUME MadeInv, NonceInv', NEW ended \in SUBSET rows, DeleteHistory(ended)
    PROVE  MadeInv'
<1>1. /\ rows' = rows \ ended /\ deleted' = deleted \cup ended
      /\ UNCHANGED <<pending, passed, absent, made, again, lost, accepted>>
  BY DEF DeleteHistory, cache
<1>2. OnePlace' /\ PassedIsAccepted'
  BY <1>1 DEF MadeInv, OnePlace, PassedIsAccepted
<1>3. PassedAgain' /\ MadeIsKept' /\ TransferMadeOnce'
  BY <1>1 DEF MadeInv, PassedAgain, MadeIsKept, TransferMadeOnce
<1> QED
  BY <1>2, <1>3 DEF MadeInv

LEMMA RestartMade == ASSUME MadeInv, NonceInv', Restart PROVE MadeInv'
<1>t. TypeOK
  BY DEF MadeInv, NonceInv
<1>1. /\ \A h \in Handlers : pending'[h] = None /\ passed'[h] = None /\ absent'[h] = FALSE
      /\ lost' = lost \cup {n \in Nonces : accepted[n] # 0}
      /\ UNCHANGED <<rows, made, again, deleted>>
  BY DEF Restart
<1>2. OnePlace' /\ PassedIsAccepted' /\ PassedAgain'
  BY <1>1 DEF OnePlace, PassedIsAccepted, PassedAgain
<1>3. MadeIsKept' /\ TransferMadeOnce'
  BY <1>1, <1>t DEF MadeInv, MadeIsKept, TransferMadeOnce, TypeOK
<1> QED
  BY <1>2, <1>3 DEF MadeInv

(* The invariant of the rows is inductive.                                  *)
LEMMA MadeStep == ASSUME MadeInv, [Next]_vars PROVE MadeInv'
<1>n. NonceInv'
  BY StepPreserves DEF MadeInv
<1>t. TypeOK
  BY DEF MadeInv, NonceInv
<1>0. ASSUME UNCHANGED <<store, accepted, lost, pending>> PROVE MadeInv'
  BY <1>0, <1>n DEF store, MadeInv, OnePlace, PassedIsAccepted, PassedAgain,
     MadeIsKept, TransferMadeOnce
<1>1. ASSUME NEW n \in Nonces, NEW x \in Seconds, SignOffer(n, x) PROVE MadeInv'
  BY <1>0, <1>1 DEF SignOffer
<1>2. ASSUME NEW h \in Handlers, NEW n \in Nonces, ReceiveOffer(h, n) PROVE MadeInv'
  <2>1. /\ UNCHANGED <<store, accepted, lost>>
        /\ passed[h] = None
        /\ \A g \in Handlers : g # h => pending'[g] = pending[g]
    BY <1>2, <1>t DEF ReceiveOffer, TypeOK
  <2>2. OnePlace'
    BY <2>1 DEF store, MadeInv, OnePlace
  <2> QED
    BY <1>n, <2>1, <2>2 DEF store, MadeInv, PassedIsAccepted, PassedAgain,
       MadeIsKept, TransferMadeOnce
<1>3. ASSUME NEW h \in Handlers, NEW t \in Time, UseAuthenticationNonce(h, t)
      PROVE  MadeInv'
  BY <1>3, UseMade
<1>4. ASSUME NEW h \in Handlers, FindTransfer(h) \/ Refuse(h) PROVE MadeInv'
  BY <1>4, <1>n, FindMade
<1>5. ASSUME NEW h \in Handlers, SaveTransfer(h) PROVE MadeInv'
  BY <1>5, <1>n, SaveMade
<1>6. ASSUME NEW ended \in SUBSET rows, DeleteHistory(ended) PROVE MadeInv'
  BY <1>6, <1>n, DeleteMade
<1>7. CASE Restart
  BY <1>7, <1>n, RestartMade
<1>8. CASE Tick
  BY <1>0, <1>8 DEF Tick, cache
<1>9. CASE UNCHANGED vars
  BY <1>0, <1>9 DEF vars, cache
<1> QED
  BY <1>1, <1>2, <1>3, <1>4, <1>5, <1>6, <1>7, <1>8, <1>9 DEF Next

(* An offer makes its transfer again only after a restart of the receiver   *)
(* and a deletion of the row it had made: the nonce cache and the look-up   *)
(* by ID cover for each other, whatever the requests are doing meanwhile.   *)
THEOREM OfferMakesOneTransfer == Spec => []TransferMadeOnce
<1>1. Spec => []MadeInv
  BY InitMade, MadeStep, PTL DEF Spec
<1>2. MadeInv => TransferMadeOnce
  BY DEF MadeInv
<1> QED
  BY <1>1, <1>2, PTL

=============================================================================
