--------------------------- MODULE PrivacyPromise ---------------------------
(***************************************************************************)
(* What docs/PRIVACY.md and the section "Privacy-gated startup" of          *)
(* docs/architecture.md promise: nothing that talks to other devices is     *)
(* active before the user has accepted the policy version of this release;  *)
(* only an explicit acceptance of that version is ever put on record, and   *)
(* nothing else takes it away; another release starts with nothing active.  *)
(* Runtime implements this specification.                                  *)
(***************************************************************************)
EXTENDS Naturals

CONSTANTS
    Policies,   \* versions of the policy
    Activities  \* what talks to other devices

VARIABLES
    release,    \* the version this release ships
    consented,  \* versions the user has accepted
    onRecord,   \* the acceptance on record, 0 if there is none
    active      \* the activities going on

promiseVars == <<release, consented, onRecord, active>>

PromiseInit ==
    /\ release \in Policies
    /\ consented \subseteq Policies
    /\ onRecord \in {0} \cup consented
    /\ active = {}

(* The acceptance may fail to be recorded, which the user is told.          *)
Consent ==
    /\ consented' = consented \cup {release}
    /\ onRecord' \in {onRecord, release}
    /\ UNCHANGED <<release, active>>

Activate(a) ==
    /\ onRecord = release
    /\ active' = active \cup {a}
    /\ UNCHANGED <<release, consented, onRecord>>

Deactivate(a) ==
    /\ active' = active \ {a}
    /\ UNCHANGED <<release, consented, onRecord>>

(* An acceptance whose failure was reported may turn out to be on record.   *)
Restart ==
    /\ release' \in Policies
    /\ onRecord' \in {onRecord} \cup consented
    /\ active' = {}
    /\ UNCHANGED consented

PromiseNext ==
    \/ Consent \/ Restart
    \/ \E a \in Activities : Activate(a) \/ Deactivate(a)

PromiseSpec == PromiseInit /\ [][PromiseNext]_promiseVars

=============================================================================
