--------------------------- MODULE RuntimeProofs ---------------------------
(***************************************************************************)
(* Proofs about Runtime, for any number of handlers and requests, any names *)
(* and any number of releases: its invariants, those of Identity within it, *)
(* and that it implements PrivacyPromise.                                   *)
(***************************************************************************)
EXTENDS Runtime, TLAPS

-----------------------------------------------------------------------------
(* The identity files.  The argument rests on the order of the two writes:  *)
(* identity.json names a key only after that key is in identity.key, and    *)
(* what a start has announced is on disk.                                   *)

IdentityNext == StartBoot \/ LoadOrCreate \/ IdentityLost

IInv == IdentityTypeOK /\ IdentityInv

(* A new ID, or a new key, is one of the set if not all are used.           *)
LEMMA FreshIsNew ==
    ASSUME NEW S, NEW used, \E x \in S : x \notin used
    PROVE  Fresh(S, used) \in S /\ Fresh(S, used) \notin used
BY DEF Fresh

(* An installation starts with nothing on disk, or with the identity.json   *)
(* of a release that kept no key.                                           *)
LEMMA IdentityInitInv == IdentityInit => IInv
<1> SUFFICES ASSUME IdentityInit PROVE IInv
  OBVIOUS
<1> DEFINE old == [id |-> CHOOSE i \in Ids : TRUE, key |-> none]
<1>1. old \in Metadata /\ old.key = none
  BY IdentityAssumption DEF Metadata
<1>2. metadata \in Metadata \cup {none} /\ (metadata # none => metadata.key = none)
  BY <1>1 DEF IdentityInit
<1> HIDE DEF old
<1> QED
  BY <1>2 DEF IdentityInit, IInv, IdentityTypeOK, IdentityInv,
     StartIsNeverRefused, BootStep

(* The steps of LoadOrCreate, one by one.                                   *)
LEMMA LoadMetadataInv == IInv /\ LoadMetadata => IInv'
<1> SUFFICES ASSUME IInv, LoadMetadata PROVE IInv'
  OBVIOUS
<1> DEFINE new == [id |-> Fresh(Ids, {r.id : r \in Records}), key |-> none]
<1>1. CASE metadata = none
  <2>1. announced = none /\ Records = {}
    BY <1>1 DEF IInv, IdentityInv, IdentityTypeOK, Records, Metadata
  <2>2. Fresh(Ids, {r.id : r \in Records}) \in Ids
    BY <2>1, FreshIsNew, IdentityAssumption
  <2>3. new \in Metadata /\ new.key = none /\ new # none
    BY <2>2, IdentityAssumption DEF Metadata
  <2>4. identity' = new
    BY <1>1 DEF LoadMetadata
  <2> HIDE DEF new
  <2> QED
    BY <1>1, <2>1, <2>3, <2>4 DEF LoadMetadata, IInv, IdentityInv,
       IdentityTypeOK, StartIsNeverRefused, BootStep
<1>2. CASE metadata # none
  BY <1>2 DEF LoadMetadata, IInv, IdentityInv, IdentityTypeOK,
     StartIsNeverRefused, BootStep
<1> QED BY <1>1, <1>2

(* A missing key is replaced only where no identity.json names one: what    *)
(* has been announced is on disk.                                           *)
LEMMA LoadPrivateKeyInv == IInv /\ LoadPrivateKey => IInv'
<1> SUFFICES ASSUME IInv, LoadPrivateKey PROVE IInv'
  OBVIOUS
<1>1. CASE keyFile # none
  <2>1. privateKey' = keyFile /\ boot' = "check" /\ boot = "key"
        /\ UNCHANGED <<identity, keyFile, metadata, announced>>
    BY <1>1 DEF LoadPrivateKey
  <2> QED
    BY <1>1, <2>1 DEF IInv, IdentityInv, IdentityTypeOK,
       StartIsNeverRefused, BootStep
<1>2. CASE keyFile = none
  <2>1. boot = "key" /\ boot' = "saveKey"
        /\ privateKey' = Fresh(Keys, {r.key : r \in Records})
        /\ identity' = [identity EXCEPT !.key = privateKey']
        /\ UNCHANGED <<keyFile, metadata, announced>>
    BY <1>2 DEF LoadPrivateKey
  <2>2. announced = none
    BY <1>2, IdentityAssumption DEF IInv, IdentityInv, IdentityTypeOK
  <2>3. \A r \in Records : r.key = none
    BY <1>2, <2>2 DEF IInv, IdentityInv, StartIsNeverRefused, Records
  <2>4. privateKey' \in Keys
    <3>1. \E k \in Keys : k \notin {r.key : r \in Records}
      BY <2>3, IdentityAssumption
    <3> QED BY <2>1, <3>1, FreshIsNew
  <2>5. identity \in Metadata
    BY <2>1 DEF IInv, IdentityTypeOK
  <2>6. identity' \in Metadata /\ identity'.key = privateKey' /\ identity' # none
    BY <2>1, <2>4, <2>5, IdentityAssumption DEF Metadata
  <2> QED
    BY <1>2, <2>1, <2>2, <2>4, <2>6, IdentityAssumption DEF IInv, IdentityInv,
       IdentityTypeOK, StartIsNeverRefused, BootStep
<1> QED BY <1>1, <1>2

(* The key file is written while no identity.json names a key, so a death   *)
(* in between refuses nothing.                                              *)
LEMMA SavePrivateKeyInv == IInv /\ SavePrivateKey => IInv'
<1> SUFFICES ASSUME IInv, SavePrivateKey PROVE IInv'
  OBVIOUS
<1>1. boot = "saveKey" /\ keyFile = none /\ announced = none
  BY IdentityAssumption DEF SavePrivateKey, IInv, IdentityInv, IdentityTypeOK
<1>2. metadata # none => metadata.key = none
  BY <1>1 DEF IInv, IdentityInv, StartIsNeverRefused
<1>3. PICK outcome \in Outcome :
          /\ keyFile' = IF Replaced(outcome) THEN privateKey ELSE keyFile
          /\ IF Succeeded(outcome)
             THEN boot' = "check" /\ UNCHANGED <<identity, privateKey>>
             ELSE BootFails
  BY DEF SavePrivateKey
<1> QED
  BY <1>1, <1>2, <1>3 DEF SavePrivateKey, BootFails, Outcome, Replaced, Succeeded,
     IInv, IdentityInv, IdentityTypeOK, StartIsNeverRefused, BootStep

(* The comparison of the fingerprints never refuses what an earlier start   *)
(* has left.                                                                *)
LEMMA CheckIdentityInv == IInv /\ CheckIdentity => IInv'
<1> SUFFICES ASSUME IInv, CheckIdentity PROVE IInv'
  OBVIOUS
<1>1. boot = "check" /\ identity \in Metadata /\ keyFile \in Keys
      /\ privateKey = keyFile /\ UNCHANGED <<keyFile, metadata>>
  BY DEF CheckIdentity, IInv, IdentityInv, IdentityTypeOK
<1>2. CASE BootFails /\ UNCHANGED announced
  BY <1>1, <1>2 DEF BootFails, IInv, IdentityInv, IdentityTypeOK,
     StartIsNeverRefused, BootStep
<1>3. CASE /\ identity.key \in {none, privateKey}
           /\ identity' = [identity EXCEPT !.key = privateKey]
           /\ boot' = "saveMetadata"
           /\ UNCHANGED <<privateKey, announced>>
  <2>1. identity' \in Metadata /\ identity'.key = privateKey /\ identity' # none
    BY <1>1, <1>3, IdentityAssumption DEF Metadata
  <2>2. announced # none => identity' = announced
    <3> SUFFICES ASSUME announced # none PROVE identity' = announced
      OBVIOUS
    <3>1. identity = announced /\ keyFile = announced.key
      BY <1>1 DEF IInv, IdentityInv
    <3> QED BY <1>1, <1>3, <3>1 DEF Metadata
  <2> QED
    BY <1>1, <1>3, <2>1, <2>2, IdentityAssumption DEF IInv, IdentityInv,
       IdentityTypeOK, StartIsNeverRefused, BootStep
<1>4. CASE /\ metadata = identity /\ identity.key = privateKey
           /\ Loaded(identity)
           /\ UNCHANGED <<identity, privateKey>>
  <2>1. identity \in [id : Ids, key : Keys] /\ identity # none
    BY <1>1, <1>4 DEF Metadata, IInv, IdentityTypeOK
  <2> QED
    BY <1>1, <1>4, <2>1, IdentityAssumption DEF Loaded, IInv, IdentityInv,
       IdentityTypeOK, StartIsNeverRefused, BootStep
<1> QED BY <1>2, <1>3, <1>4 DEF CheckIdentity

(* identity.json names the key that is in identity.key already.             *)
LEMMA SaveMetadataInv == IInv /\ SaveMetadata => IInv'
<1> SUFFICES ASSUME IInv, SaveMetadata PROVE IInv'
  OBVIOUS
<1>1. boot = "saveMetadata" /\ identity \in Metadata /\ keyFile \in Keys
      /\ privateKey = keyFile /\ identity.key = keyFile /\ UNCHANGED keyFile
      /\ identity # none /\ (announced # none => identity = announced)
  BY DEF SaveMetadata, IInv, IdentityInv, IdentityTypeOK
<1>2. identity \in [id : Ids, key : Keys]
  BY <1>1 DEF Metadata
<1>3. PICK outcome \in Outcome :
          /\ metadata' = IF Replaced(outcome) THEN identity ELSE metadata
          /\ IF Succeeded(outcome)
             THEN Loaded(identity) /\ UNCHANGED <<identity, privateKey>>
             ELSE BootFails /\ UNCHANGED announced
  BY DEF SaveMetadata
<1>4. CASE Succeeded(outcome)
  <2>1. metadata' = identity /\ Loaded(identity)
        /\ UNCHANGED <<identity, privateKey>>
    BY <1>3, <1>4 DEF Succeeded, Replaced
  <2> QED
    BY <1>1, <1>2, <2>1, IdentityAssumption DEF Loaded, IInv, IdentityInv,
       IdentityTypeOK, StartIsNeverRefused, BootStep
<1>5. CASE ~Succeeded(outcome)
  <2>1. metadata' \in {identity, metadata} /\ BootFails /\ UNCHANGED announced
    BY <1>3, <1>5
  <2> QED
    BY <1>1, <1>2, <2>1 DEF BootFails, IInv, IdentityInv,
       IdentityTypeOK, StartIsNeverRefused, BootStep
<1> QED BY <1>4, <1>5

(* Every step of a start, and its loss, keeps the invariant.                *)
LEMMA IdentityStepInv == IInv /\ [IdentityNext]_identityVars => IInv'
<1> SUFFICES ASSUME IInv, [IdentityNext]_identityVars PROVE IInv'
  OBVIOUS
<1>1. CASE StartBoot
  BY <1>1 DEF StartBoot, IInv, IdentityInv, IdentityTypeOK,
     StartIsNeverRefused, BootStep
<1>2. CASE LoadOrCreate
  BY <1>2, LoadMetadataInv, LoadPrivateKeyInv, SavePrivateKeyInv,
     CheckIdentityInv, SaveMetadataInv DEF LoadOrCreate
<1>3. CASE IdentityLost
  BY <1>3 DEF IdentityLost, BootFails, IInv, IdentityInv, IdentityTypeOK,
     StartIsNeverRefused, BootStep
<1>4. CASE UNCHANGED identityVars
  BY <1>4 DEF identityVars, IInv, IdentityInv, IdentityTypeOK,
     StartIsNeverRefused, BootStep
<1> QED BY <1>1, <1>2, <1>3, <1>4 DEF IdentityNext

-----------------------------------------------------------------------------
(* The settings store.                                                     *)

(* DefaultSettings and what SetDisplayName may save are settings.           *)
LEMMA DefaultsTyped ==
    /\ Defaults \in Values
    /\ Defaults.policy = 0 /\ Defaults.name = unset
BY SettingsAssumption DEF Defaults, Values, SchemaVersion

(* What a save changes.                                                    *)
LEMMA SaveEffect ==
    ASSUME NEW new, NEW outcome \in Outcome, Save(new, outcome)
    PROVE  /\ file' \in {file, new}
           /\ Succeeded(outcome) =>
                 file' = new /\ values' = new /\ changed' = TRUE /\ ~torn'
           /\ ~Succeeded(outcome) =>
                 /\ UNCHANGED <<values, changed>>
                 /\ ~torn' => ~torn /\ file' = file
BY DEF Save, Succeeded, Replaced, Outcome

(* Update keeps the acceptance on record.                                   *)
LEMMA UpdateEffect ==
    ASSUME NEW document \in Values, NEW outcome \in Outcome, values \in Values,
           Update(document, outcome)
    PROVE  \E new \in Values :
              /\ Save(new, outcome)
              /\ new.policy = values.policy /\ new.name = document.name
<1> DEFINE new == [schema |-> SchemaVersion, name |-> document.name,
                   discoverable |-> document.discoverable,
                   policy |-> values.policy]
<1>1. /\ values.policy \in 0..MaxPolicy
      /\ document.name \in Names \cup {unset} /\ document.discoverable \in BOOLEAN
      /\ SchemaVersion \in 1..SchemaVersion
  BY DEF Values, SchemaVersion
<1>2. new \in Values /\ new.policy = values.policy /\ new.name = document.name
  BY <1>1 DEF Values
<1>3. Save(new, outcome)
  BY DEF Update
<1> QED BY <1>2, <1>3

(* AcceptPrivacy saves the policy of this release and keeps the rest.       *)
LEMMA AcceptEffect ==
    ASSUME NEW version \in Policies, NEW outcome \in Outcome, values \in Values,
           AcceptPrivacy(version, outcome)
    PROVE  \E new \in Values :
              /\ Save(new, outcome)
              /\ new.policy = version /\ new.name = values.name
<1> DEFINE new == [values EXCEPT !.policy = version]
<1>1. new \in Values /\ new.policy = version /\ new.name = values.name
  BY SettingsAssumption DEF Values, Policies
<1>2. Save(new, outcome)
  BY DEF AcceptPrivacy
<1> QED BY <1>1, <1>2

(* What a start finds on disk.                                             *)
LEMMA OnRecordEffect ==
    ASSUME file \in Values \cup {unset}
    PROVE  /\ OnRecord \in Values
           /\ file = unset => OnRecord.policy = 0
           /\ file # unset => OnRecord.policy = file.policy
<1>1. CASE file = unset
  BY <1>1, DefaultsTyped DEF OnRecord
<1>2. CASE file # unset
  <2>1. CASE file.schema < SchemaVersion
    <3>1. OnRecord = [schema |-> SchemaVersion, name |-> file.name,
                      discoverable |-> TRUE, policy |-> file.policy]
      BY <1>2, <2>1 DEF OnRecord, migrate
    <3>2. file.name \in Names \cup {unset} /\ file.policy \in 0..MaxPolicy
      BY <1>2 DEF Values
    <3>3. SchemaVersion \in 1..SchemaVersion
      BY DEF SchemaVersion
    <3>4. OnRecord \in Values
      BY <3>1, <3>2, <3>3 DEF Values
    <3> QED BY <1>2, <3>1, <3>4
  <2>2. CASE ~(file.schema < SchemaVersion)
    BY <1>2, <2>2 DEF OnRecord, migrate
  <2> QED BY <2>1, <2>2
<1> QED BY <1>1, <1>2

-----------------------------------------------------------------------------
(* What the steps that save the settings do.                               *)

Types == SettingsTypeOK /\ RuntimeTypeOK

Unstored == <<identityVars, build, server, supervisor, transfers, session, names,
              served, overlapped>>

Refused(h) ==
    /\ req' = [req EXCEPT ![h] = "idle"]
    /\ UNCHANGED <<settingsVars, newName>>

Saved(h, new) ==
    /\ file' = new /\ values' = new /\ changed' = TRUE /\ torn' = FALSE
    /\ req' = [req EXCEPT ![h] = "setName"]
    /\ newName' = [newName EXCEPT ![h] = new.name]

NotSaved(h, new) ==
    /\ file' \in {file, new} /\ (torn' = FALSE => torn = FALSE /\ file' = file)
    /\ torn' \in BOOLEAN
    /\ UNCHANGED <<values, changed>>
    /\ req' = [req EXCEPT ![h] = "idle"]
    /\ newName' = [newName EXCEPT ![h] = unset]

StoreStep(h) == PutSettings(h) \/ Reset(h) \/ Accept(h)

(* A save is in memory and on disk, or has failed: then memory has the old  *)
(* settings and the disk may have the new ones.                             *)
LEMMA SavedOrNot ==
    ASSUME Types, NEW h \in Handlers, NEW new \in Values, NEW outcome \in Outcome,
           Save(new, outcome), Stored(h, outcome, new.name)
    PROVE  (Saved(h, new) \/ NotSaved(h, new)) /\ UNCHANGED Unstored
<1>1. UNCHANGED Unstored
  BY DEF Stored, Unstored
<1>2. CASE Succeeded(outcome)
  BY <1>1, <1>2, SaveEffect DEF Stored, Saved, ReqGoto, Carry, Save
<1>3. CASE ~Succeeded(outcome)
  BY <1>1, <1>3, SaveEffect DEF Stored, NotSaved, ReqGoto, Carry, Save, Types,
     SettingsTypeOK
<1> QED BY <1>1, <1>2, <1>3

(* A request writes what is on record but for the acceptance of the policy  *)
(* that is shipped.                                                        *)
LEMMA StoreEffect ==
    ASSUME Types, NEW h \in Handlers, StoreStep(h)
    PROVE  /\ req[h] \in {"update", "reset", "accept"}
           /\ UNCHANGED Unstored
           /\ \/ Refused(h)
              \/ \E new \in Values :
                    /\ Saved(h, new) \/ NotSaved(h, new)
                    /\ \/ asked' = asked /\ new.policy = values.policy
                       \/ asked' = asked \cup {build} /\ new.policy = build
<1>1. CASE PutSettings(h)
  <2>1. PICK document \in Values, outcome \in Outcome :
           Update(document, outcome) /\ Stored(h, outcome, document.name)
    <3>1. PICK name \in Names \cup {unset}, visible \in BOOLEAN,
               policy \in 0..MaxPolicy, outcome \in Outcome :
             /\ Update([schema |-> SchemaVersion, name |-> name,
                        discoverable |-> visible, policy |-> policy], outcome)
             /\ Stored(h, outcome, name)
      BY <1>1 DEF PutSettings
    <3> DEFINE d == [schema |-> SchemaVersion, name |-> name,
                     discoverable |-> visible, policy |-> policy]
    <3>2. d \in Values /\ d.name = name
      BY DEF Values, SchemaVersion
    <3> QED BY <3>1, <3>2
  <2>2. PICK new \in Values : /\ Save(new, outcome)
                              /\ new.policy = values.policy
                              /\ new.name = document.name
    BY <2>1, UpdateEffect DEF Types, SettingsTypeOK
  <2> QED BY <1>1, <2>1, <2>2, SavedOrNot DEF PutSettings
<1>2. CASE Reset(h)
  <2>1. PICK outcome \in Outcome :
           /\ Update([Defaults EXCEPT !.name = newName[h]], outcome)
           /\ Stored(h, outcome, newName[h])
    BY <1>2 DEF Reset
  <2> DEFINE d == [Defaults EXCEPT !.name = newName[h]]
  <2>2. d \in Values /\ d.name = newName[h]
    BY DefaultsTyped DEF Values, Types, RuntimeTypeOK
  <2>3. PICK new \in Values : /\ Save(new, outcome)
                              /\ new.policy = values.policy
                              /\ new.name = d.name
    BY <2>1, <2>2, UpdateEffect DEF Types, SettingsTypeOK
  <2> QED BY <1>2, <2>1, <2>2, <2>3, SavedOrNot DEF Reset
<1>3. CASE Accept(h)
  <2>1. PICK version \in Policies :
          IF version = build
          THEN \E outcome \in Outcome :
                  /\ AcceptPrivacy(version, outcome)
                  /\ asked' = asked \cup {version}
                  /\ Stored(h, outcome, values.name)
          ELSE /\ ReqGoto(h, "idle")
               /\ UNCHANGED <<identityVars, settingsVars, build, server,
                              supervisor, transfers, session, names, newName,
                              served, overlapped>>
    BY <1>3 DEF Accept
  <2>2. CASE version # build
    BY <1>3, <2>1, <2>2 DEF Accept, Refused, ReqGoto, Unstored
  <2>3. CASE version = build
    <3>1. PICK outcome \in Outcome : /\ AcceptPrivacy(version, outcome)
                                     /\ asked' = asked \cup {version}
                                     /\ Stored(h, outcome, values.name)
      BY <2>1, <2>3
    <3>2. PICK new \in Values : /\ Save(new, outcome)
                                /\ new.policy = version
                                /\ new.name = values.name
      BY <3>1, AcceptEffect DEF Types, SettingsTypeOK
    <3> QED BY <1>3, <2>3, <3>1, <3>2, SavedOrNot DEF Accept
  <2> QED BY <2>2, <2>3
<1> QED BY <1>1, <1>2, <1>3 DEF StoreStep

Dies == ProcessGone /\ UNCHANGED <<identityDisk, announced, asked, build, served>>

(* NewManager takes the settings on disk, or dies.                          *)
LEMMA LoadEffect ==
    ASSUME Types, LoadSettings
    PROVE  /\ boot = "loaded" /\ server = "down" /\ torn' = FALSE
           /\ \/ Dies /\ file' \in {file, OnRecord}
              \/ /\ file' = OnRecord /\ values' = OnRecord
                 /\ server' = "naming"
                 /\ UNCHANGED <<identityVars, changed, asked, build, supervisor,
                               transfers, session, names, requests>>
BY DEF LoadSettings, Dies, identityVars, identityDisk, Outcome, Succeeded, Replaced

(* The save of the default name keeps the acceptance.                       *)
LEMMA DefaultNameEffect ==
    ASSUME Types, DefaultName
    PROVE  /\ server = "naming"
           /\ \E new \in Values :
                 /\ new.policy = values.policy
                 /\ \/ Dies /\ file' \in {file, new} /\ UNCHANGED torn
                    \/ /\ file' = new /\ values' = new /\ changed' = TRUE
                       /\ torn' = FALSE /\ new.name = HostName
                       /\ Compose(HostName) /\ UNCHANGED asked
<1> DEFINE named == [values EXCEPT !.name = HostName]
<1>1. named \in Values /\ named.policy = values.policy /\ named.name = HostName
  BY RuntimeAssumption DEF Types, SettingsTypeOK, Values
<1>2. PICK outcome \in Outcome :
        IF Succeeded(outcome)
        THEN Update(named, outcome) /\ Compose(HostName)
        ELSE /\ file' = IF Replaced(outcome) THEN named ELSE file
             /\ ProcessGone /\ UNCHANGED served
             /\ UNCHANGED <<torn, identityDisk, announced, build>>
  BY DEF DefaultName
<1>3. server = "naming" /\ UNCHANGED asked
  BY DEF DefaultName
<1>4. CASE Succeeded(outcome)
  <2>1. PICK new \in Values : /\ Save(new, outcome)
                              /\ new.policy = values.policy
                              /\ new.name = named.name
    BY <1>1, <1>2, <1>4, UpdateEffect DEF Types, SettingsTypeOK
  <2>2. /\ file' = new /\ values' = new /\ changed' = TRUE
        /\ torn' = FALSE
    BY <2>1, <1>4, SaveEffect DEF Save
  <2> QED BY <1>1, <1>2, <1>3, <1>4, <2>1, <2>2
<1>5. CASE ~Succeeded(outcome)
  <2> HIDE DEF named
  <2> QED BY <1>1, <1>2, <1>3, <1>5 DEF Dies
<1> QED BY <1>4, <1>5

-----------------------------------------------------------------------------
(* The steps of Next.                                                      *)
LEMMA StepCases ==
    ASSUME [Next]_vars
    PROVE  \/ Start \/ Boot \/ LoadSettings \/ StartServing \/ DefaultName \/
              Stop \/ Exit \/ GetValues \/ GetAccepted \/ SwitchTransfers \/
              SwitchDiscovery \/ SelectDone \/ SelectChanges \/
              SelectDiscoveryDone \/ SelectTransfersDone \/ Leave \/
              TransfersStopped \/ DiscoveryStopped \/ TransferRun \/ Inspect \/
              Advertise \/ SessionCancelled \/ SessionRefreshed \/ SessionFails
              \/ BackoffOver
           \/ \E h \in Handlers :
                 BeginAccept(h) \/ PassGate(h) \/ StoreStep(h) \/ ReadName(h)
                    \/ SetDisplayName(h) \/ Refresh(h) \/ SetPeerName(h) \/
                    ServePeer(h)
           \/ UNCHANGED vars
BY DEF Next, Supervise, Session, Serve, StoreStep

-----------------------------------------------------------------------------
(* Types.                                                                  *)
LEMMA TypesStep ==
    ASSUME Types, [Next]_vars
    PROVE  Types'
<1>1. CASE Start
  BY <1>1 DEF Start, StartBoot, Types, SettingsTypeOK, RuntimeTypeOK,
     RequestStep, Writing, ServerStep, SupStep, TransfersStep, SessionStep,
     settingsVars, identityVars, runtimeVars, supervisor, session, names,
     requests
<1>2. CASE Boot
  BY <1>2 DEF Boot, Types, SettingsTypeOK, RuntimeTypeOK, RequestStep,
     Writing, ServerStep, SupStep, TransfersStep, SessionStep, settingsVars,
     identityVars, runtimeVars, supervisor, session, names, requests
<1>3. CASE LoadSettings
  <2>1. OnRecord \in Values
    BY OnRecordEffect DEF Types, SettingsTypeOK
  <2>2. CASE Dies /\ file' \in {file, OnRecord} /\ torn' = FALSE
    BY <2>1, <2>2, DefaultsTyped DEF Dies, ProcessGone, Types, SettingsTypeOK,
       RuntimeTypeOK, RequestStep, ServerStep, SupStep, TransfersStep, SessionStep
  <2>3. CASE /\ file' = OnRecord /\ values' = OnRecord /\ torn' = FALSE
             /\ server' = "naming"
             /\ UNCHANGED <<identityVars, changed, asked, build, supervisor,
                           transfers, session, names, requests>>
    BY <2>1, <2>3 DEF Types, SettingsTypeOK, RuntimeTypeOK, ServerStep,
       supervisor, session, names, requests
  <2> QED BY <1>3, <2>2, <2>3, LoadEffect
<1>4. CASE StartServing
  BY <1>4 DEF Values, StartServing, Compose, SupGoto, Types, SettingsTypeOK,
     RuntimeTypeOK, RequestStep, Writing, ServerStep, SupStep, TransfersStep,
     SessionStep, settingsVars, identityVars, runtimeVars, supervisor,
     session, names, requests
<1>5. CASE DefaultName
  <2>1. PICK new \in Values :
           \/ Dies /\ file' \in {file, new} /\ UNCHANGED torn
           \/ /\ file' = new /\ values' = new /\ changed' = TRUE
              /\ torn' = FALSE /\ Compose(HostName) /\ UNCHANGED asked
    BY <1>5, DefaultNameEffect
  <2>2. CASE Dies /\ file' \in {file, new} /\ UNCHANGED torn
    BY <2>2, DefaultsTyped DEF Dies, ProcessGone, Types, SettingsTypeOK,
       RuntimeTypeOK, RequestStep, ServerStep, SupStep, TransfersStep, SessionStep
  <2>3. CASE /\ file' = new /\ values' = new /\ changed' = TRUE
             /\ torn' = FALSE /\ Compose(HostName) /\ UNCHANGED asked
    BY <2>3, RuntimeAssumption DEF Compose, SupGoto, Types, SettingsTypeOK,
       RuntimeTypeOK, ServerStep, SupStep, supervisor, session, requests
  <2> QED BY <2>1, <2>2, <2>3
<1>6. CASE Stop
  BY <1>6 DEF Stop, Types, SettingsTypeOK, RuntimeTypeOK, RequestStep,
     Writing, ServerStep, SupStep, TransfersStep, SessionStep, settingsVars,
     identityVars, runtimeVars, supervisor, session, names, requests
<1>7. CASE Exit
  BY <1>7, DefaultsTyped DEF Exit, ProcessGone, Types, SettingsTypeOK,
     RuntimeTypeOK, RequestStep, Writing, ServerStep, SupStep, TransfersStep,
     SessionStep, settingsVars, identityVars, runtimeVars, supervisor,
     session, names, requests
<1>8. ASSUME NEW h \in Handlers, BeginAccept(h) PROVE Types'
  BY <1>8 DEF BeginAccept, Begin, ReqGoto, Types, SettingsTypeOK,
     RuntimeTypeOK, RequestStep, Writing, ServerStep, SupStep, TransfersStep,
     SessionStep, settingsVars, identityVars, runtimeVars, supervisor,
     session, names, requests
<1>9. ASSUME NEW h \in Handlers, PassGate(h) PROVE Types'
  BY <1>9 DEF PassGate, Begin, ReqGoto, Types, SettingsTypeOK, RuntimeTypeOK,
     RequestStep, Writing, ServerStep, SupStep, TransfersStep, SessionStep,
     settingsVars, identityVars, runtimeVars, supervisor, session, names,
     requests
<1>10. ASSUME NEW h \in Handlers, StoreStep(h) PROVE Types'
  <2>1. /\ UNCHANGED Unstored
        /\ \/ Refused(h)
           \/ \E new \in Values :
                 /\ Saved(h, new) \/ NotSaved(h, new)
                 /\ \/ asked' = asked /\ new.policy = values.policy
                    \/ asked' = asked \cup {build} /\ new.policy = build
    BY <1>10, StoreEffect
  <2>2. CASE Refused(h)
    BY <2>1, <2>2 DEF Refused, Unstored, Types, SettingsTypeOK, RuntimeTypeOK,
       RequestStep, settingsVars, supervisor, session, names
  <2>3. ASSUME NEW new \in Values, Saved(h, new) \/ NotSaved(h, new),
               asked' = asked \/ asked' = asked \cup {build}
        PROVE  Types'
    <3>1. new.name \in Names \cup {unset}
      BY DEF Values
    <3>2. req' \in [Handlers -> RequestStep]
      BY <2>3 DEF Saved, NotSaved, Types, RuntimeTypeOK, RequestStep, Writing
    <3>3. newName' \in [Handlers -> Names \cup {unset}]
      BY <2>3, <3>1 DEF Saved, NotSaved, Types, RuntimeTypeOK
    <3>4. SettingsTypeOK'
      BY <2>3 DEF Saved, NotSaved, Types, SettingsTypeOK, RuntimeTypeOK
    <3> QED
      BY <2>1, <3>2, <3>3, <3>4 DEF Unstored, Types, RuntimeTypeOK, supervisor,
         session, names
  <2> QED BY <2>1, <2>2, <2>3
<1>11. ASSUME NEW h \in Handlers, ReadName(h) PROVE Types'
  BY <1>11 DEF Values, ReadName, ReqGoto, Carry, Types, SettingsTypeOK,
     RuntimeTypeOK, RequestStep, Writing, ServerStep, SupStep, TransfersStep,
     SessionStep, settingsVars, identityVars, runtimeVars, supervisor,
     session, names, requests
<1>12. ASSUME NEW h \in Handlers, SetDisplayName(h) PROVE Types'
  BY <1>12 DEF SetDisplayName, ReqGoto, Types, SettingsTypeOK, RuntimeTypeOK,
     RequestStep, Writing, ServerStep, SupStep, TransfersStep, SessionStep,
     settingsVars, identityVars, runtimeVars, supervisor, session, names,
     requests
<1>13. ASSUME NEW h \in Handlers, Refresh(h) PROVE Types'
  BY <1>13 DEF Refresh, ReqGoto, Types, SettingsTypeOK, RuntimeTypeOK,
     RequestStep, Writing, ServerStep, SupStep, TransfersStep, SessionStep,
     settingsVars, identityVars, runtimeVars, supervisor, session, names,
     requests
<1>14. ASSUME NEW h \in Handlers, SetPeerName(h) PROVE Types'
  BY <1>14 DEF SetPeerName, ReqGoto, Carry, Types, SettingsTypeOK,
     RuntimeTypeOK, RequestStep, Writing, ServerStep, SupStep, TransfersStep,
     SessionStep, settingsVars, identityVars, runtimeVars, supervisor,
     session, names, requests
<1>15. ASSUME NEW h \in Handlers, ServePeer(h) PROVE Types'
  BY <1>15 DEF ServePeer, ReqGoto, Types, SettingsTypeOK, RuntimeTypeOK,
     RequestStep, Writing, ServerStep, SupStep, TransfersStep, SessionStep,
     settingsVars, identityVars, runtimeVars, supervisor, session, names,
     requests
<1>16. CASE GetValues
  BY <1>16 DEF Values, GetValues, SupFrame, SupGoto, Types, SettingsTypeOK,
     RuntimeTypeOK, RequestStep, Writing, ServerStep, SupStep, TransfersStep,
     SessionStep, settingsVars, identityVars, runtimeVars, supervisor,
     session, names, requests
<1>17. CASE GetAccepted
  BY <1>17 DEF PrivacyAccepted, GetAccepted, SupFrame, SupGoto, Types,
     SettingsTypeOK, RuntimeTypeOK, RequestStep, Writing, ServerStep, SupStep,
     TransfersStep, SessionStep, settingsVars, identityVars, runtimeVars,
     supervisor, session, names, requests
<1>18. CASE SwitchTransfers
  BY <1>18 DEF SwitchTransfers, SupFrame, SupGoto, Types, SettingsTypeOK,
     RuntimeTypeOK, RequestStep, Writing, ServerStep, SupStep, TransfersStep,
     SessionStep, settingsVars, identityVars, runtimeVars, supervisor,
     session, names, requests
<1>19. CASE SwitchDiscovery
  BY <1>19 DEF SwitchDiscovery, SupFrame, SupGoto, Types, SettingsTypeOK,
     RuntimeTypeOK, RequestStep, Writing, ServerStep, SupStep, TransfersStep,
     SessionStep, settingsVars, identityVars, runtimeVars, supervisor,
     session, names, requests
<1>20. CASE SelectDone
  BY <1>20 DEF SelectDone, SupFrame, SupGoto, Types, SettingsTypeOK,
     RuntimeTypeOK, RequestStep, Writing, ServerStep, SupStep, TransfersStep,
     SessionStep, settingsVars, identityVars, runtimeVars, supervisor,
     session, names, requests
<1>21. CASE SelectChanges
  <2>1. /\ changed' = FALSE /\ sup' = "get"
        /\ UNCHANGED <<file, values, torn, asked, discoverable, accepted,
                       transfers, session>> /\ SupFrame
    BY <1>21 DEF SelectChanges, SupGoto
  <2> QED
    BY <2>1 DEF SupFrame, Types, SettingsTypeOK, RuntimeTypeOK, SupStep, session,
       names, requests
<1>22. CASE SelectDiscoveryDone
  BY <1>22 DEF SelectDiscoveryDone, SupFrame, SupGoto, Types, SettingsTypeOK,
     RuntimeTypeOK, RequestStep, Writing, ServerStep, SupStep, TransfersStep,
     SessionStep, settingsVars, identityVars, runtimeVars, supervisor,
     session, names, requests
<1>23. CASE SelectTransfersDone
  BY <1>23 DEF SelectTransfersDone, SupFrame, SupGoto, Types, SettingsTypeOK,
     RuntimeTypeOK, RequestStep, Writing, ServerStep, SupStep, TransfersStep,
     SessionStep, settingsVars, identityVars, runtimeVars, supervisor,
     session, names, requests
<1>24. CASE Leave
  BY <1>24 DEF Leave, SupFrame, SupGoto, Types, SettingsTypeOK, RuntimeTypeOK,
     RequestStep, Writing, ServerStep, SupStep, TransfersStep, SessionStep,
     settingsVars, identityVars, runtimeVars, supervisor, session, names,
     requests
<1>25. CASE TransfersStopped
  BY <1>25 DEF TransfersStopped, SupFrame, SupGoto, Types, SettingsTypeOK,
     RuntimeTypeOK, RequestStep, Writing, ServerStep, SupStep, TransfersStep,
     SessionStep, settingsVars, identityVars, runtimeVars, supervisor,
     session, names, requests
<1>26. CASE DiscoveryStopped
  BY <1>26 DEF DiscoveryStopped, SupFrame, SupGoto, Types, SettingsTypeOK,
     RuntimeTypeOK, RequestStep, Writing, ServerStep, SupStep, TransfersStep,
     SessionStep, settingsVars, identityVars, runtimeVars, supervisor,
     session, names, requests
<1>27. CASE TransferRun
  BY <1>27 DEF TransferRun, Types, SettingsTypeOK, RuntimeTypeOK, RequestStep,
     Writing, ServerStep, SupStep, TransfersStep, SessionStep, settingsVars,
     identityVars, runtimeVars, supervisor, session, names, requests
<1>28. CASE Inspect
  BY <1>28 DEF Inspect, SessionFrame, SessionEnds, Types, SettingsTypeOK,
     RuntimeTypeOK, RequestStep, Writing, ServerStep, SupStep, TransfersStep,
     SessionStep, settingsVars, identityVars, runtimeVars, supervisor,
     session, names, requests
<1>29. CASE Advertise
  BY <1>29 DEF Advertise, SessionFrame, SessionEnds, Types, SettingsTypeOK,
     RuntimeTypeOK, RequestStep, Writing, ServerStep, SupStep, TransfersStep,
     SessionStep, settingsVars, identityVars, runtimeVars, supervisor,
     session, names, requests
<1>30. CASE SessionCancelled
  BY <1>30 DEF SessionCancelled, SessionFrame, SessionEnds, Types,
     SettingsTypeOK, RuntimeTypeOK, RequestStep, Writing, ServerStep, SupStep,
     TransfersStep, SessionStep, settingsVars, identityVars, runtimeVars,
     supervisor, session, names, requests
<1>31. CASE SessionRefreshed
  <2>1. /\ refresh' = FALSE /\ discovery' \in {"done", "inspect"}
        /\ advert' = unset /\ local' = unset /\ SessionFrame
    BY <1>31 DEF SessionRefreshed, SessionEnds
  <2> QED
    BY <2>1 DEF SessionFrame, Types, SettingsTypeOK, RuntimeTypeOK, SessionStep,
       settingsVars, supervisor, requests
<1>32. CASE SessionFails
  BY <1>32 DEF SessionFails, SessionFrame, SessionEnds, Types, SettingsTypeOK,
     RuntimeTypeOK, RequestStep, Writing, ServerStep, SupStep, TransfersStep,
     SessionStep, settingsVars, identityVars, runtimeVars, supervisor,
     session, names, requests
<1>33. CASE BackoffOver
  BY <1>33 DEF BackoffOver, SessionFrame, SessionEnds, Types, SettingsTypeOK,
     RuntimeTypeOK, RequestStep, Writing, ServerStep, SupStep, TransfersStep,
     SessionStep, settingsVars, identityVars, runtimeVars, supervisor,
     session, names, requests
<1>34. CASE UNCHANGED vars
  BY <1>34 DEF vars, Types, SettingsTypeOK, RuntimeTypeOK, RequestStep,
     Writing, ServerStep, SupStep, TransfersStep, SessionStep, settingsVars,
     identityVars, runtimeVars, supervisor, session, names, requests
<1> QED BY <1>1, <1>2, <1>3, <1>4, <1>5, <1>6, <1>7, <1>8, <1>9, <1>10, <1>11,
   <1>12, <1>13, <1>14, <1>15, <1>16, <1>17, <1>18, <1>19, <1>20, <1>21,
   <1>22, <1>23, <1>24, <1>25, <1>26, <1>27, <1>28, <1>29, <1>30, <1>31,
   <1>32, <1>33, <1>34, StepCases

-----------------------------------------------------------------------------
(* The conjuncts of RuntimeInv.                                            *)
LEMMA QuietStep ==
    ASSUME Types, QuietBefore, [Next]_vars
    PROVE  QuietBefore'
<1>1. CASE Start
  BY <1>1 DEF Start, StartBoot, QuietBefore, settingsVars, identityVars,
     runtimeVars, supervisor, session, names, requests
<1>2. CASE Boot
  BY <1>2 DEF LoadOrCreate, LoadMetadata, LoadPrivateKey, SavePrivateKey,
     CheckIdentity, SaveMetadata, Boot, QuietBefore, settingsVars,
     identityVars, runtimeVars, supervisor, session, names, requests
<1>3. CASE LoadSettings
  <2>1. CASE Dies
    BY <2>1 DEF Dies, ProcessGone, BootFails, QuietBefore
  <2>2. CASE /\ boot = "loaded" /\ server = "down"
             /\ file' = OnRecord /\ values' = OnRecord /\ torn' = FALSE
             /\ server' = "naming"
             /\ UNCHANGED <<identityVars, changed, asked, build, supervisor,
                           transfers, session, names, requests>>
    BY <2>2 DEF identityVars, supervisor, session, names, requests,
       QuietBefore
  <2> QED BY <1>3, <2>1, <2>2, LoadEffect
<1>4. CASE StartServing
  BY <1>4 DEF StartServing, Compose, SupGoto, QuietBefore, settingsVars,
     identityVars, runtimeVars, supervisor, session, names, requests
<1>5. CASE DefaultName
  BY <1>5, DefaultNameEffect DEF Dies, ProcessGone, BootFails, Compose,
     QuietBefore, settingsVars, identityVars, runtimeVars, supervisor,
     session, names, requests
<1>6. CASE Stop
  BY <1>6 DEF Stop, QuietBefore, settingsVars, identityVars, runtimeVars,
     supervisor, session, names, requests
<1>7. CASE Exit
  BY <1>7 DEF BootFails, Exit, ProcessGone, QuietBefore, settingsVars,
     identityVars, runtimeVars, supervisor, session, names, requests
<1>8. ASSUME NEW h \in Handlers, BeginAccept(h) PROVE QuietBefore'
  BY <1>8 DEF BeginAccept, Begin, ReqGoto, QuietBefore, settingsVars,
     identityVars, runtimeVars, supervisor, session, names, requests
<1>9. ASSUME NEW h \in Handlers, PassGate(h) PROVE QuietBefore'
  BY <1>9 DEF PassGate, Begin, ReqGoto, QuietBefore, settingsVars,
     identityVars, runtimeVars, supervisor, session, names, requests
<1>10. ASSUME NEW h \in Handlers, StoreStep(h) PROVE QuietBefore'
  BY <1>10, StoreEffect DEF Unstored, QuietBefore, settingsVars, identityVars,
     runtimeVars, supervisor, session, names, requests
<1>11. ASSUME NEW h \in Handlers, ReadName(h) PROVE QuietBefore'
  BY <1>11 DEF ReadName, ReqGoto, Carry, QuietBefore, settingsVars,
     identityVars, runtimeVars, supervisor, session, names, requests
<1>12. ASSUME NEW h \in Handlers, SetDisplayName(h) PROVE QuietBefore'
  BY <1>12 DEF SetDisplayName, ReqGoto, QuietBefore, settingsVars,
     identityVars, runtimeVars, supervisor, session, names, requests
<1>13. ASSUME NEW h \in Handlers, Refresh(h) PROVE QuietBefore'
  BY <1>13 DEF Refresh, ReqGoto, QuietBefore, settingsVars, identityVars,
     runtimeVars, supervisor, session, names, requests
<1>14. ASSUME NEW h \in Handlers, SetPeerName(h) PROVE QuietBefore'
  BY <1>14 DEF SetPeerName, ReqGoto, Carry, QuietBefore, settingsVars,
     identityVars, runtimeVars, supervisor, session, names, requests
<1>15. ASSUME NEW h \in Handlers, ServePeer(h) PROVE QuietBefore'
  BY <1>15 DEF ServePeer, ReqGoto, QuietBefore, settingsVars, identityVars,
     runtimeVars, supervisor, session, names, requests
<1>16. CASE GetValues
  BY <1>16 DEF GetValues, SupFrame, SupGoto, QuietBefore, settingsVars,
     identityVars, runtimeVars, supervisor, session, names, requests
<1>17. CASE GetAccepted
  BY <1>17 DEF GetAccepted, SupFrame, SupGoto, QuietBefore, settingsVars,
     identityVars, runtimeVars, supervisor, session, names, requests
<1>18. CASE SwitchTransfers
  BY <1>18 DEF SwitchTransfers, SupFrame, SupGoto, QuietBefore, settingsVars,
     identityVars, runtimeVars, supervisor, session, names, requests
<1>19. CASE SwitchDiscovery
  BY <1>19 DEF SwitchDiscovery, SupFrame, SupGoto, QuietBefore, settingsVars,
     identityVars, runtimeVars, supervisor, session, names, requests
<1>20. CASE SelectDone
  BY <1>20 DEF SelectDone, SupFrame, SupGoto, QuietBefore, settingsVars,
     identityVars, runtimeVars, supervisor, session, names, requests
<1>21. CASE SelectChanges
  BY <1>21 DEF SelectChanges, SupFrame, SupGoto, QuietBefore, settingsVars,
     identityVars, runtimeVars, supervisor, session, names, requests
<1>22. CASE SelectDiscoveryDone
  BY <1>22 DEF SelectDiscoveryDone, SupFrame, SupGoto, QuietBefore,
     settingsVars, identityVars, runtimeVars, supervisor, session, names,
     requests
<1>23. CASE SelectTransfersDone
  BY <1>23 DEF SelectTransfersDone, SupFrame, SupGoto, QuietBefore,
     settingsVars, identityVars, runtimeVars, supervisor, session, names,
     requests
<1>24. CASE Leave
  BY <1>24 DEF Leave, SupFrame, SupGoto, QuietBefore, settingsVars,
     identityVars, runtimeVars, supervisor, session, names, requests
<1>25. CASE TransfersStopped
  BY <1>25 DEF TransfersStopped, SupFrame, SupGoto, QuietBefore, settingsVars,
     identityVars, runtimeVars, supervisor, session, names, requests
<1>26. CASE DiscoveryStopped
  BY <1>26 DEF DiscoveryStopped, SupFrame, SupGoto, QuietBefore, settingsVars,
     identityVars, runtimeVars, supervisor, session, names, requests
<1>27. CASE TransferRun
  BY <1>27 DEF TransferRun, QuietBefore, settingsVars, identityVars,
     runtimeVars, supervisor, session, names, requests
<1>28. CASE Inspect
  BY <1>28 DEF Inspect, SessionFrame, SessionEnds, QuietBefore, settingsVars,
     identityVars, runtimeVars, supervisor, session, names, requests
<1>29. CASE Advertise
  BY <1>29 DEF Advertise, SessionFrame, SessionEnds, QuietBefore,
     settingsVars, identityVars, runtimeVars, supervisor, session, names,
     requests
<1>30. CASE SessionCancelled
  BY <1>30 DEF SessionCancelled, SessionFrame, SessionEnds, QuietBefore,
     settingsVars, identityVars, runtimeVars, supervisor, session, names,
     requests
<1>31. CASE SessionRefreshed
  BY <1>31 DEF SessionRefreshed, SessionFrame, SessionEnds, QuietBefore,
     settingsVars, identityVars, runtimeVars, supervisor, session, names,
     requests
<1>32. CASE SessionFails
  BY <1>32 DEF SessionFails, SessionFrame, SessionEnds, QuietBefore,
     settingsVars, identityVars, runtimeVars, supervisor, session, names,
     requests
<1>33. CASE BackoffOver
  BY <1>33 DEF BackoffOver, SessionFrame, SessionEnds, QuietBefore,
     settingsVars, identityVars, runtimeVars, supervisor, session, names,
     requests
<1>34. CASE UNCHANGED vars
  BY <1>34 DEF vars, QuietBefore, settingsVars, identityVars, runtimeVars,
     supervisor, session, names, requests
<1> QED BY <1>1, <1>2, <1>3, <1>4, <1>5, <1>6, <1>7, <1>8, <1>9, <1>10, <1>11,
   <1>12, <1>13, <1>14, <1>15, <1>16, <1>17, <1>18, <1>19, <1>20, <1>21,
   <1>22, <1>23, <1>24, <1>25, <1>26, <1>27, <1>28, <1>29, <1>30, <1>31,
   <1>32, <1>33, <1>34, StepCases

(* The services and the peer requests run only on an acceptance.            *)
LEMMA GateStep ==
    ASSUME Types, QuietBefore, GateInv, [Next]_vars
    PROVE  GateInv'
<1>1. CASE Start
  BY <1>1 DEF QuietBefore, Start, StartBoot, GateInv, PrivacyAccepted,
     settingsVars, identityVars, runtimeVars, supervisor, session, names,
     requests
<1>2. CASE Boot
  BY <1>2 DEF Boot, QuietBefore, GateInv, PrivacyAccepted, settingsVars,
     identityVars, runtimeVars, supervisor, session, names, requests
<1>3. CASE LoadSettings
  <2>1. CASE Dies
    BY <2>1 DEF Dies, ProcessGone, BootFails, GateInv
  <2>2. CASE /\ boot = "loaded" /\ server = "down"
             /\ file' = OnRecord /\ values' = OnRecord /\ torn' = FALSE
             /\ server' = "naming"
             /\ UNCHANGED <<identityVars, changed, asked, build, supervisor,
                           transfers, session, names, requests>>
    BY <2>2 DEF identityVars, supervisor, session, names, requests,
       QuietBefore, GateInv
  <2> QED BY <1>3, <2>1, <2>2, LoadEffect
<1>4. CASE StartServing
  BY <1>4 DEF StartServing, Compose, SupGoto, QuietBefore, GateInv,
     PrivacyAccepted, settingsVars, identityVars, runtimeVars, supervisor,
     session, names, requests
<1>5. CASE DefaultName
  <2>1. server = "naming"
    BY <1>5, DefaultNameEffect
  <2>2. PICK new \in Values :
           /\ new.policy = values.policy
           /\ \/ Dies /\ file' \in {file, new} /\ UNCHANGED torn
              \/ /\ file' = new /\ values' = new /\ changed' = TRUE
                 /\ torn' = FALSE /\ new.name = HostName
                 /\ Compose(HostName) /\ UNCHANGED asked
    BY <1>5, DefaultNameEffect
  <2>3. CASE Dies
    BY <2>3 DEF Dies, ProcessGone, GateInv
  <2>4. CASE /\ file' = new /\ values' = new /\ torn' = FALSE
             /\ new.name = HostName /\ Compose(HostName) /\ UNCHANGED asked
    BY <2>1, <2>2, <2>4 DEF Compose, SupGoto, supervisor, session, requests,
       QuietBefore, GateInv
  <2> QED BY <2>2, <2>3, <2>4
<1>6. CASE Stop
  BY <1>6 DEF Stop, QuietBefore, GateInv, PrivacyAccepted, settingsVars,
     identityVars, runtimeVars, supervisor, session, names, requests
<1>7. CASE Exit
  BY <1>7 DEF Exit, ProcessGone, QuietBefore, GateInv, PrivacyAccepted,
     settingsVars, identityVars, runtimeVars, supervisor, session, names,
     requests
<1>8. ASSUME NEW h \in Handlers, BeginAccept(h) PROVE GateInv'
  BY <1>8 DEF BeginAccept, Begin, ReqGoto, QuietBefore, GateInv,
     PrivacyAccepted, settingsVars, identityVars, runtimeVars, supervisor,
     session, names, requests
<1>9. ASSUME NEW h \in Handlers, PassGate(h) PROVE GateInv'
  BY <1>9 DEF PassGate, Begin, ReqGoto, QuietBefore, GateInv, PrivacyAccepted,
     settingsVars, identityVars, runtimeVars, supervisor, session, names,
     requests
<1>10. ASSUME NEW h \in Handlers, StoreStep(h) PROVE GateInv'
  <2>1. /\ req[h] \in {"update", "reset", "accept"}
        /\ UNCHANGED Unstored
        /\ \/ Refused(h)
           \/ \E new \in Values :
                 /\ Saved(h, new) \/ NotSaved(h, new)
                 /\ \/ asked' = asked /\ new.policy = values.policy
                    \/ asked' = asked \cup {build} /\ new.policy = build
    BY <1>10, StoreEffect
  <2>2. CASE Refused(h)
    BY <2>1, <2>2 DEF Refused, Unstored, settingsVars, supervisor, session,
       names, GateInv, PrivacyAccepted, Types, RuntimeTypeOK
  <2>3. ASSUME NEW new \in Values, Saved(h, new) \/ NotSaved(h, new),
               new.policy \in {values.policy, build}
        PROVE  GateInv'
    BY <2>1, <2>3 DEF Saved, NotSaved, Unstored, supervisor, session, names,
       GateInv, PrivacyAccepted, Types, RuntimeTypeOK
  <2> QED BY <2>1, <2>2, <2>3
<1>11. ASSUME NEW h \in Handlers, ReadName(h) PROVE GateInv'
  BY <1>11 DEF ReadName, ReqGoto, Carry, QuietBefore, GateInv,
     PrivacyAccepted, settingsVars, identityVars, runtimeVars, supervisor,
     session, names, requests
<1>12. ASSUME NEW h \in Handlers, SetDisplayName(h) PROVE GateInv'
  BY <1>12 DEF Types, RuntimeTypeOK, SetDisplayName, ReqGoto, QuietBefore,
     GateInv, PrivacyAccepted, settingsVars, identityVars, runtimeVars,
     supervisor, session, names, requests
<1>13. ASSUME NEW h \in Handlers, Refresh(h) PROVE GateInv'
  BY <1>13 DEF Refresh, ReqGoto, QuietBefore, GateInv, PrivacyAccepted,
     settingsVars, identityVars, runtimeVars, supervisor, session, names,
     requests
<1>14. ASSUME NEW h \in Handlers, SetPeerName(h) PROVE GateInv'
  BY <1>14 DEF SetPeerName, ReqGoto, Carry, QuietBefore, GateInv,
     PrivacyAccepted, settingsVars, identityVars, runtimeVars, supervisor,
     session, names, requests
<1>15. ASSUME NEW h \in Handlers, ServePeer(h) PROVE GateInv'
  BY <1>15 DEF ServePeer, ReqGoto, QuietBefore, GateInv, PrivacyAccepted,
     settingsVars, identityVars, runtimeVars, supervisor, session, names,
     requests
<1>16. CASE GetValues
  BY <1>16 DEF GetValues, SupFrame, SupGoto, QuietBefore, GateInv,
     PrivacyAccepted, settingsVars, identityVars, runtimeVars, supervisor,
     session, names, requests
<1>17. CASE GetAccepted
  BY <1>17 DEF GetAccepted, SupFrame, SupGoto, QuietBefore, GateInv,
     PrivacyAccepted, settingsVars, identityVars, runtimeVars, supervisor,
     session, names, requests
<1>18. CASE SwitchTransfers
  BY <1>18 DEF SwitchTransfers, SupFrame, SupGoto, QuietBefore, GateInv,
     PrivacyAccepted, settingsVars, identityVars, runtimeVars, supervisor,
     session, names, requests
<1>19. CASE SwitchDiscovery
  BY <1>19 DEF SwitchDiscovery, SupFrame, SupGoto, QuietBefore, GateInv,
     PrivacyAccepted, settingsVars, identityVars, runtimeVars, supervisor,
     session, names, requests
<1>20. CASE SelectDone
  BY <1>20 DEF SelectDone, SupFrame, SupGoto, QuietBefore, GateInv,
     PrivacyAccepted, settingsVars, identityVars, runtimeVars, supervisor,
     session, names, requests
<1>21. CASE SelectChanges
  BY <1>21 DEF SelectChanges, SupFrame, SupGoto, QuietBefore, GateInv,
     PrivacyAccepted, settingsVars, identityVars, runtimeVars, supervisor,
     session, names, requests
<1>22. CASE SelectDiscoveryDone
  BY <1>22 DEF SelectDiscoveryDone, SupFrame, SupGoto, QuietBefore, GateInv,
     PrivacyAccepted, settingsVars, identityVars, runtimeVars, supervisor,
     session, names, requests
<1>23. CASE SelectTransfersDone
  BY <1>23 DEF SelectTransfersDone, SupFrame, SupGoto, QuietBefore, GateInv,
     PrivacyAccepted, settingsVars, identityVars, runtimeVars, supervisor,
     session, names, requests
<1>24. CASE Leave
  BY <1>24 DEF Leave, SupFrame, SupGoto, QuietBefore, GateInv,
     PrivacyAccepted, settingsVars, identityVars, runtimeVars, supervisor,
     session, names, requests
<1>25. CASE TransfersStopped
  BY <1>25 DEF TransfersStopped, SupFrame, SupGoto, QuietBefore, GateInv,
     PrivacyAccepted, settingsVars, identityVars, runtimeVars, supervisor,
     session, names, requests
<1>26. CASE DiscoveryStopped
  BY <1>26 DEF DiscoveryStopped, SupFrame, SupGoto, QuietBefore, GateInv,
     PrivacyAccepted, settingsVars, identityVars, runtimeVars, supervisor,
     session, names, requests
<1>27. CASE TransferRun
  BY <1>27 DEF TransferRun, QuietBefore, GateInv, PrivacyAccepted,
     settingsVars, identityVars, runtimeVars, supervisor, session, names,
     requests
<1>28. CASE Inspect
  BY <1>28 DEF Inspect, SessionFrame, SessionEnds, QuietBefore, GateInv,
     PrivacyAccepted, settingsVars, identityVars, runtimeVars, supervisor,
     session, names, requests
<1>29. CASE Advertise
  BY <1>29 DEF Advertise, SessionFrame, SessionEnds, QuietBefore, GateInv,
     PrivacyAccepted, settingsVars, identityVars, runtimeVars, supervisor,
     session, names, requests
<1>30. CASE SessionCancelled
  BY <1>30 DEF SessionCancelled, SessionFrame, SessionEnds, QuietBefore,
     GateInv, PrivacyAccepted, settingsVars, identityVars, runtimeVars,
     supervisor, session, names, requests
<1>31. CASE SessionRefreshed
  BY <1>31 DEF SessionRefreshed, SessionFrame, SessionEnds, QuietBefore,
     GateInv, PrivacyAccepted, settingsVars, identityVars, runtimeVars,
     supervisor, session, names, requests
<1>32. CASE SessionFails
  BY <1>32 DEF SessionFails, SessionFrame, SessionEnds, QuietBefore, GateInv,
     PrivacyAccepted, settingsVars, identityVars, runtimeVars, supervisor,
     session, names, requests
<1>33. CASE BackoffOver
  BY <1>33 DEF BackoffOver, SessionFrame, SessionEnds, QuietBefore, GateInv,
     PrivacyAccepted, settingsVars, identityVars, runtimeVars, supervisor,
     session, names, requests
<1>34. CASE UNCHANGED vars
  BY <1>34 DEF vars, QuietBefore, GateInv, PrivacyAccepted, settingsVars,
     identityVars, runtimeVars, supervisor, session, names, requests
<1> QED BY <1>1, <1>2, <1>3, <1>4, <1>5, <1>6, <1>7, <1>8, <1>9, <1>10, <1>11,
   <1>12, <1>13, <1>14, <1>15, <1>16, <1>17, <1>18, <1>19, <1>20, <1>21,
   <1>22, <1>23, <1>24, <1>25, <1>26, <1>27, <1>28, <1>29, <1>30, <1>31,
   <1>32, <1>33, <1>34, StepCases

(* At each step of superviseRuntime what it has read and done agrees with   *)
(* the settings, unless a change is unattended.                             *)
LEMMA TurnStep ==
    ASSUME Types, QuietBefore, GateInv, TurnInv, [Next]_vars
    PROVE  TurnInv'
<1>1. CASE Start
  BY <1>1 DEF QuietBefore, Start, StartBoot, TurnInv, PrivacyAccepted,
     settingsVars, identityVars, runtimeVars, supervisor, session, names,
     requests
<1>2. CASE Boot
  BY <1>2 DEF Boot, TurnInv, PrivacyAccepted, settingsVars, identityVars,
     runtimeVars, supervisor, session, names, requests
<1>3. CASE LoadSettings
  <2>1. CASE Dies
    BY <2>1 DEF Dies, ProcessGone, BootFails, TurnInv
  <2>2. CASE /\ boot = "loaded" /\ server = "down"
             /\ file' = OnRecord /\ values' = OnRecord /\ torn' = FALSE
             /\ server' = "naming"
             /\ UNCHANGED <<identityVars, changed, asked, build, supervisor,
                           transfers, session, names, requests>>
    BY <2>2 DEF identityVars, supervisor, session, names, requests,
       QuietBefore, TurnInv
  <2> QED BY <1>3, <2>1, <2>2, LoadEffect
<1>4. CASE StartServing
  BY <1>4 DEF StartServing, Compose, SupGoto, TurnInv, PrivacyAccepted,
     settingsVars, identityVars, runtimeVars, supervisor, session, names,
     requests
<1>5. CASE DefaultName
  <2>1. server = "naming"
    BY <1>5, DefaultNameEffect
  <2>2. PICK new \in Values :
           /\ new.policy = values.policy
           /\ \/ Dies /\ file' \in {file, new} /\ UNCHANGED torn
              \/ /\ file' = new /\ values' = new /\ changed' = TRUE
                 /\ torn' = FALSE /\ new.name = HostName
                 /\ Compose(HostName) /\ UNCHANGED asked
    BY <1>5, DefaultNameEffect
  <2>3. CASE Dies
    BY <2>3 DEF Dies, ProcessGone, TurnInv
  <2>4. CASE /\ file' = new /\ values' = new /\ torn' = FALSE
             /\ new.name = HostName /\ Compose(HostName) /\ UNCHANGED asked
    BY <2>1, <2>2, <2>4 DEF Compose, SupGoto, supervisor, session, requests,
       QuietBefore, TurnInv
  <2> QED BY <2>2, <2>3, <2>4
<1>6. CASE Stop
  BY <1>6 DEF Stop, TurnInv, PrivacyAccepted, settingsVars, identityVars,
     runtimeVars, supervisor, session, names, requests
<1>7. CASE Exit
  BY <1>7 DEF Exit, ProcessGone, TurnInv, PrivacyAccepted, settingsVars,
     identityVars, runtimeVars, supervisor, session, names, requests
<1>8. ASSUME NEW h \in Handlers, BeginAccept(h) PROVE TurnInv'
  BY <1>8 DEF BeginAccept, Begin, ReqGoto, TurnInv, PrivacyAccepted,
     settingsVars, identityVars, runtimeVars, supervisor, session, names,
     requests
<1>9. ASSUME NEW h \in Handlers, PassGate(h) PROVE TurnInv'
  BY <1>9 DEF PassGate, Begin, ReqGoto, TurnInv, PrivacyAccepted,
     settingsVars, identityVars, runtimeVars, supervisor, session, names,
     requests
<1>10. ASSUME NEW h \in Handlers, StoreStep(h) PROVE TurnInv'
  <2>1. /\ req[h] \in {"update", "reset", "accept"}
        /\ UNCHANGED Unstored
        /\ \/ Refused(h)
           \/ \E new \in Values :
                 /\ Saved(h, new) \/ NotSaved(h, new)
                 /\ \/ asked' = asked /\ new.policy = values.policy
                    \/ asked' = asked \cup {build} /\ new.policy = build
    BY <1>10, StoreEffect
  <2>2. CASE Refused(h)
    BY <2>1, <2>2 DEF Refused, Unstored, settingsVars, supervisor, session,
       names, TurnInv, PrivacyAccepted
  <2>3. ASSUME NEW new \in Values, Saved(h, new) \/ NotSaved(h, new),
               new.policy \in {values.policy, build}
        PROVE  TurnInv'
    BY <2>1, <2>3 DEF Saved, NotSaved, Unstored, supervisor, session, names,
       TurnInv, PrivacyAccepted
  <2> QED BY <2>1, <2>2, <2>3
<1>11. ASSUME NEW h \in Handlers, ReadName(h) PROVE TurnInv'
  BY <1>11 DEF ReadName, ReqGoto, Carry, TurnInv, PrivacyAccepted,
     settingsVars, identityVars, runtimeVars, supervisor, session, names,
     requests
<1>12. ASSUME NEW h \in Handlers, SetDisplayName(h) PROVE TurnInv'
  BY <1>12 DEF SetDisplayName, ReqGoto, TurnInv, PrivacyAccepted,
     settingsVars, identityVars, runtimeVars, supervisor, session, names,
     requests
<1>13. ASSUME NEW h \in Handlers, Refresh(h) PROVE TurnInv'
  BY <1>13 DEF Refresh, ReqGoto, TurnInv, PrivacyAccepted, settingsVars,
     identityVars, runtimeVars, supervisor, session, names, requests
<1>14. ASSUME NEW h \in Handlers, SetPeerName(h) PROVE TurnInv'
  BY <1>14 DEF SetPeerName, ReqGoto, Carry, TurnInv, PrivacyAccepted,
     settingsVars, identityVars, runtimeVars, supervisor, session, names,
     requests
<1>15. ASSUME NEW h \in Handlers, ServePeer(h) PROVE TurnInv'
  BY <1>15 DEF ServePeer, ReqGoto, TurnInv, PrivacyAccepted, settingsVars,
     identityVars, runtimeVars, supervisor, session, names, requests
<1>16. CASE GetValues
  BY <1>16 DEF GetValues, SupFrame, SupGoto, TurnInv, PrivacyAccepted,
     settingsVars, identityVars, runtimeVars, supervisor, session, names,
     requests
<1>17. CASE GetAccepted
  BY <1>17 DEF GetAccepted, SupFrame, SupGoto, TurnInv, PrivacyAccepted,
     settingsVars, identityVars, runtimeVars, supervisor, session, names,
     requests
<1>18. CASE SwitchTransfers
  BY <1>18 DEF Types, RuntimeTypeOK, SwitchTransfers, SupFrame, SupGoto,
     TurnInv, PrivacyAccepted, settingsVars, identityVars, runtimeVars,
     supervisor, session, names, requests
<1>19. CASE SwitchDiscovery
  BY <1>19 DEF SwitchDiscovery, SupFrame, SupGoto, TurnInv, PrivacyAccepted,
     settingsVars, identityVars, runtimeVars, supervisor, session, names,
     requests
<1>20. CASE SelectDone
  BY <1>20 DEF SelectDone, SupFrame, SupGoto, TurnInv, PrivacyAccepted,
     settingsVars, identityVars, runtimeVars, supervisor, session, names,
     requests
<1>21. CASE SelectChanges
  BY <1>21 DEF SelectChanges, SupFrame, SupGoto, TurnInv, PrivacyAccepted,
     settingsVars, identityVars, runtimeVars, supervisor, session, names,
     requests
<1>22. CASE SelectDiscoveryDone
  BY <1>22 DEF SelectDiscoveryDone, SupFrame, SupGoto, TurnInv,
     PrivacyAccepted, settingsVars, identityVars, runtimeVars, supervisor,
     session, names, requests
<1>23. CASE SelectTransfersDone
  BY <1>23 DEF SelectTransfersDone, SupFrame, SupGoto, TurnInv,
     PrivacyAccepted, settingsVars, identityVars, runtimeVars, supervisor,
     session, names, requests
<1>24. CASE Leave
  BY <1>24 DEF Leave, SupFrame, SupGoto, TurnInv, PrivacyAccepted,
     settingsVars, identityVars, runtimeVars, supervisor, session, names,
     requests
<1>25. CASE TransfersStopped
  BY <1>25 DEF Types, RuntimeTypeOK, TransfersStopped, SupFrame, SupGoto,
     TurnInv, PrivacyAccepted, settingsVars, identityVars, runtimeVars,
     supervisor, session, names, requests
<1>26. CASE DiscoveryStopped
  BY <1>26 DEF DiscoveryStopped, SupFrame, SupGoto, TurnInv, PrivacyAccepted,
     settingsVars, identityVars, runtimeVars, supervisor, session, names,
     requests
<1>27. CASE TransferRun
  BY <1>27 DEF TransferRun, TurnInv, PrivacyAccepted, settingsVars,
     identityVars, runtimeVars, supervisor, session, names, requests
<1>28. CASE Inspect
  BY <1>28 DEF Inspect, SessionFrame, SessionEnds, TurnInv, PrivacyAccepted,
     settingsVars, identityVars, runtimeVars, supervisor, session, names,
     requests
<1>29. CASE Advertise
  BY <1>29 DEF Advertise, SessionFrame, SessionEnds, TurnInv, PrivacyAccepted,
     settingsVars, identityVars, runtimeVars, supervisor, session, names,
     requests
<1>30. CASE SessionCancelled
  BY <1>30 DEF SessionCancelled, SessionFrame, SessionEnds, TurnInv,
     PrivacyAccepted, settingsVars, identityVars, runtimeVars, supervisor,
     session, names, requests
<1>31. CASE SessionRefreshed
  BY <1>31 DEF SessionRefreshed, SessionFrame, SessionEnds, TurnInv,
     PrivacyAccepted, settingsVars, identityVars, runtimeVars, supervisor,
     session, names, requests
<1>32. CASE SessionFails
  BY <1>32 DEF SessionFails, SessionFrame, SessionEnds, TurnInv,
     PrivacyAccepted, settingsVars, identityVars, runtimeVars, supervisor,
     session, names, requests
<1>33. CASE BackoffOver
  BY <1>33 DEF BackoffOver, SessionFrame, SessionEnds, TurnInv,
     PrivacyAccepted, settingsVars, identityVars, runtimeVars, supervisor,
     session, names, requests
<1>34. CASE UNCHANGED vars
  BY <1>34 DEF vars, TurnInv, PrivacyAccepted, settingsVars, identityVars,
     runtimeVars, supervisor, session, names, requests
<1> QED BY <1>1, <1>2, <1>3, <1>4, <1>5, <1>6, <1>7, <1>8, <1>9, <1>10, <1>11,
   <1>12, <1>13, <1>14, <1>15, <1>16, <1>17, <1>18, <1>19, <1>20, <1>21,
   <1>22, <1>23, <1>24, <1>25, <1>26, <1>27, <1>28, <1>29, <1>30, <1>31,
   <1>32, <1>33, <1>34, StepCases

(* A name that is announced and no longer the device's is about to be       *)
(* renewed.                                                                 *)
LEMMA LocalStep ==
    ASSUME Types, QuietBefore, LocalInv, [Next]_vars
    PROVE  LocalInv'
<1>1. CASE Start
  BY <1>1 DEF Start, StartBoot, LocalInv, settingsVars, identityVars,
     runtimeVars, supervisor, session, names, requests
<1>2. CASE Boot
  BY <1>2 DEF Boot, LocalInv, settingsVars, identityVars, runtimeVars,
     supervisor, session, names, requests
<1>3. CASE LoadSettings
  <2>1. CASE Dies
    BY <2>1 DEF Dies, ProcessGone, BootFails, LocalInv
  <2>2. CASE /\ boot = "loaded" /\ server = "down"
             /\ file' = OnRecord /\ values' = OnRecord /\ torn' = FALSE
             /\ server' = "naming"
             /\ UNCHANGED <<identityVars, changed, asked, build, supervisor,
                           transfers, session, names, requests>>
    BY <2>2 DEF identityVars, supervisor, session, names, requests,
       QuietBefore, LocalInv
  <2> QED BY <1>3, <2>1, <2>2, LoadEffect
<1>4. CASE StartServing
  BY <1>4 DEF QuietBefore, StartServing, Compose, SupGoto, LocalInv,
     settingsVars, identityVars, runtimeVars, supervisor, session, names,
     requests
<1>5. CASE DefaultName
  <2>1. server = "naming"
    BY <1>5, DefaultNameEffect
  <2>2. PICK new \in Values :
           /\ new.policy = values.policy
           /\ \/ Dies /\ file' \in {file, new} /\ UNCHANGED torn
              \/ /\ file' = new /\ values' = new /\ changed' = TRUE
                 /\ torn' = FALSE /\ new.name = HostName
                 /\ Compose(HostName) /\ UNCHANGED asked
    BY <1>5, DefaultNameEffect
  <2>3. CASE Dies
    BY <2>3 DEF Dies, ProcessGone, LocalInv
  <2>4. CASE /\ file' = new /\ values' = new /\ torn' = FALSE
             /\ new.name = HostName /\ Compose(HostName) /\ UNCHANGED asked
    BY <2>1, <2>2, <2>4 DEF Compose, SupGoto, supervisor, session, requests,
       QuietBefore, LocalInv
  <2> QED BY <2>2, <2>3, <2>4
<1>6. CASE Stop
  BY <1>6 DEF Stop, LocalInv, settingsVars, identityVars, runtimeVars,
     supervisor, session, names, requests
<1>7. CASE Exit
  BY <1>7 DEF Exit, ProcessGone, LocalInv, settingsVars, identityVars,
     runtimeVars, supervisor, session, names, requests
<1>8. ASSUME NEW h \in Handlers, BeginAccept(h) PROVE LocalInv'
  BY <1>8 DEF BeginAccept, Begin, ReqGoto, LocalInv, settingsVars,
     identityVars, runtimeVars, supervisor, session, names, requests
<1>9. ASSUME NEW h \in Handlers, PassGate(h) PROVE LocalInv'
  BY <1>9 DEF PassGate, Begin, ReqGoto, LocalInv, settingsVars, identityVars,
     runtimeVars, supervisor, session, names, requests
<1>10. ASSUME NEW h \in Handlers, StoreStep(h) PROVE LocalInv'
  <2>1. /\ req[h] \in {"update", "reset", "accept"}
        /\ UNCHANGED Unstored
        /\ \/ Refused(h)
           \/ \E new \in Values :
                 /\ Saved(h, new) \/ NotSaved(h, new)
                 /\ \/ asked' = asked /\ new.policy = values.policy
                    \/ asked' = asked \cup {build} /\ new.policy = build
    BY <1>10, StoreEffect
  <2>2. CASE Refused(h)
    BY <2>1, <2>2 DEF Refused, Unstored, settingsVars, supervisor, session,
       names, LocalInv, Types, RuntimeTypeOK
  <2>3. ASSUME NEW new \in Values, Saved(h, new) \/ NotSaved(h, new),
               new.policy \in {values.policy, build}
        PROVE  LocalInv'
    BY <2>1, <2>3 DEF Saved, NotSaved, Unstored, supervisor, session, names,
       LocalInv, Types, RuntimeTypeOK
  <2> QED BY <2>1, <2>2, <2>3
<1>11. ASSUME NEW h \in Handlers, ReadName(h) PROVE LocalInv'
  BY <1>11 DEF ReadName, ReqGoto, Carry, LocalInv, settingsVars, identityVars,
     runtimeVars, supervisor, session, names, requests
<1>12. ASSUME NEW h \in Handlers, SetDisplayName(h) PROVE LocalInv'
  BY <1>12 DEF Types, RuntimeTypeOK, SetDisplayName, ReqGoto, LocalInv,
     settingsVars, identityVars, runtimeVars, supervisor, session, names,
     requests
<1>13. ASSUME NEW h \in Handlers, Refresh(h) PROVE LocalInv'
  BY <1>13 DEF Refresh, ReqGoto, LocalInv, settingsVars, identityVars,
     runtimeVars, supervisor, session, names, requests
<1>14. ASSUME NEW h \in Handlers, SetPeerName(h) PROVE LocalInv'
  BY <1>14 DEF SetPeerName, ReqGoto, Carry, LocalInv, settingsVars,
     identityVars, runtimeVars, supervisor, session, names, requests
<1>15. ASSUME NEW h \in Handlers, ServePeer(h) PROVE LocalInv'
  BY <1>15 DEF ServePeer, ReqGoto, LocalInv, settingsVars, identityVars,
     runtimeVars, supervisor, session, names, requests
<1>16. CASE GetValues
  BY <1>16 DEF GetValues, SupFrame, SupGoto, LocalInv, settingsVars,
     identityVars, runtimeVars, supervisor, session, names, requests
<1>17. CASE GetAccepted
  BY <1>17 DEF GetAccepted, SupFrame, SupGoto, LocalInv, settingsVars,
     identityVars, runtimeVars, supervisor, session, names, requests
<1>18. CASE SwitchTransfers
  BY <1>18 DEF SwitchTransfers, SupFrame, SupGoto, LocalInv, settingsVars,
     identityVars, runtimeVars, supervisor, session, names, requests
<1>19. CASE SwitchDiscovery
  BY <1>19 DEF SwitchDiscovery, SupFrame, SupGoto, LocalInv, settingsVars,
     identityVars, runtimeVars, supervisor, session, names, requests
<1>20. CASE SelectDone
  BY <1>20 DEF SelectDone, SupFrame, SupGoto, LocalInv, settingsVars,
     identityVars, runtimeVars, supervisor, session, names, requests
<1>21. CASE SelectChanges
  BY <1>21 DEF SelectChanges, SupFrame, SupGoto, LocalInv, settingsVars,
     identityVars, runtimeVars, supervisor, session, names, requests
<1>22. CASE SelectDiscoveryDone
  BY <1>22 DEF SelectDiscoveryDone, SupFrame, SupGoto, LocalInv, settingsVars,
     identityVars, runtimeVars, supervisor, session, names, requests
<1>23. CASE SelectTransfersDone
  BY <1>23 DEF SelectTransfersDone, SupFrame, SupGoto, LocalInv, settingsVars,
     identityVars, runtimeVars, supervisor, session, names, requests
<1>24. CASE Leave
  BY <1>24 DEF Leave, SupFrame, SupGoto, LocalInv, settingsVars, identityVars,
     runtimeVars, supervisor, session, names, requests
<1>25. CASE TransfersStopped
  BY <1>25 DEF TransfersStopped, SupFrame, SupGoto, LocalInv, settingsVars,
     identityVars, runtimeVars, supervisor, session, names, requests
<1>26. CASE DiscoveryStopped
  BY <1>26 DEF DiscoveryStopped, SupFrame, SupGoto, LocalInv, settingsVars,
     identityVars, runtimeVars, supervisor, session, names, requests
<1>27. CASE TransferRun
  BY <1>27 DEF TransferRun, LocalInv, settingsVars, identityVars, runtimeVars,
     supervisor, session, names, requests
<1>28. CASE Inspect
  BY <1>28 DEF Inspect, SessionFrame, SessionEnds, LocalInv, settingsVars,
     identityVars, runtimeVars, supervisor, session, names, requests
<1>29. CASE Advertise
  BY <1>29 DEF Advertise, SessionFrame, SessionEnds, LocalInv, settingsVars,
     identityVars, runtimeVars, supervisor, session, names, requests
<1>30. CASE SessionCancelled
  BY <1>30 DEF SessionCancelled, SessionFrame, SessionEnds, LocalInv,
     settingsVars, identityVars, runtimeVars, supervisor, session, names,
     requests
<1>31. CASE SessionRefreshed
  BY <1>31 DEF SessionRefreshed, SessionFrame, SessionEnds, LocalInv,
     settingsVars, identityVars, runtimeVars, supervisor, session, names,
     requests
<1>32. CASE SessionFails
  BY <1>32 DEF SessionFails, SessionFrame, SessionEnds, LocalInv,
     settingsVars, identityVars, runtimeVars, supervisor, session, names,
     requests
<1>33. CASE BackoffOver
  BY <1>33 DEF BackoffOver, SessionFrame, SessionEnds, LocalInv, settingsVars,
     identityVars, runtimeVars, supervisor, session, names, requests
<1>34. CASE UNCHANGED vars
  BY <1>34 DEF vars, LocalInv, settingsVars, identityVars, runtimeVars,
     supervisor, session, names, requests
<1> QED BY <1>1, <1>2, <1>3, <1>4, <1>5, <1>6, <1>7, <1>8, <1>9, <1>10, <1>11,
   <1>12, <1>13, <1>14, <1>15, <1>16, <1>17, <1>18, <1>19, <1>20, <1>21,
   <1>22, <1>23, <1>24, <1>25, <1>26, <1>27, <1>28, <1>29, <1>30, <1>31,
   <1>32, <1>33, <1>34, StepCases

(* save writes the file before it assigns the settings.                     *)
LEMMA FileStep ==
    ASSUME Types, FileIsMemory, [Next]_vars
    PROVE  FileIsMemory'
<1>1. CASE Start
  BY <1>1 DEF Start, StartBoot, FileIsMemory, settingsVars, identityVars,
     runtimeVars, supervisor, session, names, requests
<1>2. CASE Boot
  BY <1>2 DEF Boot, FileIsMemory, settingsVars, identityVars, runtimeVars,
     supervisor, session, names, requests
<1>3. CASE LoadSettings
  <2>1. CASE Dies
    BY <2>1 DEF Dies, ProcessGone, BootFails, FileIsMemory
  <2>2. CASE /\ boot = "loaded" /\ server = "down"
             /\ file' = OnRecord /\ values' = OnRecord /\ torn' = FALSE
             /\ server' = "naming"
             /\ UNCHANGED <<identityVars, changed, asked, build, supervisor,
                           transfers, session, names, requests>>
    BY <2>2 DEF identityVars, supervisor, session, names, requests,
       FileIsMemory
  <2> QED BY <1>3, <2>1, <2>2, LoadEffect
<1>4. CASE StartServing
  BY <1>4 DEF StartServing, Compose, SupGoto, FileIsMemory, settingsVars,
     identityVars, runtimeVars, supervisor, session, names, requests
<1>5. CASE DefaultName
  <2>1. server = "naming"
    BY <1>5, DefaultNameEffect
  <2>2. PICK new \in Values :
           /\ new.policy = values.policy
           /\ \/ Dies /\ file' \in {file, new} /\ UNCHANGED torn
              \/ /\ file' = new /\ values' = new /\ changed' = TRUE
                 /\ torn' = FALSE /\ new.name = HostName
                 /\ Compose(HostName) /\ UNCHANGED asked
    BY <1>5, DefaultNameEffect
  <2>3. CASE Dies
    BY <2>3 DEF Dies, ProcessGone, FileIsMemory
  <2>4. CASE /\ file' = new /\ values' = new /\ torn' = FALSE
             /\ new.name = HostName /\ Compose(HostName) /\ UNCHANGED asked
    BY <2>1, <2>2, <2>4 DEF Compose, SupGoto, supervisor, session, requests,
       FileIsMemory
  <2> QED BY <2>2, <2>3, <2>4
<1>6. CASE Stop
  BY <1>6 DEF Stop, FileIsMemory, settingsVars, identityVars, runtimeVars,
     supervisor, session, names, requests
<1>7. CASE Exit
  BY <1>7 DEF Exit, ProcessGone, FileIsMemory, settingsVars, identityVars,
     runtimeVars, supervisor, session, names, requests
<1>8. ASSUME NEW h \in Handlers, BeginAccept(h) PROVE FileIsMemory'
  BY <1>8 DEF BeginAccept, Begin, ReqGoto, FileIsMemory, settingsVars,
     identityVars, runtimeVars, supervisor, session, names, requests
<1>9. ASSUME NEW h \in Handlers, PassGate(h) PROVE FileIsMemory'
  BY <1>9 DEF PassGate, Begin, ReqGoto, FileIsMemory, settingsVars,
     identityVars, runtimeVars, supervisor, session, names, requests
<1>10. ASSUME NEW h \in Handlers, StoreStep(h) PROVE FileIsMemory'
  <2>1. /\ req[h] \in {"update", "reset", "accept"}
        /\ UNCHANGED Unstored
        /\ \/ Refused(h)
           \/ \E new \in Values :
                 /\ Saved(h, new) \/ NotSaved(h, new)
                 /\ \/ asked' = asked /\ new.policy = values.policy
                    \/ asked' = asked \cup {build} /\ new.policy = build
    BY <1>10, StoreEffect
  <2>2. CASE Refused(h)
    BY <2>1, <2>2 DEF Refused, Unstored, settingsVars, supervisor, session,
       names, FileIsMemory
  <2>3. ASSUME NEW new \in Values, Saved(h, new) \/ NotSaved(h, new),
               new.policy \in {values.policy, build}
        PROVE  FileIsMemory'
    BY <2>1, <2>3 DEF Saved, NotSaved, Unstored, supervisor, session, names,
       FileIsMemory
  <2> QED BY <2>1, <2>2, <2>3
<1>11. ASSUME NEW h \in Handlers, ReadName(h) PROVE FileIsMemory'
  BY <1>11 DEF ReadName, ReqGoto, Carry, FileIsMemory, settingsVars,
     identityVars, runtimeVars, supervisor, session, names, requests
<1>12. ASSUME NEW h \in Handlers, SetDisplayName(h) PROVE FileIsMemory'
  BY <1>12 DEF SetDisplayName, ReqGoto, FileIsMemory, settingsVars,
     identityVars, runtimeVars, supervisor, session, names, requests
<1>13. ASSUME NEW h \in Handlers, Refresh(h) PROVE FileIsMemory'
  BY <1>13 DEF Refresh, ReqGoto, FileIsMemory, settingsVars, identityVars,
     runtimeVars, supervisor, session, names, requests
<1>14. ASSUME NEW h \in Handlers, SetPeerName(h) PROVE FileIsMemory'
  BY <1>14 DEF SetPeerName, ReqGoto, Carry, FileIsMemory, settingsVars,
     identityVars, runtimeVars, supervisor, session, names, requests
<1>15. ASSUME NEW h \in Handlers, ServePeer(h) PROVE FileIsMemory'
  BY <1>15 DEF ServePeer, ReqGoto, FileIsMemory, settingsVars, identityVars,
     runtimeVars, supervisor, session, names, requests
<1>16. CASE GetValues
  BY <1>16 DEF GetValues, SupFrame, SupGoto, FileIsMemory, settingsVars,
     identityVars, runtimeVars, supervisor, session, names, requests
<1>17. CASE GetAccepted
  BY <1>17 DEF GetAccepted, SupFrame, SupGoto, FileIsMemory, settingsVars,
     identityVars, runtimeVars, supervisor, session, names, requests
<1>18. CASE SwitchTransfers
  BY <1>18 DEF SwitchTransfers, SupFrame, SupGoto, FileIsMemory, settingsVars,
     identityVars, runtimeVars, supervisor, session, names, requests
<1>19. CASE SwitchDiscovery
  BY <1>19 DEF SwitchDiscovery, SupFrame, SupGoto, FileIsMemory, settingsVars,
     identityVars, runtimeVars, supervisor, session, names, requests
<1>20. CASE SelectDone
  BY <1>20 DEF SelectDone, SupFrame, SupGoto, FileIsMemory, settingsVars,
     identityVars, runtimeVars, supervisor, session, names, requests
<1>21. CASE SelectChanges
  BY <1>21 DEF SelectChanges, SupFrame, SupGoto, FileIsMemory, settingsVars,
     identityVars, runtimeVars, supervisor, session, names, requests
<1>22. CASE SelectDiscoveryDone
  BY <1>22 DEF SelectDiscoveryDone, SupFrame, SupGoto, FileIsMemory,
     settingsVars, identityVars, runtimeVars, supervisor, session, names,
     requests
<1>23. CASE SelectTransfersDone
  BY <1>23 DEF SelectTransfersDone, SupFrame, SupGoto, FileIsMemory,
     settingsVars, identityVars, runtimeVars, supervisor, session, names,
     requests
<1>24. CASE Leave
  BY <1>24 DEF Leave, SupFrame, SupGoto, FileIsMemory, settingsVars,
     identityVars, runtimeVars, supervisor, session, names, requests
<1>25. CASE TransfersStopped
  BY <1>25 DEF TransfersStopped, SupFrame, SupGoto, FileIsMemory,
     settingsVars, identityVars, runtimeVars, supervisor, session, names,
     requests
<1>26. CASE DiscoveryStopped
  BY <1>26 DEF DiscoveryStopped, SupFrame, SupGoto, FileIsMemory,
     settingsVars, identityVars, runtimeVars, supervisor, session, names,
     requests
<1>27. CASE TransferRun
  BY <1>27 DEF TransferRun, FileIsMemory, settingsVars, identityVars,
     runtimeVars, supervisor, session, names, requests
<1>28. CASE Inspect
  BY <1>28 DEF Inspect, SessionFrame, SessionEnds, FileIsMemory, settingsVars,
     identityVars, runtimeVars, supervisor, session, names, requests
<1>29. CASE Advertise
  BY <1>29 DEF Advertise, SessionFrame, SessionEnds, FileIsMemory,
     settingsVars, identityVars, runtimeVars, supervisor, session, names,
     requests
<1>30. CASE SessionCancelled
  BY <1>30 DEF SessionCancelled, SessionFrame, SessionEnds, FileIsMemory,
     settingsVars, identityVars, runtimeVars, supervisor, session, names,
     requests
<1>31. CASE SessionRefreshed
  BY <1>31 DEF SessionRefreshed, SessionFrame, SessionEnds, FileIsMemory,
     settingsVars, identityVars, runtimeVars, supervisor, session, names,
     requests
<1>32. CASE SessionFails
  BY <1>32 DEF SessionFails, SessionFrame, SessionEnds, FileIsMemory,
     settingsVars, identityVars, runtimeVars, supervisor, session, names,
     requests
<1>33. CASE BackoffOver
  BY <1>33 DEF BackoffOver, SessionFrame, SessionEnds, FileIsMemory,
     settingsVars, identityVars, runtimeVars, supervisor, session, names,
     requests
<1>34. CASE UNCHANGED vars
  BY <1>34 DEF vars, FileIsMemory, settingsVars, identityVars, runtimeVars,
     supervisor, session, names, requests
<1> QED BY <1>1, <1>2, <1>3, <1>4, <1>5, <1>6, <1>7, <1>8, <1>9, <1>10, <1>11,
   <1>12, <1>13, <1>14, <1>15, <1>16, <1>17, <1>18, <1>19, <1>20, <1>21,
   <1>22, <1>23, <1>24, <1>25, <1>26, <1>27, <1>28, <1>29, <1>30, <1>31,
   <1>32, <1>33, <1>34, StepCases

(* Only an explicit acceptance of this release changes the acceptance.      *)
LEMMA RecordStep ==
    ASSUME Types, QuietBefore, RecordInv, [Next]_vars
    PROVE  RecordInv'
<1>1. CASE Start
  BY <1>1 DEF QuietBefore, Start, StartBoot, RecordInv, settingsVars,
     identityVars, runtimeVars, supervisor, session, names, requests
<1>2. CASE Boot
  BY <1>2 DEF Boot, RecordInv, settingsVars, identityVars, runtimeVars,
     supervisor, session, names, requests
<1>3. CASE LoadSettings
  <2>1. OnRecord \in Values /\ OnRecord # unset
        /\ OnRecord.policy \in asked \cup {0}
    BY OnRecordEffect, SettingsAssumption DEF Types, SettingsTypeOK, RecordInv
  <2>2. CASE Dies /\ file' \in {file, OnRecord}
    BY <2>1, <2>2 DEF Dies, ProcessGone, RecordInv
  <2>3. CASE /\ file' = OnRecord /\ values' = OnRecord /\ asked' = asked
    BY <2>1, <2>3 DEF RecordInv
  <2> QED BY <1>3, <2>2, <2>3, LoadEffect
<1>4. CASE StartServing
  BY <1>4 DEF StartServing, Compose, SupGoto, RecordInv, settingsVars,
     identityVars, runtimeVars, supervisor, session, names, requests
<1>5. CASE DefaultName
  <2>1. server = "naming"
    BY <1>5, DefaultNameEffect
  <2>2. PICK new \in Values :
           /\ new.policy = values.policy
           /\ \/ Dies /\ file' \in {file, new}
              \/ file' = new /\ values' = new /\ UNCHANGED asked
    BY <1>5, DefaultNameEffect
  <2>3. new # unset
    BY SettingsAssumption
  <2> QED BY <2>1, <2>2, <2>3 DEF Dies, ProcessGone, RecordInv
<1>6. CASE Stop
  BY <1>6 DEF Stop, RecordInv, settingsVars, identityVars, runtimeVars,
     supervisor, session, names, requests
<1>7. CASE Exit
  BY <1>7 DEF Exit, ProcessGone, RecordInv, settingsVars, identityVars,
     runtimeVars, supervisor, session, names, requests
<1>8. ASSUME NEW h \in Handlers, BeginAccept(h) PROVE RecordInv'
  BY <1>8 DEF BeginAccept, Begin, ReqGoto, RecordInv, settingsVars,
     identityVars, runtimeVars, supervisor, session, names, requests
<1>9. ASSUME NEW h \in Handlers, PassGate(h) PROVE RecordInv'
  BY <1>9 DEF PassGate, Begin, ReqGoto, RecordInv, settingsVars, identityVars,
     runtimeVars, supervisor, session, names, requests
<1>10. ASSUME NEW h \in Handlers, StoreStep(h) PROVE RecordInv'
  <2>1. /\ UNCHANGED Unstored
        /\ \/ Refused(h)
           \/ \E new \in Values :
                 /\ Saved(h, new) \/ NotSaved(h, new)
                 /\ \/ asked' = asked /\ new.policy = values.policy
                    \/ asked' = asked \cup {build} /\ new.policy = build
    BY <1>10, StoreEffect
  <2>2. CASE Refused(h)
    BY <2>1, <2>2 DEF Refused, Unstored, settingsVars, RecordInv
  <2>3. ASSUME NEW new \in Values, Saved(h, new) \/ NotSaved(h, new),
               \/ asked' = asked /\ new.policy = values.policy
               \/ asked' = asked \cup {build} /\ new.policy = build
        PROVE  RecordInv'
    <3>1. server' = server /\ new # unset
      BY <2>1, SettingsAssumption DEF Unstored
    <3>2. server # "down"
      BY <1>10, QuietBefore, StoreEffect DEF QuietBefore
    <3>3. new.policy \in asked' \cup {0}
      BY <2>3, <3>2 DEF RecordInv
    <3> QED BY <2>3, <3>1, <3>2, <3>3 DEF Saved, NotSaved, RecordInv
  <2> QED BY <2>1, <2>2, <2>3
<1>11. ASSUME NEW h \in Handlers, ReadName(h) PROVE RecordInv'
  BY <1>11 DEF ReadName, ReqGoto, Carry, RecordInv, settingsVars,
     identityVars, runtimeVars, supervisor, session, names, requests
<1>12. ASSUME NEW h \in Handlers, SetDisplayName(h) PROVE RecordInv'
  BY <1>12 DEF SetDisplayName, ReqGoto, RecordInv, settingsVars, identityVars,
     runtimeVars, supervisor, session, names, requests
<1>13. ASSUME NEW h \in Handlers, Refresh(h) PROVE RecordInv'
  BY <1>13 DEF Refresh, ReqGoto, RecordInv, settingsVars, identityVars,
     runtimeVars, supervisor, session, names, requests
<1>14. ASSUME NEW h \in Handlers, SetPeerName(h) PROVE RecordInv'
  BY <1>14 DEF SetPeerName, ReqGoto, Carry, RecordInv, settingsVars,
     identityVars, runtimeVars, supervisor, session, names, requests
<1>15. ASSUME NEW h \in Handlers, ServePeer(h) PROVE RecordInv'
  BY <1>15 DEF ServePeer, ReqGoto, RecordInv, settingsVars, identityVars,
     runtimeVars, supervisor, session, names, requests
<1>16. CASE GetValues
  BY <1>16 DEF GetValues, SupFrame, SupGoto, RecordInv, settingsVars,
     identityVars, runtimeVars, supervisor, session, names, requests
<1>17. CASE GetAccepted
  BY <1>17 DEF GetAccepted, SupFrame, SupGoto, RecordInv, settingsVars,
     identityVars, runtimeVars, supervisor, session, names, requests
<1>18. CASE SwitchTransfers
  BY <1>18 DEF SwitchTransfers, SupFrame, SupGoto, RecordInv, settingsVars,
     identityVars, runtimeVars, supervisor, session, names, requests
<1>19. CASE SwitchDiscovery
  BY <1>19 DEF SwitchDiscovery, SupFrame, SupGoto, RecordInv, settingsVars,
     identityVars, runtimeVars, supervisor, session, names, requests
<1>20. CASE SelectDone
  BY <1>20 DEF SelectDone, SupFrame, SupGoto, RecordInv, settingsVars,
     identityVars, runtimeVars, supervisor, session, names, requests
<1>21. CASE SelectChanges
  BY <1>21 DEF SelectChanges, SupFrame, SupGoto, RecordInv, settingsVars,
     identityVars, runtimeVars, supervisor, session, names, requests
<1>22. CASE SelectDiscoveryDone
  BY <1>22 DEF SelectDiscoveryDone, SupFrame, SupGoto, RecordInv,
     settingsVars, identityVars, runtimeVars, supervisor, session, names,
     requests
<1>23. CASE SelectTransfersDone
  BY <1>23 DEF SelectTransfersDone, SupFrame, SupGoto, RecordInv,
     settingsVars, identityVars, runtimeVars, supervisor, session, names,
     requests
<1>24. CASE Leave
  BY <1>24 DEF Leave, SupFrame, SupGoto, RecordInv, settingsVars,
     identityVars, runtimeVars, supervisor, session, names, requests
<1>25. CASE TransfersStopped
  BY <1>25 DEF TransfersStopped, SupFrame, SupGoto, RecordInv, settingsVars,
     identityVars, runtimeVars, supervisor, session, names, requests
<1>26. CASE DiscoveryStopped
  BY <1>26 DEF DiscoveryStopped, SupFrame, SupGoto, RecordInv, settingsVars,
     identityVars, runtimeVars, supervisor, session, names, requests
<1>27. CASE TransferRun
  BY <1>27 DEF TransferRun, RecordInv, settingsVars, identityVars,
     runtimeVars, supervisor, session, names, requests
<1>28. CASE Inspect
  BY <1>28 DEF Inspect, SessionFrame, SessionEnds, RecordInv, settingsVars,
     identityVars, runtimeVars, supervisor, session, names, requests
<1>29. CASE Advertise
  BY <1>29 DEF Advertise, SessionFrame, SessionEnds, RecordInv, settingsVars,
     identityVars, runtimeVars, supervisor, session, names, requests
<1>30. CASE SessionCancelled
  BY <1>30 DEF SessionCancelled, SessionFrame, SessionEnds, RecordInv,
     settingsVars, identityVars, runtimeVars, supervisor, session, names,
     requests
<1>31. CASE SessionRefreshed
  BY <1>31 DEF SessionRefreshed, SessionFrame, SessionEnds, RecordInv,
     settingsVars, identityVars, runtimeVars, supervisor, session, names,
     requests
<1>32. CASE SessionFails
  BY <1>32 DEF SessionFails, SessionFrame, SessionEnds, RecordInv,
     settingsVars, identityVars, runtimeVars, supervisor, session, names,
     requests
<1>33. CASE BackoffOver
  BY <1>33 DEF BackoffOver, SessionFrame, SessionEnds, RecordInv,
     settingsVars, identityVars, runtimeVars, supervisor, session, names,
     requests
<1>34. CASE UNCHANGED vars
  BY <1>34 DEF vars, RecordInv, settingsVars, identityVars, runtimeVars,
     supervisor, session, names, requests
<1> QED BY <1>1, <1>2, <1>3, <1>4, <1>5, <1>6, <1>7, <1>8, <1>9, <1>10, <1>11,
   <1>12, <1>13, <1>14, <1>15, <1>16, <1>17, <1>18, <1>19, <1>20, <1>21,
   <1>22, <1>23, <1>24, <1>25, <1>26, <1>27, <1>28, <1>29, <1>30, <1>31,
   <1>32, <1>33, <1>34, StepCases

(* Each copy of the display name is the one saved, or a writer that will    *)
(* correct it is on its way.                                                *)
LEMMA NamesStep ==
    ASSUME Types, QuietBefore, NamesInv, [Next]_vars
    PROVE  NamesInv'
<1>1. CASE Start
  BY <1>1 DEF Start, StartBoot, NamesInv, Applying, Writing, settingsVars,
     identityVars, runtimeVars, supervisor, session, names, requests
<1>2. CASE Boot
  BY <1>2 DEF Boot, NamesInv, Applying, Writing, settingsVars, identityVars,
     runtimeVars, supervisor, session, names, requests
<1>3. CASE LoadSettings
  <2>1. CASE Dies
    BY <2>1 DEF Dies, ProcessGone, BootFails, NamesInv
  <2>2. CASE /\ boot = "loaded" /\ server = "down"
             /\ file' = OnRecord /\ values' = OnRecord /\ torn' = FALSE
             /\ server' = "naming"
             /\ UNCHANGED <<identityVars, changed, asked, build, supervisor,
                           transfers, session, names, requests>>
    BY <2>2 DEF identityVars, supervisor, session, names, requests,
       NamesInv
  <2> QED BY <1>3, <2>1, <2>2, LoadEffect
<1>4. CASE StartServing
  BY <1>4 DEF QuietBefore, StartServing, Compose, SupGoto, NamesInv, Applying,
     Writing, settingsVars, identityVars, runtimeVars, supervisor, session,
     names, requests
<1>5. CASE DefaultName
  <2>1. server = "naming"
    BY <1>5, DefaultNameEffect
  <2>2. PICK new \in Values :
           /\ new.policy = values.policy
           /\ \/ Dies /\ file' \in {file, new} /\ UNCHANGED torn
              \/ /\ file' = new /\ values' = new /\ changed' = TRUE
                 /\ torn' = FALSE /\ new.name = HostName
                 /\ Compose(HostName) /\ UNCHANGED asked
    BY <1>5, DefaultNameEffect
  <2>3. CASE Dies
    BY <2>3 DEF Dies, ProcessGone, NamesInv
  <2>4. CASE /\ file' = new /\ values' = new /\ torn' = FALSE
             /\ new.name = HostName /\ Compose(HostName) /\ UNCHANGED asked
    BY <2>1, <2>2, <2>4 DEF Compose, SupGoto, supervisor, session, requests,
       QuietBefore, NamesInv, Applying, Writing
  <2> QED BY <2>2, <2>3, <2>4
<1>6. CASE Stop
  BY <1>6 DEF Stop, NamesInv, Applying, Writing, settingsVars, identityVars,
     runtimeVars, supervisor, session, names, requests
<1>7. CASE Exit
  BY <1>7 DEF Exit, ProcessGone, NamesInv, Applying, Writing, settingsVars,
     identityVars, runtimeVars, supervisor, session, names, requests
<1>8. ASSUME NEW h \in Handlers, BeginAccept(h) PROVE NamesInv'
  BY <1>8 DEF Changing, Types, RuntimeTypeOK, BeginAccept, Begin, ReqGoto,
     NamesInv, Applying, Writing, settingsVars, identityVars, runtimeVars,
     supervisor, session, names, requests
<1>9. ASSUME NEW h \in Handlers, PassGate(h) PROVE NamesInv'
  <2>1. PICK step \in {"update", "readName", "peer"} : Begin(h, step)
    BY <1>9 DEF PassGate
  <2>2. /\ req' = [req EXCEPT ![h] = step] /\ req[h] = "idle"
        /\ overlapped' = (overlapped \/ (step \in Writing /\ Changing(h)))
        /\ UNCHANGED <<server, values, names, newName>>
    BY <2>1 DEF Begin, ReqGoto, settingsVars
  <2>3. CASE step = "peer"
    BY <2>2, <2>3 DEF names, NamesInv, Applying, Writing, Types, RuntimeTypeOK
  <2>4. CASE step # "peer"
    BY <2>1, <2>2, <2>4 DEF Changing, names, NamesInv, Applying, Writing, Types,
       RuntimeTypeOK
  <2> QED BY <2>3, <2>4
<1>10. ASSUME NEW h \in Handlers, StoreStep(h) PROVE NamesInv'
  <2>1. /\ req[h] \in {"update", "reset", "accept"}
        /\ UNCHANGED Unstored
        /\ \/ Refused(h)
           \/ \E new \in Values : Saved(h, new) \/ NotSaved(h, new)
    BY <1>10, StoreEffect
  <2>2. CASE Refused(h)
    BY <2>1, <2>2 DEF Refused, Unstored, settingsVars, names, NamesInv, Applying,
       Writing, Types, RuntimeTypeOK
  <2>3. ASSUME NEW new \in Values, NotSaved(h, new) PROVE NamesInv'
    BY <2>1, <2>3 DEF NotSaved, Unstored, names, NamesInv, Applying, Writing,
       Types, RuntimeTypeOK
  <2>4. ASSUME NEW new \in Values, Saved(h, new) PROVE NamesInv'
    BY <2>1, <2>4 DEF Saved, Unstored, names, NamesInv, Applying, Writing,
       Types, RuntimeTypeOK
  <2> QED BY <2>1, <2>2, <2>3, <2>4
<1>11. ASSUME NEW h \in Handlers, ReadName(h) PROVE NamesInv'
  BY <1>11 DEF Types, RuntimeTypeOK, ReadName, ReqGoto, Carry, NamesInv,
     Applying, Writing, settingsVars, identityVars, runtimeVars, supervisor,
     session, names, requests
<1>12. ASSUME NEW h \in Handlers, SetDisplayName(h) PROVE NamesInv'
  BY <1>12 DEF Types, RuntimeTypeOK, SetDisplayName, ReqGoto, NamesInv,
     Applying, Writing, settingsVars, identityVars, runtimeVars, supervisor,
     session, names, requests
<1>13. ASSUME NEW h \in Handlers, Refresh(h) PROVE NamesInv'
  BY <1>13 DEF Types, RuntimeTypeOK, Refresh, ReqGoto, NamesInv, Applying,
     Writing, settingsVars, identityVars, runtimeVars, supervisor, session,
     names, requests
<1>14. ASSUME NEW h \in Handlers, SetPeerName(h) PROVE NamesInv'
  BY <1>14 DEF Types, RuntimeTypeOK, SetPeerName, ReqGoto, Carry, NamesInv,
     Applying, Writing, settingsVars, identityVars, runtimeVars, supervisor,
     session, names, requests
<1>15. ASSUME NEW h \in Handlers, ServePeer(h) PROVE NamesInv'
  BY <1>15 DEF Types, RuntimeTypeOK, ServePeer, ReqGoto, NamesInv, Applying,
     Writing, settingsVars, identityVars, runtimeVars, supervisor, session,
     names, requests
<1>16. CASE GetValues
  BY <1>16 DEF GetValues, SupFrame, SupGoto, NamesInv, Applying, Writing,
     settingsVars, identityVars, runtimeVars, supervisor, session, names,
     requests
<1>17. CASE GetAccepted
  BY <1>17 DEF GetAccepted, SupFrame, SupGoto, NamesInv, Applying, Writing,
     settingsVars, identityVars, runtimeVars, supervisor, session, names,
     requests
<1>18. CASE SwitchTransfers
  BY <1>18 DEF SwitchTransfers, SupFrame, SupGoto, NamesInv, Applying,
     Writing, settingsVars, identityVars, runtimeVars, supervisor, session,
     names, requests
<1>19. CASE SwitchDiscovery
  BY <1>19 DEF SwitchDiscovery, SupFrame, SupGoto, NamesInv, Applying,
     Writing, settingsVars, identityVars, runtimeVars, supervisor, session,
     names, requests
<1>20. CASE SelectDone
  BY <1>20 DEF SelectDone, SupFrame, SupGoto, NamesInv, Applying, Writing,
     settingsVars, identityVars, runtimeVars, supervisor, session, names,
     requests
<1>21. CASE SelectChanges
  BY <1>21 DEF SelectChanges, SupFrame, SupGoto, NamesInv, Applying, Writing,
     settingsVars, identityVars, runtimeVars, supervisor, session, names,
     requests
<1>22. CASE SelectDiscoveryDone
  BY <1>22 DEF SelectDiscoveryDone, SupFrame, SupGoto, NamesInv, Applying,
     Writing, settingsVars, identityVars, runtimeVars, supervisor, session,
     names, requests
<1>23. CASE SelectTransfersDone
  BY <1>23 DEF SelectTransfersDone, SupFrame, SupGoto, NamesInv, Applying,
     Writing, settingsVars, identityVars, runtimeVars, supervisor, session,
     names, requests
<1>24. CASE Leave
  BY <1>24 DEF Leave, SupFrame, SupGoto, NamesInv, Applying, Writing,
     settingsVars, identityVars, runtimeVars, supervisor, session, names,
     requests
<1>25. CASE TransfersStopped
  BY <1>25 DEF TransfersStopped, SupFrame, SupGoto, NamesInv, Applying,
     Writing, settingsVars, identityVars, runtimeVars, supervisor, session,
     names, requests
<1>26. CASE DiscoveryStopped
  BY <1>26 DEF DiscoveryStopped, SupFrame, SupGoto, NamesInv, Applying,
     Writing, settingsVars, identityVars, runtimeVars, supervisor, session,
     names, requests
<1>27. CASE TransferRun
  BY <1>27 DEF TransferRun, NamesInv, Applying, Writing, settingsVars,
     identityVars, runtimeVars, supervisor, session, names, requests
<1>28. CASE Inspect
  BY <1>28 DEF Inspect, SessionFrame, SessionEnds, NamesInv, Applying,
     Writing, settingsVars, identityVars, runtimeVars, supervisor, session,
     names, requests
<1>29. CASE Advertise
  BY <1>29 DEF Advertise, SessionFrame, SessionEnds, NamesInv, Applying,
     Writing, settingsVars, identityVars, runtimeVars, supervisor, session,
     names, requests
<1>30. CASE SessionCancelled
  BY <1>30 DEF SessionCancelled, SessionFrame, SessionEnds, NamesInv,
     Applying, Writing, settingsVars, identityVars, runtimeVars, supervisor,
     session, names, requests
<1>31. CASE SessionRefreshed
  BY <1>31 DEF SessionRefreshed, SessionFrame, SessionEnds, NamesInv,
     Applying, Writing, settingsVars, identityVars, runtimeVars, supervisor,
     session, names, requests
<1>32. CASE SessionFails
  BY <1>32 DEF SessionFails, SessionFrame, SessionEnds, NamesInv, Applying,
     Writing, settingsVars, identityVars, runtimeVars, supervisor, session,
     names, requests
<1>33. CASE BackoffOver
  BY <1>33 DEF BackoffOver, SessionFrame, SessionEnds, NamesInv, Applying,
     Writing, settingsVars, identityVars, runtimeVars, supervisor, session,
     names, requests
<1>34. CASE UNCHANGED vars
  BY <1>34 DEF vars, NamesInv, Applying, Writing, settingsVars, identityVars,
     runtimeVars, supervisor, session, names, requests
<1> QED BY <1>1, <1>2, <1>3, <1>4, <1>5, <1>6, <1>7, <1>8, <1>9, <1>10, <1>11,
   <1>12, <1>13, <1>14, <1>15, <1>16, <1>17, <1>18, <1>19, <1>20, <1>21,
   <1>22, <1>23, <1>24, <1>25, <1>26, <1>27, <1>28, <1>29, <1>30, <1>31,
   <1>32, <1>33, <1>34, StepCases

(* A step of the process is a step of its start's LoadOrCreate, the loss of *)
(* the process, or none of Identity's.                                      *)
LEMMA IdentitySteps ==
    ASSUME [Next]_vars
    PROVE  [IdentityNext]_identityVars
<1>1. CASE Start
  BY <1>1 DEF Start, StartBoot, IdentityNext, settingsVars, identityVars,
     runtimeVars, supervisor, session, names, requests
<1>2. CASE Boot
  BY <1>2 DEF Boot, IdentityNext, settingsVars, identityVars, runtimeVars,
     supervisor, session, names, requests
<1>3. CASE LoadSettings
  BY <1>3 DEF LoadSettings, ProcessGone, IdentityNext, IdentityLost, identityVars,
     identityDisk
<1>4. CASE StartServing
  BY <1>4 DEF Compose, StartServing, Compose, SupGoto, IdentityNext,
     settingsVars, identityVars, runtimeVars, supervisor, session, names,
     requests
<1>5. CASE DefaultName
  BY <1>5 DEF DefaultName, Compose, ProcessGone, IdentityNext, IdentityLost,
     identityVars, identityDisk
<1>6. CASE Stop
  BY <1>6 DEF Stop, IdentityNext, settingsVars, identityVars, runtimeVars,
     supervisor, session, names, requests
<1>7. CASE Exit
  BY <1>7 DEF Exit, ProcessGone, IdentityNext, IdentityLost, identityVars,
     identityDisk
<1>8. ASSUME NEW h \in Handlers, BeginAccept(h) PROVE [IdentityNext]_identityVars
  BY <1>8 DEF BeginAccept, Begin, ReqGoto, IdentityNext, settingsVars,
     identityVars, runtimeVars, supervisor, session, names, requests
<1>9. ASSUME NEW h \in Handlers, PassGate(h) PROVE [IdentityNext]_identityVars
  BY <1>9 DEF PassGate, Begin, ReqGoto, IdentityNext, settingsVars,
     identityVars, runtimeVars, supervisor, session, names, requests
<1>10. ASSUME NEW h \in Handlers, StoreStep(h) PROVE [IdentityNext]_identityVars
  BY <1>10 DEF StoreStep, PutSettings, Reset, Accept, Stored, identityVars
<1>11. ASSUME NEW h \in Handlers, ReadName(h) PROVE [IdentityNext]_identityVars
  BY <1>11 DEF ReadName, ReqGoto, Carry, IdentityNext, settingsVars,
     identityVars, runtimeVars, supervisor, session, names, requests
<1>12. ASSUME NEW h \in Handlers, SetDisplayName(h) PROVE [IdentityNext]_identityVars
  BY <1>12 DEF SetDisplayName, ReqGoto, IdentityNext, settingsVars,
     identityVars, runtimeVars, supervisor, session, names, requests
<1>13. ASSUME NEW h \in Handlers, Refresh(h) PROVE [IdentityNext]_identityVars
  BY <1>13 DEF Refresh, ReqGoto, IdentityNext, settingsVars, identityVars,
     runtimeVars, supervisor, session, names, requests
<1>14. ASSUME NEW h \in Handlers, SetPeerName(h) PROVE [IdentityNext]_identityVars
  BY <1>14 DEF SetPeerName, ReqGoto, Carry, IdentityNext, settingsVars,
     identityVars, runtimeVars, supervisor, session, names, requests
<1>15. ASSUME NEW h \in Handlers, ServePeer(h) PROVE [IdentityNext]_identityVars
  BY <1>15 DEF ServePeer, ReqGoto, IdentityNext, settingsVars, identityVars,
     runtimeVars, supervisor, session, names, requests
<1>16. CASE GetValues
  BY <1>16 DEF GetValues, SupFrame, SupGoto, IdentityNext, settingsVars,
     identityVars, runtimeVars, supervisor, session, names, requests
<1>17. CASE GetAccepted
  BY <1>17 DEF GetAccepted, SupFrame, SupGoto, IdentityNext, settingsVars,
     identityVars, runtimeVars, supervisor, session, names, requests
<1>18. CASE SwitchTransfers
  BY <1>18 DEF SwitchTransfers, SupFrame, SupGoto, IdentityNext, settingsVars,
     identityVars, runtimeVars, supervisor, session, names, requests
<1>19. CASE SwitchDiscovery
  BY <1>19 DEF SwitchDiscovery, SupFrame, SupGoto, IdentityNext, settingsVars,
     identityVars, runtimeVars, supervisor, session, names, requests
<1>20. CASE SelectDone
  BY <1>20 DEF SelectDone, SupFrame, SupGoto, IdentityNext, settingsVars,
     identityVars, runtimeVars, supervisor, session, names, requests
<1>21. CASE SelectChanges
  BY <1>21 DEF SelectChanges, SupFrame, SupGoto, IdentityNext, settingsVars,
     identityVars, runtimeVars, supervisor, session, names, requests
<1>22. CASE SelectDiscoveryDone
  BY <1>22 DEF SelectDiscoveryDone, SupFrame, SupGoto, IdentityNext,
     settingsVars, identityVars, runtimeVars, supervisor, session, names,
     requests
<1>23. CASE SelectTransfersDone
  BY <1>23 DEF SelectTransfersDone, SupFrame, SupGoto, IdentityNext,
     settingsVars, identityVars, runtimeVars, supervisor, session, names,
     requests
<1>24. CASE Leave
  BY <1>24 DEF Leave, SupFrame, SupGoto, IdentityNext, settingsVars,
     identityVars, runtimeVars, supervisor, session, names, requests
<1>25. CASE TransfersStopped
  BY <1>25 DEF TransfersStopped, SupFrame, SupGoto, IdentityNext,
     settingsVars, identityVars, runtimeVars, supervisor, session, names,
     requests
<1>26. CASE DiscoveryStopped
  BY <1>26 DEF DiscoveryStopped, SupFrame, SupGoto, IdentityNext,
     settingsVars, identityVars, runtimeVars, supervisor, session, names,
     requests
<1>27. CASE TransferRun
  BY <1>27 DEF TransferRun, IdentityNext, settingsVars, identityVars,
     runtimeVars, supervisor, session, names, requests
<1>28. CASE Inspect
  BY <1>28 DEF Inspect, SessionFrame, SessionEnds, IdentityNext, settingsVars,
     identityVars, runtimeVars, supervisor, session, names, requests
<1>29. CASE Advertise
  BY <1>29 DEF Advertise, SessionFrame, SessionEnds, IdentityNext,
     settingsVars, identityVars, runtimeVars, supervisor, session, names,
     requests
<1>30. CASE SessionCancelled
  BY <1>30 DEF SessionCancelled, SessionFrame, SessionEnds, IdentityNext,
     settingsVars, identityVars, runtimeVars, supervisor, session, names,
     requests
<1>31. CASE SessionRefreshed
  BY <1>31 DEF SessionRefreshed, SessionFrame, SessionEnds, IdentityNext,
     settingsVars, identityVars, runtimeVars, supervisor, session, names,
     requests
<1>32. CASE SessionFails
  BY <1>32 DEF SessionFails, SessionFrame, SessionEnds, IdentityNext,
     settingsVars, identityVars, runtimeVars, supervisor, session, names,
     requests
<1>33. CASE BackoffOver
  BY <1>33 DEF BackoffOver, SessionFrame, SessionEnds, IdentityNext,
     settingsVars, identityVars, runtimeVars, supervisor, session, names,
     requests
<1>34. CASE UNCHANGED vars
  BY <1>34 DEF vars, IdentityNext, settingsVars, identityVars, runtimeVars,
     supervisor, session, names, requests
<1> QED BY <1>1, <1>2, <1>3, <1>4, <1>5, <1>6, <1>7, <1>8, <1>9, <1>10, <1>11,
   <1>12, <1>13, <1>14, <1>15, <1>16, <1>17, <1>18, <1>19, <1>20, <1>21,
   <1>22, <1>23, <1>24, <1>25, <1>26, <1>27, <1>28, <1>29, <1>30, <1>31,
   <1>32, <1>33, <1>34, StepCases

-----------------------------------------------------------------------------
(* The inductive invariant.                                                *)
LEMMA InitInv == Init => RuntimeInv
<1> SUFFICES ASSUME Init PROVE RuntimeInv
  OBVIOUS
<1>1. IInv
  BY IdentityInitInv DEF Init
<1>2. (CHOOSE n \in Names : TRUE) \in Names
  BY RuntimeAssumption
<1>3. /\ file \in Values \cup {unset}
      /\ file # unset => file.policy \in asked \cup {0}
      /\ asked \subseteq Policies
  <2> DEFINE old == [schema |-> 1, name |-> unset, discoverable |-> FALSE,
                     policy |-> 0]
             last == [schema |-> SchemaVersion,
                      name |-> CHOOSE n \in Names : TRUE,
                      discoverable |-> FALSE, policy |-> 1]
  <2>1. 1 \in 1..SchemaVersion /\ SchemaVersion \in 1..SchemaVersion
    BY DEF SchemaVersion
  <2>2. 0 \in 0..MaxPolicy /\ 1 \in 0..MaxPolicy
    BY SettingsAssumption
  <2>3. old \in Values /\ last \in Values /\ old.policy = 0 /\ last.policy = 1
    BY <1>2, <2>1, <2>2 DEF Values
  <2>4. file \in {unset, old, last}
        /\ asked = IF file # unset /\ file.policy = 1 THEN {1} ELSE {}
    BY DEF Init, SettingsInit
  <2>5. 1 \in Policies
    BY SettingsAssumption DEF Policies
  <2> HIDE DEF old, last
  <2> QED BY <2>3, <2>4, <2>5
<1>4. /\ values \in Values /\ changed = FALSE /\ torn = FALSE
      /\ server = "down" /\ boot = "off"
  BY DefaultsTyped DEF Init, SettingsInit, IdentityInit
<1>5. SettingsTypeOK
  BY <1>3, <1>4 DEF SettingsTypeOK
<1>6. build \in Policies
  BY SettingsAssumption DEF Init, Policies
<1>7. RuntimeTypeOK
  BY <1>6 DEF Init, RuntimeTypeOK, RequestStep, ServerStep, SupStep,
     TransfersStep, SessionStep
<1>8. QuietBefore /\ GateInv /\ TurnInv /\ LocalInv
  BY <1>4 DEF Init, QuietBefore, GateInv, TurnInv, LocalInv
<1>9. NamesInv /\ FileIsMemory /\ RecordInv
  BY <1>3, <1>4 DEF NamesInv, FileIsMemory, RecordInv
<1> QED
  BY <1>1, <1>5, <1>7, <1>8, <1>9 DEF RuntimeInv, TypeOK, IInv

(* The parts of RuntimeInv that the lemmas on steps use.                    *)
LEMMA InvParts == RuntimeInv <=> /\ IInv /\ Types /\ QuietBefore /\ GateInv
                                /\ TurnInv /\ LocalInv /\ NamesInv
                                /\ FileIsMemory /\ RecordInv
BY DEF RuntimeInv, TypeOK, IInv, Types

(* Every step of the process keeps the invariant.                           *)
LEMMA NextInv == RuntimeInv /\ [Next]_vars => RuntimeInv'
<1> SUFFICES ASSUME RuntimeInv, [Next]_vars PROVE RuntimeInv'
  OBVIOUS
<1>1. /\ IInv /\ Types /\ QuietBefore /\ GateInv /\ TurnInv /\ LocalInv
      /\ NamesInv /\ FileIsMemory /\ RecordInv
  BY InvParts
<1>2. IInv'
  BY <1>1, IdentitySteps, IdentityStepInv
<1>3. Types' /\ QuietBefore' /\ GateInv'
  BY <1>1, TypesStep, QuietStep, GateStep
<1>4. TurnInv' /\ LocalInv' /\ NamesInv'
  BY <1>1, TurnStep, LocalStep, NamesStep
<1>5. FileIsMemory' /\ RecordInv'
  BY <1>1, FileStep, RecordStep
<1> QED
  BY <1>2, <1>3, <1>4, <1>5 DEF RuntimeInv, TypeOK, IInv, Types

(* RuntimeInv is an invariant: the disk, the store, the supervisor, the     *)
(* services and the requests agree as far as their locks and signals go.   *)
THEOREM RuntimeInvariant == Spec => []RuntimeInv
BY InitInv, NextInv, PTL DEF Spec

(* The variables keep their types.                                         *)
THEOREM RuntimeTypes == Spec => []TypeOK
<1>1. RuntimeInv => TypeOK
  BY DEF RuntimeInv
<1> QED BY <1>1, RuntimeInvariant, PTL

(* An identity that peers have seen is that of every later start, whatever  *)
(* dies or fails between the writes of LoadOrCreate.                       *)
THEOREM PermanentIdentity == Spec => []IdentityIsPermanent
<1>1. RuntimeInv => IdentityIsPermanent
  BY DEF RuntimeInv, IdentityInv, IdentityIsPermanent
<1> QED BY <1>1, RuntimeInvariant, PTL

(* LoadOrCreate never leaves metadata that names another key than the one   *)
(* on disk, which it would refuse at every later start.                    *)
THEOREM NeverRefused == Spec => []StartIsNeverRefused
<1>1. RuntimeInv => StartIsNeverRefused
  BY DEF RuntimeInv, IdentityInv
<1> QED BY <1>1, RuntimeInvariant, PTL

(* No service runs, nothing is advertised and no peer is served before the  *)
(* policy of the running release is accepted.                              *)
THEOREM NothingUnaccepted == Spec => []NothingRunsUnaccepted
<1>1. RuntimeInv => NothingRunsUnaccepted
  BY DEF RuntimeInv, GateInv, NothingRunsUnaccepted
<1> QED BY <1>1, RuntimeInvariant, PTL

(* superviseRuntime does not wait while a change is unattended.             *)
THEOREM NoWakeupLost == Spec => []NoLostWakeup
<1>1. RuntimeInv => NoLostWakeup
  BY DEF RuntimeInv, GateInv, TurnInv, NoLostWakeup, Wanted, TypeOK,
     RuntimeTypeOK, SettingsTypeOK, Values
<1> QED BY <1>1, RuntimeInvariant, PTL

(* An advertised name that is no longer the device's is about to be renewed.*)
THEOREM StaleNamesAreDue == Spec => []StaleNameIsDue
<1>1. RuntimeInv => StaleNameIsDue
  BY DEF RuntimeInv, GateInv, LocalInv, StaleNameIsDue
<1> QED BY <1>1, RuntimeInvariant, PTL

(* For requests in turn, the services have the name that is saved.          *)
THEOREM NamesAgree == Spec => []NamesAgreeInTurn
<1>1. RuntimeInv => NamesAgreeInTurn
  BY DEF RuntimeInv, NamesInv, Applying, NamesAgreeInTurn
<1> QED BY <1>1, RuntimeInvariant, PTL

(* Memory and disk differ only after save has reported an error.            *)
THEOREM FileAndMemoryAgree == Spec => []FileIsMemory
<1>1. RuntimeInv => FileIsMemory
  BY DEF RuntimeInv
<1> QED BY <1>1, RuntimeInvariant, PTL

-----------------------------------------------------------------------------
(* Runtime implements PrivacyPromise.                                      *)

Active == {a \in Activities : Going(a)}

(* What the acceptance on record is made of.                               *)
Same ==
    /\ UNCHANGED <<build, asked, file, values>>
    /\ server' = "down" <=> server = "down"

(* The acceptance is a function of the settings and of whether they are     *)
(* loaded.                                                                  *)
LEMMA SameAcceptance == Same => UNCHANGED <<build, asked, Acceptance>>
BY DEF Same, Acceptance

(* At most one activity begins or ends in a step, and it begins only after  *)
(* the acceptance.                                                         *)
LEMMA OneActivity ==
    ASSUME UNCHANGED <<build, asked, Acceptance>>, NEW a \in Activities,
           \A b \in Activities : b # a => (Going(b)' <=> Going(b)),
           Going(a)' => Going(a) \/ Acceptance = build
    PROVE  [Promise!PromiseNext]_(Promise!promiseVars)
<1>1. Activities' = Activities
  BY DEF Activities
<1>2. CASE Going(a)' /\ ~Going(a)
  <2>1. Active' = Active \cup {a}
    BY <1>1, <1>2 DEF Active
  <2>2. Promise!Activate(a)
    BY <1>2, <2>1 DEF Promise!Activate, Active
  <2> QED BY <2>2 DEF Promise!PromiseNext
<1>3. CASE Going(a)' /\ Going(a)
  <2>1. Active' = Active
    BY <1>1, <1>3 DEF Active
  <2> QED BY <2>1 DEF Promise!promiseVars, Active
<1>4. CASE ~Going(a)'
  <2>1. Active' = Active \ {a}
    BY <1>1, <1>4 DEF Active
  <2>2. Promise!Deactivate(a)
    BY <2>1 DEF Promise!Deactivate, Active
  <2> QED BY <2>2 DEF Promise!PromiseNext
<1> QED BY <1>2, <1>3, <1>4

(* A step that changes neither the acceptance nor an activity stutters.     *)
LEMMA SameIsStutter ==
    ASSUME Same, \A b \in Activities : Going(b)' <=> Going(b)
    PROVE  [Promise!PromiseNext]_(Promise!promiseVars)
<1>1. "transfers" \in Activities
  BY DEF Activities
<1> QED BY <1>1, SameAcceptance, OneActivity

(* The process starts, or is gone.                                         *)
LEMMA RestartsPromise ==
    ASSUME UNCHANGED asked, build' \in Policies,
           Acceptance' \in {Acceptance} \cup asked,
           \A b \in Activities : ~Going(b)'
    PROVE  [Promise!PromiseNext]_(Promise!promiseVars)
<1>1. Active' = {}
  BY DEF Active, Activities
<1>2. Promise!Restart
  BY <1>1 DEF Promise!Restart, Active
<1> QED BY <1>2 DEF Promise!PromiseNext

(* Nothing goes on before the process serves.                               *)
LEMMA Nobody ==
    ASSUME server \in {"down", "naming"}, QuietBefore
    PROVE  \A b \in Activities : ~Going(b)
BY DEF QuietBefore, Going

(* Nothing goes on when the process has gone.                               *)
LEMMA GoneNobody == ProcessGone => \A b \in Activities : ~Going(b)'
BY DEF ProcessGone, Going, Activities

(* Every step of the process is a step of PrivacyPromise or stutters.       *)
LEMMA PromiseStep ==
    ASSUME Types, QuietBefore, GateInv, RecordInv, [Next]_vars
    PROVE  [Promise!PromiseNext]_(Promise!promiseVars)
<1>1. CASE Start
  <2>1. UNCHANGED asked /\ build' \in Policies /\ Acceptance' = Acceptance
        /\ server = "down"
    BY <1>1 DEF Start, StartBoot, settingsVars, Acceptance, QuietBefore
  <2>2. \A b \in Activities : ~Going(b)'
    BY <1>1, <2>1, Nobody DEF Start, Going, settingsVars, session, requests
  <2> QED BY <2>1, <2>2, RestartsPromise
<1>2. CASE Boot
  <2>1. Same /\ \A b \in Activities : Going(b)' <=> Going(b)
    BY <1>2 DEF Boot, Same, Going, settingsVars,
       supervisor, session, names, requests, runtimeVars
  <2> QED BY <2>1, SameIsStutter
<1>3. CASE LoadSettings
  <2>1. boot = "loaded" /\ server = "down" /\ asked' = asked /\ build' = build
        /\ file' \in {file, OnRecord}
        /\ \/ Dies
           \/ /\ values' = OnRecord /\ server' = "naming"
              /\ UNCHANGED <<transfers, session, requests>>
    BY <1>3, LoadEffect DEF Dies
  <2>2. OnRecord \in Values /\ OnRecord # unset /\ OnRecord.policy = Acceptance
    BY <2>1, OnRecordEffect, SettingsAssumption DEF Types, SettingsTypeOK, Acceptance
  <2>3. Acceptance' = Acceptance
    BY <2>1, <2>2 DEF Acceptance, Dies, ProcessGone
  <2>4. \A b \in Activities : ~Going(b)'
    BY <2>1, Nobody, GoneNobody DEF Dies, Going, session, requests
  <2> QED BY <2>1, <2>3, <2>4, RestartsPromise DEF Types, RuntimeTypeOK
<1>4. CASE StartServing
  <2>1. Same /\ \A b \in Activities : Going(b)' <=> Going(b)
    BY <1>4 DEF StartServing, Compose, Same, Going, settingsVars,
       supervisor, session, names, requests, runtimeVars
  <2> QED BY <2>1, SameIsStutter
<1>5. CASE DefaultName
  <2>1. server = "naming"
    BY <1>5, DefaultNameEffect
  <2>2. PICK new \in Values :
           /\ new.policy = values.policy
           /\ \/ Dies /\ file' \in {file, new}
              \/ file' = new /\ values' = new /\ Compose(HostName) /\ UNCHANGED asked
    BY <1>5, DefaultNameEffect
  <2>3. new # unset
    BY SettingsAssumption
  <2>4. UNCHANGED <<asked, build>>
    BY <2>2 DEF Dies, Compose
  <2>5. Acceptance' \in {Acceptance} \cup asked
    BY <2>1, <2>2, <2>3 DEF Dies, ProcessGone, Compose, Acceptance, RecordInv
  <2>6. \A b \in Activities : ~Going(b)'
    BY <2>1, <2>2, Nobody, GoneNobody DEF Dies, Compose, Going, session, requests
  <2> QED BY <2>4, <2>5, <2>6, RestartsPromise DEF Types, RuntimeTypeOK
<1>6. CASE Stop
  <2>1. Same /\ \A b \in Activities : Going(b)' <=> Going(b)
    BY <1>6 DEF Stop, Same, Going, settingsVars,
       supervisor, session, names, requests, runtimeVars
  <2> QED BY <2>1, SameIsStutter
<1>7. CASE Exit
  <2>1. UNCHANGED <<asked, build, file>> /\ ProcessGone
    BY <1>7 DEF Exit
  <2>2. Acceptance' \in {Acceptance} \cup asked
    BY <2>1 DEF ProcessGone, Acceptance, RecordInv
  <2> QED BY <2>1, <2>2, GoneNobody, RestartsPromise DEF Types, RuntimeTypeOK
<1>8. ASSUME NEW h \in Handlers, BeginAccept(h) PROVE [Promise!PromiseNext]_(Promise!promiseVars)
  <2>1. Same /\ \A b \in Activities : Going(b)' <=> Going(b)
    BY <1>8 DEF BeginAccept, Begin, ReqGoto, Same, Going, settingsVars, session,
       Types, RuntimeTypeOK
  <2> QED BY <2>1, SameIsStutter
<1>9. ASSUME NEW h \in Handlers, PassGate(h) PROVE [Promise!PromiseNext]_(Promise!promiseVars)
  <2>1. PICK step \in {"update", "readName", "peer"} : Begin(h, step)
    BY <1>9 DEF PassGate
  <2>2. Same /\ h \in Activities
    BY <2>1 DEF Begin, Same, settingsVars, Activities
  <2>3. \A b \in Activities : b # h => (Going(b)' <=> Going(b))
    BY <2>1 DEF Begin, ReqGoto, Going, session, Types, RuntimeTypeOK
  <2>4. Acceptance = build
    BY <1>9, <2>1 DEF PassGate, PrivacyAccepted, Begin, Acceptance
  <2> QED BY <2>2, <2>3, <2>4, SameAcceptance, OneActivity
<1>10. ASSUME NEW h \in Handlers, StoreStep(h) PROVE [Promise!PromiseNext]_(Promise!promiseVars)
  <2>1. /\ req[h] \in {"update", "reset", "accept"}
        /\ UNCHANGED <<build, server, transfers, discovery, advert>>
        /\ \/ Refused(h)
           \/ \E new \in Values :
                 /\ Saved(h, new) \/ NotSaved(h, new)
                 /\ \/ asked' = asked /\ new.policy = values.policy
                    \/ asked' = asked \cup {build} /\ new.policy = build
    BY <1>10, StoreEffect DEF Unstored, session
  <2>2. server # "down"
    BY <2>1 DEF QuietBefore
  <2>3. \A g \in Handlers : req'[g] = "peer" <=> req[g] = "peer"
    BY <2>1 DEF Refused, Saved, NotSaved, Types, RuntimeTypeOK
  <2>4. \A b \in Activities : Going(b)' <=> Going(b)
    BY <2>1, <2>3 DEF Going
  <2>5. \/ asked' = asked /\ Acceptance' = Acceptance
        \/ asked' = asked \cup {build} /\ Acceptance' \in {Acceptance, build}
    BY <2>1, <2>2 DEF Refused, Saved, NotSaved, Acceptance, settingsVars
  <2>6. Active' = Active
    BY <2>4 DEF Active, Activities
  <2>7. CASE asked' = asked /\ Acceptance' = Acceptance
    BY <2>1, <2>6, <2>7 DEF Promise!promiseVars, Active
  <2>8. CASE asked' = asked \cup {build} /\ Acceptance' \in {Acceptance, build}
    <3>1. Promise!Consent
      BY <2>1, <2>6, <2>8 DEF Promise!Consent, Active
    <3> QED BY <3>1 DEF Promise!PromiseNext
  <2> QED BY <2>5, <2>7, <2>8
<1>11. ASSUME NEW h \in Handlers, ReadName(h) PROVE [Promise!PromiseNext]_(Promise!promiseVars)
  <2>1. Same /\ \A b \in Activities : Going(b)' <=> Going(b)
    BY <1>11 DEF ReadName, ReqGoto, Same, Going, settingsVars, session,
       Types, RuntimeTypeOK
  <2> QED BY <2>1, SameIsStutter
<1>12. ASSUME NEW h \in Handlers, SetDisplayName(h) PROVE [Promise!PromiseNext]_(Promise!promiseVars)
  <2>1. Same /\ \A b \in Activities : Going(b)' <=> Going(b)
    BY <1>12 DEF SetDisplayName, ReqGoto, Same, Going, settingsVars, session,
       Types, RuntimeTypeOK
  <2> QED BY <2>1, SameIsStutter
<1>13. ASSUME NEW h \in Handlers, Refresh(h) PROVE [Promise!PromiseNext]_(Promise!promiseVars)
  <2>1. Same /\ \A b \in Activities : Going(b)' <=> Going(b)
    BY <1>13 DEF Refresh, ReqGoto, Same, Going, settingsVars, session,
       Types, RuntimeTypeOK
  <2> QED BY <2>1, SameIsStutter
<1>14. ASSUME NEW h \in Handlers, SetPeerName(h) PROVE [Promise!PromiseNext]_(Promise!promiseVars)
  <2>1. Same /\ \A b \in Activities : Going(b)' <=> Going(b)
    BY <1>14 DEF SetPeerName, ReqGoto, Same, Going, settingsVars, session,
       Types, RuntimeTypeOK
  <2> QED BY <2>1, SameIsStutter
<1>15. ASSUME NEW h \in Handlers, ServePeer(h) PROVE [Promise!PromiseNext]_(Promise!promiseVars)
  <2>1. Same /\ h \in Activities
    BY <1>15 DEF ServePeer, Same, Activities, settingsVars
  <2>2. \A b \in Activities : b # h => (Going(b)' <=> Going(b))
    BY <1>15 DEF ServePeer, ReqGoto, Going, session, Types, RuntimeTypeOK
  <2>3. Going(h)' => Going(h) \/ Acceptance = build
    BY <1>15 DEF Acceptance, ServePeer, GateInv, PrivacyAccepted, QuietBefore
  <2> QED BY <2>1, <2>2, <2>3, SameAcceptance, OneActivity
<1>16. CASE GetValues
  <2>1. Same /\ \A b \in Activities : Going(b)' <=> Going(b)
    BY <1>16 DEF GetValues, SupFrame, Same, Going, settingsVars, session, requests
  <2> QED BY <2>1, SameIsStutter
<1>17. CASE GetAccepted
  <2>1. Same /\ \A b \in Activities : Going(b)' <=> Going(b)
    BY <1>17 DEF GetAccepted, SupFrame, Same, Going, settingsVars, session, requests
  <2> QED BY <2>1, SameIsStutter
<1>18. CASE SwitchTransfers
  <2>1. Same /\ "transfers" \in Activities
    BY <1>18 DEF SwitchTransfers, SupFrame, Same, Activities, settingsVars
  <2>2. \A b \in Activities : b # "transfers" => (Going(b)' <=> Going(b))
    BY <1>18 DEF SwitchTransfers, SupFrame, Going, session, requests
  <2>3. Going("transfers")' => Going("transfers") \/ Acceptance = build
    BY <1>18 DEF SwitchTransfers, Going, GateInv, PrivacyAccepted, QuietBefore,
       Acceptance, SupFrame, session, requests
  <2> QED BY <2>1, <2>2, <2>3, SameAcceptance, OneActivity
<1>19. CASE SwitchDiscovery
  <2>1. Same /\ "discovery" \in Activities
    BY <1>19 DEF SwitchDiscovery, SupFrame, Same, Activities, settingsVars
  <2>2. \A b \in Activities : b # "discovery" => (Going(b)' <=> Going(b))
    BY <1>19 DEF SwitchDiscovery, SupFrame, Going, session, requests
  <2>3. Going("discovery")' => Going("discovery") \/ Acceptance = build
    BY <1>19 DEF SwitchDiscovery, Going, GateInv, PrivacyAccepted, QuietBefore,
       Acceptance, SupFrame, session, requests
  <2> QED BY <2>1, <2>2, <2>3, SameAcceptance, OneActivity
<1>20. CASE SelectDone
  <2>1. Same /\ \A b \in Activities : Going(b)' <=> Going(b)
    BY <1>20 DEF SelectDone, SupFrame, Same, Going, settingsVars, session, requests
  <2> QED BY <2>1, SameIsStutter
<1>21. CASE SelectChanges
  <2>1. Same /\ \A b \in Activities : Going(b)' <=> Going(b)
    BY <1>21 DEF SelectChanges, SupFrame, Same, Going, settingsVars, session, requests
  <2> QED BY <2>1, SameIsStutter
<1>22. CASE SelectDiscoveryDone
  <2>1. Same /\ "discovery" \in Activities
    BY <1>22 DEF SelectDiscoveryDone, SupFrame, Same, Activities, settingsVars
  <2>2. \A b \in Activities : b # "discovery" => (Going(b)' <=> Going(b))
    BY <1>22 DEF SelectDiscoveryDone, SupFrame, Going, session, requests
  <2>3. Going("discovery")' => Going("discovery") \/ Acceptance = build
    BY <1>22 DEF SelectDiscoveryDone, Going, GateInv, PrivacyAccepted, QuietBefore,
       Acceptance, SupFrame, session, requests
  <2> QED BY <2>1, <2>2, <2>3, SameAcceptance, OneActivity
<1>23. CASE SelectTransfersDone
  <2>1. Same /\ "transfers" \in Activities
    BY <1>23 DEF SelectTransfersDone, SupFrame, Same, Activities, settingsVars
  <2>2. \A b \in Activities : b # "transfers" => (Going(b)' <=> Going(b))
    BY <1>23 DEF SelectTransfersDone, SupFrame, Going, session, requests
  <2>3. Going("transfers")' => Going("transfers") \/ Acceptance = build
    BY <1>23 DEF SelectTransfersDone, Going, GateInv, PrivacyAccepted, QuietBefore,
       Acceptance, SupFrame, session, requests
  <2> QED BY <2>1, <2>2, <2>3, SameAcceptance, OneActivity
<1>24. CASE Leave
  <2>1. Same /\ \A b \in Activities : Going(b)' <=> Going(b)
    BY <1>24 DEF Leave, SupFrame, Same, Going, settingsVars, session, requests
  <2> QED BY <2>1, SameIsStutter
<1>25. CASE TransfersStopped
  <2>1. Same /\ "transfers" \in Activities
    BY <1>25 DEF TransfersStopped, SupFrame, Same, Activities, settingsVars
  <2>2. \A b \in Activities : b # "transfers" => (Going(b)' <=> Going(b))
    BY <1>25 DEF TransfersStopped, SupFrame, Going, session, requests
  <2>3. Going("transfers")' => Going("transfers") \/ Acceptance = build
    BY <1>25 DEF TransfersStopped, Going, GateInv, PrivacyAccepted, QuietBefore,
       Acceptance, SupFrame, session, requests
  <2> QED BY <2>1, <2>2, <2>3, SameAcceptance, OneActivity
<1>26. CASE DiscoveryStopped
  <2>1. Same /\ "discovery" \in Activities
    BY <1>26 DEF DiscoveryStopped, SupFrame, Same, Activities, settingsVars
  <2>2. \A b \in Activities : b # "discovery" => (Going(b)' <=> Going(b))
    BY <1>26 DEF DiscoveryStopped, SupFrame, Going, session, requests
  <2>3. Going("discovery")' => Going("discovery") \/ Acceptance = build
    BY <1>26 DEF DiscoveryStopped, Going, GateInv, PrivacyAccepted, QuietBefore,
       Acceptance, SupFrame, session, requests
  <2> QED BY <2>1, <2>2, <2>3, SameAcceptance, OneActivity
<1>27. CASE TransferRun
  <2>1. Same /\ \A b \in Activities : Going(b)' <=> Going(b)
    BY <1>27 DEF TransferRun, Same, Going, settingsVars,
       supervisor, session, names, requests, runtimeVars
  <2> QED BY <2>1, SameIsStutter
<1>28. CASE Inspect
  <2>1. Same /\ "advertisement" \in Activities
    BY <1>28 DEF Inspect, SessionFrame, Same, Activities, settingsVars
  <2>2. \A b \in Activities : b # "advertisement" => (Going(b)' <=> Going(b))
    BY <1>28 DEF Inspect, SessionEnds, SessionFrame, Going, requests
  <2>3. Going("advertisement")' => Going("advertisement") \/ Acceptance = build
    BY <1>28 DEF Inspect, Going, GateInv, PrivacyAccepted, QuietBefore,
       Acceptance, SessionFrame, requests
  <2> QED BY <2>1, <2>2, <2>3, SameAcceptance, OneActivity
<1>29. CASE Advertise
  <2>1. Same /\ "advertisement" \in Activities
    BY <1>29 DEF Advertise, SessionFrame, Same, Activities, settingsVars
  <2>2. \A b \in Activities : b # "advertisement" => (Going(b)' <=> Going(b))
    BY <1>29 DEF Advertise, SessionEnds, SessionFrame, Going, requests
  <2>3. Going("advertisement")' => Going("advertisement") \/ Acceptance = build
    BY <1>29 DEF Advertise, Going, GateInv, PrivacyAccepted, QuietBefore,
       Acceptance, SessionFrame, requests
  <2> QED BY <2>1, <2>2, <2>3, SameAcceptance, OneActivity
<1>30. CASE SessionCancelled
  <2>1. Same /\ "advertisement" \in Activities
    BY <1>30 DEF SessionCancelled, SessionFrame, Same, Activities, settingsVars
  <2>2. \A b \in Activities : b # "advertisement" => (Going(b)' <=> Going(b))
    BY <1>30 DEF SessionCancelled, SessionEnds, SessionFrame, Going, requests
  <2>3. Going("advertisement")' => Going("advertisement") \/ Acceptance = build
    BY <1>30 DEF SessionCancelled, Going, GateInv, PrivacyAccepted, QuietBefore,
       Acceptance, SessionFrame, requests
  <2> QED BY <2>1, <2>2, <2>3, SameAcceptance, OneActivity
<1>31. CASE SessionRefreshed
  <2>1. Same /\ "advertisement" \in Activities
    BY <1>31 DEF SessionRefreshed, SessionFrame, Same, Activities, settingsVars
  <2>2. \A b \in Activities : b # "advertisement" => (Going(b)' <=> Going(b))
    BY <1>31 DEF SessionRefreshed, SessionEnds, SessionFrame, Going, requests
  <2>3. Going("advertisement")' => Going("advertisement") \/ Acceptance = build
    BY <1>31 DEF SessionRefreshed, Going, GateInv, PrivacyAccepted, QuietBefore,
       Acceptance, SessionFrame, requests
  <2> QED BY <2>1, <2>2, <2>3, SameAcceptance, OneActivity
<1>32. CASE SessionFails
  <2>1. Same /\ "advertisement" \in Activities
    BY <1>32 DEF SessionFails, SessionFrame, Same, Activities, settingsVars
  <2>2. \A b \in Activities : b # "advertisement" => (Going(b)' <=> Going(b))
    BY <1>32 DEF SessionFails, SessionEnds, SessionFrame, Going, requests
  <2>3. Going("advertisement")' => Going("advertisement") \/ Acceptance = build
    BY <1>32 DEF SessionFails, Going, GateInv, PrivacyAccepted, QuietBefore,
       Acceptance, SessionFrame, requests
  <2> QED BY <2>1, <2>2, <2>3, SameAcceptance, OneActivity
<1>33. CASE BackoffOver
  <2>1. Same /\ "advertisement" \in Activities
    BY <1>33 DEF BackoffOver, SessionFrame, Same, Activities, settingsVars
  <2>2. \A b \in Activities : b # "advertisement" => (Going(b)' <=> Going(b))
    BY <1>33 DEF BackoffOver, SessionEnds, SessionFrame, Going, requests
  <2>3. Going("advertisement")' => Going("advertisement") \/ Acceptance = build
    BY <1>33 DEF BackoffOver, Going, GateInv, PrivacyAccepted, QuietBefore,
       Acceptance, SessionFrame, requests
  <2> QED BY <2>1, <2>2, <2>3, SameAcceptance, OneActivity
<1>34. CASE UNCHANGED vars
  <2>1. Same /\ \A b \in Activities : Going(b)' <=> Going(b)
    BY <1>34 DEF vars, runtimeVars, settingsVars, session, requests, Same, Going
  <2> QED BY <2>1, SameIsStutter
<1> QED BY <1>1, <1>2, <1>3, <1>4, <1>5, <1>6, <1>7, <1>8, <1>9, <1>10, <1>11,
   <1>12, <1>13, <1>14, <1>15, <1>16, <1>17, <1>18, <1>19, <1>20, <1>21,
   <1>22, <1>23, <1>24, <1>25, <1>26, <1>27, <1>28, <1>29, <1>30, <1>31,
   <1>32, <1>33, <1>34, StepCases

(* Run, privacyGate, the settings store and superviseRuntime together keep  *)
(* the promise of the privacy policy, through crashes and upgrades.         *)
THEOREM PromiseIsKept == Spec => PromiseKept
<1>1. Init => Promise!PromiseInit
  <2> SUFFICES ASSUME Init PROVE Promise!PromiseInit
    OBVIOUS
  <2>1. Types /\ QuietBefore /\ RecordInv /\ server = "down"
    BY InitInv, InvParts DEF Init
  <2>2. Active = {}
    BY <2>1, Nobody DEF Active
  <2>3. Acceptance \in {0} \cup asked
    BY <2>1 DEF Acceptance, RecordInv
  <2> QED
    BY <2>1, <2>2, <2>3 DEF Promise!PromiseInit, Types, SettingsTypeOK,
       RuntimeTypeOK, Active
<1>2. RuntimeInv /\ [Next]_vars => [Promise!PromiseNext]_(Promise!promiseVars)
  BY InvParts, PromiseStep
<1> QED
  BY <1>1, <1>2, RuntimeInvariant, PTL DEF Spec, PromiseKept, Promise!PromiseSpec

=============================================================================
