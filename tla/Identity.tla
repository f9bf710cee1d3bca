------------------------------ MODULE Identity ------------------------------
(***************************************************************************)
(* The permanent identity of an installation (services/identity.go): the    *)
(* private key in identity.key and the public metadata in identity.json,    *)
(* two files that LoadOrCreate writes one after the other when the process  *)
(* starts.  The process may die between any two file operations.           *)
(*                                                                         *)
(* Left out: timestamps, host name and device type (a change of one of them *)
(* is the choice to save the metadata again), DPAPI, and unreadable files,  *)
(* which end the start without a write.  A key file never disappears here.  *)
(***************************************************************************)
EXTENDS PrivateFile

CONSTANTS
    Ids,    \* device IDs that uuid.NewString may return
    Keys,   \* Ed25519 keys that GenerateKey may return
    none    \* no ID, no key, or no file

VARIABLES
    keyFile,    \* identity.key: a key, or none if there is no such file
    metadata,   \* identity.json: a record, or none
    boot,       \* how far LoadOrCreate has come; "loaded" when it has returned
    identity,   \* its local variable: the metadata as it will be saved
    privateKey, \* its local variable: the key it read or generated
    announced   \* history: the identity the first complete start returned

identityVars == <<keyFile, metadata, boot, identity, privateKey, announced>>
identityDisk == <<keyFile, metadata>>

Metadata == [id : Ids, key : Keys \cup {none}]

ASSUME IdentityAssumption ==
    /\ Ids # {} /\ Keys # {}
    /\ none \notin Ids \cup Keys \cup Metadata

BootStep == {"off", "metadata", "key", "saveKey", "check", "saveMetadata",
             "loaded"}

(* A new installation, or one with the metadata of a release that had no    *)
(* keys (TestFileIdentityStoreMigratesLegacyMetadata).                      *)
IdentityInit ==
    /\ keyFile = none
    /\ metadata \in {none, [id |-> CHOOSE i \in Ids : TRUE, key |-> none]}
    /\ boot = "off"
    /\ identity = none /\ privateKey = none
    /\ announced = none

-----------------------------------------------------------------------------
(* What names an ID or a key: the metadata on disk, what peers have seen.   *)
Records == {metadata, announced} \ {none}

(* A random ID or key: one that is not on record; which one does not matter.*)
Fresh(S, used) == CHOOSE x \in S : x \notin used

(* An error ends Run, and with it the process.                             *)
BootFails ==
    /\ boot' = "off" /\ identity' = none /\ privateKey' = none

StartBoot ==
    /\ boot = "off"
    /\ boot' = "metadata"
    /\ UNCHANGED <<keyFile, metadata, identity, privateKey, announced>>

(* loadMetadata, newIdentityMetadata.                                       *)
LoadMetadata ==
    /\ boot = "metadata"
    /\ identity' = IF metadata # none THEN metadata
                   ELSE [id |-> Fresh(Ids, {r.id : r \in Records}),
                         key |-> none]
    /\ boot' = "key"
    /\ UNCHANGED <<keyFile, metadata, privateKey, announced>>

(* loadPrivateKey, or GenerateKey if there is no file.                      *)
LoadPrivateKey ==
    /\ boot = "key"
    /\ \/ /\ keyFile # none
          /\ privateKey' = keyFile
          /\ boot' = "check"
          /\ UNCHANGED identity
       \/ /\ keyFile = none
          /\ privateKey' = Fresh(Keys, {r.key : r \in Records})
          /\ identity' = [identity EXCEPT !.key = privateKey']
          /\ boot' = "saveKey"
    /\ UNCHANGED <<keyFile, metadata, announced>>

(* Mutant of SavePrivateKey: its error is ignored.                          *)
SavePrivateKeyUnchecked ==
    /\ boot = "saveKey"
    /\ \E outcome \in Outcome :
          keyFile' = IF Replaced(outcome) THEN privateKey ELSE keyFile
    /\ boot' = "check"
    /\ UNCHANGED <<metadata, identity, privateKey, announced>>

(* savePrivateKey.  The key is on disk before anything refers to it.        *)
SavePrivateKey ==
    /\ boot = "saveKey"
    /\ \E outcome \in Outcome :
          /\ keyFile' = IF Replaced(outcome) THEN privateKey ELSE keyFile
          /\ IF Succeeded(outcome)
             THEN boot' = "check" /\ UNCHANGED <<identity, privateKey>>
             ELSE BootFails
    /\ UNCHANGED <<metadata, announced>>

(* LoadOrCreate returns: from here on peers see this identity.              *)
Loaded(m) ==
    /\ boot' = "loaded"
    /\ announced' = IF announced = none THEN m ELSE announced

(* The comparison of metadata and key.  Metadata that has no key yet, that  *)
(* is new or that has another host name is saved.                          *)
CheckIdentity ==
    /\ boot = "check"
    /\ IF identity.key \notin {none, privateKey}
       THEN BootFails /\ UNCHANGED announced
       ELSE \/ /\ identity' = [identity EXCEPT !.key = privateKey]
               /\ boot' = "saveMetadata"
               /\ UNCHANGED <<privateKey, announced>>
            \/ /\ metadata = identity /\ identity.key = privateKey
               /\ Loaded(identity)
               /\ UNCHANGED <<identity, privateKey>>
    /\ UNCHANGED <<keyFile, metadata>>

(* Mutant of SaveMetadata: its error is ignored.                            *)
SaveMetadataUnchecked ==
    /\ boot = "saveMetadata"
    /\ \E outcome \in Outcome :
          metadata' = IF Replaced(outcome) THEN identity ELSE metadata
    /\ Loaded(identity)
    /\ UNCHANGED <<keyFile, identity, privateKey>>

SaveMetadata ==
    /\ boot = "saveMetadata"
    /\ \E outcome \in Outcome :
          /\ metadata' = IF Replaced(outcome) THEN identity ELSE metadata
          /\ IF Succeeded(outcome)
             THEN Loaded(identity) /\ UNCHANGED <<identity, privateKey>>
             ELSE BootFails /\ UNCHANGED announced
    /\ UNCHANGED keyFile

(* The process dies: what is in memory is gone.                             *)
IdentityLost ==
    /\ BootFails
    /\ UNCHANGED <<keyFile, metadata, announced>>

LoadOrCreate ==
    \/ LoadMetadata \/ LoadPrivateKey \/ SavePrivateKey \/ CheckIdentity
    \/ SaveMetadata

IdentitySpec ==
    IdentityInit /\ [][StartBoot \/ LoadOrCreate \/ IdentityLost]_identityVars

-----------------------------------------------------------------------------
IdentityTypeOK ==
    /\ keyFile \in Keys \cup {none}
    /\ metadata \in Metadata \cup {none}
    /\ boot \in BootStep
    /\ identity \in Metadata \cup {none}
    /\ (boot \in {"off", "metadata"}) = (identity = none)
    /\ privateKey \in Keys \cup {none}
    /\ announced \in [id : Ids, key : Keys] \cup {none}

(* The device ID and the key that peers have seen once are those of every   *)
(* later start, whatever starts died or failed in between (LoadOrCreate     *)
(* writes two files).                                                      *)
IdentityIsPermanent ==
    boot = "loaded" => identity = announced

(* No crash and no failed write leaves metadata that names a key other than *)
(* the one on disk: LoadOrCreate would refuse to start ever after.          *)
StartIsNeverRefused ==
    metadata # none /\ metadata.key # none => metadata.key = keyFile

(* The inductive invariant: what has been announced is on disk, and the     *)
(* variables of LoadOrCreate agree with the disk at each of its steps.     *)
IdentityInv ==
    /\ StartIsNeverRefused
    /\ announced # none => metadata = announced /\ keyFile = announced.key
    /\ boot = "key" =>
           /\ metadata # none => identity = metadata
           /\ metadata = none => identity.key = none
    /\ boot = "saveKey" =>
           keyFile = none /\ privateKey # none /\ identity.key = privateKey
    /\ boot \in {"check", "saveMetadata"} =>
           /\ keyFile # none /\ privateKey = keyFile
           /\ announced # none => identity = announced
    /\ boot = "saveMetadata" => identity.key = privateKey
    /\ boot = "loaded" => identity = announced

=============================================================================
