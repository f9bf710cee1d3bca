------------------------------ MODULE Runtime ------------------------------
(***************************************************************************)
(* One SyncSpace process from start to end (serverapp/server.go), composed  *)
(* of Identity and Settings: Run loads the identity, then the settings, and *)
(* starts the HTTP servers and superviseRuntime, which starts and stops the *)
(* transfer service and discovery as the settings say.  Requests change the *)
(* settings and hand a new display name to the services (api/settings.go,   *)
(* applySettings); those of peers pass privacyGate (api/router.go) first.   *)
(* The process may die at any time and start again, also as another         *)
(* release with another version of the privacy policy.                     *)
(*                                                                         *)
(* Discovery's session (discovery/service.go runSession) is here with the   *)
(* name it advertises; the peers it finds are in module Discovery.  Of the  *)
(* transfer service only its Run is here; TransferSender has the rest.      *)
(* Left out: database migrations, listeners, and what else ends a start.    *)
(***************************************************************************)
EXTENDS Identity, Settings

CONSTANTS
    Handlers,   \* goroutines serving HTTP requests
    HostName,   \* the name a new installation gets from the host
    MaxRequests \* bound on the requests in a behaviour

ASSUME RuntimeAssumption == HostName \in Names /\ MaxRequests \in Nat

VARIABLES
    build,      \* CurrentPrivacyPolicyVersion of the running release
    server,     \* how far Run has come after LoadOrCreate
    sup,        \* program counter of superviseRuntime
    discoverable, \* its copy of values.Discoverable
    accepted,   \* its copy of PrivacyAccepted()
    transfers,  \* transfer service; "off" iff transferCancel is nil
    discovery,  \* discovery session; "off" iff discoveryCancel is nil
    local,      \* the session's copy of self.Name
    advert,     \* the name mDNS advertises, or unset
    ownName,    \* discovery's Service.self.Name
    refresh,    \* whether Service.refresh holds its one signal
    peerName,   \* identity.Name of the pairing service
    req,        \* per handler, its program counter
    newName,    \* per handler, the display name it carries
    served,     \* how many requests have begun
    overlapped  \* history: two requests were changing settings at once

supervisor == <<sup, discoverable, accepted>>
session == <<discovery, local, advert>>
names == <<ownName, refresh, peerName>>
requests == <<req, newName, served, overlapped>>
runtimeVars ==
    <<build, server, supervisor, transfers, session, names, requests>>
vars == <<identityVars, settingsVars, runtimeVars>>

ServerStep == {"down", "naming", "serving", "closing"}
SupStep == {"none", "get", "accepted", "transfers", "discovery", "select",
            "waitRevoked", "waitDiscovery", "stopTransfers", "waitTransfers",
            "stopDiscovery", "waitStopped"}
TransfersStep == {"off", "starting", "working", "done"}
SessionStep == {"off", "inspect", "named", "browsing", "backoff", "done"}
Writing == {"update", "readName", "reset", "accept", "setName", "refresh",
            "setPeerName"}
RequestStep == {"idle", "peer"} \cup Writing

Init ==
    /\ IdentityInit /\ SettingsInit
    /\ build = 1
    /\ server = "down"
    /\ sup = "none" /\ discoverable = FALSE /\ accepted = FALSE
    /\ transfers = "off"
    /\ discovery = "off" /\ local = unset /\ advert = unset
    /\ ownName = unset /\ refresh = FALSE /\ peerName = unset
    /\ req = [h \in Handlers |-> "idle"]
    /\ newName = [h \in Handlers |-> unset]
    /\ served = 0
    /\ overlapped = FALSE

-----------------------------------------------------------------------------
(* Helpers.                                                                *)

(* Mutant of PrivacyAccepted: any version will do.                          *)
AnyVersionAccepted == values.policy # 0

PrivacyAccepted == values.policy = build
Wanted == PrivacyAccepted /\ values.discoverable

(* Mutant of TransfersCancelled: the service has a context of its own, which *)
(* the deferred stopTransfers does not cancel.                             *)
TransfersRevoked == sup = "waitRevoked"

(* The context of a service is done: the supervisor has cancelled it, or    *)
(* its parent, the context of Run, is.                                     *)
Closing == server = "closing"
TransfersCancelled == Closing \/ sup \in {"waitRevoked", "waitTransfers"}
DiscoveryCancelled == Closing \/ sup \in {"waitDiscovery", "waitStopped"}

SupGoto(step) == sup' = step
ReqGoto(h, step) == req' = [req EXCEPT ![h] = step]
Carry(h, name) == newName' = [newName EXCEPT ![h] = name]

(* All goroutines are gone and so is all memory.                            *)
ProcessGone ==
    /\ BootFails
    /\ server' = "down"
    /\ values' = Defaults /\ changed' = FALSE
    /\ sup' = "none" /\ discoverable' = FALSE /\ accepted' = FALSE
    /\ transfers' = "off"
    /\ discovery' = "off" /\ local' = unset /\ advert' = unset
    /\ ownName' = unset /\ refresh' = FALSE /\ peerName' = unset
    /\ req' = [h \in Handlers |-> "idle"]
    /\ newName' = [h \in Handlers |-> unset]
    /\ overlapped' = FALSE

-----------------------------------------------------------------------------
(* The start: Run up to the goroutines it starts.                          *)

Start ==
    /\ StartBoot
    /\ build' \in Policies
    /\ UNCHANGED <<settingsVars, server, supervisor, transfers, session,
                   names, requests>>

Boot == LoadOrCreate /\ UNCHANGED <<settingsVars, runtimeVars>>

(* NewStore.                                                               *)
LoadSettings ==
    /\ boot = "loaded" /\ server = "down"
    /\ \E outcome \in Outcome :
          /\ file' = IF Replaced(outcome) THEN OnRecord ELSE file
          /\ IF Succeeded(outcome)
             THEN /\ values' = OnRecord
                  /\ server' = "naming"
                  /\ UNCHANGED <<boot, identity, privateKey, changed,
                        supervisor, transfers, session, names, requests>>
             ELSE ProcessGone /\ UNCHANGED served
    /\ torn' = FALSE
    /\ UNCHANGED <<identityDisk, announced, asked, build>>

(* The services are composed with the name on record; the supervisor and    *)
(* the servers start.                                                      *)
Compose(name) ==
    /\ server' = "serving"
    /\ SupGoto("get")
    /\ ownName' = name /\ peerName' = name
    /\ UNCHANGED <<identityVars, build, discoverable, accepted, transfers,
                   session, refresh, requests>>

StartServing ==
    /\ server = "naming" /\ values.name # unset
    /\ Compose(values.name)
    /\ UNCHANGED settingsVars

(* A new installation, or one whose name was cleared, takes the host's.     *)
DefaultName ==
    /\ server = "naming" /\ values.name = unset
    /\ \E outcome \in Outcome :
          LET named == [values EXCEPT !.name = HostName]
          IN IF Succeeded(outcome)
             THEN Update(named, outcome) /\ Compose(HostName)
             ELSE /\ file' = IF Replaced(outcome) THEN named ELSE file
                  /\ ProcessGone /\ UNCHANGED served
                  /\ UNCHANGED <<torn, identityDisk, announced, build>>
    /\ UNCHANGED asked

(* The user ends the program, or a listener fails: ctx is cancelled.        *)
Stop ==
    /\ server = "serving"
    /\ server' = "closing"
    /\ UNCHANGED <<identityVars, settingsVars, build, supervisor, transfers,
                   session, names, requests>>

(* The process dies, or Run returns: it waits for the servers but not for   *)
(* superviseRuntime and the services.                                      *)
Exit ==
    /\ boot # "off"
    /\ ProcessGone
    /\ UNCHANGED <<identityDisk, announced, file, torn, asked, build, served>>

-----------------------------------------------------------------------------
(* Requests.                                                               *)

Changing(h) == \E g \in Handlers \ {h} : req[g] \in Writing

Begin(h, step) ==
    /\ server = "serving" /\ req[h] = "idle"
    /\ served < MaxRequests /\ served' = served + 1
    /\ ReqGoto(h, step)
    /\ overlapped' = (overlapped \/ (step \in Writing /\ Changing(h)))
    /\ UNCHANGED <<identityVars, settingsVars, build, server, supervisor,
                   transfers, session, names, newName>>

(* privacyGate lets POST /privacy-policy/accept pass at any time, and the   *)
(* rest only after acceptance: settings, reset, and what peers ask for.     *)
BeginAccept(h) == Begin(h, "accept")
PassGate(h) ==
    /\ PrivacyAccepted
    /\ \E step \in {"update", "readName", "peer"} : Begin(h, step)

(* A store operation of handler h; on success it goes on with applySettings.*)
Stored(h, outcome, name) ==
    /\ ReqGoto(h, IF Succeeded(outcome) THEN "setName" ELSE "idle")
    /\ Carry(h, IF Succeeded(outcome) THEN name ELSE unset)
    /\ UNCHANGED <<identityVars, build, server, supervisor, transfers,
                   session, names, served, overlapped>>

PutSettings(h) ==
    /\ req[h] = "update"
    /\ \E name \in Names \cup {unset}, visible \in BOOLEAN, policy \in
          0..MaxPolicy, outcome \in Outcome :
          /\ Update([schema |-> SchemaVersion, name |-> name,
                     discoverable |-> visible, policy |-> policy], outcome)
          /\ Stored(h, outcome, name)
    /\ UNCHANGED asked

(* POST /settings/reset reads the name and writes it back with the rest.    *)
ReadName(h) ==
    /\ req[h] = "readName"
    /\ ReqGoto(h, "reset")
    /\ Carry(h, values.name)
    /\ UNCHANGED <<identityVars, settingsVars, build, server, supervisor,
                   transfers, session, names, served, overlapped>>

Reset(h) ==
    /\ req[h] = "reset"
    /\ \E outcome \in Outcome :
          /\ Update([Defaults EXCEPT !.name = newName[h]], outcome)
          /\ Stored(h, outcome, newName[h])
    /\ UNCHANGED asked

(* AcceptPrivacy refuses a version that is not the current one.             *)
Accept(h) ==
    /\ req[h] = "accept"
    /\ \E version \in Policies :
          IF version = build
          THEN \E outcome \in Outcome :
                  /\ AcceptPrivacy(version, outcome)
                  /\ asked' = asked \cup {version}
                  /\ Stored(h, outcome, values.name)
          ELSE /\ ReqGoto(h, "idle")
               /\ UNCHANGED <<identityVars, settingsVars, build, server,
                              supervisor, transfers, session, names, newName,
                              served, overlapped>>

(* applySettings: discovery first, then pairing and transfers.              *)
SetDisplayName(h) ==
    /\ req[h] = "setName"
    /\ IF newName[h] = unset
       THEN ReqGoto(h, "idle") /\ UNCHANGED ownName
       ELSE ReqGoto(h, "refresh") /\ ownName' = newName[h]
    /\ UNCHANGED <<identityVars, settingsVars, build, server, supervisor,
                   transfers, session, refresh, peerName, newName, served, overlapped>>

(* Mutant of Refresh: nothing is signalled unless a session listens.        *)
RefreshIfBrowsing(h) ==
    /\ req[h] = "refresh"
    /\ refresh' = (refresh \/ discovery = "browsing")
    /\ ReqGoto(h, "setPeerName")
    /\ UNCHANGED <<identityVars, settingsVars, build, server, supervisor,
                   transfers, session, ownName, peerName, newName, served, overlapped>>

(* Mutant of Refresh: pairing and transfers are forgotten.                  *)
RefreshOnly(h) ==
    /\ req[h] = "refresh"
    /\ refresh' = TRUE
    /\ ReqGoto(h, "idle")
    /\ Carry(h, unset)
    /\ UNCHANGED <<identityVars, settingsVars, build, server, supervisor,
                   transfers, session, ownName, peerName, served, overlapped>>

Refresh(h) ==
    /\ req[h] = "refresh"
    /\ refresh' = TRUE
    /\ ReqGoto(h, "setPeerName")
    /\ UNCHANGED <<identityVars, settingsVars, build, server, supervisor,
                   transfers, session, ownName, peerName, newName, served, overlapped>>

(* pairingService.SetDisplayName.  The transfer service is told next, in a   *)
(* critical section of its own; it puts the name into its offers only, and   *)
(* its copy is not a variable here.                                         *)
SetPeerName(h) ==
    /\ req[h] = "setPeerName"
    /\ peerName' = newName[h]
    /\ ReqGoto(h, "idle")
    /\ Carry(h, unset)
    /\ UNCHANGED <<identityVars, settingsVars, build, server, supervisor,
                   transfers, session, ownName, refresh, served, overlapped>>

(* The operation of a peer behind the gate (Pairing, TransferReceiver).     *)
ServePeer(h) ==
    /\ req[h] = "peer"
    /\ ReqGoto(h, "idle")
    /\ UNCHANGED <<identityVars, settingsVars, build, server, supervisor,
                   transfers, session, names, newName, served, overlapped>>

-----------------------------------------------------------------------------
(* superviseRuntime.  It reads the settings in two critical sections.       *)

SupFrame == UNCHANGED <<identityVars, build, server, names, requests>>

GetValues ==
    /\ sup = "get"
    /\ discoverable' = values.discoverable
    /\ SupGoto("accepted")
    /\ UNCHANGED <<settingsVars, accepted, transfers, session>> /\ SupFrame

(* Mutant of GetAccepted: the channel is drained after the reads.           *)
GetAcceptedAndDrain ==
    /\ sup = "accepted"
    /\ accepted' = PrivacyAccepted
    /\ changed' = FALSE
    /\ SupGoto("transfers")
    /\ UNCHANGED <<file, values, torn, asked, discoverable, transfers, session>>
    /\ SupFrame

GetAccepted ==
    /\ sup = "accepted"
    /\ accepted' = PrivacyAccepted
    /\ SupGoto("transfers")
    /\ UNCHANGED <<settingsVars, discoverable, transfers, session>> /\ SupFrame

SwitchTransfers ==
    /\ sup = "transfers"
    /\ transfers' = IF accepted /\ transfers = "off" THEN "starting"
                                                     ELSE transfers
    /\ SupGoto(IF ~accepted /\ transfers # "off" THEN "waitRevoked"
                                                 ELSE "discovery")
    /\ UNCHANGED <<settingsVars, discoverable, accepted, session>> /\ SupFrame

SwitchDiscovery ==
    /\ sup = "discovery"
    /\ discovery' = IF accepted /\ discoverable /\ discovery = "off"
                    THEN "inspect" ELSE discovery
    /\ SupGoto(IF ~(accepted /\ discoverable) /\ discovery # "off"
               THEN "waitDiscovery" ELSE "select")
    /\ UNCHANGED <<settingsVars, discoverable, accepted, transfers, local,
                   advert>> /\ SupFrame

SelectDone ==
    /\ sup = "select" /\ Closing
    /\ SupGoto("stopTransfers")
    /\ UNCHANGED <<settingsVars, discoverable, accepted, transfers, session>>
    /\ SupFrame

SelectChanges ==
    /\ sup = "select" /\ changed
    /\ changed' = FALSE
    /\ SupGoto("get")
    /\ UNCHANGED <<file, values, torn, asked, discoverable, accepted, transfers,
                   session>> /\ SupFrame

(* A service that has returned by itself is started again in the next turn. *)
SelectDiscoveryDone ==
    /\ sup = "select" /\ discovery = "done"
    /\ discovery' = "off"
    /\ SupGoto("get")
    /\ UNCHANGED <<settingsVars, discoverable, accepted, transfers, local,
                   advert>> /\ SupFrame

(* Mutant of SelectTransfersDone: transferCancel is not reset.              *)
SelectTransfersDoneOnly ==
    /\ sup = "select" /\ transfers = "done"
    /\ SupGoto("get")
    /\ UNCHANGED <<settingsVars, discoverable, accepted, transfers, session>>
    /\ SupFrame

SelectTransfersDone ==
    /\ sup = "select" /\ transfers = "done"
    /\ transfers' = "off"
    /\ SupGoto("get")
    /\ UNCHANGED <<settingsVars, discoverable, accepted, session>> /\ SupFrame

(* The deferred calls, stopTransfers first.                                 *)
Leave ==
    /\ \/ /\ sup = "stopTransfers"
          /\ SupGoto(IF transfers = "off" THEN "stopDiscovery"
                                          ELSE "waitTransfers")
       \/ /\ sup = "stopDiscovery"
          /\ SupGoto(IF discovery = "off" THEN "none" ELSE "waitStopped")
    /\ UNCHANGED <<settingsVars, discoverable, accepted, transfers, session>>
    /\ SupFrame

(* <-transferDone and <-discoveryDone in stopTransfers and stopDiscovery.   *)
TransfersStopped ==
    /\ transfers = "done"
    /\ \E step \in {<<"waitRevoked", "discovery">>,
                    <<"waitTransfers", "stopDiscovery">>} :
          sup = step[1] /\ SupGoto(step[2])
    /\ transfers' = "off"
    /\ UNCHANGED <<settingsVars, discoverable, accepted, session>> /\ SupFrame

DiscoveryStopped ==
    /\ discovery = "done"
    /\ \E step \in {<<"waitDiscovery", "select">>, <<"waitStopped", "none">>} :
          sup = step[1] /\ SupGoto(step[2])
    /\ discovery' = "off"
    /\ UNCHANGED <<settingsVars, discoverable, accepted, transfers, local,
                   advert>> /\ SupFrame

-----------------------------------------------------------------------------
(* transfer.Service.Run: it gives up if it cannot make its directory.       *)

TransferRun ==
    /\ \/ transfers = "starting" /\ transfers' \in {"working", "done"}
       \/ transfers = "working" /\ TransfersCancelled /\ transfers' = "done"
    /\ UNCHANGED <<identityVars, settingsVars, build, server, supervisor,
                   session, names, requests>>

(* discovery.Service.Run and runSession.                                    *)

SessionFrame ==
    UNCHANGED <<identityVars, settingsVars, build, server, supervisor,
                transfers, ownName, peerName, requests>>

(* The session has returned, its advertisement is shut down.  Run goes on   *)
(* with the next session or a pause, or returns if its context is done.     *)
SessionEnds(step) ==
    /\ discovery' = IF DiscoveryCancelled THEN "done" ELSE step
    /\ advert' = unset /\ local' = unset

(* inspectNetwork, updateSelf, Self.                                        *)
Inspect ==
    /\ discovery = "inspect"
    /\ \/ discovery' = "named" /\ local' = ownName /\ UNCHANGED advert
       \/ SessionEnds("backoff")
    /\ UNCHANGED refresh /\ SessionFrame

Advertise ==
    /\ discovery = "named"
    /\ \/ discovery' = "browsing" /\ advert' = local /\ UNCHANGED local
       \/ SessionEnds("backoff")
    /\ UNCHANGED refresh /\ SessionFrame

SessionCancelled ==
    /\ discovery = "browsing" /\ DiscoveryCancelled
    /\ SessionEnds("done")
    /\ UNCHANGED refresh /\ SessionFrame

SessionRefreshed ==
    /\ discovery = "browsing" /\ refresh
    /\ refresh' = FALSE
    /\ SessionEnds("inspect")
    /\ SessionFrame

(* The browser fails; the network has changed or the restart timer is due.  *)
SessionFails ==
    /\ discovery = "browsing"
    /\ SessionEnds("backoff") \/ SessionEnds("inspect")
    /\ UNCHANGED refresh /\ SessionFrame

BackoffOver ==
    /\ discovery = "backoff"
    /\ SessionEnds("inspect")
    /\ UNCHANGED refresh /\ SessionFrame

-----------------------------------------------------------------------------
Supervise ==
    \/ GetValues \/ GetAccepted \/ SwitchTransfers \/ SwitchDiscovery
    \/ SelectDone \/ SelectChanges \/ SelectDiscoveryDone
    \/ SelectTransfersDone \/ Leave \/ TransfersStopped \/ DiscoveryStopped
Session ==
    \/ Inspect \/ Advertise \/ SessionCancelled \/ SessionRefreshed
    \/ SessionFails \/ BackoffOver
Serve(h) ==
    \/ PutSettings(h) \/ ReadName(h) \/ Reset(h) \/ Accept(h)
    \/ SetDisplayName(h) \/ Refresh(h) \/ SetPeerName(h) \/ ServePeer(h)

Next ==
    \/ Start \/ Boot \/ LoadSettings \/ StartServing \/ DefaultName \/ Stop
    \/ Exit
    \/ \E h \in Handlers : BeginAccept(h) \/ PassGate(h) \/ Serve(h)
    \/ Supervise \/ TransferRun \/ Session

Spec == Init /\ [][Next]_vars

Fairness ==
    /\ WF_vars(Supervise) /\ SF_vars(SelectDone)
    /\ WF_vars(TransferRun) /\ WF_vars(Session)
    /\ \A h \in Handlers : WF_vars(Serve(h))

FairSpec == Spec /\ Fairness

-----------------------------------------------------------------------------
RuntimeTypeOK ==
    /\ build \in Policies
    /\ server \in ServerStep
    /\ sup \in SupStep /\ discoverable \in BOOLEAN /\ accepted \in BOOLEAN
    /\ transfers \in TransfersStep
    /\ discovery \in SessionStep
    /\ local \in Names \cup {unset} /\ advert \in Names \cup {unset}
    /\ ownName \in Names \cup {unset} /\ peerName \in Names \cup {unset}
    /\ refresh \in BOOLEAN /\ overlapped \in BOOLEAN
    /\ req \in [Handlers -> RequestStep]
    /\ newName \in [Handlers -> Names \cup {unset}]
    /\ served \in Nat

TypeOK == IdentityTypeOK /\ SettingsTypeOK /\ RuntimeTypeOK

(* Before the user has accepted the policy of the running release (of an    *)
(* installation that is new, or was upgraded after an older acceptance), no *)
(* service runs, nothing is advertised and no request of a peer passes the  *)
(* gate: superviseRuntime and privacyGate look at the store at different    *)
(* moments, and the store changes and the services start in other threads. *)
NothingRunsUnaccepted ==
    \/ PrivacyAccepted
    \/ /\ transfers = "off" /\ discovery = "off" /\ advert = unset
       /\ \A h \in Handlers : req[h] # "peer"

(* When superviseRuntime waits and the channel of changes is empty, what    *)
(* runs is what the settings say: no change is lost between its two reads   *)
(* of the store, its switching of the services and its select.             *)
NoLostWakeup ==
    sup = "select" /\ ~changed =>
        /\ (transfers # "off") = PrivacyAccepted
        /\ (discovery # "off") = Wanted
        /\ advert # unset => Wanted

(* If mDNS advertises a name that is no longer the device's, a rescan is    *)
(* requested or about to be: a session copies its name before it advertises *)
(* (runSession), and SetDisplayName may come in between.                   *)
StaleNameIsDue ==
    advert \notin {unset, ownName} =>
        refresh \/ \E h \in Handlers : req[h] = "refresh"

(* As long as requests that change settings come one at a time, discovery   *)
(* and pairing have the saved name unless applySettings is on its           *)
(* way to them.  (Two at once may apply their names in the order opposite   *)
(* to the one in which they were saved, and the services keep the older.)   *)
NamesAgreeInTurn ==
    server \in {"serving", "closing"} /\ values.name # unset /\ ~overlapped =>
        \/ ownName = values.name /\ peerName = values.name
        \/ \E h \in Handlers : req[h] \in {"setName", "refresh", "setPeerName"}

(* The process works with the settings that are on disk, unless save has    *)
(* reported an error after the file was replaced.                          *)
FileIsMemory == server # "down" /\ ~torn => file = values

(* The last change of the settings takes effect: superviseRuntime starts    *)
(* the transfer service after the acceptance and brings discovery into the  *)
(* state that the settings keep asking for.                                *)
SettingsTakeEffect ==
    /\ (server = "serving" /\ PrivacyAccepted) ~>
           (transfers \in {"starting", "working"} \/ server # "serving")
    /\ <>[](server = "serving" /\ Wanted) => <>[](discovery # "off")
    /\ <>[](server = "serving" /\ ~Wanted) =>
           <>[](discovery = "off" /\ advert = unset)

(* Once the context of Run is cancelled superviseRuntime gets through its   *)
(* deferred calls, each of which waits for a service to return, unless the  *)
(* process is gone before.                                                 *)
ServicesStop ==
    Closing ~> (sup = "none" /\ transfers = "off" /\ discovery = "off")

-----------------------------------------------------------------------------
(* What privacyGate and superviseRuntime implement.                        *)

Activities == {"transfers", "discovery", "advertisement"} \cup Handlers
Going(a) ==
    \/ a = "transfers" /\ transfers # "off"
    \/ a = "discovery" /\ discovery # "off"
    \/ a = "advertisement" /\ advert # unset
    \/ a \in Handlers /\ req[a] = "peer"

Acceptance ==
    IF server # "down" THEN values.policy
    ELSE IF file = unset THEN 0 ELSE file.policy

Promise == INSTANCE PrivacyPromise WITH
    release <- build,
    consented <- asked,
    onRecord <- Acceptance,
    active <- {a \in Activities : Going(a)}

(* Every behaviour of the process, crashes, upgrades and failed saves       *)
(* included, is one that PrivacyPromise allows.                            *)
PromiseKept == Promise!PromiseSpec

-----------------------------------------------------------------------------
(* The inductive invariant of RuntimeProofs.                               *)

(* Before the services are composed nothing of theirs exists.              *)
QuietBefore ==
    /\ boot # "loaded" => server = "down"
    /\ server \in {"down", "naming"} =>
           /\ sup = "none" /\ ~accepted
           /\ transfers = "off" /\ discovery = "off"
           /\ local = unset /\ advert = unset
           /\ \A h \in Handlers : req[h] = "idle"

(* Acceptance is not withdrawn while the process runs.                     *)
GateInv ==
    /\ accepted => PrivacyAccepted
    /\ transfers # "off" => PrivacyAccepted
    /\ discovery # "off" => PrivacyAccepted
    /\ advert # unset => discovery = "browsing" /\ advert = local
    /\ \A h \in Handlers : req[h] = "peer" => PrivacyAccepted

(* What the supervisor has read is current or a change is signalled, and    *)
(* the services it is done with are as it has read.                        *)
TurnInv ==
    /\ sup = "accepted" => changed \/ discoverable = values.discoverable
    /\ sup \in {"transfers", "waitRevoked", "discovery", "waitDiscovery",
                "select"} =>
           \/ changed
           \/ discoverable = values.discoverable /\ accepted = PrivacyAccepted
    /\ sup \in {"discovery", "waitDiscovery", "select"} =>
           (transfers # "off") = accepted
    /\ sup = "waitRevoked" => ~accepted
    /\ sup = "waitDiscovery" => ~(accepted /\ discoverable)
    /\ sup = "select" => (discovery # "off") = (accepted /\ discoverable)

LocalInv ==
    local \notin {unset, ownName} =>
        refresh \/ \E h \in Handlers : req[h] = "refresh"

Applying == {"setName", "refresh", "setPeerName"}
NamesInv ==
    server \in {"serving", "closing"} /\ ~overlapped =>
        /\ \A g, h \in Handlers :
              req[g] \in Writing /\ req[h] \in Writing => g = h
        /\ \A h \in Handlers :
              /\ req[h] \in Applying => newName[h] = values.name
              /\ req[h] \in {"refresh", "setPeerName"} => ownName = values.name
        /\ (\A h \in Handlers : req[h] \notin Applying) /\ values.name # unset =>
                  ownName = values.name /\ peerName = values.name

(* What is on disk is what is in memory or what the user asked for.        *)
RecordInv ==
    /\ file # unset => file.policy \in asked \cup {0}
    /\ server # "down" =>
           /\ values.policy \in asked \cup {0}
           /\ file # unset /\ file.policy \in asked \cup {values.policy}

RuntimeInv ==
    /\ TypeOK /\ IdentityInv /\ QuietBefore /\ GateInv /\ TurnInv /\ LocalInv
    /\ NamesInv /\ FileIsMemory /\ RecordInv

=============================================================================
