------------------------------ MODULE Settings ------------------------------
(***************************************************************************)
(* The settings store (settings/store.go): settings.json, its copy in       *)
(* memory, and the channel of capacity one that tells the supervisor of a   *)
(* change.  Every operation here runs under Store.mu and is one step; who   *)
(* calls it, and what the callers do before and after, is in Runtime.       *)
(*                                                                         *)
(* Of the values only those that steer the program are kept; "policy" is    *)
(* privacyPolicyVersion together with privacyAcceptedAt, 0 if there is no   *)
(* acceptance.  Documents that Validate refuses change nothing.            *)
(***************************************************************************)
EXTENDS Naturals, PrivateFile

CONSTANTS
    Names,      \* display names
    MaxPolicy,  \* policy versions are 1..MaxPolicy
    unset       \* no display name, or no file

VARIABLES
    file,       \* settings.json, or unset
    values,     \* Store.values
    changed,    \* whether Store.changed holds its one signal
    torn,       \* history: the file has what a request was told it has not
    asked       \* history: the policy versions the user asked to accept

settingsVars == <<file, values, changed, torn, asked>>

Policies == 1..MaxPolicy
SchemaVersion == 2
Values == [schema : 1..SchemaVersion, name : Names \cup {unset},
           discoverable : BOOLEAN, policy : 0..MaxPolicy]

ASSUME SettingsAssumption ==
    MaxPolicy \in Nat \ {0} /\ unset \notin Names \cup Values

Defaults == [schema |-> SchemaVersion, name |-> unset, discoverable |-> TRUE,
             policy |-> 0]

(* Schema 1 knew neither discoverability nor acceptance.                    *)
migrate(v) ==
    IF v.schema < SchemaVersion
    THEN [schema |-> SchemaVersion, name |-> v.name, discoverable |-> TRUE,
          policy |-> v.policy]
    ELSE v

(* No file, one of schema 1, or one of an earlier run.                      *)
SettingsInit ==
    /\ file \in {unset,
                 [schema |-> 1, name |-> unset, discoverable |-> FALSE,
                  policy |-> 0],
                 [schema |-> SchemaVersion, name |-> CHOOSE n \in Names : TRUE,
                  discoverable |-> FALSE, policy |-> 1]}
    /\ values = Defaults
    /\ changed = FALSE
    /\ torn = FALSE
    /\ asked = IF file # unset /\ file.policy = 1 THEN {1} ELSE {}

-----------------------------------------------------------------------------
(* Mutant of Save: memory is changed first.                                 *)
SaveInMemoryFirst(new, outcome) ==
    /\ file' = IF Replaced(outcome) THEN new ELSE file
    /\ torn' = (outcome = "writtenButRefused" \/ (torn /\ ~Succeeded(outcome)))
    /\ values' = new
    /\ changed' = (changed \/ Succeeded(outcome))

(* save, then the assignment of Store.values and notify.                    *)
Save(new, outcome) ==
    /\ file' = IF Replaced(outcome) THEN new ELSE file
    /\ torn' = (outcome = "writtenButRefused" \/ (torn /\ ~Succeeded(outcome)))
    /\ IF Succeeded(outcome) THEN values' = new /\ changed' = TRUE
                             ELSE UNCHANGED <<values, changed>>

(* Mutant of Update: the acceptance is the document's.                      *)
UpdateFromDocument(document, outcome) ==
    Save([document EXCEPT !.schema = SchemaVersion], outcome)

(* Update keeps the acceptance on record, whatever the document says.       *)
Update(document, outcome) ==
    Save([schema |-> SchemaVersion, name |-> document.name,
          discoverable |-> document.discoverable, policy |-> values.policy],
         outcome)

AcceptPrivacy(version, outcome) ==
    Save([values EXCEPT !.policy = version], outcome)

(* NewStore: load, migrate, save.                                          *)
OnRecord == IF file = unset THEN Defaults ELSE migrate(file)

SettingsTypeOK ==
    /\ file \in Values \cup {unset}
    /\ values \in Values
    /\ changed \in BOOLEAN /\ torn \in BOOLEAN
    /\ asked \subseteq Policies

=============================================================================
