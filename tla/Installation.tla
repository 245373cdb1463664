---------------------------- MODULE Installation ----------------------------
(* The installation of a customer-operated Realm (CustomerRealmInstallation   *)
(* behind CustomerRealmControlPlane): provisioning in the customer's account, *)
(* the owner, the first Project and its import, readiness of the deployment,  *)
(* recovery of a failed step, and the recovery bundle.  Every request opens   *)
(* the record, and every transition saves it if its digest is still the one   *)
(* the request has read; a request may stop between any two steps.            *)
EXTENDS Integers

CONSTANTS
  InCalls,        \* concurrent requests
  InOwners,       \* principals that may claim the Realm
  InMaxVersions,  \* bounds: transitions of the record, losses of the store
  InMaxLosses,
  InNone

ASSUME InAssumption == InMaxVersions \in Nat /\ InMaxLosses \in Nat

VARIABLES
  inState,      \* the saved record; version stands for its checkpoint's digest
  inCall,       \* request -> where it is and the record it works on
  inResources,  \* the provider holds the Realm's resources
  inImported,   \* the importer holds a verified import of the Project
  inBundle,     \* an exported recovery bundle
  inLosses

inVars == <<inState, inCall, inResources, inImported, inBundle, inLosses>>

InPhases == {"new", "account-verifying", "account-ready", "provisioning", "realm-ready",
             "owner-ready", "project-ready", "importing", "imported", "active",
             "degraded", "blocked", "recovery-pending"}
InOperations == {"account.inspect", "realm.provision", "project.import", "realm.recover",
                 "deployment.readiness"}
\* The degraded part of a record: the operation that failed.
InFailure == [op : InOperations, retryable : BOOLEAN]
InRecord ==
  [phase : InPhases, version : 0 .. InMaxVersions, account : BOOLEAN, realm : BOOLEAN,
   resources : {"none", "provisioning", "verified", "recovery-pending"},
   owner : InOwners \cup {InNone}, enrolled : SUBSET InOwners,
   project : {"none", "ready", "importing", "imported"},
   resume : InPhases \cup {InNone}, failed : InFailure \cup {InNone}]
InBlank ==
  [phase |-> "new", version |-> 0, account |-> FALSE, realm |-> FALSE, resources |-> "none",
   owner |-> InNone, enrolled |-> {}, project |-> "none", resume |-> InNone, failed |-> InNone]
ASSUME InNoneAssumption == InNone \notin InOwners \cup InPhases /\ InNone \notin InFailure /\ InNone \notin InRecord

InCallRecord ==
  [pc : {"idle", "open", "inspect", "account-ready", "provision", "provisioned",
         "import", "imported", "reinspect"}, state : InRecord]
InIdle == [pc |-> "idle", state |-> InBlank]

InTypeOK ==
  /\ inState \in InRecord /\ inCall \in [InCalls -> InCallRecord]
  /\ inResources \in BOOLEAN /\ inImported \in BOOLEAN
  /\ inBundle \in InRecord \cup {InNone} /\ inLosses \in 0 .. InMaxLosses

InInit ==
  /\ inState = InBlank /\ inCall = [c \in InCalls |-> InIdle]
  /\ inResources = FALSE /\ inImported = FALSE /\ inBundle = InNone /\ inLosses = 0

-----------------------------------------------------------------------------
(* The store *)

InSaveWhatever(c, next, pc) ==   \* mutant: the save-only boundary, without the expected digest
  /\ inState.version < InMaxVersions
  /\ inState' = [next EXCEPT !.version = inState.version + 1]
  /\ inCall' = [inCall EXCEPT ![c] = IF pc = "idle" THEN InIdle ELSE [pc |-> pc, state |-> inState']]

\* saveIfCurrent: the digest is still the one the request expects.
InCurrent(c) == inState.version = inCall[c].state.version

\* transition: a stale request throws.
InSave(c, next, pc) ==
  /\ inState.version < InMaxVersions
  /\ IF InCurrent(c)
       THEN /\ inState' = [next EXCEPT !.version = inState.version + 1]
            /\ inCall' = [inCall EXCEPT ![c] =
                            IF pc = "idle" THEN InIdle ELSE [pc |-> pc, state |-> inState']]
       ELSE /\ inState' = inState
            /\ inCall' = [inCall EXCEPT ![c] = InIdle]

\* What a request works on, and that it stands at pc in one of the phases.
InAt(c, pc, phases) == inCall[c].pc = pc /\ inCall[c].state.phase \in phases
InEffects == <<inResources, inImported, inBundle, inLosses>>

InOpen(c) ==
  /\ inCall[c].pc = "idle"
  /\ inCall' = [inCall EXCEPT ![c] = [pc |-> "open", state |-> inState]]
  /\ UNCHANGED <<inState, InEffects>>

\* A request is cut off, or throws before it saves.
InStop(c) ==
  /\ inCall[c].pc # "idle" /\ inCall' = [inCall EXCEPT ![c] = InIdle]
  /\ UNCHANGED <<inState, InEffects>>

\* recordProviderFailure
InFail(c, op, retryable) ==
  /\ InSave(c, [inCall[c].state EXCEPT !.phase = IF retryable THEN "degraded" ELSE "blocked",
                  !.failed = [op |-> op, retryable |-> retryable]], "idle")
  /\ UNCHANGED InEffects

-----------------------------------------------------------------------------
(* install *)

InInstall(c) ==
  /\ InAt(c, "open", {"new"})
  /\ InSave(c, [inCall[c].state EXCEPT !.phase = "account-verifying", !.resources = "provisioning"],
            "inspect")
  /\ UNCHANGED InEffects

InAccountReady(c) ==
  /\ inCall[c].pc = "inspect"
  /\ InSave(c, [inCall[c].state EXCEPT !.phase = "account-ready", !.account = TRUE], "account-ready")
  /\ UNCHANGED InEffects

InAccountFails(c, retryable) == inCall[c].pc = "inspect" /\ InFail(c, "account.inspect", retryable)

InProvisioning(c) ==
  /\ inCall[c].pc = "account-ready"
  /\ InSave(c, [inCall[c].state EXCEPT !.phase = "provisioning", !.failed = InNone], "provision")
  /\ UNCHANGED InEffects

InProvision(c) ==
  /\ inCall[c].pc = "provision" /\ inResources' = TRUE
  /\ inCall' = [inCall EXCEPT ![c].pc = "provisioned"]
  /\ UNCHANGED <<inState, inImported, inBundle, inLosses>>

InProvisionFails(c, retryable) ==
  inCall[c].pc \in {"provision", "provisioned"} /\ InFail(c, "realm.provision", retryable)

\* finishProvisioning: a new identity policy, so nobody is enrolled in it.
InFinishProvisioning(c) ==
  /\ inCall[c].pc = "provisioned"
  /\ InSave(c, [inCall[c].state EXCEPT !.phase = "realm-ready", !.resources = "verified",
                  !.account = TRUE, !.realm = TRUE, !.enrolled = {}, !.failed = InNone], "idle")
  /\ UNCHANGED InEffects

-----------------------------------------------------------------------------
(* The owner, the Project and its import *)

InEnrollOwner(c, o) ==
  /\ InAt(c, "open", {"realm-ready"}) /\ inCall[c].state.realm
  /\ o \notin inCall[c].state.enrolled
  /\ InSave(c, [inCall[c].state EXCEPT !.phase = "owner-ready", !.owner = o, !.enrolled = @ \cup {o}],
            "idle")
  /\ UNCHANGED InEffects

InCreateProject(c) ==
  /\ InAt(c, "open", {"owner-ready"}) /\ inCall[c].state.owner # InNone
  /\ InSave(c, [inCall[c].state EXCEPT !.phase = "project-ready", !.project = "ready"], "idle")
  /\ UNCHANGED InEffects

InImportProject(c) ==
  /\ InAt(c, "open", {"project-ready"})
  /\ InSave(c, [inCall[c].state EXCEPT !.phase = "importing", !.project = "importing"], "import")
  /\ UNCHANGED InEffects

InImport(c) ==
  /\ inCall[c].pc = "import" /\ inImported' = TRUE
  /\ inCall' = [inCall EXCEPT ![c].pc = "imported"]
  /\ UNCHANGED <<inState, inResources, inBundle, inLosses>>

\* The importer fails, or its receipt does not cover the Project's Source Spaces.
InImportFails(c, retryable) ==
  inCall[c].pc \in {"import", "imported"} /\ InFail(c, "project.import", retryable)

InFinishImport(c) ==
  /\ inCall[c].pc = "imported"
  /\ InSave(c, [inCall[c].state EXCEPT !.phase = "imported", !.project = "imported", !.failed = InNone],
            "idle")
  /\ UNCHANGED InEffects

-----------------------------------------------------------------------------
(* recordDeploymentReadiness *)

InReadinessPhases == InPhases \ {"new", "account-verifying", "blocked", "recovery-pending"}

\* The phase to resume is the first one any readiness was recorded in.
InResume(s) == IF s.resume # InNone THEN s.resume
               ELSE IF s.phase = "degraded" THEN InNone ELSE s.phase

InReady(c) ==
  LET s == inCall[c].state IN
  /\ InAt(c, "open", InReadinessPhases) /\ s.account
  /\ InSave(c, [s EXCEPT !.phase = IF InResume(s) # InNone THEN InResume(s) ELSE "realm-ready",
                         !.resume = InResume(s), !.failed = InNone], "idle")
  /\ UNCHANGED InEffects

InNotReady(c, retryable) ==
  LET s == inCall[c].state IN
  /\ InAt(c, "open", InReadinessPhases) /\ s.account
  /\ InSave(c, [s EXCEPT !.phase = IF retryable THEN "degraded" ELSE "blocked", !.resume = InResume(s),
                  !.failed = [op |-> "deployment.readiness", retryable |-> retryable]], "idle")
  /\ UNCHANGED InEffects

-----------------------------------------------------------------------------
(* recover: the step that failed, again, if it may be retried *)

InRecoverable(c, op) ==
  InAt(c, "open", {"degraded", "blocked"}) /\ inCall[c].state.failed = [op |-> op, retryable |-> TRUE]

\* Nothing is saved before the provider answers.
InRecoverProvider(c) ==
  /\ \E op \in {"account.inspect", "realm.provision"} :
       /\ InRecoverable(c, op)
       /\ op = "realm.provision" => inCall[c].state.account
       /\ inCall' = [inCall EXCEPT ![c].pc = IF op = "account.inspect" THEN "inspect" ELSE "provision"]
  /\ UNCHANGED <<inState, InEffects>>

InRecoverImport(c) ==
  /\ InRecoverable(c, "project.import")
  /\ InSave(c, [inCall[c].state EXCEPT !.phase = "importing"], "import")
  /\ UNCHANGED InEffects

-----------------------------------------------------------------------------
(* The recovery bundle *)

\* verifyCustomerRealmRecoveryBundle, of what the record itself can get wrong.
InVerified(b) == b.realm /\ b.account /\ b.resources # "none"

\* The object store keeps the bundle under its digest and reads it back.
InKeepBundle(b) == inBundle' = IF InVerified(b) THEN b ELSE inBundle

InExport(c) ==
  /\ inCall[c].pc = "open" /\ inCall[c].state.realm
  /\ InSave(c, inCall[c].state, "idle")
  /\ IF inState' # inState THEN InKeepBundle(inState') ELSE UNCHANGED inBundle
  /\ UNCHANGED <<inResources, inImported, inLosses>>

\* The store is lost, perhaps with the provider's resources.
InLose(all) ==
  /\ inLosses < InMaxLosses /\ inLosses' = inLosses + 1
  /\ inState' = InBlank /\ inCall' = [c \in InCalls |-> InIdle]
  /\ inResources' = (inResources /\ ~ all)
  /\ UNCHANGED <<inImported, inBundle>>

InRestore(c) ==
  /\ InAt(c, "open", {"new"}) /\ inBundle # InNone /\ InVerified(inBundle)
  /\ InSave(c, [inBundle EXCEPT !.phase = "recovery-pending", !.resources = "recovery-pending",
                                !.failed = InNone], "idle")
  /\ UNCHANGED InEffects

InActivate(c, o) ==
  /\ InAt(c, "open", {"recovery-pending"}) /\ o = inCall[c].state.owner /\ inCall[c].state.account
  /\ inCall' = [inCall EXCEPT ![c].pc = "reinspect"]
  /\ UNCHANGED <<inState, InEffects>>

InActivated(c) ==
  LET s == inCall[c].state IN
  /\ s.phase = "recovery-pending" /\ inCall[c].pc = "reinspect" /\ inResources
  /\ InSave(c, [s EXCEPT !.phase = CASE s.project = "imported" -> "active"
                                     [] s.project = "none" -> "owner-ready"
                                     [] OTHER -> "project-ready",
                         !.resources = "verified", !.failed = InNone], "idle")
  /\ UNCHANGED InEffects

InActivationFails(c, retryable) == inCall[c].pc = "reinspect" /\ InFail(c, "realm.recover", retryable)

InNext ==
  \/ \E c \in InCalls :
       \/ InOpen(c) \/ InStop(c) \/ InInstall(c) \/ InAccountReady(c) \/ InProvisioning(c)
       \/ InProvision(c) \/ InFinishProvisioning(c)
       \/ InCreateProject(c) \/ InImportProject(c) \/ InImport(c) \/ InFinishImport(c)
       \/ InReady(c) \/ InRecoverProvider(c) \/ InRecoverImport(c)
       \/ InExport(c) \/ InRestore(c) \/ InActivated(c)
       \/ \E o \in InOwners : InEnrollOwner(c, o) \/ InActivate(c, o)
       \/ \E retryable \in BOOLEAN :
            \/ InAccountFails(c, retryable) \/ InProvisionFails(c, retryable)
            \/ InImportFails(c, retryable) \/ InNotReady(c, retryable)
            \/ InActivationFails(c, retryable)
  \/ \E all \in BOOLEAN : InLose(all)

InSpec == InInit /\ [][InNext]_inVars

-----------------------------------------------------------------------------

InOwned == {"owner-ready", "project-ready", "importing", "imported", "active"}

\* A phase says what was done, and what was done is kept.  From owner-ready on
\* the account is verified, the Realm exists and the owner on record is enrolled
\* in it; imported and active stand on an import the importer verified; and no
\* request, however stale, unverifies the account or forgets an enrolled owner;
\* over concurrent and cut-off requests, recovery of a step, and restore
\* (transition, recover, recordDeploymentReadiness, activateRecovery).
InHistoryKept ==
  /\ [](inState.phase \in InOwned =>
          inState.account /\ inState.realm /\ inState.owner \in inState.enrolled)
  /\ [](inState.phase \in {"imported", "active"} => inState.project = "imported" /\ inImported)
  /\ [][inLosses' = inLosses => /\ inState.enrolled \subseteq inState'.enrolled
                                /\ inState.account => inState'.account]_inVars

\* A ready receipt returns the installation to its prior phase.
InReadyReturns ==
  [][\A c \in InCalls : InReady(c) /\ inState' # inState /\ inState.phase # "degraded"
       => inState'.phase = inState.phase]_inVars
=============================================================================
