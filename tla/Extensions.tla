------------------------------ MODULE Extensions ------------------------------
(* Extensions of a Realm (ExtensionRegistry in extensions/registry.ts).  The *)
(* registry is an object in one process and every operation is one step; the *)
(* hard part is in the sequences of legal calls: a package is registered,    *)
(* installed under a grant, replaced, suspended, revoked and invoked while   *)
(* the policy of the Realm changes.  A right is a pair of its kind, effect   *)
(* or capability, and its name.                                              *)
EXTENDS Integers, Sequences, FiniteSets

CONSTANTS
  ExPackages,         \* published manifests: [id, digest, trust, requested, lifecycle]
  ExNames,            \* names of effects and capabilities
  ExScopes,           \* scopes an installation may have
  ExMaxInstallations, \* bounds
  ExMaxRuns

ASSUME ExAssumption == {ExMaxInstallations, ExMaxRuns} \subseteq Nat

VARIABLES
  exManifests,      \* registered manifests, with the lifecycle they were given
  exInstallations,  \* installations in the order they were made
  exPolicy,         \* names the policy of the Realm allows at this time
  exRuns            \* invocations that were not blocked

exVars == <<exManifests, exInstallations, exPolicy, exRuns>>

ExRights == {"effect", "capability"} \X ExNames

\* The names of the rights of a kind.
ExNamed(rights, kind) == {n \in ExNames : <<kind, n>> \in rights}

ExHighRisk == {"canonical.write", "change.approve", "identity.manage", "policy.manage",
               "secret.value.read", "target-promote", "target.promote"}

ExKernel == {"change.approve", "landing.request", "policy.manage", "identity.manage",
             "target.promote"}

ExLifecycle == {"proposed", "enabled", "deprecated", "suspended", "revoked", "replaced", "blocked"}

ExManifest == [id : {p.id : p \in ExPackages}, digest : {p.digest : p \in ExPackages},
               trust : {"first-party", "verified", "unverified"},
               requested : SUBSET ExRights, lifecycle : ExLifecycle]

ASSUME ExPackageAssumption == ExPackages \subseteq ExManifest

ExInstallation == [manifest : ExManifest, scope : ExScopes, granted : SUBSET ExRights,
                   lifecycle : ExLifecycle, lineage : 1 .. ExMaxInstallations,
                   replaces : 0 .. ExMaxInstallations]

\* denied: names of the run that the policy did not allow when it was let through.
ExRun == [installation : 1 .. ExMaxInstallations, rights : SUBSET ExRights,
          status : {"allowed", "proposal"}, denied : SUBSET ExNames]

ExTypeOK ==
  /\ exManifests \subseteq ExManifest
  /\ exInstallations \in Seq(ExInstallation) /\ Len(exInstallations) <= ExMaxInstallations
  /\ exPolicy \subseteq ExNames /\ exRuns \subseteq ExRun

ExInit == exManifests = {} /\ exInstallations = <<>> /\ exPolicy = ExNames /\ exRuns = {}

-----------------------------------------------------------------------------
(* Registration *)

\* An unverified package that asks for a high-risk right is blocked; what a
\* publisher declares deprecated or revoked stays so.
ExRegisteredAs(package) ==
  IF package.trust = "unverified"
     /\ (ExNamed(package.requested, "effect") \cup ExNamed(package.requested, "capability"))
          \cap ExHighRisk # {}
    THEN "blocked"
  ELSE IF package.lifecycle \in {"deprecated", "revoked"} THEN package.lifecycle
  ELSE "proposed"

ExRegisterEveryDigest(package) ==            \* mutant: a version may have several digests
  /\ exManifests' = exManifests \cup {[package EXCEPT !.lifecycle = ExRegisteredAs(package)]}
  /\ UNCHANGED <<exInstallations, exPolicy, exRuns>>

\* registerManifest: an id and version has one digest for good.
ExRegister(package) ==
  /\ \A m \in exManifests : m.id # package.id
  /\ exManifests' = exManifests \cup {[package EXCEPT !.lifecycle = ExRegisteredAs(package)]}
  /\ UNCHANGED <<exInstallations, exPolicy, exRuns>>

-----------------------------------------------------------------------------
(* Installations *)

\* authorize asks the policy of the Realm for each capability.
ExAuthorized(rights) == ExNamed(rights, "capability") \subseteq exPolicy

ExInstallable(m, granted) ==
  /\ m \in exManifests /\ m.lifecycle \notin {"blocked", "deprecated", "revoked"}
  /\ granted \subseteq m.requested
  /\ "canonical.write" \notin ExNamed(granted, "effect")
  /\ ExAuthorized(granted)

ExInstalled(m, scope, granted, replaces) ==
  [manifest |-> m, scope |-> scope, granted |-> granted, lifecycle |-> "enabled",
   replaces |-> replaces,
   lineage |-> IF replaces = 0 THEN Len(exInstallations) + 1
               ELSE exInstallations[replaces].lineage]

ExInstall(m, scope, granted) ==
  /\ Len(exInstallations) < ExMaxInstallations
  /\ ExInstallable(m, granted)
  /\ exInstallations' = Append(exInstallations, ExInstalled(m, scope, granted, 0))
  /\ UNCHANGED <<exManifests, exPolicy, exRuns>>

\* replace and migrateProvider: whatever the lifecycle of the current one is.
ExReplace(i, m, granted) ==
  /\ Len(exInstallations) < ExMaxInstallations
  /\ ExInstallable(m, granted)
  /\ exInstallations' = Append([exInstallations EXCEPT ![i].lifecycle = "replaced"],
                               ExInstalled(m, exInstallations[i].scope, granted, i))
  /\ UNCHANGED <<exManifests, exPolicy, exRuns>>

\* deprecate, suspend and revoke.
ExTransition(i, lifecycle) ==
  /\ exInstallations[i].lifecycle \notin {"replaced", "revoked", lifecycle}
  /\ exInstallations' = [exInstallations EXCEPT ![i].lifecycle = lifecycle]
  /\ UNCHANGED <<exManifests, exPolicy, exRuns>>

\* invoke; an invocation that is blocked leaves an event only.
ExInvoke(i, rights) ==
  LET capabilities == ExNamed(rights, "capability") IN
  /\ Cardinality(exRuns) < ExMaxRuns
  /\ exInstallations[i].lifecycle = "enabled"
  /\ "secret.value.read" \notin capabilities
  /\ rights \subseteq exInstallations[i].granted \cap exInstallations[i].manifest.requested
  /\ ExAuthorized(rights)
  /\ exRuns' = exRuns \cup {[installation |-> i, rights |-> rights,
       status |-> IF capabilities \cap ExKernel # {} THEN "proposal" ELSE "allowed",
       denied |-> {r[2] : r \in rights} \ exPolicy]}
  /\ UNCHANGED <<exManifests, exInstallations, exPolicy>>

\* The Realm withdraws a right or gives it back.
ExPolicyChanges(name) ==
  /\ exPolicy' = IF name \in exPolicy THEN exPolicy \ {name} ELSE exPolicy \cup {name}
  /\ UNCHANGED <<exManifests, exInstallations, exRuns>>

ExNext ==
  \/ \E package \in ExPackages : ExRegister(package)
  \/ \E m \in exManifests : \E granted \in SUBSET m.requested :
       \/ \E scope \in ExScopes : ExInstall(m, scope, granted)
       \/ \E i \in DOMAIN exInstallations : ExReplace(i, m, granted)
  \/ \E i \in DOMAIN exInstallations :
       \/ \E lifecycle \in {"deprecated", "suspended", "revoked"} : ExTransition(i, lifecycle)
       \/ \E rights \in SUBSET exInstallations[i].granted \ {{}} : ExInvoke(i, rights)
  \/ \E name \in ExNames : ExPolicyChanges(name)

ExSpec == ExInit /\ [][ExNext]_exVars

-----------------------------------------------------------------------------

\* What runs is what was reviewed: the rights an invocation used were granted
\* to an installation of the one package its id and version stand for, no
\* unverified package used a high-risk right, a capability of the kernel's own
\* authority came out as a proposal only, and neither the canonical write nor a
\* Secret value was reached, through any order of registration, replacement,
\* policy change and revocation (registerManifest, install, replace, invoke).
ExRunsWhatWasReviewed ==
  \A run \in exRuns :
    LET i == exInstallations[run.installation]
        names == {r[2] : r \in run.rights}
    IN /\ run.rights \subseteq i.granted
       /\ {m \in exManifests : m.id = i.manifest.id} = {i.manifest}
       /\ i.manifest.trust = "unverified" => names \cap ExHighRisk = {}
       /\ ExNamed(run.rights, "capability") \cap ExKernel # {} => run.status = "proposal"
       /\ <<"effect", "canonical.write">> \notin run.rights
       /\ <<"capability", "secret.value.read">> \notin run.rights

\* An invocation that was let through used nothing the policy of the Realm
\* denied at that time (invoke).
ExPolicyCoversEffects == \A run \in exRuns : run.denied = {}
=============================================================================
