# Anyam in TLA+

Anyam keeps a project's source, its changes, the evidence about them and what
runs in production as one lineage (docs/design/architecture.md):

    Git repository -> Source Space, View -> Workspace, Change Revision
      -> Run, Evidence -> Landing (compare-and-swap of the Project Revision)
      -> Artifact, Release -> Target, Promotion -> health / rollback / reconcile

The modules here are translated from the TypeScript under `src/src`,
`src/apps` and `src/packages`. TLC checks them on small instances. Almost all of the
properties of the runs are also theorems, which TLAPS checks for every value of the
constants; section 4 names the ones that are not.

## 1. Inventory

`PROJECT.json` lists every component, the source lines behind every definition
and the hazards, each at the line where it bites. Paths below are relative to
`src/src` unless they say otherwise.

### The lineage

| Component | State it keeps | Operations | What is hard in it | What makes it correct |
|---|---|---|---|---|
| Change control, `change-control/local.ts` | maps of Project Revisions, Workspaces, Changes, Change Revisions, Conflicts; the canonical id | createWorkspace, createChange, publishRevision, registerConflict, resolveConflict, rebaseChange, handoffChange, revertChange, landCohort | createWorkspace and rebaseChange await the materializer and then write copies they read before | one line of Project Revisions; a Landing is its base plus exactly the landed edits; Workspace, Change and latest revision agree |
| Collaboration, `change-control/collaboration.ts`, `cloudflare/cohort-landing.ts` | policies, cohorts, Conflicts, Findings, Approvals, receipts; the SQLite state with its version | activatePolicy, createCohort, submitFinding, resolveFinding, approve, resolveConflict, evaluateLanding, land; load, replay and fenced commit of the authority | the gate is evaluated, the authority is awaited, and the world moves between | the gate holds when the Landing commits; approvals are independent; Landings are serial; every call is answered |
| Canonical refs, `cloudflare/canonical-ref-reconciliation.ts` | version, projection record, checkpoints; the refs of the repositories | reconcile (observe, repair, seal, verify), assertSealed, the Landing that waits for it | two workers, lost workers, late writes, foreign pushes | completion is never reported falsely; no Landing overtakes the refs of the one before; reconciliation completes |
| Authority plane, `cloudflare/authority-plane.ts` | every record of a Realm | some thirty commands | long command sequences, redelivered and reordered host events, ids named by callers | approvals do not outlive their subject, a merge is terminal and of landed work, Evidence and Releases are backed |
| Authority storage, `cloudflare/authority-sqlite.ts`, `authority-recovery.ts` | SQLite rows, custody rows, quarantined bundle | commit of a difference, migration, export, restore, clean-up, activate | a restore compares versions only | recovery loses nothing that was accepted and activates what was restored |

### Execution and delivery

| Component | State it keeps | What is hard in it | What makes it correct |
|---|---|---|---|
| Runners, `execution/runner.ts` | Runners, Jobs, Attempts, offers, credentials | lease expiry against a late result; a Runner lost while it holds several Jobs | one active credential per Job, of the Runner that holds it; an ended Attempt is final |
| Local execution, `execution/local.ts`, `kernel/evidence.ts` | two caches, Evidence ledger, Releases | what may be reused after which edit | passed Evidence names what its Action builds; a ready Release has the whole manifest |
| Promotion hand-off, `cloudflare/promotion-*.ts`, `authority-plane.ts` | Target, Promotions, idempotency ledger | the answer or the Durable Object is lost while the executor goes on | healthy means served; the pointer is a compare-and-swap; identities are final |
| Promotion coordinator, `delivery/promotion.ts` | Target, Promotions, keys, executions | concurrent promotions of one Target interleave at every provider call | the Target is a `TargetPointer` |
| Worker Target adapter, `cloudflare/worker-target.ts`, `promotion-credential-broker.ts` | versions at the provider, identity ledger, traffic | lost uploads, partial rollouts, other people's versions | traffic goes only to versions that hold what they are tagged with |
| Release publication, `delivery/release-publication.ts`, `portability/github-release-assets.ts` | publications, the provider's drafts and assets | one call of several is lost after it took effect | what is recorded as published can be downloaded |

### The Realm and its people

| Component | State it keeps | What is hard in it | What makes it correct |
|---|---|---|---|
| Identity, `identity/realm.ts` | Sessions, Tasks, Grants, Credentials, epochs | revocation against delegation, restart and recovery from an old snapshot | a revoked chain stays revoked; an Agent is within its delegator |
| Owner's claim, `src/apps/realm-worker` | D1 rows, kernel owner, OAuth grants | no transaction spans the three stores | a consent gives one grant at most; what is reported revoked is revoked |
| Public gateway, `cloudflare/public-gateway*.ts` | request ledger, tombstones, R2 archive | compaction, a half-failed archive, replays | one quarantine entry per request; a denial stands through its replay window |
| Hosted Workspaces, `cloudflare/artifacts-workspace.ts` | record, fork, tokens | a token minted while the Workspace is revoked | no token that was handed out outlives the revocation |
| Hosted isolation, `cloudflare/hosted-saas-isolation.ts` | one store for several Realms | a request authenticated before its body is read | every change has its message and its event, under fresh numbers |
| Extensions, `extensions/registry.ts` | manifests, installations, runs | long sequences of legal calls | what runs is what was reviewed |
| Governance, `governance/profiles.ts` | profiles, activations, evaluations | several versions under one id, replay | ready means every required control is met |
| Disclosure, `disclosure/*.ts` | projections, Sealed Verifier runs, publications, intake | what a combination of answers tells | the public sees what it would see if the private part did not exist |

### The edge

| Component | State it keeps | What is hard in it | What makes it correct |
|---|---|---|---|
| Mirror, `portability/mirror.ts`, `github-app.ts` | boundary, Changes, checkpoints; the remote's refs | two synchronizations and pushes of others | a commit made at the remote is never overwritten unseen |
| Mirror ingress, `portability/github-webhook*.ts`, `src/apps/realm-worker` | queue, nonces, Mirror boundary | redelivered and overtaking events | the accepted boundary only advances |
| Provider operations, `cloudflare/customer-provider-operation.ts` | one record, the provider's object | resume, callback and cleanup while a call is under way | succeeded stays succeeded |
| Actions bridge, `portability/github-actions-*.ts` | connection, capabilities, replay ledgers | restarts between the steps of an exchange | nothing is granted or run twice |
| Installation, `installation/customer-realm*.ts` | one record with a digest | concurrent and cut-off requests, recovery | a phase says what was done, and what was done is kept |
| Local agent, `src/packages/create-anyam/src/agent.ts` | state file, lock file, workloads | brokers that die with the lock | a revoked Session stays revoked and has no workload |
| Smart HTTP, `portability/smart-http.ts`, `cloudflare/smart-http-budget-coordinator.ts` | leases, timers | lost answers, leases that expire | at most the limit runs, but for the answer's delay |
| Project transfer, `portability/project-export.ts`, `local-git.ts` | checkpoint file, quarantine, repositories | a process that dies anywhere | what is activated is what was exported |
| Workspace mounts, `kernel/workspace-mounts.ts` | none (an algorithm) | order, case, separators, Unicode | mounts are accepted exactly when they are proper |

Not modelled: section 7.

Interaction. A Realm is a Durable Object. It runs one command at a time, from
loading the state to the SQLite commit (`blockConcurrencyWhile`), so the Authority
modules take one atomic step per command. The coordinators are ordinary objects
whose methods interleave at every `await`, and so are reconciliation workers,
executor runs and providers: there, one step of the model is the code between two
awaits. The services that section 2 composes side by side keep their state to themselves
and meet the lineage only through commands of the Authority.

## 2. Modules

| Module | Models | Composed of |
|---|---|---|
| `ChangeControl`, `ChangeControlProofs` | `LocalChangeCoordinator`, theorems about it | |
| `Collaboration`, `CollaborationProofs` | `CollaborationCoordinator` with `SQLiteCohortLandingAuthority` | |
| `CanonicalRefs`, `CanonicalRefsProofs` | `CanonicalRefReconciler` with the Landing that depends on it | |
| `TargetPointer` | abstract: what a Target promises | |
| `PromotionHandoff`, `PromotionHandoffProofs` | Authority, executor and provider of a Promotion | implements `TargetPointer` |
| `WorkerPromotions` | `WorkerPromotionCoordinator` | implements `TargetPointer` |
| `WorkerAdapter` | `CloudflareWorkerTargetAdapter` and the credential broker | |
| `Authority` | source lineage commands | |
| `AuthorityPullRequests` | Pull Requests, reviews, Repository Mirror | `Authority` |
| `AuthorityDelivery` | Runs, Evidence, Artifacts, Releases | `Authority` |
| `AuthorityProofs` | theorems about the three | `AuthorityDelivery`, `AuthorityPullRequests` |
| `AuthorityStorage` | rows, custody and recovery of the Authority | |
| `Runners`, `LocalExecution`, `ReleasePublication` | execution and publication | |
| `RealmIdentity`, `OwnerClaim`, `PublicGateway`, `HostedWorkspaces`, `HostedIsolation`, `Extensions`, `GovernanceProfiles`, `Disclosure` | services of a Realm | |
| `MirrorSync`, `MirrorIngress`, `ProviderOperations`, `ActionsBridge`, `Installation`, `LocalAgent`, `GitTransport`, `ProjectTransfer`, `WorkspaceMounts` | services at the edge | |
| `MCDeliveryServices`, `MCRealmServices`, `MCEdgeServices` | services side by side | the modules of their group |
| `DeliveryServicesProofs`, `RealmServicesProofs`, `EdgeServicesProofs` | theorems about these services, each alone and side by side | the three `MC...Services` |
| other `MC...` | constants and symmetry of the runs | the module of that name |

`PromotionHandoff` and `AuthorityDelivery` need no MC module: their configurations give every
constant its value. The specification of `AuthorityPullRequests` has names of its own (`PrInit`,
`PrNext`, `PrSpec`), so that `AuthorityProofs` can extend both compositions of `Authority`.

A definition marked "mutant" is the body a plausible bug would give to the
definition after it. Nothing in the specifications uses it. Where a service module
is combined with others, its names carry a prefix of their own (`Wp`, `Rp`, `Id`, ...).

The three side-by-side modules. The services in them share no variable. A variable
`service`, chosen at the start and never changed, says whose behaviour it is, and all
others stand still. An invariant of one service therefore has in this
specification exactly the states it has in the service's own, and so has an action property; the
product of the state spaces, which would show nothing more, is not built.

### The lineage

**ChangeControl.** The five maps and `canonicalProjectRevisionId` are the variables.
`pending` holds, for each concurrent caller, what its method read before the `await`.
createWorkspace is `BeginCreateWorkspace`, `Materialize` (the materializer writes the
directory) and `FinishCreateWorkspace` or `FailMaterialize`. rebaseChange shares the middle and
ends in `FinishRebaseChange`, which writes back `read` and `readPrevious`, the copies the code
read before waiting, whatever happened to the Change since. The other methods are one
action each. A Snapshot is a model value and a View a set of Source Spaces. Assumed: ids are fresh
and materializations are non-empty. Left out: Project ids, file contents, titles.

**Collaboration.** `land` is `BeginLand` (the coordinator's gate), then one authority step
that replays a receipt or loads the SQLite state, then a commit with the version fence or a
refusal, then `FinishLand`. createCohort is split in the same way. The authority's landing
callback is the coordinator's own `evaluateLanding`, as the repository's tests wire it.
`db.version` is compared when the commit happens, so everything that changed after loading
makes the commit fail. Left out: the audit log, disclosure projections, and the policy-wide
evidence requirement that names no revision.

**CanonicalRefs.** A worker's `reconcile` is a record with its position, the space it is at,
the copy of the projection record it holds and the provider's reply. `wire` holds writes of lost
workers that may still arrive. `Lose` can strike at any await, `LateWrite` delivers or drops
what was under way, and `ExternalMove` is another writer's push. The provider is external and
modelled from how the reconciler calls it.

**Authority, AuthorityPullRequests, AuthorityDelivery.** One action per command. Inputs that
callers name (a candidate Project Revision id, a View, a commit, heads, statuses, generations) are
chosen with `\E` from small sets; ids the server generates are `Fresh`. `mirror.sync` and
`mirror.reconcile` share the import of a host's proposal: `ImportHead` (one revision per head not
yet observed), then `ProjectPullRequest` with the reported status. In AuthorityDelivery queued
and running Runs are alike, as are failed and indeterminate ones. One Mirror, without
Intents. Commands about Targets, Runners, keys and Realm settings are not part of these modules.

**AuthorityStorage.** What a command does is the subject of Authority. Here it writes one
entity, one audit event and one idempotency record, all named by its key, as a difference against the
rows. Custody rows of hosted Workspaces move without the version. A digest is the data it is taken of.
The audit is a set of events, each with the version it was committed with, by which the rows are
ordered (`authority-sqlite.ts:225`).

**PublicGateway.** Records and tombstones are sets; `no` is an entry's place in the code's arrays, which
are in the order of submission. An entry is found by its newest of a request (`GwNewest`), tombstones
are archived oldest first and the archive may fail after any number of them (`GwFirst`,
`GwCompactFails`). The policy that `compactLedger` takes is a constant of the model, with one retention for
denials that may be retried and one for terminal ones.

### Execution and delivery

**TargetPointer.** Three variables: current Release, history, state. The pointer moves only
to a Release found healthy, the history only grows, a doubt changes neither, and a recovery names
the Release named before. `PromotionHandoff` maps `target.current`, `target.history` and
`target.state` to it (`IsTargetPointer`, also proved), `WorkerPromotions` its own Target
(`WpIsTargetPointer`).

**PromotionHandoff.** The Authority's command is `ExecutePromotion` or `ReconcilePromotion`
(checks, then the hand-off) and `RecordResult` (validation, write, commit) is its end. Between
them `realm` is busy. Each executor run is a record in `runs` that goes through preview, apply, health
check, rollback and rollback check, one adapter call per step. It goes on after `LoseReply` (the
Authority records an indeterminate result) or `ResetRealm` (nothing is recorded), as a Worker
whose caller went away does. All executor replies that are not 2xx become `degraded`, as in the
code. Left out: nonces, signatures, `expectedVersion` and the text of receipts.

**WorkerPromotions.** promote, retryPromotion and rollbackToPrevious, and the execution they
start, split at every provider call. Ids and keys are given in order, which costs no generality.

**WorkerAdapter.** Every execution has an adapter with a cache of its own; the identity ledger
and the provider are shared. Finding, uploading and reading back a version, the steps of a
rollout and the rollback are separate actions, each of which may be refused or lose its answer.
`WaMaxMeddling` bounds what other people upload and delete.

**Runners, LocalExecution, ReleasePublication.** One action per call of a Runner or
operator. In LocalExecution an Action's output is a function of the inputs it declares; the properties hold for
`EditsDuringRun = FALSE` (section 6). ReleasePublication splits at every call to the provider,
whose answer may be lost after it took effect; several Artifacts share a Release and a file name.

### The Realm

**RealmIdentity** keeps one Principal with Sessions, Grants and Credentials; every use walks the chain
to the human Session again. **OwnerClaim** stops at any await with the effects so far in
place. **PublicGateway** runs one operation at a time on the ledger, against an archive that may fail
half way. **HostedWorkspaces** interleaves fork, mint and revoke at every provider call, with
process deaths. **HostedIsolation** separates the authentication of a request from the reading of its
body. **Extensions** and **GovernanceProfiles** are sequential registries: one action per call.
**Disclosure** states its main property by comparison: every public answer is computed twice, from
the record and from the record without its private part. The intake controller (`Di...`) is a
service of its own there.

### The edge

**MirrorSync**: each synchronization is split at its provider calls; others push and land
meanwhile. The remote's generation is a digest of its refs and is modelled by the refs. The refs
still to be proposed are a set, taken in any order.
**MirrorIngress**: webhook route, queue, producer and ingestion; only the ingestion is a step of
the Realm. **ProviderOperations** and **Installation**: one record written by compare-and-set on a
digest, which is a version number here. **ActionsBridge**: exchange and operations split at every
await, with restarts from snapshots. **LocalAgent**: brokers read and write the whole state file under
a lock file that a dead broker leaves behind. **GitTransport**: discrete time, a lease per
transfer, and the delay between the coordinator's answer and the start of the timer.
**ProjectTransfer**: a process that may die at any step and is started again under its key.
**WorkspaceMounts**: the loop of the code, one turn per step, on sequences of characters; the
reference `WmAcceptsProper` is stated on folders, without an order. The code splits a path into a list
of segments; here a segment is a section between two neighbouring separators, which says the same
without recursion.

## 3. Runs

| Run | Instance | Shows |
|---|---|---|
| `change_control` | 2 callers, 3 Workspaces, 2 Changes, 3 revisions, 1 Conflict, 3 directories, 1 Landing | `LineageSound`, `WorkspacesExclusive` in every interleaving of two materializations with publish, Conflict, rebase and Landing; a Landing takes the latest revision and no Conflict of its Workspace (`LandsOnlyClean`) |
| `change_control_cohort` | 2 Source Spaces, cohorts of up to 2, 3 Project Revisions | `LandingsSound`: one line, no lost update, nothing landed twice |
| `collaboration_review` | revisions rA, rA2 of one Change and rB of another, an owner rule, author, verifier and reviewer, 2 policies, 1 activation, 1 land call | `ReviewSound`: what lands was approved by an actor who neither wrote nor verified it; `LandsOnFreshGate`: the gate held at the moment of the commit |
| `collaboration_serial` | 3 cohorts, 2 land calls | `LandingsAgree`: serial Landings, replays agree with the receipt; `LandSettles`: every call is answered |
| `canonical_refs` | 2 workers, 2 repositories, 2 Landings, 1 foreign push, 1 lost worker | `RefsSound`, `LandingWaitsForRefs`; `ReconcileCompletes`: reconciliation ends unless a ref was moved or saved progress overwritten |
| `reconciliation_stuck` | 2 workers, 2 repositories, 1 Landing, no fault | expected violation of `ReconcileAlwaysCompletes`, section 6 |
| `promotion_handoff` | 3 Promotions, 2 Releases (one reversible), 3 keys, 3 executor runs, 1 loss | `HandoffSound`, `PromotionsAreFinal`, refinement `IsTargetPointer` |
| `authority_pull_requests` | 2 Workspaces, 1 Change, 2 revisions, 1 Pull Request, 1 proposal, 2 deliveries, 2 commits | `RecordsRestorable`; `PullRequestsSound`: approvals are of what the Pull Request now is, each head is one revision, merged is landed; `PullRequestsSettle`: merge is terminal, a redelivery moves nothing |
| `authority_delivery` | 2 Changes, 3 Project Revisions, 1 Run, 2 Evidence, 1 Artifact, 1 Release | `LandingsSound`, `DeliverySound` |
| `delivery_services` | 2 Runners, 2 Jobs of 2 Attempts; 3 Releases of a two-Action manifest; 3 Promotions under 4 keys; 2 publications of 3 Artifacts; 2 adapter executions with 1 fault and 1 foreign act | leases and credentials agree, ended Attempts are final, Evidence is rebuilt, published is downloadable, traffic is verified, refinement `WpIsTargetPointer` |
| `realm_services` | 2 Sessions, 2 Grants, 1 Credential, 2 epochs; 2 ceremonies, 1 consent submitted twice; 2 requests over 2 time units and 1 tombstone, retention 0 and 1; 3 calls, 3 tokens, 1 death; 3 packages; 2 profile versions; 2 Source Spaces; 2 hosted Realms; 2 commands, 2 bundles | what section 1 names for each service of a Realm |
| `edge_services` | 2 synchronizations, 2 foreign moves; 2 deliveries, 2 consumers; 2 operation calls; 2 tokens, 1 restart; 2 installation requests, 6 transitions; 2 brokers, 2 Sessions; 3 transfers over 2 slots; an import that dies once; mounts of up to 2 Source Spaces at 11 paths | what section 1 names for each service at the edge |

The named parts of a property (`TypeOK`, `InseparableLineage`, ...) are definitions of
their own in the modules; a run checks their conjunction.

Why the bounds are enough. Each instance has room for the shortest bad history and at
least one step more: two callers for a stale write, two Landings for a lost update or a ref
put back, two deliveries for a replay, three Promotions so that one succeeds, one fails and one
returns to the first Release, a third transfer for a limit of two, and one loss, death or restart at any
point. Every property is also shown to depend on the code: for each, a mutated definition
(`PROJECT.json`, "mutants") makes TLC find a violation within the same bounds. `CHECK_DEADLOCK
FALSE` stands where ids, time or permitted losses run out; no component is meant to run
forever on a finite supply. The runs with liveness use no symmetry.

In `edge_services` an import of an exported package and one of a Git repository are not
under way in the same behaviour (`MCOneImport`); they have their own destinations. In
`realm_services` no human Grant denies explicitly (`IdDeniedSets`), see `IdDenyIsInherited`.

Fairness. `Collaboration`: weak fairness of the continuation of a call that has been made
(`FinishCreateCohort`, the authority's step, `FinishLand`), because promises settle and the authority
holds no lock while it waits. `CanonicalRefs`: weak fairness of a worker's next step and of
`BeginReconcile`; the provider answers or the worker is lost, and reconciliation is retried by its
callers. Nothing is assumed about users, hosts, foreign writers or losses. The other modules state
safety only and have no fairness: their retries are up to a user or an operator, whom the code does
not drive.

## 4. Proofs

The theorems hold for every value of the constants: any number of ids, callers, workers,
repositories, commits, packages and transfers, and any bound on runs, losses and restarts. Each
invariant is proved from a stronger one that is inductive, with one step per action. `PROJECT.json`
lists the theorems.

### The lineage

`ChangeControlProofs`:

* `LineageSoundCorrect`. `InseparableLineage` is not inductive alone: `FinishRebaseChange` writes
  back copies read before an await. `IInv` therefore says what a pending call still knows: the
  Workspace and Change it read exist, and every id inside a record refers to a record (`RefsOK`).
* `LandingsSoundCorrect`, from `LinearLineageCorrect`, `LandsOnceCorrect` and
  `LandingComposesEditsCorrect`. A Landing needs every member based on the canonical revision and
  the new one's parent is that revision, so a landed revision is never landable again. The
  composition is by induction over the members of the cohort, in any order.
* `WorkspacesExclusiveCorrect` and `LandsOnlyCleanCorrect`, under `WorkspacesInv`: an open Conflict
  keeps its Workspace blocked through every stale write, and a Landing's revision is the one its
  Workspace holds, so its Conflicts are those of the Change.

`CollaborationProofs` (`CollInv`): `ReviewSoundCorrect`, `LandingsAgreeCorrect`,
`LandsOnFreshGateCorrect`. The version fence is the heart: a suspended `land` that is current has
loaded the Authority's snapshot (`LandCallSound`), so a commit that passes the fence moves the
revision that its members are based on, and no two calls land on one. An answered call has landed,
and ids of cohorts under composition are new and different (`ComposingSound`).

`CanonicalRefsProofs` (`CrInv`): `RefsSoundCorrect` and `LandingWaitsForRefsCorrect`. What is needed
besides the two: what a suspended verification has seen sealed is sealed still (`CallSound`: a write
that arrives late is refused because the generation or the sealing has gone on); a request of a lost
worker carries the epoch of the revision it was made for (`RequestSound`); each Landing has a later
epoch; and a call that is to land and whose version is current lands on a completed projection of
the canonical revision.

`AuthorityProofs`:

* `LandingsSoundCorrect`, `LineageRestorableCorrect` from `LineageInv`, in lemmas about single
  commands that both compositions use. The strengthening: a revision has its Change's base (a Change
  without a Workspace is landed without comparing them), and a Change that landed stays marked.
* `DeliverySoundCorrect` from `LineageInv /\ DeliveryInv`. The strengthening: the Change Revision a
  Run names exists, so that no later publication gives it a source, and a Run with a signed result
  is final, since `runner.complete` only asks that it is queued.
* `RecordsRestorableCorrect`, `PullRequestsSoundCorrect` and the action property
  `PullRequestsSettleCorrect` from `PrInv`: what Pull Requests and proposals refer to exists
  (`PullRequestsRefer`), and the lineage commands only add to it.

### Execution and delivery

`PromotionHandoffProofs`, from `IInv == TypeOK /\ InFlight /\ KnownGood /\ Undisturbed /\
HealthyIsServed`: `HandoffSoundCorrect`, `PromotionsAreFinalCorrect` and `RefinesTargetPointer`.
`InFlight` ties the busy Realm to the last run and that run to the Target it was given; `Undisturbed`
says that without losses only that run can be unfinished. Every step of Authority, executor and
provider is a step of `TargetPointer` or a stutter.

`DeliveryServicesProofs`:

* Runners: `RunnerLeaseIsCurrentCorrect`, `RunnerJobAgreesCorrect` and `RunnerAttemptsFinalCorrect`
  from `RunnerInv` (at most one offer, lease and credential of a Job, of its last Attempt).
* Local execution: `ExecReleaseIsSoundCorrect` (`ExecInv`: every cached or recorded result is what its
  inputs give, and a Release under way has one for each Action so far, which the files agree with). Hypothesis: `~ EditsDuringRun`, as in
  the run; without it the property is false (section 6).
* `WpRefinesTargetPointer`, the second implementation of `TargetPointer`, and
  `WpHealthyIsServedCorrect`. An execution that waits keeps the Releases of its Promotion
  (`WpRunsAreOfReleases`), so even a stale one moves the pointer as the abstract Target allows.
* `RpPublishedIsDownloadableCorrect` (`RpProgress`: what a publication has behind it is at the
  provider, whose Releases and assets only grow) and `WaDeploysVerifiedCorrect` (`WaInv`: a ledger
  entry names a version of its Release, and a job has read back what it deploys).
* `DeliveryServicesAreConsistent`: all of them side by side, with their types.

### The Realm

`RealmServicesProofs`:

* `IdRevokedStaysRevokedCorrect`, `IdAgentWithinDelegatorCorrect` (`IdInv`): a Grant is derived from
  one of an earlier number and the same chain is revoked together, so the length of the
  chain does not matter; by well-founded induction on the number of the Grant.
* `OcGrantsAgreeCorrect` (`OcOneHolder`: a consent is taken by one submission),
  `HwRevokedHasNoTokenCorrect` (`HwInv`: one fork and one mint are under way at most; a token that
  was returned and still honoured is among those that a revocation under way will revoke).
* `ExRunsWhatWasReviewedCorrect`, `GpReadyIsMetCorrect`, together `GovernanceIsAppliedCorrect`, which
  is about the composition; `SaStoreAgreesCorrect` (`SaInv`: a snapshot that a commit will compare
  with is itself sound).
* `GwDecisionsStandCorrect` (`GwInv`): the terminal record of a request is its last one, there is one
  terminal tombstone at most, and until its window is over a request is still answered from its
  records, or by a tombstone that lasts as long, in the ledger or in the archive. Hypothesis
  `GwRetriesLeaveFirst`: a denial that may be retried is retained no longer than a terminal one, as in
  the run and in the repository's tests; without it the property is false (section 6). `GwTypeCorrect`
  needs none.
* `AsRecoveryIsExactCorrect`, an invariant and an action property (`AsInv`): no event is later than its
  snapshot's version; until a clean-up a bundle is no newer than the rows and one of their version has
  their history; a quarantine holds what its bundle says.
* `DsPublicIsPublicCorrect` (`DsInv`: a projection, sealed result or clone was computed from the
  public part, which makes it equal to the one computed without the private part).
* `RealmServicesAreConsistent`, about the composition: the types of all the services,
  `IdAgentWithinDelegator` and `SaStoreAgrees`.

### The edge

`EdgeServicesProofs`:

* `GtSlotsAreHeldCorrect` (`GtInv`: each transfer inside its lease holds a slot of its own; hence a
  cardinality), `MsNothingOverwrittenCorrect` (`MsInv`: the base and the canonical refs were
  landed, what the Mirror last saw was proposed or landed), `MiBoundaryOnlyAdvancesCorrect` (`MiInv`:
  a generation in flight is not ahead of the remote), `PoSucceededStaysCorrect` (`PoCallSound`: what a
  suspended call may still write is nothing that takes a success back), `BrNothingTwiceCorrect` (`BrInv`:
  what was acknowledged is in the saved ledgers, from which a restart goes on), `InHistoryKeptCorrect`
  (`InSound`: a phase says what was done, also in the bundle and in each copy).
* `PtActivatedIsExportedCorrect` (`PtKeySound`: every repository that the checkpoint, or the copy
  that a process holds, calls completed is in its destination as exported). Hypothesis: `PtOwnDests`, imports with different keys have different destinations.
  The run's instance satisfies it; two imports into one destination are outside both.
* `LaRevocationHoldsCorrect` (`LaInv`: the lock file names the broker inside the lock, which has read the
  state file as it is; when one is about to unlink it no other is inside; a workload that was let go
  has its process group in the file and its Session not revoked), for any number of brokers. Hypotheses:
  `[]LaTakesOverAlone`, no two wait behind a dead broker, without which the property is false (section 6),
  and `~ LaSlowCreator`, a broker that has created the lock file writes its process id before others
  lose patience. `LaRevocationOfTwoHolds` derives the first for two brokers, the run's instance, which also
  satisfies the second. `LaTypeCorrect` needs neither.
* `WmAcceptsProperCorrect` (`WmInv`: the mounts walked through so far are normal, disclosed and apart from each
  other), for any number of mounts and any paths. Three arguments carry it: the code's prefix test on
  folded strings holds exactly when the folders of one path are among those of the other
  (`WmFoldersWithin`, `WmOverlapIs`: by the least position at which the paths differ and the number of
  separators before it), a normal string is one without bad folders (`WmNormalIs`), and of as many
  mounts as Source Spaces each Source Space has one exactly when no two mounts are for the same
  (`WmOneEach`, by counting).
* About the composition of the services: `EdgeServicesKeepTheirPromises` and `EdgeRevocationHolds` are
  these properties, and `EdgeServicesAreConsistent` is `EdgeServicesConsistent` as the run checks it, with
  the types of all services.

### Assumptions

The named ASSUMEs of the modules: `None` is none of the ids or records it stands beside, initial ids
are members of their sets, the bounds are naturals (positive where a first snapshot, epoch or
version must exist), submissions, transfers and deliveries are finite in number, and packages
(`ExPackageAssumption`) are manifests of the kind the registry parses. TLC evaluates them in the runs.

### Only model-checked

* `LandSettles`, `ReconcileCompletes` and the expected violation `ReconcileAlwaysCompletes`. There
  are no rules here for fairness and ENABLED.

Every other property of a passing run is stated by a theorem of the same name followed by `Correct`, or
by one named above. What the runs add is the evidence that the properties are not empty: instances in
which the interesting cases happen, and mutants that violate them.

## 5. What the properties do not say

* `HealthyIsServed` holds while no answer or Realm has been lost. After a loss an orphaned
  executor run may still change what the provider serves, unknown to the Authority.
  `WpHealthyIsServed` is about calls made one at a time: two Promotions at once can leave the
  coordinator's current Release other than the one served.
* `CompleteIsSealed` is about the moment of sealing: a foreign push afterwards is found by the
  next verification, not prevented.
* `WaDeploysVerified` is about what traffic is given to, not about who gave it last: the adapter
  reads the base deployment once and reuses it for every step, so a deployment made by another
  between two steps is overwritten. After an aborted rollout the traffic stays split, and the next
  rollout may take the aborted version for its base (`worker-target.ts:699`).
* `LaRevocationHolds` is about at most one waiter behind a dead broker (section 6).
* `GtSlotsAreHeld` allows a transfer to outlast its lease by the answer's delay: the lease lives
  as long as the transfer may take, but the timer starts after the answer has arrived.
* `RpPublishedIsDownloadable` says nothing of availability: a second Artifact of a published
  immutable Release can never be uploaded, and two Artifacts of one file name collide.
* `AsRecoveryIsExact` shows the other side of an exact restore: until a qualification clean-up,
  a bundle can be restored only over the very state it was exported from, so a Realm that lost its
  storage cannot be restored from it.
* `MsNothingOverwritten` speaks of commits. The record of a synchronization can be wrong in other
  ways: a refused one turns `divergent` into `blocked` (`mirror.ts:466`), and a retryable failure is
  answered from its key ever after.
* Raw Git access that goes around the Authority is outside every model.

## 6. Where the documents and the code disagree

Checked by a run that expects a violation:

* **Reconciliation that never completes** (`ReconcileAlwaysCompletes`, run `reconciliation_stuck`).
  `save` loads the snapshot again and commits against that, so the fence never compares with the
  snapshot the worker's copy was made from, and a second worker writes its older copy over a saved
  seal (`canonical-ref-reconciliation.ts:136`). The seal is not saved again, because its checkpoint
  exists (line 130). `assertSealed` then refuses forever (line 200) and no later Cohort can land. The
  comment at line 62: "Pending progress and completion use the existing Authority SQLite
  transaction/version fence"; ADR 0002, line 9: "Anyam reconciles ordinary Git refs idempotently from
  that manifest".

Stated in the modules as a definition, and found false by TLC in the same way, without a run of
their own:

| Statement | Code | Against |
|---|---|---|
| `RevisionsFormChain` | `change-control/local.ts:737`, rebaseChange publishes from the latest revision it read before its await | ADR 0005:14 "Publishing a newer revision supersedes the prior candidate for Landing but never erases it." |
| `ClosedStaysClosed` | `local.ts:565`, resolveConflict reopens a closed Workspace | ADR 0111:3 "closes the previous Workspace" |
| `NoOpenConflictLands` | `local.ts:882`, only Conflicts of the revision's own Workspace count | ADR 0005:18 "all blocking Conflicts must be resolved" |
| `ConflictsResolvedByRevision` | `local.ts:558` | comment at `local.ts:568` "A new Change Revision is the durable resolution." |
| `WorkspaceServesOneChange` | `local.ts:788`, revertChange attaches a Workspace without claiming it | ADR 0111:3 |
| `LandedIsRevertible` | `local.ts:777`, only the first member of a cohort is remembered | its own error text |
| `ApprovalsOfThisActivation` | `collaboration.ts:527`, `:1028` | comment at `collaboration.ts:523` |
| `NoLandingWithOpenFinding` | `collaboration.ts:1012` | ADR 0005:16, ADR 0035:35 |
| `IdentitySurvivesRestart` | `authority-plane.ts:1250` awaits the executor before anything is stored | ADR 0056:70 "Durable Object restarts do not erase the provider operation identity or recovery receipt." |
| `NoMergeWithoutReopen` | `authority-plane.ts:2027`, the import of a host's report does not consult the transition table | ADR 0108:37 "Direct merge from `closed` or `blocked` is impossible without explicit reopen" |
| `ReleasedSourceWasVerified` | `authority-plane.ts:2114` compares Project Revision ids only | ADR 0013:63, Evidence is stale when the source Snapshot changes |
| `VerifiedOutcomeRecorded` | `promotion-execution.ts:448`, `:457`, a verified rollback is recorded as degraded | ADR 0033:101, ADR 0006:20 |
| `MergedAsReviewed` | revision.publish does not touch the Pull Request | ADR 0102 "A new source state requires a new review" |
| `RecordedIsImported` | `authority-plane.ts:2039`, a blocked sync's delivery stays in the ledger | ADR 0017:131 "deduplicates retries" |
| `WpRefusedIsBlocked` | `promotion.ts:854`, `:538`, a missing profile or capability throws and leaves the record proposed | ADR 0033, what `blocked` means |
| `ExecEvidenceIsRebuilt` with `EditsDuringRun = TRUE` | `execution/local.ts`, inputs are read before the command and not after | comment at line 884 "a stale or partial match is never reused" |
| `IdDenyIsInherited` | `identity/realm.ts`, a derived Grant does not carry its parent's denials | ADR 0008:26 "An explicit deny wins." |
| `OcOwnersAgree` | `passkey-owner.ts:808`, two ceremonies end with one owner in D1 and the other in the kernel | the error text at `apps/realm-worker/src/index.ts:2445` |
| `MiAckedIsTaken` | `apps/realm-worker/src/index.ts:1579`, the retry of a blocked ingestion is taken for a success | docs/qualification/github-app.md:112 |
| `InReadyReturns` | `customer-realm.ts:781` | ADR 0039:85 "ready receipt returns the installation to its prior phase" |
| `LaRevocationSurvives` with three brokers | `agent.ts:991`, two waiters take over one dead broker's lock | ADR 0029:109 |
| `ExPolicyCoversEffects` | `registry.ts:516` checks capabilities, not effects, against the policy | ADR 0025:109 |
| `GwDecisionsStand` when denials that may be retried are retained longer than terminal ones | `public-gateway.ts:976`; the older record hides the tombstone of the terminal denial, and the request is decided again (line 616) | ADR 0046:41 "Terminal denial: denied records remain detailed [...] then become exact tombstones" |
| `GpReplayIsExact` | `profiles.ts`, replay evaluates the registered version of the bundle's profile id | the bundle's own digest |

Noticed while modelling, and faithful to the code in the modules:

* A retry during an automatic rollback leaves the Promotion `proposed`, and a later promote runs with a
  stale previous Release (`promotion.ts`).
* A Publication lands from `previewed`, without approval (`hybrid.ts:1058`; ADR 0032:69).
* A process that dies while copying leaves a partial quarantine that blocks its key
  (`project-export.ts:1016`; ADR 0019:50), and one that dies before `project-export.json` is written leaves an
  activated import without it (lines 1076 to 1078).
* A gateway or intake that was suspended, cleaned up and opened again has skipped its review.
* A quarantined Runner that is marked unavailable can be activated again.
* Cleaning up a provider operation and then resuming it leaves the object at the provider.
* A Project created with a blank correlation header exists although the answer says that no mutation was
  performed (`hosted-saas-isolation.ts:231`).
* Separators are replaced before NFKC, so a full-width backslash comes out as a backslash in a path
  that is to have `/` only (`workspace-mounts.ts:124`).
* An installation whose request is cut off in `account-verifying`, or that is `blocked`, has no way on.

## 7. Not modelled, and the plan

Not modelled, because they keep no protocol state: routing and request parsing of the Realm Worker
(its routes with state are in the modules), the command line and its log-in
(`packages/create-anyam/src/auth.ts`, `cli.ts`), the GitHub App client (the external provider of three
modules), harness adapters and stage qualification (drivers and scenarios), production operations (a
checklist of receipts), the site, fixtures and test workers. Cryptography, Git's wire format, redaction
and wording are abstracted wherever they occur.

Partly modelled, and what is missing: the Authority plane (Intents, Target, Runner, key and Realm
settings commands), the local agent (harness setup, Action parsers, sandbox profile), the Smart HTTP
transport (credentials, byte limits), hosted Workspaces (observation of commits, recovery of
artifacts) and portability (LFS objects, Artifact files).

Theorems still worth proving, in this order:

1. An abstract Landing line that `ChangeControl`, `Collaboration` and `Authority` all implement, as
   `PromotionHandoff` and `WorkerPromotions` do `TargetPointer`.
2. The safety half of `ReconcileCompletes`: what a reconciliation has behind it is lost only to a moved
   ref or to overwritten progress.
3. `PtActivatedIsExported` when two imports share a destination, with what the code leaves of it then.
