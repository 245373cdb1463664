-------------------------- MODULE AuthorityDelivery --------------------------
(***************************************************************************)
(* Runs, Evidence, Artifacts and Releases of AuthorityPlaneCoordinator     *)
(* (src/cloudflare/authority-plane.ts): what connects a Landing to a       *)
(* Release.  A Run is queued by run.request and completed by the signed    *)
(* result of an enrolled Runner, or recorded with any status by run.record *)
(* on its caller's word; Evidence and Artifacts come from either; a        *)
(* Release is made of those that name the canonical Project Revision.      *)
(*                                                                         *)
(* Between the steps anyone may publish, land, request and record.  A      *)
(* completion verifies a signature and keeps Artifact bytes first, but     *)
(* inside blockConcurrencyWhile: it is one step, and a completion sent     *)
(* again under a fresh idempotency key is the same step tried again.  The  *)
(* Runner is enrolled; digests other than that of the source are left out. *)
(* A Workspace named next to its View adds conditions and is left out.     *)
(***************************************************************************)
EXTENDS Authority

CONSTANTS RunIds, EvidenceIds, ArtifactIds, ReleaseIds

ASSUME DeliveryAssumption == None \notin RunIds \cup EvidenceIds \cup ArtifactIds

VARIABLES
  runs,                \* id -> record
  evidence,            \* id -> record
  artifacts,           \* id -> record
  releases             \* id -> record

delivery == <<runs, evidence, artifacts, releases>>

vars == <<lineage, delivery>>

-----------------------------------------------------------------------------
(* The records. *)

\* No command tells a running Run from a queued one, or an indeterminate
\* Run from a failed one; nor Evidence that is failed, stale or
\* indeterminate.  One name stands for each.
Final == {"succeeded", "failed"}

Statuses == {"queued"} \cup Final

Outcomes == {"passed", "failed"}

Views == WorkspaceIds \cup {None}

Run ==
  [revision : ProjectRevisionIds,               \* projectRevisionId
   change   : RevisionIds \cup {None},          \* changeRevisionId
   view     : Views,
   status   : Statuses]

\* source is what a Runner signed for: sourceSpaceSnapshots, which Evidence
\* recorded on a caller's word does not have.
Evidence ==
  [revision : ProjectRevisionIds,
   change   : RevisionIds \cup {None},
   run      : RunIds,
   outcome  : Outcomes,
   source   : Commits \cup {None}]

Artifact ==
  [revision : ProjectRevisionIds,
   change   : RevisionIds \cup {None},
   run      : RunIds \cup {None}]

Release ==
  [revision  : ProjectRevisionIds,
   artifacts : SUBSET ArtifactIds,
   evidence  : SUBSET EvidenceIds,
   change    : RevisionIds \cup {None}]

TypeOK ==
  /\ LineageTypeOK
  /\ IsMap(runs, RunIds, Run)
  /\ IsMap(evidence, EvidenceIds, Evidence)
  /\ IsMap(artifacts, ArtifactIds, Artifact)
  /\ IsMap(releases, ReleaseIds, Release)

Init ==
  /\ LineageInit
  /\ runs = [u \in {} |-> None]
  /\ evidence = [e \in {} |-> None]
  /\ artifacts = [t \in {} |-> None]
  /\ releases = [l \in {} |-> None]

-----------------------------------------------------------------------------
(* run.request and run.record. *)

\* Change Revision r was published for Project Revision p.
BoundTo(r, p) ==
  /\ r \in DOMAIN changeRevisions
  /\ changeRevisions[r].candidate = p

\* ... and through the View, which exists.
BoundThrough(r, p, view) ==
  /\ BoundTo(r, p)
  /\ changeRevisions[r].view = view
  /\ view \in DOMAIN workspaces

NewRun(p, r, view, status) ==
  runs' = Set(runs, Fresh(runs, RunIds),
              [revision |-> p, change |-> r, view |-> view, status |-> status])

RequestRun(p, r, view) ==
  /\ HasFresh(runs, RunIds)
  /\ IF r # None
       THEN BoundThrough(r, p, view)
       ELSE /\ p \in DOMAIN projectRevisions
            /\ view \in DOMAIN workspaces
            /\ workspaces[view].base = p
  /\ NewRun(p, r, view, "queued")
  /\ UNCHANGED <<lineage, evidence, artifacts, releases>>

\* A caller that names neither Project nor Change Revision is not asked
\* whether the Project Revision exists.
RecordRun(p, r, view, status) ==
  /\ HasFresh(runs, RunIds)
  /\ IF r # None
       THEN BoundThrough(r, p, view)
       ELSE p \in DOMAIN projectRevisions => view \in DOMAIN workspaces
  /\ NewRun(p, r, view, status)
  /\ UNCHANGED <<lineage, evidence, artifacts, releases>>

-----------------------------------------------------------------------------
(* runner.complete: the Run becomes final together with its Evidence and   *)
(* its Artifacts.                                                          *)

Completable(u) == runs[u].status = "queued"

\* The source the Run must have been executed on: that of its Change
\* Revision, or of its Project Revision.
SourceOf(run) ==
  IF run.change # None THEN changeRevisions[run.change].snapshot
  ELSE IF run.revision \in DOMAIN projectRevisions
    THEN projectRevisions[run.revision].snapshot ELSE None

OutcomeOf(status) == IF status = "succeeded" THEN "passed" ELSE "failed"

CompleteRun(u, status, outputs) ==
  LET run == runs[u]
      e == Fresh(evidence, EvidenceIds)
  IN  /\ HasFresh(evidence, EvidenceIds)
      /\ Completable(u)
      /\ run.view \in DOMAIN workspaces
      /\ SourceOf(run) # None
      /\ outputs \cap DOMAIN artifacts = {}
      /\ runs' = [runs EXCEPT ![u].status = status]
      /\ evidence' = Set(evidence, e,
           [revision |-> run.revision, change |-> run.change, run |-> u,
            outcome |-> OutcomeOf(status), source |-> SourceOf(run)])
      /\ artifacts' = [t \in DOMAIN artifacts \cup outputs |->
           IF t \in DOMAIN artifacts THEN artifacts[t]
           ELSE [revision |-> run.revision, change |-> run.change, run |-> u]]
      /\ UNCHANGED <<lineage, releases>>

-----------------------------------------------------------------------------
(* evidence.record and artifact.record. *)

\* Without a Change Revision, a Project Revision that is not there passes
\* when the caller names no Project; one that is there needs the View.
EvidenceBound(run, r) ==
  /\ run.change # None => r = run.change
  /\ IF r # None
       THEN BoundThrough(r, run.revision, run.view)
       ELSE run.revision \in DOMAIN projectRevisions =>
              run.view \in DOMAIN workspaces

Supports(run) == run.status = "succeeded"

RecordEvidence(u, r, outcome) ==
  /\ HasFresh(evidence, EvidenceIds)
  /\ Supports(runs[u])
  /\ EvidenceBound(runs[u], r)
  /\ evidence' = Set(evidence, Fresh(evidence, EvidenceIds),
       [revision |-> runs[u].revision, change |-> r, run |-> u,
        outcome |-> outcome, source |-> None])
  /\ UNCHANGED <<lineage, runs, artifacts, releases>>

RecordArtifact(p, r, u) ==
  /\ HasFresh(artifacts, ArtifactIds)
  /\ r # None => BoundTo(r, p)
  /\ u # None => /\ p \in DOMAIN projectRevisions \/ r # None
                 /\ u \in DOMAIN runs
                 /\ runs[u].revision = p
                 /\ r # None => runs[u].change = r
                 /\ Supports(runs[u])
  /\ artifacts' = Set(artifacts, Fresh(artifacts, ArtifactIds),
                      [revision |-> p, change |-> r, run |-> u])
  /\ UNCHANGED <<lineage, runs, evidence, releases>>

-----------------------------------------------------------------------------
(* release.create *)

PassedAnywhere(es, p) == \A e \in es : evidence[e].outcome = "passed"   \* mutant: the revision of the Evidence is not compared

PassedOn(es, p) ==
  \A e \in es : evidence[e].revision = p /\ evidence[e].outcome = "passed"

CreateRelease(p, ts, es, r) ==
  /\ HasFresh(releases, ReleaseIds)
  /\ p = canonical
  /\ ts # {} /\ es # {}
  /\ \A t \in ts : artifacts[t].revision = p
  /\ PassedOn(es, p)
  /\ r # None => BoundTo(r, p)
  /\ releases' = Set(releases, Fresh(releases, ReleaseIds),
       [revision |-> p, artifacts |-> ts, evidence |-> es, change |-> r])
  /\ UNCHANGED <<lineage, runs, evidence, artifacts>>

-----------------------------------------------------------------------------
RunNext ==
  \/ \E p \in ProjectRevisionIds, r \in DOMAIN changeRevisions \cup {None},
        view \in Views :
       \/ RequestRun(p, r, view)
       \/ \E status \in Statuses :
            RecordRun(p, r, view, status)
  \/ \E u \in DOMAIN runs, status \in Final, outputs \in SUBSET ArtifactIds :
       CompleteRun(u, status, outputs)

RecordNext ==
  \/ \E u \in DOMAIN runs, r \in DOMAIN changeRevisions \cup {None},
        outcome \in Outcomes :
       RecordEvidence(u, r, outcome)
  \/ \E p \in ProjectRevisionIds, r \in DOMAIN changeRevisions \cup {None},
        u \in DOMAIN runs \cup {None} :
       RecordArtifact(p, r, u)
  \/ \E p \in DOMAIN projectRevisions, ts \in SUBSET DOMAIN artifacts,
        es \in SUBSET DOMAIN evidence,
        r \in DOMAIN changeRevisions \cup {None} :
       CreateRelease(p, ts, es, r)

Next ==
  \/ LineageNext /\ UNCHANGED delivery
  \/ RunNext
  \/ RecordNext

Spec == Init /\ [][Next]_vars

-----------------------------------------------------------------------------
(* What holds. *)

\* Passed Evidence never outlives or contradicts the Run it names: the Run
\* succeeded, on the same Project Revision, and what a Runner signed for is
\* still the source of its Change Revision, or of its Project Revision.
EvidenceBacked ==
  \A e \in DOMAIN evidence :
    LET ev == evidence[e]
    IN  /\ ev.run \in DOMAIN runs
        /\ runs[ev.run].revision = ev.revision
        /\ ev.outcome = "passed" => runs[ev.run].status = "succeeded"
        /\ ev.source # None => ev.source = SourceOf(runs[ev.run])

\* A Run is completed once, however often its signed completion is sent, so
\* no second result of it can stand beside the first ("this Runner
\* completion is a replay or stale Attempt").
CompletedOnce ==
  \A e, f \in DOMAIN evidence :
    /\ evidence[e].source # None
    /\ evidence[f].source # None
    /\ evidence[e].run = evidence[f].run
    => e = f

\* Every Release is of a Project Revision that landed (or was the first),
\* and all of its Evidence is passed and names that revision, whatever was
\* published, landed or recorded since (release.create).
ReleaseBacked ==
  \A l \in DOMAIN releases :
    LET rel == releases[l]
    IN  /\ rel.revision \in DOMAIN projectRevisions
        /\ rel.evidence # {}
        /\ \A e \in rel.evidence :
             /\ e \in DOMAIN evidence
             /\ evidence[e].outcome = "passed"
             /\ evidence[e].revision = rel.revision
             /\ runs[evidence[e].run].status = "succeeded"

\* The records have their types, and every Change lands on the Project Revision
\* it was made from, and once (landing.apply).
LandingsSound == TypeOK /\ LandedOnItsBase

\* What is delivered stays backed by what it names: Evidence by its Run, a Run by
\* one result, a Release by passed Evidence (runner.complete, evidence.record,
\* release.create).
DeliverySound == EvidenceBacked /\ CompletedOnce /\ ReleaseBacked

-----------------------------------------------------------------------------
(* What the documents say and the code does not do. *)

\* docs/adr/0013: "Anyam marks Evidence stale when a material bound state
\* changes, including: source Snapshot, Project Revision, or Change
\* Revision".  The id of a Project Revision is named by the caller, first
\* for a Change Revision and again at Landing, so Evidence of one source
\* under an id backs a Release of another source that landed under it.
ReleasedSourceWasVerified ==
  \A l \in DOMAIN releases :
    \A e \in releases[l].evidence :
      evidence[e].source \in
        {None, projectRevisions[releases[l].revision].snapshot}
=============================================================================
