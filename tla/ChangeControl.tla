---------------------------- MODULE ChangeControl ----------------------------
(***************************************************************************)
(* LocalChangeCoordinator of src/change-control/local.ts: Workspaces are   *)
(* materialized from an exact Project Revision, stable Changes publish     *)
(* immutable Change Revisions from them, and Landing advances the          *)
(* canonical Project Revision by compare-and-swap.                         *)
(*                                                                         *)
(* Every method runs to completion on the one JavaScript thread, so it is  *)
(* one action, except createWorkspace and rebaseChange: they await the     *)
(* file system between reading the coordinator's maps and writing them.    *)
(* Each of these is a Begin action, which keeps in pending[q] what the     *)
(* method has read, and a Finish or Fail action.                           *)
(*                                                                         *)
(* A map of the class is a function whose domain is the ids in use.  An id *)
(* is a fresh random UUID (opaqueId), so which unused id a step takes is   *)
(* immaterial; the ids that exist bound the run.  A rejected request       *)
(* throws before it changes anything and is no step.                       *)
(***************************************************************************)
EXTENDS Naturals, Sequences

CONSTANTS
  SourceSpaces,        \* Project.sourceSpaceIds
  Snapshots,           \* Source Space snapshot ids
  InitialSnapshots,    \* snapshots of the first canonical Project Revision
  Views,               \* visible Source Spaces of the Project Views in use
  Actors,              \* actors a Change is handed to
  Directories,         \* Workspace target directories
  Requests,            \* concurrent callers of createWorkspace, rebaseChange
  ProjectRevisionIds, WorkspaceIds, ChangeIds, RevisionIds, ConflictIds,
  MaxMembers,          \* largest cohort that is landed
  None                 \* a field that is not set

ASSUME ConstantsAssumption ==
  /\ InitialSnapshots \in [SourceSpaces -> Snapshots]
  /\ Views \subseteq SUBSET SourceSpaces
  /\ ProjectRevisionIds # {}
  /\ MaxMembers \in Nat \ {0}
  /\ None \notin ProjectRevisionIds \cup WorkspaceIds \cup ChangeIds
                   \cup RevisionIds \cup ConflictIds \cup Actors

VARIABLES
  projectRevisions,    \* id -> record
  canonical,           \* id of the canonical Project Revision
  workspaces,          \* id -> record
  changes,             \* id -> record
  revisions,           \* id -> record
  conflicts,           \* id -> record
  directories,         \* directory -> Workspaces renamed onto it
  pending              \* request -> what a suspended method has read

vars == <<projectRevisions, canonical, workspaces, changes, revisions,
          conflicts, directories, pending>>

Fresh(f, Ids) == CHOOSE id \in Ids : id \notin DOMAIN f

HasFresh(f, Ids) == Ids \ DOMAIN f # {}

Set(f, k, v) == [x \in DOMAIN f \cup {k} |-> IF x = k THEN v ELSE f[x]]

-----------------------------------------------------------------------------
(* The records the coordinator keeps. *)

ProjectRevision ==
  [snapshots : [SourceSpaces -> Snapshots],
   parent    : ProjectRevisionIds \cup {None},
   first     : RevisionIds \cup {None},         \* landedChangeRevisionId
   landed    : SUBSET RevisionIds]              \* landedChangeRevisionIds

\* A mount holds the snapshot of its Source Space in the Workspace's base:
\* createWorkspace and materializeWorkspace refuse any other.
Workspace ==
  [base   : ProjectRevisionIds,
   mounts : SUBSET SourceSpaces,
   state  : {"active", "blocked", "closed"},
   change : ChangeIds \cup {None},
   actor  : Actors \cup {None}]

Change ==
  [base      : ProjectRevisionIds,
   status    : {"active", "submitted", "landed"},
   latest    : RevisionIds \cup {None},
   workspace : WorkspaceIds \cup {None},
   reverts   : RevisionIds \cup {None}]

ChangeRevision ==
  [change    : ChangeIds,
   workspace : WorkspaceIds,
   base      : ProjectRevisionIds,
   parent    : RevisionIds \cup {None},
   sequence  : Nat,
   snapshots : UNION {[M -> Snapshots] : M \in SUBSET SourceSpaces}]

Conflict ==
  [change     : ChangeIds,
   workspace  : WorkspaceIds,
   state      : {"open", "resolved"},
   resolution : RevisionIds \cup {None}]

Idle == [kind |-> "idle"]

CreateCall ==
  [kind : {"create"}, base : ProjectRevisionIds, mounts : SUBSET SourceSpaces,
   directory : Directories]

\* rebaseChange also holds the Change and the Workspace it has read.
RebaseCall ==
  [kind : {"rebase"}, base : ProjectRevisionIds, mounts : SUBSET SourceSpaces,
   directory : Directories, change : ChangeIds, read : Change,
   previous : WorkspaceIds \cup {None}, readPrevious : Workspace \cup {None}]

-----------------------------------------------------------------------------
(* The constructor: one canonical Project Revision, nothing else. *)
Init ==
  LET first == CHOOSE id \in ProjectRevisionIds : TRUE
  IN  /\ canonical = first
      /\ projectRevisions = [p \in {first} |->
           [snapshots |-> InitialSnapshots, parent |-> None,
            first |-> None, landed |-> {}]]
  /\ workspaces = [w \in {} |-> None]
  /\ changes = [c \in {} |-> None]
  /\ revisions = [r \in {} |-> None]
  /\ conflicts = [k \in {} |-> None]
  /\ directories = [d \in Directories |-> {}]
  /\ pending = [q \in Requests |-> Idle]

Baseline(base, mounts) ==
  [s \in mounts |-> projectRevisions[base].snapshots[s]]

OpenConflicts(c, w) ==
  {k \in DOMAIN conflicts : /\ conflicts[k].change = c
                            /\ conflicts[k].workspace = w
                            /\ conflicts[k].state = "open"}

-----------------------------------------------------------------------------
(* createWorkspace and materializeWorkspace.  The checks and the stat that *)
(* refuses an existing target come first; nothing removes a directory, so  *)
(* a target that is absent at the stat was absent at the call.             *)

Materializable(base, mounts, d) ==
  /\ base \in DOMAIN projectRevisions
  /\ mounts \in Views
  /\ directories[d] = {}

BeginCreateWorkspace(q, base, mounts, d) ==
  /\ pending[q] = Idle
  /\ Materializable(base, mounts, d)
  /\ pending' = [pending EXCEPT ![q] = [kind |-> "create", base |-> base,
                                        mounts |-> mounts, directory |-> d]]
  /\ UNCHANGED <<projectRevisions, canonical, workspaces, changes, revisions,
                 conflicts, directories>>

\* rename(staging, directory) refuses a directory that has content.  The
\* Workspace that it returns is registered in the same turn.
Materialize(q, w) ==
  /\ directories[pending[q].directory] = {}
  /\ directories' = [directories EXCEPT ![pending[q].directory] = {w}]
  /\ pending' = [pending EXCEPT ![q] = Idle]

NewWorkspace(call, c) ==
  [base |-> call.base, mounts |-> call.mounts, state |-> "active",
   change |-> c, actor |-> None]

FinishCreateWorkspace(q) ==
  LET w == Fresh(workspaces, WorkspaceIds)
  IN  /\ pending[q].kind = "create"
      /\ HasFresh(workspaces, WorkspaceIds)
      /\ Materialize(q, w)
      /\ workspaces' = Set(workspaces, w, NewWorkspace(pending[q], None))
      /\ UNCHANGED <<projectRevisions, canonical, changes, revisions, conflicts>>

\* The file system fails, or the rename finds the target taken: the staging
\* directory is removed and the caller gets the error.
FailMaterialize(q) ==
  /\ pending[q] # Idle
  /\ pending' = [pending EXCEPT ![q] = Idle]
  /\ UNCHANGED <<projectRevisions, canonical, workspaces, changes, revisions,
                 conflicts, directories>>

-----------------------------------------------------------------------------

CreateChange(w) ==
  LET c == Fresh(changes, ChangeIds)
  IN  /\ w \in DOMAIN workspaces
      /\ HasFresh(changes, ChangeIds)
      /\ workspaces[w].state = "active"
      /\ workspaces[w].change = None
      /\ changes' = Set(changes, c,
           [base |-> workspaces[w].base, status |-> "active", latest |-> None,
            workspace |-> w, reverts |-> None])
      /\ workspaces' = [workspaces EXCEPT ![w].change = c]
      /\ UNCHANGED <<projectRevisions, canonical, revisions, conflicts,
                     directories, pending>>

RegisterConflict(c) ==
  LET k == Fresh(conflicts, ConflictIds)
      w == changes[c].workspace
  IN  /\ c \in DOMAIN changes
      /\ HasFresh(conflicts, ConflictIds)
      /\ w # None
      /\ conflicts' = Set(conflicts, k,
           [change |-> c, workspace |-> w, state |-> "open",
            resolution |-> None])
      /\ workspaces' = [workspaces EXCEPT ![w].state = "blocked"]
      /\ UNCHANGED <<projectRevisions, canonical, changes, revisions,
                     directories, pending>>

\* The Workspace becomes active or blocked whatever it was before.
ResolveConflict(k) ==
  LET w == conflicts[k].workspace
  IN  /\ k \in DOMAIN conflicts
      /\ conflicts' = [conflicts EXCEPT ![k].state = "resolved"]
      /\ workspaces' = [workspaces EXCEPT ![w].state =
           IF \E j \in DOMAIN conflicts \ {k} : /\ conflicts[j].workspace = w
                                                /\ conflicts[j].state = "open"
             THEN "blocked" ELSE "active"]
      /\ UNCHANGED <<projectRevisions, canonical, changes, revisions,
                     directories, pending>>

\* What publishRevision writes for a Change record ch attached to Workspace
\* w with record ws.  The record is a parameter: rebaseChange publishes from
\* the Change that it read before it was suspended.
NewRevision(c, ch, w, ws, snapshots) ==
  [change |-> c, workspace |-> w, base |-> ws.base, parent |-> ch.latest,
   sequence |-> IF ch.latest = None THEN 1 ELSE revisions[ch.latest].sequence + 1,
   snapshots |-> snapshots]

Published(ch, w, r) ==
  [ch EXCEPT !.latest = r, !.status = "submitted", !.workspace = w]

\* The resolved Conflicts of the Change and Workspace name the revision.
RecordResolution(c, w, r) ==
  [k \in DOMAIN conflicts |->
     IF /\ conflicts[k].change = c
        /\ conflicts[k].workspace = w
        /\ conflicts[k].state = "resolved"
       THEN [conflicts[k] EXCEPT !.resolution = r]
       ELSE conflicts[k]]

PublishRevision(c, snapshots) ==
  LET ch == changes[c]
      w  == ch.workspace
      r  == Fresh(revisions, RevisionIds)
  IN  /\ c \in DOMAIN changes
      /\ HasFresh(revisions, RevisionIds)
      /\ w # None
      /\ workspaces[w].state # "closed"
      /\ OpenConflicts(c, w) = {}
      /\ snapshots \in [workspaces[w].mounts -> Snapshots]
      /\ revisions' = Set(revisions, r, NewRevision(c, ch, w, workspaces[w], snapshots))
      /\ changes' = [changes EXCEPT ![c] = Published(ch, w, r)]
      /\ conflicts' = RecordResolution(c, w, r)
      /\ UNCHANGED <<projectRevisions, canonical, workspaces, directories, pending>>

-----------------------------------------------------------------------------
(* rebaseChange reads the Change and its Workspace, awaits createWorkspace *)
(* and then writes back both from what it read.                            *)

BeginRebaseChange(q, c, base, mounts, d) ==
  LET w == changes[c].workspace
  IN  /\ pending[q] = Idle
      /\ c \in DOMAIN changes
      /\ Materializable(base, mounts, d)
      /\ pending' = [pending EXCEPT ![q] =
           [kind |-> "rebase", base |-> base, mounts |-> mounts, directory |-> d,
            change |-> c, read |-> changes[c], previous |-> w,
            readPrevious |-> IF w = None THEN None ELSE workspaces[w]]]
      /\ UNCHANGED <<projectRevisions, canonical, workspaces, changes,
                     revisions, conflicts, directories>>

RebasedChangeKeepsBase(call) == call.read   \* mutant: base not moved

\* The Change that is written back: the one read, on its new base.
RebasedChange(call) == [call.read EXCEPT !.base = call.base]

UnboundPrevious(call) ==   \* mutant: the previous Workspace is not closed
  [call.readPrevious EXCEPT !.change = None]

\* The previous Workspace is written back closed, and unbound.
ClosedPrevious(call) == [call.readPrevious EXCEPT !.change = None, !.state = "closed"]

\* The new Workspace has no Conflict, so the publication cannot be refused
\* and the catch block that restores the Change is never entered.
FinishRebaseChange(q) ==
  LET call == pending[q]
      w    == Fresh(workspaces, WorkspaceIds)
      r    == Fresh(revisions, RevisionIds)
      ws   == NewWorkspace(call, call.change)
      ch   == RebasedChange(call)
  IN  /\ call.kind = "rebase"
      /\ HasFresh(workspaces, WorkspaceIds)
      /\ HasFresh(revisions, RevisionIds)
      /\ Materialize(q, w)
      /\ revisions' = Set(revisions, r,
           NewRevision(call.change, ch, w, ws, Baseline(call.base, call.mounts)))
      /\ changes' = [changes EXCEPT ![call.change] = Published(ch, w, r)]
      /\ workspaces' =
           LET attached == Set(workspaces, w, ws)
           IN  IF call.previous = None THEN attached
               ELSE Set(attached, call.previous, ClosedPrevious(call))
      /\ UNCHANGED <<projectRevisions, canonical, conflicts>>

HandoffChange(c, a) ==
  LET w == changes[c].workspace
  IN  /\ c \in DOMAIN changes
      /\ w # None
      /\ workspaces' = [workspaces EXCEPT ![w].actor = a]
      /\ UNCHANGED <<projectRevisions, canonical, changes, revisions, conflicts,
                     directories, pending>>

\* revertChange recognizes a landed revision by landedChangeRevisionId.
WasLanded(r) == \E p \in DOMAIN projectRevisions : projectRevisions[p].first = r

RevertChange(r, w) ==
  LET c == Fresh(changes, ChangeIds)
  IN  /\ r \in DOMAIN revisions
      /\ HasFresh(changes, ChangeIds)
      /\ WasLanded(r)
      /\ w # None => workspaces[w].base = canonical
      /\ changes' = Set(changes, c,
           [base |-> canonical, status |-> "active", latest |-> None,
            workspace |-> w, reverts |-> r])
      /\ UNCHANGED <<projectRevisions, canonical, workspaces, revisions,
                     conflicts, directories, pending>>

-----------------------------------------------------------------------------
(* landCohort; landChange is the cohort of one.  A member is a Change with *)
(* its latest revision: any other revision is refused.                     *)

LandableDespiteConflicts(c) ==   \* mutant: Conflicts not looked at
  LET r == changes[c].latest
  IN  /\ r # None
      /\ revisions[r].base = canonical
      /\ changes[c].base = canonical

Landable(c) ==
  LET r == changes[c].latest
  IN  /\ r # None
      /\ OpenConflicts(c, revisions[r].workspace) = {}
      /\ revisions[r].base = canonical
      /\ changes[c].base = canonical

Member(members, i) == revisions[changes[members[i]].latest]

Naming(members, s) ==
  {i \in DOMAIN members : s \in DOMAIN Member(members, i).snapshots}

CompatibleAlways(members) == TRUE   \* mutant: the last member wins

\* The members are composed in order.  A snapshot that an earlier member
\* moved away from the canonical one may only be repeated.
Compatible(members) ==
  \A s \in SourceSpaces : \A i, j \in Naming(members, s) :
    i < j => Member(members, i).snapshots[s]
               \in {projectRevisions[canonical].snapshots[s],
                    Member(members, j).snapshots[s]}

NextSnapshots(members) ==
  [s \in SourceSpaces |->
     IF Naming(members, s) = {} THEN projectRevisions[canonical].snapshots[s]
     ELSE LET last == CHOOSE i \in Naming(members, s) :
                        \A j \in Naming(members, s) : j <= i
          IN  Member(members, last).snapshots[s]]

Landing(members) == {members[i] : i \in DOMAIN members}

LandingAccepted(members) ==
  /\ Landing(members) \subseteq DOMAIN changes
  /\ \A i, j \in DOMAIN members : members[i] = members[j] => i = j
  /\ \A c \in Landing(members) : Landable(c)
  /\ Compatible(members)

NextProjectRevision(members) ==
  [snapshots |-> NextSnapshots(members), parent |-> canonical,
   first |-> changes[members[1]].latest,
   landed |-> {changes[c].latest : c \in Landing(members)}]

Landed(members) ==
  [c \in DOMAIN changes |->
     IF c \in Landing(members) THEN [changes[c] EXCEPT !.status = "landed"]
     ELSE changes[c]]

LandCohort(members) ==
  LET p == Fresh(projectRevisions, ProjectRevisionIds)
  IN  /\ HasFresh(projectRevisions, ProjectRevisionIds)
      /\ LandingAccepted(members)
      /\ projectRevisions' = Set(projectRevisions, p, NextProjectRevision(members))
      /\ canonical' = p
      /\ changes' = Landed(members)
      /\ UNCHANGED <<workspaces, revisions, conflicts, directories, pending>>

-----------------------------------------------------------------------------

Cohorts == UNION {[1..n -> ChangeIds] : n \in 1..MaxMembers}

Next ==
  \/ \E q \in Requests, p \in DOMAIN projectRevisions, m \in Views, d \in Directories :
       BeginCreateWorkspace(q, p, m, d)
  \/ \E q \in Requests, c \in DOMAIN changes, p \in DOMAIN projectRevisions,
        m \in Views, d \in Directories : BeginRebaseChange(q, c, p, m, d)
  \/ \E q \in Requests : FinishCreateWorkspace(q)
  \/ \E q \in Requests : FinishRebaseChange(q)
  \/ \E q \in Requests : FailMaterialize(q)
  \/ \E w \in DOMAIN workspaces : CreateChange(w)
  \/ \E c \in DOMAIN changes : RegisterConflict(c)
  \/ \E k \in DOMAIN conflicts : ResolveConflict(k)
  \/ \E c \in DOMAIN changes, m \in Views : \E snapshots \in [m -> Snapshots] :
       PublishRevision(c, snapshots)
  \/ \E c \in DOMAIN changes, a \in Actors : HandoffChange(c, a)
  \/ \E r \in DOMAIN revisions, w \in DOMAIN workspaces \cup {None} :
       RevertChange(r, w)
  \/ \E members \in Cohorts : LandCohort(members)

Spec == Init /\ [][Next]_vars

-----------------------------------------------------------------------------
(* Properties. *)

IsMap(f, Ids, T) == DOMAIN f \subseteq Ids /\ f \in [DOMAIN f -> T]

\* Every map of the coordinator holds records of its kind.
TypeOK ==
  /\ IsMap(projectRevisions, ProjectRevisionIds, ProjectRevision)
  /\ canonical \in DOMAIN projectRevisions
  /\ IsMap(workspaces, WorkspaceIds, Workspace)
  /\ IsMap(changes, ChangeIds, Change)
  /\ IsMap(revisions, RevisionIds, ChangeRevision)
  /\ IsMap(conflicts, ConflictIds, Conflict)
  /\ directories \in [Directories -> SUBSET WorkspaceIds]
  /\ pending \in [Requests -> {Idle} \cup CreateCall \cup RebaseCall]

\* The canonical lineage is one line (landCohort's compare-and-swap): no
\* Project Revision is succeeded twice, and nothing succeeds the canonical one.
LinearLineage ==
  /\ \A p \in DOMAIN projectRevisions : projectRevisions[p].parent # canonical
  /\ \A p, q \in DOMAIN projectRevisions :
       /\ projectRevisions[p].parent = projectRevisions[q].parent
       /\ projectRevisions[p].parent # None
       => p = q

\* No lost update.  Against the Project Revision it succeeds, a landed one
\* differs exactly by the edits of the revisions landed with it: each was
\* based on that predecessor, each of their edits is in the result whatever
\* the order of the members, and nothing else has moved (landCohort).
LandingComposesEdits ==
  \A p \in DOMAIN projectRevisions :
    LET new == projectRevisions[p]
        old == projectRevisions[new.parent]
    IN  new.parent # None =>
          /\ \A r \in new.landed :
               /\ revisions[r].base = new.parent
               /\ \A s \in DOMAIN revisions[r].snapshots :
                    revisions[r].snapshots[s] \in {old.snapshots[s], new.snapshots[s]}
          /\ \A s \in SourceSpaces : new.snapshots[s] # old.snapshots[s] =>
               \E r \in new.landed : /\ s \in DOMAIN revisions[r].snapshots
                                     /\ revisions[r].snapshots[s] = new.snapshots[s]

\* A Change Revision lands at most once, also when its Change is handed to
\* another cohort or reset by a rebase that was suspended while it landed.
LandsOnce ==
  \A p, q \in DOMAIN projectRevisions :
    projectRevisions[p].landed \cap projectRevisions[q].landed # {} => p = q

\* Workspace, Change and latest Change Revision are one lineage (ADR 0111):
\* they agree on the base Project Revision and on the Workspace, whatever a
\* suspended rebaseChange writes back.
InseparableLineage ==
  \A c \in DOMAIN changes :
    LET ch == changes[c]
    IN  /\ ch.workspace # None =>
             /\ ch.workspace \in DOMAIN workspaces
             /\ workspaces[ch.workspace].base = ch.base
        /\ ch.latest # None =>
             /\ revisions[ch.latest].change = c
             /\ revisions[ch.latest].base = ch.base
             /\ revisions[ch.latest].workspace = ch.workspace

\* A Workspace with an open Conflict is never active, and a blocked one always
\* has an open Conflict: registerConflict, resolveConflict and the write-back
\* of rebaseChange keep Workspace state and Conflict records in step.
ConflictsBlockWorkspace ==
  \A w \in DOMAIN workspaces :
    LET open == \E k \in DOMAIN conflicts : /\ conflicts[k].workspace = w
                                            /\ conflicts[k].state = "open"
    IN  /\ workspaces[w].state = "active" => ~open
        /\ workspaces[w].state = "blocked" => open

\* Two materializations never end in one target directory, although both may
\* have found it absent (materializeWorkspace: "refused to overwrite it").
DirectoriesNotShared ==
  \A d \in Directories : \A v, w \in directories[d] : v = w

\* A step that moves the canonical revision lands revisions that are the
\* latest of their Change and whose Workspace has no open Conflict (landCohort).
LandsOnlyClean ==
  [][canonical' # canonical =>
       \A r \in projectRevisions'[canonical'].landed :
         /\ changes[revisions[r].change].latest = r
         /\ OpenConflicts(revisions[r].change, revisions[r].workspace) = {}]_vars

\* The records have their types, and lineage cannot be separated although
\* rebaseChange writes back copies that it read before its await.
LineageSound == TypeOK /\ InseparableLineage

\* A Workspace with an open Conflict stays blocked, and no two Workspaces share
\* a directory, however materializations and rebases interleave.
WorkspacesExclusive == ConflictsBlockWorkspace /\ DirectoriesNotShared

\* Landing (landChange, landCohort) makes one line of Project Revisions, lands no
\* revision twice and composes exactly the edits of its members.
LandingsSound == LinearLineage /\ LandsOnce /\ LandingComposesEdits

-----------------------------------------------------------------------------
(* What the documentation or the code's own text says, and the code does   *)
(* not keep; the README quotes the lines on both sides.                     *)

\* "Publishing a newer revision supersedes the prior candidate for Landing but
\* never erases it" (ADR 0005): the revisions of a Change form one chain.
\* rebaseChange republishes from the latestRevisionId it read before its await.
RevisionsFormChain ==
  \A q, r \in DOMAIN revisions :
    /\ revisions[q].change = revisions[r].change
    /\ revisions[q].sequence = revisions[r].sequence
    => q = r

\* "closes the previous Workspace" (ADR 0111): a closed Workspace stays closed.
\* resolveConflict and registerConflict write its state unconditionally.
ClosedStaysClosed ==
  [][\A w \in DOMAIN workspaces :
       workspaces[w].state = "closed" => workspaces'[w].state = "closed"]_vars

\* "all blocking Conflicts must be resolved" at Landing (ADR 0005): a Change
\* with an open Conflict does not Land.  landCohort looks only at the Conflicts
\* of the revision's own Workspace, and a rebase moves to a new one.
NoOpenConflictLands ==
  [][canonical' # canonical =>
       \A k \in DOMAIN conflicts :
         conflicts[k].state = "open" =>
           \A r \in projectRevisions'[canonical'].landed :
             revisions[r].change # conflicts[k].change]_vars

\* "A new Change Revision is the durable resolution" (resolveConflict): when a
\* revision lands, each Conflict of its Change and Workspace names the revision
\* that resolved it.  landCohort asks only that the Conflict is not open.
ConflictsResolvedByRevision ==
  [][canonical' # canonical =>
       \A k \in DOMAIN conflicts :
         \A r \in projectRevisions'[canonical'].landed :
           /\ revisions[r].change = conflicts[k].change
           /\ revisions[r].workspace = conflicts[k].workspace
           => conflicts[k].resolution # None]_vars

\* "change.create is the single atomic claim that binds one matching Workspace
\* to a Change" (ADR 0111): no Workspace serves two Changes.  revertChange
\* attaches any Workspace without claiming it.
WorkspaceServesOneChange ==
  \A b, c \in DOMAIN changes :
    changes[b].workspace = changes[c].workspace /\ changes[b].workspace # None => b = c

\* A revision that revertChange refuses with "known but has not been landed"
\* has not been landed.  It looks at landedChangeRevisionId, the first member
\* of a cohort.
LandedIsRevertible ==
  \A p \in DOMAIN projectRevisions : \A r \in projectRevisions[p].landed : WasLanded(r)
=============================================================================
