------------------------------ MODULE Authority ------------------------------
(***************************************************************************)
(* The source lineage of AuthorityPlaneCoordinator                         *)
(* (src/cloudflare/authority-plane.ts): the hosted counterpart of          *)
(* ChangeControl, whose state is the Authority snapshot of a Realm.        *)
(*                                                                         *)
(* execute clones the snapshot, applies one command to the clone and       *)
(* replaces the snapshot; the Realm Durable Object runs it, and the commit *)
(* to SQLite, inside blockConcurrencyWhile.  A command is therefore one    *)
(* atomic step, and a command that throws is no step.  A command repeated  *)
(* with its idempotency key returns the stored result and changes nothing, *)
(* so it is no step either; one repeated with a fresh key is the same      *)
(* action taken again.                                                     *)
(*                                                                         *)
(* The module has no Next of its own: AuthorityPullRequests and            *)
(* AuthorityDelivery extend it with the rest of the snapshot they need.    *)
(* There is one Project with one Source Space, so a snapshot set is one    *)
(* commit; ChangeControl has the composition of several.  workspace.create *)
(* also derives one Project View, of the Workspace's base, that no command *)
(* changes: the Workspace's id stands for it.                              *)
(***************************************************************************)
EXTENDS Naturals

CONSTANTS
  Commits,             \* Source Space snapshot ids
  InitialCommit,       \* snapshot of the first canonical Project Revision
  ProjectRevisionIds,
  Candidates,          \* Project Revision ids named for unlanded revisions
  WorkspaceIds, ChangeIds, RevisionIds,
  None                 \* a field that is not set

ASSUME LineageAssumption ==
  /\ InitialCommit \in Commits
  /\ ProjectRevisionIds # {}
  /\ Candidates \subseteq ProjectRevisionIds
  /\ None \notin ProjectRevisionIds \cup WorkspaceIds \cup ChangeIds
                   \cup RevisionIds \cup Commits

VARIABLES
  projectRevisions,    \* id -> record
  canonical,           \* canonicalByProject of the Project
  workspaces,          \* id -> record
  changes,             \* id -> record
  changeRevisions      \* id -> record

lineage ==
  <<projectRevisions, canonical, workspaces, changes, changeRevisions>>

Fresh(f, Ids) == CHOOSE id \in Ids : id \notin DOMAIN f

HasFresh(f, Ids) == Ids \ DOMAIN f # {}

Set(f, k, v) == [x \in DOMAIN f \cup {k} |-> IF x = k THEN v ELSE f[x]]

-----------------------------------------------------------------------------
(* The records of the snapshot. *)

ProjectRevision ==
  [snapshot : Commits,
   parent   : ProjectRevisionIds \cup {None},
   landed   : RevisionIds \cup {None}]          \* landedChangeRevisionId

Workspace ==
  [base   : ProjectRevisionIds,
   state  : {"active", "closed"},
   change : ChangeIds \cup {None}]

Change ==
  [base      : ProjectRevisionIds,
   status    : {"active", "submitted", "landed"},
   latest    : RevisionIds \cup {None},
   workspace : WorkspaceIds \cup {None}]

ChangeRevision ==
  [change    : ChangeIds,
   candidate : ProjectRevisionIds,              \* projectRevisionId
   view      : WorkspaceIds \cup {None},        \* projectViewId
   workspace : WorkspaceIds \cup {None},
   base      : ProjectRevisionIds,
   parent    : RevisionIds \cup {None},
   snapshot  : Commits]

IsMap(f, Ids, Rec) ==
  DOMAIN f \subseteq Ids /\ f \in [DOMAIN f -> Rec]

LineageTypeOK ==
  /\ IsMap(projectRevisions, ProjectRevisionIds, ProjectRevision)
  /\ canonical \in DOMAIN projectRevisions
  /\ IsMap(workspaces, WorkspaceIds, Workspace)
  /\ IsMap(changes, ChangeIds, Change)
  /\ IsMap(changeRevisions, RevisionIds, ChangeRevision)

-----------------------------------------------------------------------------
(* project.create: the snapshot after the Project's first command. *)
LineageInit ==
  LET first == CHOOSE id \in ProjectRevisionIds : TRUE
  IN  /\ canonical = first
      /\ projectRevisions = [p \in {first} |->
           [snapshot |-> InitialCommit, parent |-> None, landed |-> None]]
  /\ workspaces = [w \in {} |-> None]
  /\ changes = [c \in {} |-> None]
  /\ changeRevisions = [r \in {} |-> None]

-----------------------------------------------------------------------------
(* workspace.create, from any Project Revision of the Project. *)
CreateWorkspace(base) ==
  /\ HasFresh(workspaces, WorkspaceIds)
  /\ base \in DOMAIN projectRevisions
  /\ workspaces' = Set(workspaces, Fresh(workspaces, WorkspaceIds),
                       [base |-> base, state |-> "active", change |-> None])
  /\ UNCHANGED <<projectRevisions, canonical, changes, changeRevisions>>

-----------------------------------------------------------------------------
(* change.create.  A Workspace is claimed once, while it is active and on  *)
(* the Change's base.  A Change without a Workspace is legal.              *)

Claimable(w, base) ==
  /\ w \in DOMAIN workspaces
  /\ workspaces[w].state = "active"
  /\ workspaces[w].change = None
  /\ workspaces[w].base = base

NewChange(base, w) ==
  [base |-> base, status |-> "active", latest |-> None, workspace |-> w]

CreateChange(base, w) ==
  /\ HasFresh(changes, ChangeIds)
  /\ base \in DOMAIN projectRevisions
  /\ w = None \/ Claimable(w, base)
  /\ LET c == Fresh(changes, ChangeIds)
     IN  /\ changes' = Set(changes, c, NewChange(base, w))
         /\ workspaces' = IF w = None THEN workspaces
                          ELSE [workspaces EXCEPT ![w].change = c]
  /\ UNCHANGED <<projectRevisions, canonical, changeRevisions>>

-----------------------------------------------------------------------------
(* revision.publish.  The Workspace is the Change's own: no other can name *)
(* the Change.  Without one the View is only a name the caller gives.      *)

PublishableAfterLanding(c) ==   \* mutant: a landed Change may be published again
  c \in DOMAIN changes

Publishable(c) ==
  LET w == changes[c].workspace
  IN  /\ c \in DOMAIN changes
      /\ changes[c].status # "landed"
      /\ w # None => /\ w \in DOMAIN workspaces
                     /\ workspaces[w].change = c
                     /\ workspaces[w].state = "active"
                     /\ workspaces[w].base = changes[c].base

NewRevision(c, change, candidate, view, commit) ==
  [change |-> c, candidate |-> candidate, view |-> view,
   workspace |-> change.workspace, base |-> change.base,
   parent |-> change.latest, snapshot |-> commit]

Submitted(change, r) == [change EXCEPT !.latest = r, !.status = "submitted"]

PublishRevision(c, candidate, view, commit) ==
  /\ HasFresh(changeRevisions, RevisionIds)
  /\ Publishable(c)
  /\ changes[c].workspace # None => view = changes[c].workspace
  /\ LET r == Fresh(changeRevisions, RevisionIds)
     IN  /\ changeRevisions' =
              Set(changeRevisions, r,
                  NewRevision(c, changes[c], candidate, view, commit))
         /\ changes' = [changes EXCEPT ![c] = Submitted(changes[c], r)]
  /\ UNCHANGED <<projectRevisions, canonical, workspaces>>

-----------------------------------------------------------------------------
(* landing.apply.  The new Project Revision takes the id the caller names, *)
(* any that is not in use.                                                 *)

SameLineage(c, r) ==
  LET w == changes[c].workspace
  IN  w # None =>
        /\ w \in DOMAIN workspaces
        /\ workspaces[w].change = c
        /\ workspaces[w].base = changes[c].base
        /\ changeRevisions[r].workspace = w
        /\ changeRevisions[r].view = w
        /\ changeRevisions[r].base = changes[c].base

ReadyOnAnyBase(c, r) ==   \* mutant: the base is not compared
  changes[c].status = "submitted" /\ changes[c].latest = r

ReadyToLand(c, r) ==
  /\ canonical = changes[c].base
  /\ changes[c].status = "submitted"
  /\ changes[c].latest = r

ClosedWorkspace(w) ==
  IF w \in DOMAIN workspaces
    THEN [workspaces EXCEPT ![w].state = "closed"]
    ELSE workspaces

Land(r, p) ==
  /\ r \in DOMAIN changeRevisions
  /\ p \notin DOMAIN projectRevisions
  /\ LET c == changeRevisions[r].change
     IN  /\ SameLineage(c, r)
         /\ ReadyToLand(c, r)
         /\ changes' = [changes EXCEPT ![c].status = "landed"]
         /\ workspaces' = ClosedWorkspace(changes[c].workspace)
  /\ projectRevisions' =
       Set(projectRevisions, p,
           [snapshot |-> changeRevisions[r].snapshot, parent |-> canonical,
            landed |-> r])
  /\ canonical' = p
  /\ UNCHANGED changeRevisions

-----------------------------------------------------------------------------
(* Every command of this part, from any caller. *)
LineageNext ==
  \/ \E base \in DOMAIN projectRevisions : CreateWorkspace(base)
  \/ \E base \in DOMAIN projectRevisions, w \in DOMAIN workspaces \cup {None} :
       CreateChange(base, w)
  \/ \E c \in DOMAIN changes, p \in Candidates, commit \in Commits,
        v \in DOMAIN workspaces \cup {None} :
       PublishRevision(c, p, v, commit)
  \/ \E r \in DOMAIN changeRevisions, p \in ProjectRevisionIds : Land(r, p)

-----------------------------------------------------------------------------
(* What the lineage promises. *)

\* Every snapshot a sequence of commands reaches passes the check with which
\* the coordinator loads it (assertAuthorityWorkspaceChangeLineage): if one
\* did not, the Realm could not be opened again without a recovery ceremony.
LineageRestorable ==
  /\ \A w \in DOMAIN workspaces :
       LET ws == workspaces[w]
       IN  /\ ws.base \in DOMAIN projectRevisions
           /\ ws.change # None =>
                /\ ws.change \in DOMAIN changes
                /\ changes[ws.change].workspace = w
                /\ changes[ws.change].base = ws.base
                /\ ws.state = "closed" => changes[ws.change].status = "landed"
  /\ \A c \in DOMAIN changes :
       /\ changes[c].base \in DOMAIN projectRevisions
       /\ changes[c].workspace # None =>
            /\ changes[c].workspace \in DOMAIN workspaces
            /\ workspaces[changes[c].workspace].change = c
            /\ workspaces[changes[c].workspace].base = changes[c].base

\* No landed work is lost: a Change lands on the very Project Revision it was
\* made from, whoever landed in between, and lands once (landing.apply
\* compares the Change's base with canonicalByProject).
LandedOnItsBase ==
  \A p \in DOMAIN projectRevisions :
    LET r == projectRevisions[p].landed
    IN  r # None =>
          /\ changeRevisions[r].base = projectRevisions[p].parent
          /\ \A q \in DOMAIN projectRevisions \ {p} :
               projectRevisions[q].landed # None =>
                 changeRevisions[projectRevisions[q].landed].change
                   # changeRevisions[r].change
=============================================================================
