--------------------------- MODULE AuthorityProofs ---------------------------
(***************************************************************************)
(* Invariants of the Authority plane for every value of its constants: the *)
(* source lineage, which both specifications extend, then Runs, Evidence   *)
(* and Releases (AuthorityDelivery) and Pull Requests with the Mirror      *)
(* (AuthorityPullRequests).                                                *)
(*                                                                         *)
(* LandedOnItsBase is not inductive.  A Change without a Workspace is      *)
(* landed without any comparison of its revision's base, so a revision has *)
(* to be known to have its Change's base (RevisionsBelong); and no Change  *)
(* lands twice only because one that landed is marked so for good          *)
(* (LandedIsMarked).                                                       *)
(*                                                                         *)
(* EvidenceBacked needs that the Change Revision a Run names exists        *)
(* (RunsRefer), or a later revision.publish could give it a source; and    *)
(* CompletedOnce needs that a Run with a signed result is final            *)
(* (SignedIsFinal), since runner.complete asks only for a queued one.      *)
(*                                                                         *)
(* HeadsImportedOnce and MergedIsLanded need that a proposal and a Pull    *)
(* Request are of a Change that exists (PullRequestsRefer): the Change of  *)
(* a new proposal is then none that a Pull Request already names.          *)
(***************************************************************************)
EXTENDS AuthorityDelivery, AuthorityPullRequests, TLAPS

\* A Change Revision belongs to a Change and was made on its base.
RevisionsBelong ==
  \A r \in DOMAIN changeRevisions :
    /\ changeRevisions[r].change \in DOMAIN changes
    /\ changeRevisions[r].base = changes[changeRevisions[r].change].base

\* What landed is a Change Revision, and its Change says so.
LandedIsMarked ==
  \A p \in DOMAIN projectRevisions :
    LET r == projectRevisions[p].landed
    IN  r # None =>
          /\ r \in DOMAIN changeRevisions
          /\ changes[changeRevisions[r].change].status = "landed"

LineageInv ==
  /\ LineageTypeOK
  /\ RevisionsBelong
  /\ LandedIsMarked
  /\ LandedOnItsBase
  /\ LineageRestorable

\* No command removes a record, and Project and Change Revisions are never
\* rewritten.
LineageGrows ==
  /\ \A p \in DOMAIN projectRevisions :
       p \in DOMAIN projectRevisions' /\ projectRevisions'[p] = projectRevisions[p]
  /\ \A r \in DOMAIN changeRevisions :
       r \in DOMAIN changeRevisions' /\ changeRevisions'[r] = changeRevisions[r]
  /\ DOMAIN workspaces \subseteq DOMAIN workspaces'

\* What a Change was, no later step takes back.
ChangesGrow ==
  \A c \in DOMAIN changes :
    c \in DOMAIN changes' /\ (changes[c].status = "landed" => changes'[c].status = "landed")

-----------------------------------------------------------------------------
(* The maps. *)

\* A generated id is one that is not in use.
LEMMA FreshIsNew ==
  ASSUME NEW f, NEW Ids, HasFresh(f, Ids)
  PROVE  Fresh(f, Ids) \in Ids /\ Fresh(f, Ids) \notin DOMAIN f
BY DEF HasFresh, Fresh

-----------------------------------------------------------------------------
\* The snapshot after project.create has the invariant.
LEMMA LineageInitInv == LineageInit => LineageInv
<1> SUFFICES ASSUME LineageInit PROVE LineageInv
  OBVIOUS
<1> DEFINE first == CHOOSE id \in ProjectRevisionIds : TRUE
<1> USE LineageAssumption
<1>1. first \in ProjectRevisionIds
  OBVIOUS
<1>2. /\ canonical = first
      /\ projectRevisions = [p \in {first} |->
           [snapshot |-> InitialCommit, parent |-> None, landed |-> None]]
      /\ DOMAIN workspaces = {} /\ workspaces = [w \in {} |-> None]
      /\ DOMAIN changes = {} /\ changes = [c \in {} |-> None]
      /\ DOMAIN changeRevisions = {} /\ changeRevisions = [r \in {} |-> None]
  BY DEF LineageInit
<1> HIDE DEF first
<1>3. LineageTypeOK
  BY <1>1, <1>2 DEF LineageTypeOK, IsMap, ProjectRevision
<1>4. \A p \in DOMAIN projectRevisions : projectRevisions[p].landed = None
  BY <1>2
<1> QED
  BY <1>2, <1>3, <1>4 DEF LineageInv, RevisionsBelong, LandedIsMarked,
     LandedOnItsBase, LineageRestorable

\* workspace.create keeps the lineage.
LEMMA CreateWorkspaceInv ==
  ASSUME LineageInv, NEW base \in DOMAIN projectRevisions, CreateWorkspace(base)
  PROVE  LineageInv' /\ LineageGrows
<1> DEFINE w == Fresh(workspaces, WorkspaceIds)
           ws == [base |-> base, state |-> "active", change |-> None]
<1>1. w \in WorkspaceIds /\ w \notin DOMAIN workspaces
  BY FreshIsNew DEF CreateWorkspace
<1>2. ws \in Workspace
  BY DEF LineageInv, LineageTypeOK, IsMap, Workspace
<1>3. workspaces' = Set(workspaces, w, ws)
  BY DEF CreateWorkspace
<1>4. IsMap(workspaces, WorkspaceIds, Workspace)
  BY DEF LineageInv, LineageTypeOK
<1> HIDE DEF w, ws
<1>5. /\ IsMap(workspaces', WorkspaceIds, Workspace)
      /\ DOMAIN workspaces' = DOMAIN workspaces \cup {w}
      /\ workspaces'[w] = ws
      /\ \A x \in DOMAIN workspaces : workspaces'[x] = workspaces[x]
  BY <1>1, <1>2, <1>3, <1>4 DEF Set, IsMap
<1>6. UNCHANGED <<projectRevisions, canonical, changes, changeRevisions>>
  BY DEF CreateWorkspace
<1>7. LineageTypeOK'
  BY <1>5, <1>6 DEF LineageInv, LineageTypeOK
<1>8. LineageRestorable'
  BY <1>1, <1>5, <1>6 DEF LineageInv, LineageRestorable, ws
<1>9. RevisionsBelong' /\ LandedIsMarked' /\ LandedOnItsBase'
  BY <1>6 DEF LineageInv, RevisionsBelong, LandedIsMarked, LandedOnItsBase
<1> QED
  BY <1>5, <1>6, <1>7, <1>8, <1>9 DEF LineageInv, LineageGrows

\* change.create keeps the lineage: the Workspace it claims had no Change.
LEMMA CreateChangeInv ==
  ASSUME LineageInv, NEW base \in DOMAIN projectRevisions,
         NEW w \in DOMAIN workspaces \cup {None}, CreateChange(base, w)
  PROVE  LineageInv' /\ LineageGrows
<1> DEFINE c == Fresh(changes, ChangeIds)
           ch == NewChange(base, w)
<1>1. c \in ChangeIds /\ c \notin DOMAIN changes
  BY FreshIsNew DEF CreateChange
<1>2. ch \in Change /\ ch.base = base /\ ch.workspace = w
  BY DEF LineageInv, LineageTypeOK, IsMap, Change, NewChange
<1>3. /\ changes' = Set(changes, c, ch)
      /\ workspaces' = IF w = None THEN workspaces
                       ELSE [workspaces EXCEPT ![w].change = c]
      /\ w = None \/ Claimable(w, base)
      /\ UNCHANGED <<projectRevisions, canonical, changeRevisions>>
  BY DEF CreateChange
<1>4. /\ IsMap(changes, ChangeIds, Change)
      /\ IsMap(workspaces, WorkspaceIds, Workspace)
  BY DEF LineageInv, LineageTypeOK
<1> HIDE DEF c, ch
<1>5. /\ IsMap(changes', ChangeIds, Change)
      /\ DOMAIN changes' = DOMAIN changes \cup {c}
      /\ changes'[c] = ch
      /\ \A x \in DOMAIN changes : changes'[x] = changes[x]
  BY <1>1, <1>2, <1>3, <1>4 DEF Set, IsMap
<1>6. /\ IsMap(workspaces', WorkspaceIds, Workspace)
      /\ DOMAIN workspaces' = DOMAIN workspaces
      /\ \A x \in DOMAIN workspaces :
           /\ workspaces'[x].base = workspaces[x].base
           /\ workspaces'[x].state = workspaces[x].state
           /\ workspaces'[x].change =
                IF w # None /\ x = w THEN c ELSE workspaces[x].change
  BY <1>1, <1>3, <1>4 DEF IsMap, Workspace
<1>7. w # None => /\ w \in DOMAIN workspaces
                  /\ workspaces[w].change = None
                  /\ workspaces[w].state = "active"
                  /\ workspaces[w].base = base
  BY <1>3 DEF Claimable
<1>8. LineageTypeOK'
  BY <1>3, <1>5, <1>6 DEF LineageInv, LineageTypeOK
<1>9. LineageRestorable'
  <2>1. ASSUME NEW x \in DOMAIN workspaces'
        PROVE  /\ workspaces'[x].base \in DOMAIN projectRevisions'
               /\ workspaces'[x].change # None =>
                    /\ workspaces'[x].change \in DOMAIN changes'
                    /\ changes'[workspaces'[x].change].workspace = x
                    /\ changes'[workspaces'[x].change].base = workspaces'[x].base
                    /\ workspaces'[x].state = "closed" =>
                         changes'[workspaces'[x].change].status = "landed"
    <3>1. CASE w # None /\ x = w
      BY <3>1, <1>2, <1>3, <1>5, <1>6, <1>7
    <3>2. CASE ~(w # None /\ x = w)
      BY <3>2, <1>3, <1>5, <1>6 DEF LineageInv, LineageRestorable
    <3> QED
      BY <3>1, <3>2
  <2>2. ASSUME NEW y \in DOMAIN changes'
        PROVE  /\ changes'[y].base \in DOMAIN projectRevisions'
               /\ changes'[y].workspace # None =>
                    /\ changes'[y].workspace \in DOMAIN workspaces'
                    /\ workspaces'[changes'[y].workspace].change = y
                    /\ workspaces'[changes'[y].workspace].base = changes'[y].base
    <3>1. CASE y = c
      BY <3>1, <1>2, <1>3, <1>5, <1>6, <1>7
    <3>2. CASE y # c
      <4>1. y \in DOMAIN changes /\ changes'[y] = changes[y]
        BY <3>2, <1>5
      <4>2. changes[y].workspace # None => changes[y].workspace # w
        BY <4>1, <1>7, LineageAssumption
           DEF LineageInv, LineageRestorable, LineageTypeOK, IsMap
      <4> QED
        BY <4>1, <4>2, <1>3, <1>6 DEF LineageInv, LineageRestorable
    <3> QED
      BY <3>1, <3>2
  <2> QED
    BY <2>1, <2>2 DEF LineageRestorable
<1>10. RevisionsBelong' /\ LandedIsMarked' /\ LandedOnItsBase'
  BY <1>3, <1>5 DEF LineageInv, RevisionsBelong, LandedIsMarked, LandedOnItsBase
<1> QED
  BY <1>3, <1>6, <1>8, <1>9, <1>10 DEF LineageInv, LineageGrows

\* revision.publish keeps the lineage: it is refused once the Change landed.
LEMMA PublishRevisionInv ==
  ASSUME LineageInv, NEW c \in DOMAIN changes, NEW p \in Candidates,
         NEW commit \in Commits, NEW view \in DOMAIN workspaces \cup {None},
         PublishRevision(c, p, view, commit)
  PROVE  LineageInv' /\ LineageGrows
<1> DEFINE r == Fresh(changeRevisions, RevisionIds)
           rev == NewRevision(c, changes[c], p, view, commit)
           ch == Submitted(changes[c], r)
<1>1. r \in RevisionIds /\ r \notin DOMAIN changeRevisions
  BY FreshIsNew DEF PublishRevision
<1>2. /\ IsMap(changes, ChangeIds, Change)
      /\ IsMap(workspaces, WorkspaceIds, Workspace)
      /\ IsMap(changeRevisions, RevisionIds, ChangeRevision)
      /\ changes[c] \in Change
  BY DEF LineageInv, LineageTypeOK, IsMap
<1>3. /\ changeRevisions' = Set(changeRevisions, r, rev)
      /\ changes' = [changes EXCEPT ![c] = ch]
      /\ changes[c].status # "landed"
      /\ UNCHANGED <<projectRevisions, canonical, workspaces>>
  BY DEF PublishRevision, Publishable
<1>4. /\ rev \in ChangeRevision
      /\ rev.change = c
      /\ rev.base = changes[c].base
  BY <1>2, LineageAssumption
     DEF IsMap, Change, ChangeRevision, NewRevision
<1>5. /\ ch \in Change
      /\ ch.base = changes[c].base
      /\ ch.workspace = changes[c].workspace
  BY <1>1, <1>2 DEF Change, Submitted
<1> HIDE DEF r, rev, ch
<1>6. /\ IsMap(changeRevisions', RevisionIds, ChangeRevision)
      /\ DOMAIN changeRevisions' = DOMAIN changeRevisions \cup {r}
      /\ changeRevisions'[r] = rev
      /\ \A x \in DOMAIN changeRevisions : changeRevisions'[x] = changeRevisions[x]
  BY <1>1, <1>2, <1>3, <1>4 DEF Set, IsMap
<1>7. /\ IsMap(changes', ChangeIds, Change)
      /\ DOMAIN changes' = DOMAIN changes
      /\ \A x \in DOMAIN changes :
           /\ changes'[x].base = changes[x].base
           /\ changes'[x].workspace = changes[x].workspace
           /\ changes[x].status = "landed" => changes'[x].status = "landed"
  BY <1>2, <1>3, <1>5 DEF IsMap
<1>8. LineageTypeOK'
  BY <1>3, <1>6, <1>7 DEF LineageInv, LineageTypeOK
<1>9. LineageRestorable'
  BY <1>3, <1>7 DEF LineageInv, LineageRestorable
<1>10. RevisionsBelong'
  BY <1>4, <1>6, <1>7 DEF LineageInv, RevisionsBelong
<1>11. LandedIsMarked'
  BY <1>3, <1>6, <1>7 DEF LineageInv, LandedIsMarked, RevisionsBelong
<1>12. LandedOnItsBase'
  BY <1>3, <1>6 DEF LineageInv, LandedIsMarked, LandedOnItsBase
<1> QED
  BY <1>3, <1>6, <1>8, <1>9, <1>10, <1>11, <1>12 DEF LineageInv, LineageGrows

\* landing.apply keeps the lineage: its Change had not landed, and its base is
\* the canonical revision.
LEMMA LandInv ==
  ASSUME LineageInv, NEW r \in DOMAIN changeRevisions,
         NEW p \in ProjectRevisionIds, Land(r, p)
  PROVE  LineageInv' /\ LineageGrows
<1> DEFINE c == changeRevisions[r].change
           w == changes[c].workspace
           pr == [snapshot |-> changeRevisions[r].snapshot, parent |-> canonical,
                  landed |-> r]
<1>1. /\ IsMap(projectRevisions, ProjectRevisionIds, ProjectRevision)
      /\ IsMap(changes, ChangeIds, Change)
      /\ IsMap(workspaces, WorkspaceIds, Workspace)
      /\ IsMap(changeRevisions, RevisionIds, ChangeRevision)
      /\ canonical \in DOMAIN projectRevisions
  BY DEF LineageInv, LineageTypeOK
<1>2. c \in DOMAIN changes /\ changeRevisions[r].base = changes[c].base
  BY DEF LineageInv, RevisionsBelong
<1>3. /\ p \notin DOMAIN projectRevisions
      /\ canonical = changes[c].base
      /\ changes[c].status = "submitted"
      /\ changes' = [changes EXCEPT ![c].status = "landed"]
      /\ workspaces' = ClosedWorkspace(w)
      /\ projectRevisions' = Set(projectRevisions, p, pr)
      /\ canonical' = p
      /\ UNCHANGED changeRevisions
  BY DEF Land, ReadyToLand
<1>4. /\ pr \in ProjectRevision
      /\ pr.landed = r
      /\ pr.parent = changeRevisions[r].base
  BY <1>1, <1>2, <1>3 DEF IsMap, ProjectRevision, ChangeRevision
<1> HIDE DEF pr
<1>5. /\ IsMap(projectRevisions', ProjectRevisionIds, ProjectRevision)
      /\ DOMAIN projectRevisions' = DOMAIN projectRevisions \cup {p}
      /\ projectRevisions'[p] = pr
      /\ \A x \in DOMAIN projectRevisions : projectRevisions'[x] = projectRevisions[x]
  BY <1>1, <1>3, <1>4 DEF Set, IsMap
<1> HIDE DEF c, w
<1>6. /\ IsMap(changes', ChangeIds, Change)
      /\ DOMAIN changes' = DOMAIN changes
      /\ \A x \in DOMAIN changes :
           /\ changes'[x].base = changes[x].base
           /\ changes'[x].workspace = changes[x].workspace
           /\ changes'[x].status = IF x = c THEN "landed" ELSE changes[x].status
  BY <1>1, <1>2, <1>3 DEF IsMap, Change
<1>7. /\ IsMap(workspaces', WorkspaceIds, Workspace)
      /\ DOMAIN workspaces' = DOMAIN workspaces
      /\ \A x \in DOMAIN workspaces :
           /\ workspaces'[x].base = workspaces[x].base
           /\ workspaces'[x].change = workspaces[x].change
           /\ x # w => workspaces'[x].state = workspaces[x].state
  BY <1>1, <1>3 DEF IsMap, Workspace, ClosedWorkspace
<1>8. LineageTypeOK'
  BY <1>1, <1>3, <1>5, <1>6, <1>7 DEF LineageTypeOK
<1>9. LineageRestorable'
  <2>1. w \in DOMAIN workspaces => workspaces[w].change = c
    BY <1>1, <1>2, LineageAssumption
       DEF LineageInv, LineageRestorable, w, IsMap
  <2> QED
    BY <2>1, <1>2, <1>5, <1>6, <1>7 DEF LineageInv, LineageRestorable
<1>10. RevisionsBelong'
  BY <1>3, <1>6 DEF LineageInv, RevisionsBelong
<1>11. LandedIsMarked'
  BY <1>2, <1>3, <1>4, <1>5, <1>6 DEF LineageInv, RevisionsBelong, LandedIsMarked, c
<1>12. LandedOnItsBase'
  <2>1. \A x \in DOMAIN projectRevisions :
          projectRevisions[x].landed # None =>
            changeRevisions[projectRevisions[x].landed].change # c
    BY <1>3 DEF LineageInv, LandedIsMarked
  <2> QED
    BY <2>1, <1>3, <1>4, <1>5 DEF LineageInv, LandedOnItsBase, c
<1> QED
  BY <1>3, <1>5, <1>7, <1>8, <1>9, <1>10, <1>11, <1>12 DEF LineageInv, LineageGrows

-----------------------------------------------------------------------------
\* Every source lineage command keeps the invariant and only adds to the record.
LEMMA LineageStep ==
  ASSUME LineageInv, LineageNext
  PROVE  LineageInv' /\ LineageGrows
BY CreateWorkspaceInv, CreateChangeInv, PublishRevisionInv, LandInv DEF LineageNext

\* No command of the source lineage takes a Change back from landed.
LEMMA LineageChangesGrow ==
  ASSUME LineageInv, LineageNext
  PROVE  ChangesGrow
  <1>1. ASSUME NEW base \in DOMAIN projectRevisions, CreateWorkspace(base) PROVE ChangesGrow
    BY <1>1 DEF CreateWorkspace, ChangesGrow
  <1>2. ASSUME NEW base \in DOMAIN projectRevisions, NEW w \in DOMAIN workspaces \cup {None}, CreateChange(base, w)
        PROVE  ChangesGrow
    <2> DEFINE c == Fresh(changes, ChangeIds)
    <2>1. c \notin DOMAIN changes /\ changes' = Set(changes, c, NewChange(base, w))
      BY <1>2, FreshIsNew DEF CreateChange
    <2> HIDE DEF c
    <2> QED
      BY <2>1 DEF Set, ChangesGrow
  <1>3. ASSUME NEW c \in DOMAIN changes, NEW p \in Candidates, NEW commit \in Commits,
               NEW v \in DOMAIN workspaces \cup {None}, PublishRevision(c, p, v, commit)
        PROVE  ChangesGrow
    <2> DEFINE r == Fresh(changeRevisions, RevisionIds)
    <2>1. changes[c].status # "landed" /\ changes' = [changes EXCEPT ![c] = Submitted(changes[c], r)]
      BY <1>3 DEF PublishRevision, Publishable
    <2> QED
      BY <2>1 DEF ChangesGrow
  <1>4. ASSUME NEW r \in DOMAIN changeRevisions, NEW p \in ProjectRevisionIds, Land(r, p) PROVE ChangesGrow
    <2> DEFINE c == changeRevisions[r].change
    <2>1. changes' = [changes EXCEPT ![c].status = "landed"]
      BY <1>4 DEF Land
    <2>2. \A x \in DOMAIN changes : changes[x] \in Change
      BY DEF LineageInv, LineageTypeOK, IsMap
    <2> QED
      BY <2>1, <2>2 DEF ChangesGrow, Change
  <1> QED
    BY <1>1, <1>2, <1>3, <1>4 DEF LineageNext

\* The lineage as it is when a command of another part is executed.
LEMMA LineageStays ==
  ASSUME LineageInv, UNCHANGED lineage
  PROVE  LineageInv' /\ LineageGrows /\ ChangesGrow
  BY DEF lineage, LineageInv, LineageTypeOK, RevisionsBelong, LandedIsMarked,
     LandedOnItsBase, LineageRestorable, LineageGrows, ChangesGrow

\* A revision is published for a Change that has not landed, or that is new and
\* has no Workspace.
LEMMA LineageExtends ==
  ASSUME LineageInv, NEW c \in ChangeIds, NEW ch \in Change, NEW r \in RevisionIds \ DOMAIN changeRevisions,
         NEW rev \in ChangeRevision, rev.change = c, rev.base = ch.base,
         c \in DOMAIN changes => /\ ch.base = changes[c].base /\ ch.workspace = changes[c].workspace
                                 /\ changes[c].status # "landed",
         c \notin DOMAIN changes => ch.base \in DOMAIN projectRevisions /\ ch.workspace = None,
         changes' = Set(changes, c, ch), changeRevisions' = Set(changeRevisions, r, rev),
         UNCHANGED <<projectRevisions, canonical, workspaces>>
  PROVE  LineageInv' /\ LineageGrows /\ ChangesGrow
  <1>1. /\ IsMap(changes, ChangeIds, Change) /\ IsMap(changeRevisions, RevisionIds, ChangeRevision)
    BY DEF LineageInv, LineageTypeOK
  <1>2. /\ IsMap(changeRevisions', RevisionIds, ChangeRevision)
        /\ DOMAIN changeRevisions' = DOMAIN changeRevisions \cup {r}
        /\ changeRevisions'[r] = rev
        /\ \A x \in DOMAIN changeRevisions : changeRevisions'[x] = changeRevisions[x]
    BY <1>1 DEF Set, IsMap
  <1>3. /\ IsMap(changes', ChangeIds, Change)
        /\ DOMAIN changes' = DOMAIN changes \cup {c}
        /\ changes'[c] = ch
        /\ \A x \in DOMAIN changes : x # c => changes'[x] = changes[x]
    BY <1>1 DEF Set, IsMap
  <1>4. \A x \in DOMAIN changes : /\ changes'[x].base = changes[x].base
                                  /\ changes'[x].workspace = changes[x].workspace
                                  /\ changes[x].status = "landed" => changes'[x].status = "landed"
    BY <1>3
  <1>5. LineageTypeOK'
    BY <1>2, <1>3 DEF LineageInv, LineageTypeOK
  <1>6. LineageRestorable'
    BY <1>3, <1>4 DEF LineageInv, LineageRestorable
  <1>7. RevisionsBelong'
    BY <1>2, <1>3, <1>4 DEF LineageInv, RevisionsBelong
  <1>8. LandedIsMarked'
    BY <1>2, <1>3, <1>4 DEF LineageInv, LandedIsMarked, RevisionsBelong
  <1>9. LandedOnItsBase'
    BY <1>2 DEF LineageInv, LandedIsMarked, LandedOnItsBase
  <1> QED
    BY <1>2, <1>3, <1>4, <1>5, <1>6, <1>7, <1>8, <1>9 DEF LineageInv, LineageGrows, ChangesGrow

-----------------------------------------------------------------------------
(* Runs, Evidence, Artifacts and Releases. *)

\* The Change Revision a Run names exists.
RunsRefer ==
  \A u \in DOMAIN runs :
    runs[u].change # None => runs[u].change \in DOMAIN changeRevisions

\* A Run with a signed result has ended.
SignedIsFinal ==
  \A e \in DOMAIN evidence :
    evidence[e].source # None => runs[evidence[e].run].status \in Final

DeliveryTypeOK ==
  /\ IsMap(runs, RunIds, Run)
  /\ IsMap(evidence, EvidenceIds, Evidence)
  /\ IsMap(artifacts, ArtifactIds, Artifact)
  /\ IsMap(releases, ReleaseIds, Release)

DeliveryInv ==
  /\ DeliveryTypeOK
  /\ RunsRefer
  /\ SignedIsFinal
  /\ EvidenceBacked
  /\ CompletedOnce
  /\ ReleaseBacked

IInv == LineageInv /\ DeliveryInv

-----------------------------------------------------------------------------
\* The snapshot of a new Project has the invariant.
LEMMA InitIInv == Init => IInv
<1> SUFFICES ASSUME Init PROVE IInv
  OBVIOUS
<1>1. LineageInv
  BY LineageInitInv DEF Init
<1>2. DeliveryTypeOK
  BY DEF Init, DeliveryTypeOK, IsMap
<1>3. /\ DOMAIN runs = {} /\ DOMAIN evidence = {} /\ DOMAIN releases = {}
  BY DEF Init
<1> QED
  BY <1>1, <1>2, <1>3 DEF IInv, DeliveryInv, RunsRefer, SignedIsFinal,
     EvidenceBacked, CompletedOnce, ReleaseBacked

-----------------------------------------------------------------------------
(* Each command, under IInv. *)

\* Publishing and landing leave Evidence and Releases backed: the source a Run
\* was executed on is never rewritten.
LEMMA LineageNextInv ==
  ASSUME IInv, LineageNext, UNCHANGED delivery
  PROVE  IInv'
<1>1. LineageInv' /\ LineageGrows
  BY LineageStep DEF IInv
<1>2. runs' = runs /\ evidence' = evidence /\ artifacts' = artifacts /\ releases' = releases
  BY DEF delivery
<1>3. DeliveryTypeOK' /\ SignedIsFinal' /\ CompletedOnce'
  BY <1>2 DEF IInv, DeliveryInv, DeliveryTypeOK, SignedIsFinal, CompletedOnce
<1>4. RunsRefer'
  BY <1>1, <1>2 DEF IInv, DeliveryInv, RunsRefer, LineageGrows
<1>5. EvidenceBacked'
  <2> SUFFICES ASSUME NEW e \in DOMAIN evidence, evidence[e].source # None,
                      evidence[e].run \in DOMAIN runs,
                      evidence[e].source = SourceOf(runs[evidence[e].run])
               PROVE  SourceOf(runs[evidence[e].run])' = evidence[e].source
    BY <1>2 DEF IInv, DeliveryInv, EvidenceBacked
  <2> QED
    BY <1>1, <1>2 DEF IInv, DeliveryInv, RunsRefer, LineageGrows, SourceOf
<1>6. ReleaseBacked'
  BY <1>1, <1>2 DEF IInv, DeliveryInv, ReleaseBacked, LineageGrows
<1> QED
  BY <1>1, <1>3, <1>4, <1>5, <1>6 DEF IInv, DeliveryInv

\* run.request and run.record: nothing names a Run before it exists.
LEMMA NewRunInv ==
  ASSUME IInv, NEW p \in ProjectRevisionIds,
         NEW r \in DOMAIN changeRevisions \cup {None}, NEW view \in Views,
         NEW status \in Statuses, HasFresh(runs, RunIds), NewRun(p, r, view, status),
         UNCHANGED <<lineage, evidence, artifacts, releases>>
  PROVE  IInv'
<1> DEFINE u == Fresh(runs, RunIds)
           run == [revision |-> p, change |-> r, view |-> view, status |-> status]
<1>1. u \in RunIds /\ u \notin DOMAIN runs
  BY FreshIsNew
<1>2. run \in Run /\ run.change = r
  BY DEF IInv, LineageInv, LineageTypeOK, IsMap, Run
<1>3. runs' = Set(runs, u, run)
  BY DEF NewRun
<1> HIDE DEF u, run
<1>4. /\ IsMap(runs', RunIds, Run)
      /\ DOMAIN runs' = DOMAIN runs \cup {u}
      /\ runs'[u] = run
      /\ \A x \in DOMAIN runs : runs'[x] = runs[x]
  BY <1>1, <1>2, <1>3 DEF IInv, DeliveryInv, DeliveryTypeOK, Set, IsMap
<1>5. LineageInv'
  BY LineageStays DEF IInv
<1>6. DeliveryTypeOK'
  BY <1>4 DEF IInv, DeliveryInv, DeliveryTypeOK
<1>7. RunsRefer'
  BY <1>2, <1>4 DEF IInv, DeliveryInv, RunsRefer, lineage
<1>8. EvidenceBacked'
  BY <1>4 DEF IInv, DeliveryInv, EvidenceBacked, SourceOf, lineage
<1>9. SignedIsFinal' /\ CompletedOnce'
  BY <1>4 DEF IInv, DeliveryInv, EvidenceBacked, SignedIsFinal, CompletedOnce
<1>10. ReleaseBacked'
  BY <1>4 DEF IInv, DeliveryInv, EvidenceBacked, ReleaseBacked, lineage
<1> QED
  BY <1>5, <1>6, <1>7, <1>8, <1>9, <1>10 DEF IInv, DeliveryInv

\* runner.complete: the Run was queued, so no signed or passed Evidence named it.
LEMMA CompleteRunInv ==
  ASSUME IInv, NEW u \in DOMAIN runs, NEW status \in Final,
         NEW outputs \in SUBSET ArtifactIds, CompleteRun(u, status, outputs)
  PROVE  IInv'
<1> DEFINE e == Fresh(evidence, EvidenceIds)
           ev == [revision |-> runs[u].revision, change |-> runs[u].change, run |-> u,
                  outcome |-> OutcomeOf(status), source |-> SourceOf(runs[u])]
<1>1. e \in EvidenceIds /\ e \notin DOMAIN evidence
  BY FreshIsNew DEF CompleteRun
<1>2. /\ IsMap(runs, RunIds, Run) /\ IsMap(evidence, EvidenceIds, Evidence)
      /\ IsMap(artifacts, ArtifactIds, Artifact)
      /\ runs[u] \in Run /\ u \in RunIds
  BY DEF IInv, DeliveryInv, DeliveryTypeOK, IsMap
<1>3. /\ runs[u].status = "queued"
      /\ SourceOf(runs[u]) # None
      /\ runs' = [runs EXCEPT ![u].status = status]
      /\ evidence' = Set(evidence, e, ev)
      /\ artifacts' = [t \in DOMAIN artifacts \cup outputs |->
           IF t \in DOMAIN artifacts THEN artifacts[t]
           ELSE [revision |-> runs[u].revision, change |-> runs[u].change, run |-> u]]
      /\ UNCHANGED <<lineage, releases>>
  BY DEF CompleteRun, Completable
<1>4. SourceOf(runs[u]) \in Commits \cup {None}
  BY <1>2 DEF SourceOf, IInv, LineageInv, LineageTypeOK, IsMap, ChangeRevision,
     ProjectRevision, DeliveryInv, RunsRefer
<1>5. /\ ev \in Evidence /\ ev.run = u /\ ev.revision = runs[u].revision
      /\ ev.source = SourceOf(runs[u])
      /\ ev.outcome = "passed" => status = "succeeded"
  BY <1>2, <1>4 DEF Evidence, Run, OutcomeOf, Outcomes
<1> HIDE DEF e, ev
<1>6. /\ IsMap(evidence', EvidenceIds, Evidence)
      /\ DOMAIN evidence' = DOMAIN evidence \cup {e}
      /\ evidence'[e] = ev
      /\ \A x \in DOMAIN evidence : evidence'[x] = evidence[x]
  BY <1>1, <1>2, <1>3, <1>5 DEF Set, IsMap
<1>7. /\ IsMap(runs', RunIds, Run)
      /\ DOMAIN runs' = DOMAIN runs
      /\ \A x \in DOMAIN runs :
           /\ runs'[x].revision = runs[x].revision
           /\ runs'[x].change = runs[x].change
           /\ runs'[x].status = IF x = u THEN status ELSE runs[x].status
  BY <1>2, <1>3 DEF IsMap, Run, Statuses
<1>8. IsMap(artifacts', ArtifactIds, Artifact)
  BY <1>2, <1>3 DEF IsMap, Artifact, Run
<1>9. \A x \in DOMAIN runs : SourceOf(runs[x])' = SourceOf(runs[x])
  BY <1>3, <1>7 DEF SourceOf, lineage
<1>10. \A x \in DOMAIN evidence :
          evidence[x].run = u => /\ evidence[x].outcome # "passed"
                                 /\ evidence[x].source = None
  BY <1>3 DEF IInv, DeliveryInv, EvidenceBacked, SignedIsFinal, Final
<1>11. LineageInv'
  BY <1>3, LineageStays DEF IInv
<1>12. DeliveryTypeOK'
  BY <1>3, <1>6, <1>7, <1>8 DEF IInv, DeliveryInv, DeliveryTypeOK
<1>13. RunsRefer'
  BY <1>3, <1>7 DEF IInv, DeliveryInv, RunsRefer, lineage
<1>14. EvidenceBacked'
  BY <1>5, <1>6, <1>7, <1>9, <1>10 DEF IInv, DeliveryInv, EvidenceBacked
<1>15. SignedIsFinal' /\ CompletedOnce'
  BY <1>5, <1>6, <1>7, <1>10
     DEF IInv, DeliveryInv, EvidenceBacked, SignedIsFinal, CompletedOnce
<1>16. ReleaseBacked'
  BY <1>3, <1>6, <1>7, <1>10
     DEF IInv, DeliveryInv, EvidenceBacked, ReleaseBacked, lineage
<1> QED
  BY <1>11, <1>12, <1>13, <1>14, <1>15, <1>16 DEF IInv, DeliveryInv

\* evidence.record: only a Run that succeeded is named, and nothing is signed.
LEMMA RecordEvidenceInv ==
  ASSUME IInv, NEW u \in DOMAIN runs, NEW r \in DOMAIN changeRevisions \cup {None},
         NEW outcome \in Outcomes, RecordEvidence(u, r, outcome)
  PROVE  IInv'
<1> DEFINE e == Fresh(evidence, EvidenceIds)
           ev == [revision |-> runs[u].revision, change |-> r, run |-> u,
                  outcome |-> outcome, source |-> None]
<1>1. e \in EvidenceIds /\ e \notin DOMAIN evidence
  BY FreshIsNew DEF RecordEvidence
<1>2. /\ IsMap(evidence, EvidenceIds, Evidence)
      /\ runs[u] \in Run /\ u \in RunIds
      /\ r \in RevisionIds \cup {None}
  BY DEF IInv, DeliveryInv, DeliveryTypeOK, LineageInv, LineageTypeOK, IsMap
<1>3. /\ evidence' = Set(evidence, e, ev)
      /\ runs[u].status = "succeeded"
      /\ UNCHANGED <<lineage, runs, artifacts, releases>>
  BY DEF RecordEvidence, Supports
<1>4. /\ ev \in Evidence /\ ev.run = u /\ ev.revision = runs[u].revision
      /\ ev.source = None
  BY <1>2 DEF Evidence, Run
<1> HIDE DEF e, ev
<1>5. /\ IsMap(evidence', EvidenceIds, Evidence)
      /\ DOMAIN evidence' = DOMAIN evidence \cup {e}
      /\ evidence'[e] = ev
      /\ \A x \in DOMAIN evidence : evidence'[x] = evidence[x]
  BY <1>1, <1>2, <1>3, <1>4 DEF Set, IsMap
<1>6. LineageInv'
  BY <1>3, LineageStays DEF IInv
<1>7. DeliveryTypeOK' /\ RunsRefer'
  BY <1>3, <1>5 DEF IInv, DeliveryInv, DeliveryTypeOK, RunsRefer, lineage
<1>8. EvidenceBacked'
  BY <1>3, <1>4, <1>5 DEF IInv, DeliveryInv, EvidenceBacked, SourceOf, lineage
<1>9. SignedIsFinal' /\ CompletedOnce'
  BY <1>3, <1>4, <1>5 DEF IInv, DeliveryInv, SignedIsFinal, CompletedOnce
<1>10. ReleaseBacked'
  BY <1>3, <1>5 DEF IInv, DeliveryInv, ReleaseBacked, lineage
<1> QED
  BY <1>6, <1>7, <1>8, <1>9, <1>10 DEF IInv, DeliveryInv

\* artifact.record disturbs nothing but the Artifacts.
LEMMA RecordArtifactInv ==
  ASSUME IInv, NEW p \in ProjectRevisionIds,
         NEW r \in DOMAIN changeRevisions \cup {None}, NEW u \in DOMAIN runs \cup {None},
         RecordArtifact(p, r, u)
  PROVE  IInv'
<1> DEFINE t == Fresh(artifacts, ArtifactIds)
           a == [revision |-> p, change |-> r, run |-> u]
<1>1. t \in ArtifactIds
  BY FreshIsNew DEF RecordArtifact
<1>2. a \in Artifact
  BY DEF IInv, DeliveryInv, DeliveryTypeOK, LineageInv, LineageTypeOK, IsMap, Artifact
<1>3. /\ artifacts' = Set(artifacts, t, a)
      /\ UNCHANGED <<lineage, runs, evidence, releases>>
  BY DEF RecordArtifact
<1> HIDE DEF t, a
<1>4. IsMap(artifacts', ArtifactIds, Artifact)
  BY <1>1, <1>2, <1>3 DEF IInv, DeliveryInv, DeliveryTypeOK, Set, IsMap
<1>5. LineageInv'
  BY <1>3, LineageStays DEF IInv
<1>6. DeliveryTypeOK' /\ RunsRefer' /\ SignedIsFinal' /\ CompletedOnce'
  BY <1>3, <1>4 DEF IInv, DeliveryInv, DeliveryTypeOK, RunsRefer, SignedIsFinal,
     CompletedOnce, lineage
<1>7. EvidenceBacked' /\ ReleaseBacked'
  BY <1>3 DEF IInv, DeliveryInv, EvidenceBacked, ReleaseBacked, SourceOf, lineage
<1> QED
  BY <1>5, <1>6, <1>7 DEF IInv, DeliveryInv

\* release.create: its Evidence is passed, so its Runs succeeded.
LEMMA CreateReleaseInv ==
  ASSUME IInv, NEW p \in DOMAIN projectRevisions, NEW ts \in SUBSET DOMAIN artifacts,
         NEW es \in SUBSET DOMAIN evidence, NEW r \in DOMAIN changeRevisions \cup {None},
         CreateRelease(p, ts, es, r)
  PROVE  IInv'
<1> DEFINE l == Fresh(releases, ReleaseIds)
           rel == [revision |-> p, artifacts |-> ts, evidence |-> es, change |-> r]
<1>1. l \in ReleaseIds /\ l \notin DOMAIN releases
  BY FreshIsNew DEF CreateRelease
<1>2. /\ rel \in Release /\ rel.revision = p /\ rel.evidence = es
  BY DEF IInv, DeliveryInv, DeliveryTypeOK, LineageInv, LineageTypeOK, IsMap, Release
<1>3. /\ releases' = Set(releases, l, rel)
      /\ es # {}
      /\ \A e \in es : evidence[e].revision = p /\ evidence[e].outcome = "passed"
      /\ UNCHANGED <<lineage, runs, evidence, artifacts>>
  BY DEF CreateRelease, PassedOn
<1> HIDE DEF l, rel
<1>4. /\ IsMap(releases', ReleaseIds, Release)
      /\ DOMAIN releases' = DOMAIN releases \cup {l}
      /\ releases'[l] = rel
      /\ \A x \in DOMAIN releases : releases'[x] = releases[x]
  BY <1>1, <1>2, <1>3 DEF IInv, DeliveryInv, DeliveryTypeOK, Set, IsMap
<1>5. LineageInv'
  BY <1>3, LineageStays DEF IInv
<1>6. DeliveryTypeOK' /\ RunsRefer' /\ SignedIsFinal' /\ CompletedOnce'
  BY <1>3, <1>4 DEF IInv, DeliveryInv, DeliveryTypeOK, RunsRefer, SignedIsFinal,
     CompletedOnce, lineage
<1>7. EvidenceBacked'
  BY <1>3 DEF IInv, DeliveryInv, EvidenceBacked, SourceOf, lineage
<1>8. ReleaseBacked'
  BY <1>2, <1>3, <1>4 DEF IInv, DeliveryInv, EvidenceBacked, ReleaseBacked, lineage
<1> QED
  BY <1>5, <1>6, <1>7, <1>8 DEF IInv, DeliveryInv

-----------------------------------------------------------------------------
\* Every command of the Authority keeps the invariant.
LEMMA NextIInv == IInv /\ [Next]_vars => IInv'
<1> SUFFICES ASSUME IInv, [Next]_vars PROVE IInv'
  OBVIOUS
<1>1. CASE LineageNext /\ UNCHANGED delivery
  BY <1>1, LineageNextInv
<1>2. CASE RunNext
  <2>1. ASSUME NEW p \in ProjectRevisionIds, NEW r \in DOMAIN changeRevisions \cup {None},
               NEW view \in Views, RequestRun(p, r, view)
        PROVE  IInv'
    BY <2>1, NewRunInv DEF RequestRun, Statuses
  <2>2. ASSUME NEW p \in ProjectRevisionIds, NEW r \in DOMAIN changeRevisions \cup {None},
               NEW view \in Views, NEW status \in Statuses, RecordRun(p, r, view, status)
        PROVE  IInv'
    BY <2>2, NewRunInv DEF RecordRun
  <2> QED
    BY <1>2, <2>1, <2>2, CompleteRunInv DEF RunNext
<1>3. CASE RecordNext
  BY <1>3, RecordEvidenceInv, RecordArtifactInv, CreateReleaseInv DEF RecordNext
<1>4. CASE UNCHANGED vars
  BY <1>4, LineageStays DEF vars, lineage, delivery, IInv, DeliveryInv,
     DeliveryTypeOK, RunsRefer, SignedIsFinal, EvidenceBacked, CompletedOnce,
     ReleaseBacked, SourceOf
<1> QED
  BY <1>1, <1>2, <1>3, <1>4 DEF Next

\* The invariant holds in every state of every behaviour.
LEMMA Invariant == Spec => []IInv
<1>1. Init => IInv
  BY InitIInv
<1>2. IInv /\ [Next]_vars => IInv'
  BY NextIInv
<1> QED
  BY <1>1, <1>2, PTL DEF Spec

-----------------------------------------------------------------------------
\* The records of a Realm have their types, whatever commands are executed.
THEOREM TypeCorrect == Spec => []TypeOK
<1>1. IInv => TypeOK
  BY DEF IInv, LineageInv, DeliveryInv, DeliveryTypeOK, TypeOK
<1> QED
  BY <1>1, Invariant, PTL

\* landing.apply loses no landed work: every Change lands on the Project
\* Revision it was made from, and once, with any number of racing Changes.
THEOREM LandedOnItsBaseCorrect == Spec => []LandedOnItsBase
<1>1. IInv => LandedOnItsBase
  BY DEF IInv, LineageInv
<1> QED
  BY <1>1, Invariant, PTL

\* Every snapshot that commands produce can be loaded again: it passes
\* assertAuthorityWorkspaceChangeLineage.
THEOREM LineageRestorableCorrect == Spec => []LineageRestorable
<1>1. IInv => LineageRestorable
  BY DEF IInv, LineageInv
<1> QED
  BY <1>1, Invariant, PTL

\* Passed Evidence is of a Run that succeeded on the same Project Revision,
\* and signed Evidence of the source that the Run still has.
THEOREM EvidenceBackedCorrect == Spec => []EvidenceBacked
<1>1. IInv => EvidenceBacked
  BY DEF IInv, DeliveryInv
<1> QED
  BY <1>1, Invariant, PTL

\* No Run is completed twice by runner.complete.
THEOREM CompletedOnceCorrect == Spec => []CompletedOnce
<1>1. IInv => CompletedOnce
  BY DEF IInv, DeliveryInv
<1> QED
  BY <1>1, Invariant, PTL

\* The Evidence of a Release stays passed, of its Project Revision, and of Runs
\* that succeeded.
THEOREM ReleaseBackedCorrect == Spec => []ReleaseBacked
<1>1. IInv => ReleaseBacked
  BY DEF IInv, DeliveryInv
<1> QED
  BY <1>1, Invariant, PTL

\* Types and Landings, together.
THEOREM LandingsSoundCorrect == Spec => []LandingsSound
  BY TypeCorrect, LandedOnItsBaseCorrect, PTL DEF LandingsSound

\* What is delivered stays backed: Evidence, results of Runs and Releases, together.
THEOREM DeliverySoundCorrect == Spec => []DeliverySound
  BY EvidenceBackedCorrect, CompletedOnceCorrect, ReleaseBackedCorrect, PTL DEF DeliverySound

-----------------------------------------------------------------------------
(* Pull Requests and the Repository Mirror. *)

\* A Pull Request and a proposal are of a Change that exists.
PullRequestsRefer ==
  /\ \A x \in DOMAIN pullRequests : pullRequests[x].change \in DOMAIN changes
  /\ \A k \in DOMAIN proposals : proposals[k].change \in DOMAIN changes

MirrorTypeOK ==
  /\ IsMap(pullRequests, PullRequestIds, PullRequest)
  /\ remoteGeneration \in Generations
  /\ IsMap(proposals, ProposalKeys, Proposal)
  /\ IsMap(deliveries, Deliveries, ProposalKeys \cup {None})

PrInv ==
  /\ LineageInv /\ MirrorTypeOK /\ PullRequestsRefer
  /\ HeadsImportedOnce /\ ApprovalsAreCurrent /\ MergedIsLanded

-----------------------------------------------------------------------------
LEMMA PrInitInv == PrInit => PrInv
  <1> SUFFICES ASSUME PrInit PROVE PrInv
    OBVIOUS
  <1>1. LineageInv
    BY LineageInitInv DEF PrInit
  <1>2. MirrorTypeOK
    BY PullRequestAssumption DEF PrInit, MirrorTypeOK, IsMap
  <1>3. DOMAIN pullRequests = {} /\ DOMAIN proposals = {}
    BY DEF PrInit
  <1> QED
    BY <1>1, <1>2, <1>3 DEF PrInv, PullRequestsRefer, HeadsImportedOnce, ApprovalsAreCurrent, MergedIsLanded

\* While Pull Requests and proposals stay as they are, the lineage only adds
\* to what they refer to.
LEMMA LineageKeepsPullRequests ==
  ASSUME PrInv, LineageInv', LineageGrows, ChangesGrow,
         UNCHANGED <<pullRequests, remoteGeneration, proposals, deliveries>>
  PROVE  PrInv'
  <1>1. MirrorTypeOK' /\ ApprovalsAreCurrent'
    BY DEF PrInv, MirrorTypeOK, ApprovalsAreCurrent, ApprovalIsCurrent, Context
  <1>2. PullRequestsRefer'
    BY DEF PrInv, PullRequestsRefer, ChangesGrow
  <1>3. HeadsImportedOnce'
    <2> SUFFICES ASSUME NEW k \in DOMAIN proposals
                 PROVE  /\ proposals[k].revisions \subseteq RevisionsOf(proposals[k].change)'
                        /\ proposals[k].observed = {changeRevisions'[r].snapshot : r \in proposals[k].revisions}
                        /\ \A r, s \in proposals[k].revisions :
                             changeRevisions'[r].snapshot = changeRevisions'[s].snapshot => r = s
      BY DEF HeadsImportedOnce
    <2>1. /\ proposals[k].revisions \subseteq RevisionsOf(proposals[k].change)
          /\ proposals[k].observed = {changeRevisions[r].snapshot : r \in proposals[k].revisions}
          /\ \A r, s \in proposals[k].revisions :
               changeRevisions[r].snapshot = changeRevisions[s].snapshot => r = s
      BY DEF PrInv, HeadsImportedOnce
    <2>2. \A r \in proposals[k].revisions : r \in DOMAIN changeRevisions' /\ changeRevisions'[r] = changeRevisions[r]
      BY <2>1 DEF RevisionsOf, LineageGrows
    <2> QED
      BY <2>1, <2>2 DEF RevisionsOf
  <1>4. MergedIsLanded'
    BY DEF PrInv, MergedIsLanded, ChangesGrow, PullRequestsRefer
  <1> QED
    BY <1>1, <1>2, <1>3, <1>4 DEF PrInv

-----------------------------------------------------------------------------
(* Pull Requests. *)

\* What is to be known of one Pull Request.
PullRequestSound(pr, chs, props) ==
  /\ pr \in PullRequest /\ pr.change \in DOMAIN chs
  /\ pr.review.state = "approved" => ApprovalIsCurrent(pr)
  /\ pr.status = "merged" /\ (pr.key \in DOMAIN props => props[pr.key].change = pr.change) =>
       chs[pr.change].status = "landed"

LEMMA PullRequestsAreSound ==
  ASSUME PrInv
  PROVE  \A x \in DOMAIN pullRequests :
           x \in PullRequestIds /\ PullRequestSound(pullRequests[x], changes, proposals)
  BY DEF PrInv, MirrorTypeOK, IsMap, PullRequestsRefer, ApprovalsAreCurrent, MergedIsLanded,
     PullRequestSound

\* One Pull Request is written.
LEMMA PullRequestWritten ==
  ASSUME PrInv, NEW x \in PullRequestIds, NEW pr, PullRequestSound(pr, changes, proposals),
         pullRequests' = Set(pullRequests, x, pr),
         UNCHANGED <<lineage, remoteGeneration, proposals, deliveries>>
  PROVE  PrInv'
  <1>1. LineageInv' /\ UNCHANGED <<changes, changeRevisions, proposals, deliveries, remoteGeneration>>
    BY LineageStays DEF PrInv, lineage
  <1>2. /\ DOMAIN pullRequests' = DOMAIN pullRequests \cup {x}
        /\ pullRequests' \in [DOMAIN pullRequests' -> PullRequest] /\ DOMAIN pullRequests' \subseteq PullRequestIds
        /\ \A y \in DOMAIN pullRequests' : PullRequestSound(pullRequests'[y], changes, proposals)
    <2>1. pr \in PullRequest
      BY DEF PullRequestSound
    <2>2. \A y \in DOMAIN pullRequests : y \in PullRequestIds /\ pullRequests[y] \in PullRequest
      BY PullRequestsAreSound DEF PullRequestSound
    <2>3. pullRequests' = [y \in DOMAIN pullRequests \cup {x} |-> IF y = x THEN pr ELSE pullRequests[y]]
      BY DEF Set
    <2>4. DOMAIN pullRequests' = DOMAIN pullRequests \cup {x}
      BY <2>3
    <2>5. \A y \in DOMAIN pullRequests' : PullRequestSound(pullRequests'[y], changes, proposals)
      BY <2>3, PullRequestsAreSound
    <2> QED
      BY <2>1, <2>2, <2>3, <2>4, <2>5
  <1>3. MirrorTypeOK'
    BY <1>1, <1>2 DEF PrInv, MirrorTypeOK, IsMap
  <1>4. PullRequestsRefer' /\ ApprovalsAreCurrent' /\ MergedIsLanded'
    BY <1>1, <1>2 DEF PrInv, PullRequestsRefer, PullRequestSound, ApprovalsAreCurrent, MergedIsLanded, ApprovalIsCurrent, Context
  <1>5. HeadsImportedOnce'
    BY <1>1 DEF PrInv, HeadsImportedOnce, RevisionsOf
  <1> QED
    BY <1>1, <1>3, <1>4, <1>5 DEF PrInv

LEMMA NewReviewIs == NoReview \in Review /\ NoReview.state = "pending"
  BY DEF NoReview, Review

\* pullRequest.open: nothing is approved or merged yet.
LEMMA OpenPullRequestInv ==
  ASSUME PrInv, NEW c \in DOMAIN changes, NEW key \in ProposalKeys \cup {None}, NEW head \in Commits,
         NEW base \in Commits, NEW revs \in SUBSET RevisionsOf(c), OpenPullRequest(c, key, head, base, revs)
  PROVE  PrInv'
  <1> DEFINE x == Fresh(pullRequests, PullRequestIds)
             pr == [change |-> c, key |-> key, head |-> head, base |-> base,
                    status |-> "open", review |-> NoReview, revisions |-> revs]
  <1>1. x \in PullRequestIds
    BY FreshIsNew DEF OpenPullRequest
  <1>2. pullRequests' = Set(pullRequests, x, pr) /\ UNCHANGED <<lineage, remoteGeneration, proposals, deliveries>>
    BY DEF OpenPullRequest
  <1>3. c \in ChangeIds /\ revs \in SUBSET RevisionIds
    BY DEF PrInv, LineageInv, LineageTypeOK, IsMap, RevisionsOf
  <1>4. pr \in PullRequest /\ pr.change = c /\ pr.review.state = "pending" /\ pr.status = "open"
    BY <1>3, NewReviewIs DEF PullRequest
  <1> HIDE DEF x, pr
  <1>5. PullRequestSound(pr, changes, proposals)
    BY <1>4 DEF PullRequestSound
  <1> QED
    BY <1>1, <1>2, <1>5, PullRequestWritten

\* Writing a Pull Request that exists.
LEMMA ExceptIsSet ==
  ASSUME NEW x \in DOMAIN pullRequests, NEW pr, pullRequests' = [pullRequests EXCEPT ![x] = pr]
  PROVE  pullRequests' = Set(pullRequests, x, pr)
  BY DEF Set

\* invalidatePullRequestReview: what is written is approved only if the old one
\* was, for the same context.
LEMMA ReviewedIsSound ==
  ASSUME NEW old \in PullRequest, NEW new \in PullRequest, new.review = old.review,
         old.review.state = "approved" => ApprovalIsCurrent(old)
  PROVE  /\ Reviewed(old, new) \in PullRequest
         /\ Reviewed(old, new).review.state = "approved" => ApprovalIsCurrent(Reviewed(old, new))
         /\ Reviewed(old, new).change = new.change /\ Reviewed(old, new).key = new.key
         /\ Reviewed(old, new).status = new.status
  <1>1. CASE Context(new) # Context(old)
    <2> DEFINE y == [new EXCEPT !.review = NoReview]
    <2>1. y \in PullRequest /\ y.review = NoReview /\ y.change = new.change /\ y.key = new.key /\ y.status = new.status
      BY NewReviewIs DEF PullRequest
    <2>2. Reviewed(old, new) = y
      BY <1>1 DEF Reviewed
    <2> HIDE DEF y
    <2> QED
      BY <2>1, <2>2, NewReviewIs
  <1>2. CASE Context(new) = Context(old)
    BY <1>2 DEF Reviewed, ApprovalIsCurrent
  <1> QED
    BY <1>1, <1>2

\* pullRequest.update
LEMMA UpdatePullRequestInv ==
  ASSUME PrInv, NEW x \in DOMAIN pullRequests, NEW head \in Commits, NEW base \in Commits,
         NEW revs \in {{}} \cup {{r} : r \in DOMAIN changeRevisions}, UpdatePullRequest(x, head, base, revs)
  PROVE  PrInv'
  <1> DEFINE old == pullRequests[x]
             new == [old EXCEPT !.head = head, !.base = base, !.revisions = @ \cup revs]
             z == Reviewed(old, new)
  <1>1. /\ old.status # "merged" /\ pullRequests' = [pullRequests EXCEPT ![x] = z]
        /\ UNCHANGED <<lineage, remoteGeneration, proposals, deliveries>>
    BY DEF UpdatePullRequest
  <1>2. PullRequestSound(old, changes, proposals) /\ x \in PullRequestIds /\ revs \in SUBSET RevisionIds
    BY PullRequestsAreSound DEF PrInv, LineageInv, LineageTypeOK, IsMap
  <1>3. old \in PullRequest
    BY <1>2 DEF PullRequestSound
  <1> HIDE DEF old
  <1>4. new \in PullRequest /\ new.review = old.review /\ new.change = old.change /\ new.status = old.status
    BY <1>2, <1>3 DEF PullRequest
  <1> HIDE DEF new
  <1>5. /\ z \in PullRequest /\ z.change = old.change /\ z.status = old.status
        /\ z.review.state = "approved" => ApprovalIsCurrent(z)
    BY <1>2, <1>3, <1>4, ReviewedIsSound DEF PullRequestSound
  <1> HIDE DEF z
  <1>6. PullRequestSound(z, changes, proposals)
    BY <1>1, <1>2, <1>5 DEF PullRequestSound
  <1> QED
    BY <1>1, <1>2, <1>6, ExceptIsSet, PullRequestWritten

\* pullRequest.review
LEMMA ReviewPullRequestInv ==
  ASSUME PrInv, NEW x \in DOMAIN pullRequests, NEW approves \in BOOLEAN, ReviewPullRequest(x, approves)
  PROVE  PrInv'
  <1> DEFINE old == pullRequests[x]
  <1> PICK v : /\ v = IF approves THEN [state |-> "approved", head |-> old.head,
                                        base |-> old.base, revisions |-> old.revisions]
                                  ELSE NoReview
               /\ pullRequests' = [pullRequests EXCEPT ![x].review = v]
    BY DEF ReviewPullRequest
  <1> DEFINE z == [old EXCEPT !.review = v]
  <1>1. /\ old.status # "merged" /\ pullRequests' = [pullRequests EXCEPT ![x] = z]
        /\ UNCHANGED <<lineage, remoteGeneration, proposals, deliveries>>
    BY DEF ReviewPullRequest
  <1>2. PullRequestSound(old, changes, proposals) /\ x \in PullRequestIds
    BY PullRequestsAreSound
  <1>3. old \in PullRequest
    BY <1>2 DEF PullRequestSound
  <1> HIDE DEF old
  <1>4. /\ v \in Review
        /\ v.state = "approved" => v.head = old.head /\ v.base = old.base /\ v.revisions = old.revisions
    BY <1>3, NewReviewIs DEF PullRequest, Review
  <1>5. /\ z \in PullRequest /\ z.change = old.change /\ z.status = old.status /\ z.review = v
        /\ z.head = old.head /\ z.base = old.base /\ z.revisions = old.revisions
    BY <1>3, <1>4 DEF PullRequest
  <1> HIDE DEF z
  <1>6. PullRequestSound(z, changes, proposals)
    BY <1>1, <1>2, <1>4, <1>5 DEF PullRequestSound, ApprovalIsCurrent, Context
  <1> QED
    BY <1>1, <1>2, <1>6, ExceptIsSet, PullRequestWritten

\* pullRequest.close, reopen, block and merge: only what landed is merged.
LEMMA MovePullRequestInv ==
  ASSUME PrInv, NEW x \in DOMAIN pullRequests, NEW desired \in {"closed", "open", "blocked", "merged"},
         MovePullRequest(x, desired)
  PROVE  PrInv'
  <1> DEFINE old == pullRequests[x]
             z == [old EXCEPT !.status = desired]
  <1>1. /\ desired = "merged" => changes[old.change].status = "landed"
        /\ pullRequests' = [pullRequests EXCEPT ![x] = z]
        /\ UNCHANGED <<lineage, remoteGeneration, proposals, deliveries>>
    BY DEF MovePullRequest, Mergeable
  <1>2. PullRequestSound(old, changes, proposals) /\ x \in PullRequestIds
    BY PullRequestsAreSound
  <1>3. old \in PullRequest
    BY <1>2 DEF PullRequestSound
  <1> HIDE DEF old
  <1>4. /\ z \in PullRequest /\ z.change = old.change /\ z.status = desired /\ z.review = old.review
        /\ z.head = old.head /\ z.base = old.base /\ z.revisions = old.revisions
    BY <1>3 DEF PullRequest
  <1> HIDE DEF z
  <1>5. PullRequestSound(z, changes, proposals)
    BY <1>1, <1>2, <1>4 DEF PullRequestSound, ApprovalIsCurrent, Context
  <1> QED
    BY <1>1, <1>2, <1>5, ExceptIsSet, PullRequestWritten

-----------------------------------------------------------------------------
(* The Mirror. *)

LEMMA RecordedIs ==
  ASSUME MirrorTypeOK, NEW d \in Deliveries \cup {None}, NEW key \in ProposalKeys \cup {None}
  PROVE  /\ IsMap(Recorded(d, key), Deliveries, ProposalKeys \cup {None})
         /\ d # None => DOMAIN Recorded(d, key) = DOMAIN deliveries \cup {d}
  <1>1. CASE d = None
    BY <1>1 DEF Recorded, MirrorTypeOK
  <1>2. CASE d # None
    <2>1. Recorded(d, key) = [y \in DOMAIN deliveries \cup {d} |-> IF y = d THEN key ELSE deliveries[y]]
      BY <1>2 DEF Recorded, Set
    <2> QED
      BY <1>2, <2>1 DEF MirrorTypeOK, IsMap
  <1> QED
    BY <1>1, <1>2

\* An operation that imports nothing leaves the records alone.
LEMMA SyncMirrorInv ==
  ASSUME PrInv, NEW op \in Operations, NEW actual \in Generations, NEW succeeded \in BOOLEAN,
         NEW d \in Deliveries \cup {None}, NEW key \in ProposalKeys \cup {None},
         SyncMirror(op, actual, succeeded, d, key)
  PROVE  PrInv'
  <1>1. /\ deliveries' = Recorded(d, key) /\ remoteGeneration' \in {actual, remoteGeneration}
        /\ UNCHANGED <<lineage, pullRequests, proposals>>
    BY DEF SyncMirror, GenerationAfter
  <1>2. LineageInv' /\ UNCHANGED <<changes, changeRevisions, pullRequests, proposals>>
    BY <1>1, LineageStays DEF PrInv, lineage
  <1>3. MirrorTypeOK'
    <2>1. IsMap(Recorded(d, key), Deliveries, ProposalKeys \cup {None})
      BY RecordedIs DEF PrInv
    <2> QED
      BY <2>1, <1>1 DEF PrInv, MirrorTypeOK
  <1>4. PullRequestsRefer' /\ ApprovalsAreCurrent' /\ MergedIsLanded'
    BY <1>2 DEF PrInv, PullRequestsRefer, ApprovalsAreCurrent, MergedIsLanded, ApprovalIsCurrent, Context
  <1>5. HeadsImportedOnce'
    BY <1>2 DEF PrInv, HeadsImportedOnce, RevisionsOf
  <1> QED
    BY <1>2, <1>3, <1>4, <1>5 DEF PrInv

\* The Change of a proposal.
LEMMA ProposalChangeIs ==
  ASSUME PrInv, NEW key \in ProposalKeys, key \in DOMAIN proposals \/ HasFresh(changes, ChangeIds)
  PROVE  /\ ProposalChangeId(key) \in ChangeIds /\ ProposalChange(key) \in Change
         /\ key \in DOMAIN proposals =>
              /\ ProposalChangeId(key) \in DOMAIN changes /\ ProposalChangeId(key) = proposals[key].change
              /\ ProposalChange(key) = changes[ProposalChangeId(key)]
         /\ key \notin DOMAIN proposals =>
              /\ ProposalChangeId(key) \notin DOMAIN changes
              /\ ProposalChange(key).base = canonical /\ ProposalChange(key).workspace = None
              /\ ProposalChange(key).status = "active"
  <1>1. CASE key \in DOMAIN proposals
    <2>1. proposals[key].change \in DOMAIN changes
      BY <1>1 DEF PrInv, PullRequestsRefer
    <2> QED
      BY <1>1, <2>1 DEF PrInv, LineageInv, LineageTypeOK, IsMap, ProposalChangeId, ProposalChange
  <1>2. CASE key \notin DOMAIN proposals
    <2>1. ProposalChangeId(key) \in ChangeIds /\ ProposalChangeId(key) \notin DOMAIN changes
      BY <1>2, FreshIsNew DEF ProposalChangeId
    <2>2. canonical \in ProjectRevisionIds
      BY DEF PrInv, LineageInv, LineageTypeOK, IsMap
    <2>3. ProposalChange(key) = NewChange(canonical, None)
      BY <1>2 DEF ProposalChange
    <2>4. NewChange(canonical, None) \in Change
      BY <2>2 DEF NewChange, Change
    <2> QED
      BY <1>2, <2>1, <2>3, <2>4 DEF NewChange
  <1> QED
    BY <1>1, <1>2

\* Importing a head keeps the lineage, and what is new of it is a revision of
\* the proposal's Change with that head.
LEMMA ImportHeadInv ==
  ASSUME PrInv, NEW key \in ProposalKeys, NEW head \in Commits, NEW candidate \in Candidates,
         NEW view \in DOMAIN workspaces, key \in DOMAIN proposals \/ HasFresh(changes, ChangeIds),
         ImportHead(key, head, candidate, view), UNCHANGED <<projectRevisions, canonical, workspaces>>
  PROVE  /\ LineageInv' /\ LineageGrows /\ ChangesGrow
         /\ NewRevisions(key, head) \subseteq RevisionIds \ DOMAIN changeRevisions
         /\ \A r \in NewRevisions(key, head) :
              /\ r \in DOMAIN changeRevisions' /\ changeRevisions'[r].change = ProposalChangeId(key)
              /\ changeRevisions'[r].snapshot = head /\ NewRevisions(key, head) = {r}
         /\ IsNewHead(key, head) <=> NewRevisions(key, head) # {}
         /\ ProposalChangeId(key) \in DOMAIN changes'
  <1> DEFINE c == ProposalChangeId(key)
             change == ProposalChange(key)
             r == Fresh(changeRevisions, RevisionIds)
             rev == NewRevision(c, change, candidate, view, head)
             ch == Submitted(change, r)
  <1>1. /\ c \in ChangeIds /\ change \in Change
        /\ key \in DOMAIN proposals => c \in DOMAIN changes /\ change = changes[c]
        /\ key \notin DOMAIN proposals => c \notin DOMAIN changes /\ change.base = canonical /\ change.workspace = None
    BY ProposalChangeIs
  <1>2. CASE IsNewHead(key, head)
    <2>1. /\ HasFresh(changeRevisions, RevisionIds) /\ (key \in DOMAIN proposals => Publishable(c))
          /\ changeRevisions' = Set(changeRevisions, r, rev) /\ changes' = Set(changes, c, ch)
      BY <1>2 DEF ImportHead
    <2>2. r \in RevisionIds /\ r \notin DOMAIN changeRevisions /\ NewRevisions(key, head) = {r}
      BY <1>2, <2>1, FreshIsNew DEF NewRevisions
    <2>3. /\ candidate \in ProjectRevisionIds /\ view \in WorkspaceIds /\ canonical \in DOMAIN projectRevisions
      BY LineageAssumption DEF PrInv, LineageInv, LineageTypeOK, IsMap
    <2>4. key \in DOMAIN proposals => changes[c].status # "landed"
      BY <2>1 DEF Publishable
    <2> HIDE DEF c, change, r
    <2>5. rev \in ChangeRevision /\ rev.change = c /\ rev.base = change.base /\ rev.snapshot = head
      BY <1>1, <2>3 DEF NewRevision, ChangeRevision, Change
    <2>6. ch \in Change /\ ch.base = change.base /\ ch.workspace = change.workspace
      BY <1>1, <2>2 DEF Submitted, Change
    <2> HIDE DEF rev, ch
    <2>7. LineageInv' /\ LineageGrows /\ ChangesGrow
      <3>1. c \in DOMAIN changes => ch.base = changes[c].base /\ ch.workspace = changes[c].workspace /\ changes[c].status # "landed"
        BY <1>1, <2>4, <2>6
      <3>2. c \notin DOMAIN changes => ch.base \in DOMAIN projectRevisions /\ ch.workspace = None
        BY <1>1, <2>3, <2>6
      <3> QED
        BY <1>1, <2>1, <2>2, <2>5, <2>6, <3>1, <3>2, LineageExtends DEF PrInv
    <2>8. r \in DOMAIN changeRevisions' /\ changeRevisions'[r] = rev /\ c \in DOMAIN changes'
      BY <2>1 DEF Set
    <2> QED
      BY <1>2, <2>2, <2>5, <2>7, <2>8 DEF c
  <1>3. CASE ~IsNewHead(key, head)
    <2>1. key \in DOMAIN proposals
      BY <1>3 DEF IsNewHead, Observed
    <2>2. changes' = Set(changes, c, changes[c]) /\ UNCHANGED changeRevisions /\ NewRevisions(key, head) = {}
      BY <1>1, <1>3, <2>1 DEF ImportHead, NewRevisions
    <2> HIDE DEF c
    <2>3. changes \in [DOMAIN changes -> Change]
      BY DEF PrInv, LineageInv, LineageTypeOK, IsMap
    <2>4. changes' = changes
      BY <1>1, <2>1, <2>2, <2>3 DEF Set
    <2>5. LineageInv' /\ LineageGrows /\ ChangesGrow
      BY <2>2, <2>4, LineageStays DEF PrInv, lineage
    <2> QED
      BY <1>1, <1>3, <2>1, <2>2, <2>4, <2>5 DEF c
  <1> QED
    BY <1>2, <1>3

\* The proposal that is written has each head it saw as one revision of its Change.
LEMMA ImportedProposalIs ==
  ASSUME PrInv, NEW key \in ProposalKeys, NEW head \in Commits,
         NEW status \in {"open", "closed", "merged", "blocked"}, NEW candidate \in Candidates,
         NEW view \in DOMAIN workspaces, key \in DOMAIN proposals \/ HasFresh(changes, ChangeIds),
         ImportHead(key, head, candidate, view), UNCHANGED <<projectRevisions, canonical, workspaces>>
  PROVE  LET p == ImportedProposal(key, head, status) IN
         /\ p \in Proposal /\ p.change = ProposalChangeId(key)
         /\ \A r \in p.revisions :
              r \in DOMAIN changeRevisions' /\ changeRevisions'[r].change = ProposalChangeId(key)
         /\ p.observed = {changeRevisions'[r].snapshot : r \in p.revisions}
         /\ \A r, s \in p.revisions :
              changeRevisions'[r].snapshot = changeRevisions'[s].snapshot => r = s
  <1> DEFINE p == ImportedProposal(key, head, status)
             c == ProposalChangeId(key)
             new == NewRevisions(key, head)
             old == IF key \in DOMAIN proposals THEN proposals[key].revisions ELSE {}
             seen == Observed(key)
  <1>1. /\ LineageGrows
        /\ new \subseteq RevisionIds \ DOMAIN changeRevisions
        /\ \A r \in new : /\ r \in DOMAIN changeRevisions' /\ changeRevisions'[r].change = c
                           /\ changeRevisions'[r].snapshot = head /\ new = {r}
        /\ head \notin seen <=> new # {}
    BY ImportHeadInv DEF IsNewHead
  <1>2. c \in ChangeIds
    BY ProposalChangeIs
  <1>3. /\ old \subseteq RevisionIds /\ seen \subseteq Commits
        /\ \A r \in old : r \in DOMAIN changeRevisions /\ changeRevisions[r].change = c
        /\ seen = {changeRevisions[r].snapshot : r \in old}
        /\ \A r, s \in old : changeRevisions[r].snapshot = changeRevisions[s].snapshot => r = s
    <2>1. CASE key \in DOMAIN proposals
      <3>1. proposals[key] \in Proposal
        BY <2>1 DEF PrInv, MirrorTypeOK, IsMap
      <3>2. old = proposals[key].revisions /\ seen = proposals[key].observed /\ c = proposals[key].change
        BY <2>1 DEF Observed, ProposalChangeId
      <3>3. /\ old \subseteq RevisionsOf(c) /\ seen = {changeRevisions[r].snapshot : r \in old}
            /\ \A r, s \in old : changeRevisions[r].snapshot = changeRevisions[s].snapshot => r = s
        BY <2>1, <3>2 DEF PrInv, HeadsImportedOnce
      <3>4. old \subseteq RevisionIds /\ seen \subseteq Commits
        BY <3>1, <3>2 DEF Proposal
      <3> HIDE DEF old, seen, c
      <3> QED
        BY <3>3, <3>4 DEF RevisionsOf
    <2>2. CASE key \notin DOMAIN proposals
      BY <2>2 DEF Observed
    <2> QED
      BY <2>1, <2>2
  <1>4. p = [change |-> c, head |-> head, observed |-> seen \cup {head}, revisions |-> old \cup new, status |-> status]
    BY DEF ImportedProposal
  <1> HIDE DEF c, new, old, seen, p
  <1>5. \A r \in old : r \in DOMAIN changeRevisions' /\ changeRevisions'[r] = changeRevisions[r]
    BY <1>1, <1>3 DEF LineageGrows
  <1>6. p \in Proposal /\ p.change = c /\ p.observed = seen \cup {head} /\ p.revisions = old \cup new
    BY <1>1, <1>2, <1>3, <1>4 DEF Proposal
  <1>7. \A r \in p.revisions : r \in DOMAIN changeRevisions' /\ changeRevisions'[r].change = c
    BY <1>1, <1>3, <1>5, <1>6
  <1>8. p.observed = {changeRevisions'[r].snapshot : r \in p.revisions}
    <2>1. \A r \in old : changeRevisions'[r].snapshot \in seen
      BY <1>3, <1>5
    <2>2. \A h \in seen : \E r \in old : changeRevisions'[r].snapshot = h
      BY <1>3, <1>5
    <2>3. \E r \in old \cup new : changeRevisions'[r].snapshot = head
      BY <1>1, <2>2
    <2>4. \A r \in new : changeRevisions'[r].snapshot = head
      BY <1>1
    <2> QED
      BY <1>6, <2>1, <2>2, <2>3, <2>4
  <1>9. \A r, s \in p.revisions : changeRevisions'[r].snapshot = changeRevisions'[s].snapshot => r = s
    <2>1. \A r \in old : changeRevisions'[r].snapshot \in seen
      BY <1>3, <1>5
    <2>2. \A r, s \in old : changeRevisions'[r].snapshot = changeRevisions'[s].snapshot => r = s
      BY <1>3, <1>5
    <2>3. \A r, s \in new : r = s
      BY <1>1
    <2>4. \A r \in new, s \in old : changeRevisions'[r].snapshot # changeRevisions'[s].snapshot
      BY <1>1, <2>1
    <2> QED
      BY <1>6, <2>2, <2>3, <2>4
  <1> QED
    BY <1>6, <1>7, <1>8, <1>9 DEF p, c

\* A projection is merged only when the proposal's Change has landed.
LEMMA ProjectedIsSound ==
  ASSUME PrInv, NEW key \in ProposalKeys, NEW head \in Commits, NEW base \in Commits,
         NEW status \in {"open", "closed", "merged", "blocked"},
         key \in DOMAIN proposals \/ HasFresh(changes, ChangeIds),
         NewRevisions(key, head) \subseteq RevisionIds, ChangesGrow,
         ProposalChangeId(key) \in DOMAIN changes', NEW props, key \in DOMAIN props,
         props[key].change = ProposalChangeId(key)
  PROVE  /\ \A x \in DOMAIN pullRequests : pullRequests[x].key = key /\ ~IsTerminal(pullRequests[x]) =>
              PullRequestSound(Projected(pullRequests[x], key, head, base, status), changes', props)
         /\ PullRequestSound(
              [change |-> ProposalChangeId(key), key |-> key, head |-> head, base |-> base,
               status |-> ProjectedStatus(key, status), review |-> NoReview,
               revisions |-> NewRevisions(key, head)], changes', props)
  <1> DEFINE st == ProjectedStatus(key, status)
             new == NewRevisions(key, head)
             c == ProposalChangeId(key)
  <1>1. st \in {"open", "closed", "blocked", "merged"} /\ (st = "merged" => ProposalChange(key).status = "landed")
    BY DEF ProjectedStatus
  <1>2. st = "merged" => c \in DOMAIN changes' /\ changes'[c].status = "landed"
    <2>1. st = "merged" => c \in DOMAIN changes /\ changes[c].status = "landed"
      BY <1>1, ProposalChangeIs
    <2> QED
      BY <2>1 DEF ChangesGrow
  <1>3. c \in ChangeIds
    BY ProposalChangeIs
  <1> HIDE DEF st, c
  <1>4. ASSUME NEW x \in DOMAIN pullRequests, pullRequests[x].key = key
        PROVE  PullRequestSound(Projected(pullRequests[x], key, head, base, status), changes', props)
    <2> DEFINE pr == pullRequests[x]
               n == [pr EXCEPT !.head = head, !.base = base, !.status = st, !.revisions = @ \cup new]
               z == Reviewed(pr, n)
    <2>1. Projected(pr, key, head, base, status) = z
      BY DEF Projected, st
    <2>2. PullRequestSound(pr, changes, proposals)
      BY PullRequestsAreSound
    <2>3. pr \in PullRequest /\ pr.key = key
      BY <2>2, <1>4 DEF PullRequestSound
    <2> HIDE DEF pr, new
    <2>4. n \in PullRequest /\ n.review = pr.review /\ n.change = pr.change /\ n.status = st /\ n.key = key
      BY <1>1, <2>3 DEF PullRequest, new
    <2> HIDE DEF n
    <2>5. /\ z \in PullRequest /\ z.change = pr.change /\ z.status = st /\ z.key = key
          /\ z.review.state = "approved" => ApprovalIsCurrent(z)
      BY <2>2, <2>3, <2>4, ReviewedIsSound DEF PullRequestSound
    <2> HIDE DEF z
    <2>6. pr.change \in DOMAIN changes'
      BY <2>2 DEF PullRequestSound, ChangesGrow
    <2>7. PullRequestSound(z, changes', props)
      BY <1>2, <2>5, <2>6 DEF PullRequestSound, c
    <2> QED
      BY <2>1, <2>7 DEF pr
  <1>5. PullRequestSound(
          [change |-> c, key |-> key, head |-> head, base |-> base, status |-> st, review |-> NoReview,
           revisions |-> new], changes', props)
    <2> DEFINE z == [change |-> c, key |-> key, head |-> head, base |-> base, status |-> st, review |-> NoReview,
                     revisions |-> new]
    <2>1. z \in PullRequest /\ z.change = c /\ z.key = key /\ z.status = st /\ z.review.state = "pending"
      BY <1>1, <1>3, NewReviewIs DEF PullRequest
    <2> HIDE DEF z
    <2>2. PullRequestSound(z, changes', props)
      BY <1>2, <2>1 DEF PullRequestSound, c
    <2> QED
      BY <2>2 DEF z
  <1> QED
    BY <1>4, <1>5 DEF st, c

\* mirror.sync and mirror.reconcile with a proposal.
LEMMA ImportProposalInv ==
  ASSUME PrInv, NEW op \in Operations, NEW actual \in Generations, NEW d \in Deliveries,
         NEW key \in ProposalKeys, NEW head \in Commits,
         NEW status \in {"open", "closed", "merged", "blocked"}, NEW candidate \in Candidates,
         NEW view \in DOMAIN workspaces,
         ImportProposal(op, actual, d, key, head, status, candidate, view)
  PROVE  PrInv'
  <1> DEFINE p == ImportedProposal(key, head, status)
             c == ProposalChangeId(key)
             base == projectRevisions[canonical].snapshot
  <1>1. /\ key \in DOMAIN proposals \/ HasFresh(changes, ChangeIds)
        /\ ImportHead(key, head, candidate, view) /\ proposals' = Set(proposals, key, p)
        /\ ProjectPullRequest(key, head, base, status)
        /\ deliveries' = Recorded(d, key) /\ remoteGeneration' = actual
        /\ UNCHANGED <<projectRevisions, canonical, workspaces>>
    BY DEF ImportProposal, GenerationAfter
  <1>2. /\ LineageInv' /\ LineageGrows /\ ChangesGrow /\ c \in DOMAIN changes'
        /\ NewRevisions(key, head) \subseteq RevisionIds
    BY <1>1, ImportHeadInv
  <1>3. /\ p \in Proposal /\ p.change = c
        /\ \A r \in p.revisions : r \in DOMAIN changeRevisions' /\ changeRevisions'[r].change = c
        /\ p.observed = {changeRevisions'[r].snapshot : r \in p.revisions}
        /\ \A r, s \in p.revisions :
             changeRevisions'[r].snapshot = changeRevisions'[s].snapshot => r = s
    BY <1>1, ImportedProposalIs
  <1>4. base \in Commits
    BY DEF PrInv, LineageInv, LineageTypeOK, IsMap, ProjectRevision
  <1>5. key \in DOMAIN proposals => c = proposals[key].change
    BY DEF ProposalChangeId
  <1> HIDE DEF p
  <1>6. /\ IsMap(proposals', ProposalKeys, Proposal) /\ DOMAIN proposals' = DOMAIN proposals \cup {key}
        /\ proposals'[key] = p /\ \A k \in DOMAIN proposals : k # key => proposals'[k] = proposals[k]
    BY <1>1, <1>3 DEF PrInv, MirrorTypeOK, IsMap, Set
  <1>7. /\ IsMap(pullRequests', PullRequestIds, PullRequest)
        /\ \A x \in DOMAIN pullRequests' : PullRequestSound(pullRequests'[x], changes', proposals')
    <2>1. /\ \A x \in DOMAIN pullRequests : pullRequests[x].key = key /\ ~IsTerminal(pullRequests[x]) =>
               PullRequestSound(Projected(pullRequests[x], key, head, base, status), changes', proposals')
          /\ PullRequestSound(
               [change |-> c, key |-> key, head |-> head, base |-> base,
                status |-> ProjectedStatus(key, status), review |-> NoReview,
                revisions |-> NewRevisions(key, head)], changes', proposals')
      <3>1. key \in DOMAIN proposals' /\ proposals'[key].change = c
        BY <1>3, <1>6
      <3> QED
        BY <1>1, <1>2, <1>4, <3>1, ProjectedIsSound
    <2>2. ASSUME NEW x \in DOMAIN pullRequests
          PROVE  x \in PullRequestIds /\ PullRequestSound(pullRequests[x], changes', proposals')
      <3>1. x \in PullRequestIds /\ PullRequestSound(pullRequests[x], changes, proposals)
        BY PullRequestsAreSound
      <3> DEFINE pr == pullRequests[x]
      <3>2. pr \in PullRequest /\ pr.change \in DOMAIN changes /\ (pr.review.state = "approved" => ApprovalIsCurrent(pr))
        BY <3>1 DEF PullRequestSound
      <3>3. ASSUME pr.status = "merged", pr.key \in DOMAIN proposals' => proposals'[pr.key].change = pr.change
            PROVE  changes[pr.change].status = "landed"
        <4>1. pr.key \in DOMAIN proposals => proposals[pr.key].change = pr.change
          BY <3>3, <1>3, <1>5, <1>6
        <4> QED
          BY <3>1, <3>3, <4>1 DEF PullRequestSound
      <3> QED
        BY <3>1, <3>2, <3>3, <1>2 DEF PullRequestSound, ChangesGrow
    <2>3. ASSUME NEW x \in PullRequestIds, NEW pr, PullRequestSound(pr, changes', proposals'),
                 pullRequests' = Set(pullRequests, x, pr)
          PROVE  /\ IsMap(pullRequests', PullRequestIds, PullRequest)
                 /\ \A y \in DOMAIN pullRequests' : PullRequestSound(pullRequests'[y], changes', proposals')
      <3>1. pullRequests' = [y \in DOMAIN pullRequests \cup {x} |-> IF y = x THEN pr ELSE pullRequests[y]]
        BY <2>3 DEF Set
      <3>2. \A y \in DOMAIN pullRequests' : y \in PullRequestIds /\ PullRequestSound(pullRequests'[y], changes', proposals')
        BY <2>2, <2>3, <3>1
      <3>3. \A y \in DOMAIN pullRequests' : y \in PullRequestIds /\ pullRequests'[y] \in PullRequest
        BY <3>2 DEF PullRequestSound
      <3> QED
        BY <3>1, <3>2, <3>3 DEF IsMap
    <2>4. CASE /\ HasFresh(pullRequests, PullRequestIds)
               /\ pullRequests' =
                    Set(pullRequests, Fresh(pullRequests, PullRequestIds),
                        [change |-> c, key |-> key, head |-> head, base |-> base,
                         status |-> ProjectedStatus(key, status), review |-> NoReview,
                         revisions |-> NewRevisions(key, head)])
      <3>1. Fresh(pullRequests, PullRequestIds) \in PullRequestIds
        BY <2>4, FreshIsNew
      <3> QED
        BY <2>1, <2>3, <2>4, <3>1
    <2>5. ASSUME NEW x \in DOMAIN pullRequests, pullRequests[x].key = key, ~IsTerminal(pullRequests[x]),
                 pullRequests' = [pullRequests EXCEPT ![x] = Projected(pullRequests[x], key, head, base, status)]
          PROVE  /\ IsMap(pullRequests', PullRequestIds, PullRequest)
                 /\ \A y \in DOMAIN pullRequests' : PullRequestSound(pullRequests'[y], changes', proposals')
      <3> DEFINE pr == Projected(pullRequests[x], key, head, base, status)
      <3>1. PullRequestSound(pr, changes', proposals') /\ x \in PullRequestIds
        BY <2>1, <2>2, <2>5
      <3> HIDE DEF pr
      <3>2. pullRequests' = Set(pullRequests, x, pr)
        BY <2>5, ExceptIsSet DEF pr
      <3> QED
        BY <2>3, <3>1, <3>2
    <2>6. CASE pullRequests' = pullRequests
      <3>1. \A y \in DOMAIN pullRequests' : PullRequestSound(pullRequests'[y], changes', proposals')
        BY <2>2, <2>6
      <3> QED
        BY <2>6, <3>1 DEF PrInv, MirrorTypeOK
    <2> QED
      BY <1>1, <2>4, <2>5, <2>6 DEF ProjectPullRequest
  <1>8. MirrorTypeOK'
    <2>1. IsMap(Recorded(d, key), Deliveries, ProposalKeys \cup {None})
      BY RecordedIs DEF PrInv
    <2> QED
      BY <1>1, <1>6, <1>7, <2>1 DEF MirrorTypeOK
  <1>9. PullRequestsRefer'
    BY <1>2, <1>3, <1>6, <1>7 DEF PrInv, PullRequestsRefer, PullRequestSound, ChangesGrow
  <1>10. ApprovalsAreCurrent' /\ MergedIsLanded'
    BY <1>7 DEF PullRequestSound, ApprovalsAreCurrent, MergedIsLanded, ApprovalIsCurrent, Context
  <1>11. HeadsImportedOnce'
    <2> SUFFICES ASSUME NEW k \in DOMAIN proposals'
                 PROVE  /\ \A r \in proposals'[k].revisions :
                             r \in DOMAIN changeRevisions' /\ changeRevisions'[r].change = proposals'[k].change
                        /\ proposals'[k].observed = {changeRevisions'[r].snapshot : r \in proposals'[k].revisions}
                        /\ \A r, s \in proposals'[k].revisions :
                             changeRevisions'[r].snapshot = changeRevisions'[s].snapshot => r = s
      BY DEF HeadsImportedOnce, RevisionsOf
    <2>1. CASE k = key
      BY <1>3, <1>6, <2>1
    <2>2. CASE k # key
      <3>1. k \in DOMAIN proposals /\ proposals'[k] = proposals[k]
        BY <1>6, <2>2
      <3>2. /\ proposals[k].revisions \subseteq RevisionsOf(proposals[k].change)
            /\ proposals[k].observed = {changeRevisions[r].snapshot : r \in proposals[k].revisions}
            /\ \A r, s \in proposals[k].revisions :
                 changeRevisions[r].snapshot = changeRevisions[s].snapshot => r = s
        BY <3>1 DEF PrInv, HeadsImportedOnce
      <3>3. \A r \in proposals[k].revisions : r \in DOMAIN changeRevisions' /\ changeRevisions'[r] = changeRevisions[r]
        BY <1>2, <3>2 DEF RevisionsOf, LineageGrows
      <3> QED
        BY <3>1, <3>2, <3>3 DEF RevisionsOf
    <2> QED
      BY <2>1, <2>2
  <1> QED
    BY <1>2, <1>8, <1>9, <1>10, <1>11 DEF PrInv

-----------------------------------------------------------------------------
\* Every command keeps the invariant.
LEMMA PrStepInv == ASSUME PrInv, [PrNext]_prVars PROVE PrInv'
  <1>1. CASE LineageNext /\ UNCHANGED <<pullRequests, remoteGeneration, proposals, deliveries>>
    BY <1>1, LineageStep, LineageChangesGrow, LineageKeepsPullRequests DEF PrInv
  <1>2. CASE PullRequestNext
    BY <1>2, OpenPullRequestInv, UpdatePullRequestInv, ReviewPullRequestInv, MovePullRequestInv
       DEF PullRequestNext
  <1>3. CASE MirrorNext
    BY <1>3, SyncMirrorInv, ImportProposalInv DEF MirrorNext
  <1>4. CASE UNCHANGED prVars
    BY <1>4, LineageStays, LineageKeepsPullRequests DEF prVars, PrInv
  <1> QED
    BY <1>1, <1>2, <1>3, <1>4 DEF PrNext

LEMMA PrAlwaysInv == PrSpec => []PrInv
  BY PrInitInv, PrStepInv, PTL DEF PrSpec

\* The records of Pull Requests, proposals and deliveries have their types, and
\* every snapshot passes assertAuthorityWorkspaceChangeLineage when it is loaded
\* again, whatever the Mirror imports in between.
THEOREM RecordsRestorableCorrect == PrSpec => []RecordsRestorable
  <1>1. PrInv => RecordsRestorable
    BY DEF PrInv, LineageInv, MirrorTypeOK, RecordsRestorable, PrTypeOK
  <1> QED
    BY <1>1, PrAlwaysInv, PTL

\* For any number of proposals, deliveries and reviewers: each head the host
\* showed is one Change Revision, an approval is of what the Pull Request now
\* is, and nothing is merged before it landed (mirror.sync, pullRequest.review,
\* pullRequest.merge).
THEOREM PullRequestsSoundCorrect == PrSpec => []PullRequestsSound
  <1>1. PrInv => PullRequestsSound
    BY DEF PrInv, PullRequestsSound
  <1> QED
    BY <1>1, PrAlwaysInv, PTL

-----------------------------------------------------------------------------
(* What later events do not take back. *)

MergedStay ==
  \A x \in DOMAIN pullRequests :
    pullRequests[x].status = "merged" => pullRequests'[x] = pullRequests[x]

\* Commands and the Mirror leave a merged Pull Request alone.
LEMMA MergedStays == ASSUME PrInv, [PrNext]_prVars PROVE MergedStay
  <1>1. ASSUME NEW x \in DOMAIN pullRequests, pullRequests[x].status # "merged", NEW pr,
               pullRequests' = [pullRequests EXCEPT ![x] = pr]
        PROVE  MergedStay
    BY <1>1 DEF MergedStay
  <1>2. ASSUME HasFresh(pullRequests, PullRequestIds), NEW pr,
               pullRequests' = Set(pullRequests, Fresh(pullRequests, PullRequestIds), pr)
        PROVE  MergedStay
    BY <1>2, FreshIsNew DEF MergedStay, Set
  <1>3. CASE pullRequests' = pullRequests
    BY <1>3 DEF MergedStay
  <1>4. ASSUME PullRequestNext PROVE MergedStay
    <2>1. ASSUME NEW c \in DOMAIN changes, NEW key \in ProposalKeys \cup {None}, NEW head \in Commits,
                 NEW base \in Commits, NEW revs \in SUBSET RevisionsOf(c),
                 OpenPullRequest(c, key, head, base, revs)
          PROVE  MergedStay
      BY <2>1, <1>2 DEF OpenPullRequest
    <2>2. ASSUME NEW x \in DOMAIN pullRequests, NEW head \in Commits, NEW base \in Commits,
                 NEW revs, UpdatePullRequest(x, head, base, revs)
          PROVE  MergedStay
      BY <2>2, <1>1 DEF UpdatePullRequest
    <2>3. ASSUME NEW x \in DOMAIN pullRequests, NEW approves \in BOOLEAN, ReviewPullRequest(x, approves)
          PROVE  MergedStay
      BY <2>3 DEF ReviewPullRequest, MergedStay
    <2>4. ASSUME NEW x \in DOMAIN pullRequests, NEW desired, MovePullRequest(x, desired)
          PROVE  MergedStay
      <3>1. pullRequests[x].status # "merged"
        BY <2>4 DEF MovePullRequest, Transitions
      <3> QED
        BY <2>4, <3>1 DEF MovePullRequest, MergedStay
    <2> QED
      BY <1>4, <2>1, <2>2, <2>3, <2>4 DEF PullRequestNext
  <1>5. ASSUME NEW op, NEW actual, NEW d, NEW key, NEW head, NEW status, NEW candidate, NEW view,
               ImportProposal(op, actual, d, key, head, status, candidate, view)
        PROVE  MergedStay
    <2>1. ProjectPullRequest(key, head, projectRevisions[canonical].snapshot, status)
      BY <1>5 DEF ImportProposal
    <2> QED
      BY <2>1, <1>1, <1>2, <1>3 DEF ProjectPullRequest, IsTerminal
  <1>6. ASSUME NEW op, NEW actual, NEW succeeded, NEW d, NEW key, SyncMirror(op, actual, succeeded, d, key)
        PROVE  MergedStay
    BY <1>3, <1>6 DEF SyncMirror
  <1> QED
    BY <1>3, <1>4, <1>5, <1>6 DEF PrNext, MirrorNext, prVars

ProposalsFollowDeliveries ==
  \A k \in DOMAIN proposals : proposals'[k] # proposals[k] => DOMAIN deliveries' # DOMAIN deliveries

\* Only an import writes a proposal, and it records a delivery that was not in
\* the ledger.
LEMMA ProposalsFollow == ASSUME PrInv, [PrNext]_prVars PROVE ProposalsFollowDeliveries
  <1>1. CASE proposals' = proposals
    BY <1>1 DEF ProposalsFollowDeliveries
  <1>2. ASSUME NEW op, NEW actual, NEW d \in Deliveries, NEW key \in ProposalKeys, NEW head, NEW status,
               NEW candidate, NEW view, ImportProposal(op, actual, d, key, head, status, candidate, view)
        PROVE  ProposalsFollowDeliveries
    <2>1. d # None /\ d \notin DOMAIN deliveries /\ deliveries' = Recorded(d, key)
      BY <1>2 DEF ImportProposal, FirstDelivery
    <2>2. DOMAIN deliveries' = DOMAIN deliveries \cup {d}
      BY <2>1, RecordedIs DEF PrInv
    <2> QED
      BY <2>1, <2>2 DEF ProposalsFollowDeliveries
  <1>3. ASSUME PullRequestNext PROVE proposals' = proposals
    BY <1>3 DEF PullRequestNext, OpenPullRequest, UpdatePullRequest, ReviewPullRequest, MovePullRequest
  <1>4. ASSUME MirrorNext PROVE ProposalsFollowDeliveries
    BY <1>1, <1>2, <1>4 DEF MirrorNext, SyncMirror
  <1> QED
    BY <1>1, <1>3, <1>4 DEF PrNext, prVars

\* A merged Pull Request is final for every actor, and a late copy of an event
\* moves no proposal, however many there are (docs/adr/0102, mirrorDeliveries).
THEOREM PullRequestsSettleCorrect == PrSpec => PullRequestsSettle
  <1>1. PrInv /\ [PrNext]_prVars => [MergedStay]_prVars /\ [ProposalsFollowDeliveries]_prVars
    BY MergedStays, ProposalsFollow
  <1>2. PrSpec => [][MergedStay]_prVars /\ [][ProposalsFollowDeliveries]_prVars
    BY <1>1, PrAlwaysInv, PTL DEF PrSpec
  <1> QED
    BY <1>2 DEF PullRequestsSettle, MergedIsTerminal, RedeliveryMovesNothing, MergedStay, ProposalsFollowDeliveries
=============================================================================
