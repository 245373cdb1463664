------------------------- MODULE ChangeControlProofs -------------------------
(***************************************************************************)
(* Invariants of ChangeControl for every value of its constants.           *)
(*                                                                         *)
(* TypeOK is not inductive: publishRevision reads the sequence of the      *)
(* Change's latest revision and the mounts of its Workspace, and           *)
(* rebaseChange writes back copies it read earlier, so the references      *)
(* inside the records, and inside the suspended calls, have to be known    *)
(* to point at something.  RefsOK says so.                                 *)
(*                                                                         *)
(* WorkspacesExclusive needs RefsOK too: a new Workspace is active because *)
(* no Conflict can name it yet, and a rebase closes a Workspace that is    *)
(* there.                                                                  *)
(***************************************************************************)
EXTENDS ChangeControl, TLAPS, FiniteSetTheorems, WellFoundedInduction

\* What a Change record refers to exists, and the Change, its Workspace and its
\* latest revision agree on base and Workspace.  The maps are parameters, so
\* that the same fact can be stated before and after a step.
ChangeRefs(P, W, R, c, ch) ==
  /\ ch.base \in DOMAIN P
  /\ ch.workspace # None =>
       /\ ch.workspace \in DOMAIN W
       /\ W[ch.workspace].base = ch.base
  /\ ch.latest # None =>
       /\ ch.latest \in DOMAIN R
       /\ R[ch.latest].change = c
       /\ R[ch.latest].base = ch.base
       /\ R[ch.latest].workspace = ch.workspace

RebaseRefs(P, W, R, C, call) ==
  /\ call.change \in DOMAIN C
  /\ ChangeRefs(P, W, R, call.change, call.read)
  /\ call.previous = call.read.workspace
  /\ call.previous # None =>
       /\ call.readPrevious \in Workspace
       /\ call.readPrevious.base = W[call.previous].base

RefsOK ==
  /\ \A w \in DOMAIN workspaces : workspaces[w].base \in DOMAIN projectRevisions
  /\ \A c \in DOMAIN changes :
       ChangeRefs(projectRevisions, workspaces, revisions, c, changes[c])
  /\ \A k \in DOMAIN conflicts : conflicts[k].workspace \in DOMAIN workspaces
  /\ \A q \in Requests :
       /\ pending[q] # Idle => pending[q].base \in DOMAIN projectRevisions
       /\ pending[q].kind = "rebase" =>
            RebaseRefs(projectRevisions, workspaces, revisions, changes, pending[q])

IInv == TypeOK /\ RefsOK

-----------------------------------------------------------------------------
(* The maps. *)

\* A fresh id is an id that is not in use (opaqueId).
LEMMA FreshIsNew ==
  ASSUME NEW f, NEW Ids, HasFresh(f, Ids)
  PROVE  Fresh(f, Ids) \in Ids /\ Fresh(f, Ids) \notin DOMAIN f
BY DEF HasFresh, Fresh

\* Map.set: the entry is written, the other entries stay.
LEMMA SetMap ==
  ASSUME NEW f, NEW Ids, NEW T, NEW k \in Ids, NEW v \in T, IsMap(f, Ids, T)
  PROVE  /\ IsMap(Set(f, k, v), Ids, T)
         /\ DOMAIN Set(f, k, v) = DOMAIN f \cup {k}
         /\ Set(f, k, v)[k] = v
         /\ \A x \in DOMAIN f : x # k => Set(f, k, v)[x] = f[x]
BY DEF IsMap, Set

\* Rewriting an entry of a map with a record of its kind.
LEMMA ExceptMap ==
  ASSUME NEW f, NEW Ids, NEW T, NEW k, NEW v \in T, IsMap(f, Ids, T)
  PROVE  /\ IsMap([f EXCEPT ![k] = v], Ids, T)
         /\ DOMAIN [f EXCEPT ![k] = v] = DOMAIN f
BY DEF IsMap

\* Entries are never removed, Workspaces keep their base and Change Revisions
\* are never rewritten.
Grows(P, P1, W, W1, R, R1) ==
  /\ DOMAIN P \subseteq DOMAIN P1
  /\ \A w \in DOMAIN W : w \in DOMAIN W1 /\ W1[w].base = W[w].base
  /\ \A r \in DOMAIN R : r \in DOMAIN R1 /\ R1[r] = R[r]

\* A reference stays good while the maps grow.
LEMMA RefsStable ==
  ASSUME NEW P, NEW P1, NEW W, NEW W1, NEW R, NEW R1, NEW c, NEW ch,
         Grows(P, P1, W, W1, R, R1), ChangeRefs(P, W, R, c, ch)
  PROVE  ChangeRefs(P1, W1, R1, c, ch)
BY DEF Grows, ChangeRefs

\* The references of a suspended rebase stay good while the maps grow.
LEMMA RebaseRefsStable ==
  ASSUME NEW P, NEW P1, NEW W, NEW W1, NEW R, NEW R1, NEW C, NEW C1, NEW call,
         Grows(P, P1, W, W1, R, R1), DOMAIN C \subseteq DOMAIN C1,
         RebaseRefs(P, W, R, C, call)
  PROVE  RebaseRefs(P1, W1, R1, C1, call)
<1>1. ChangeRefs(P1, W1, R1, call.change, call.read)
  BY RefsStable DEF RebaseRefs
<1>2. call.previous # None => W1[call.previous].base = W[call.previous].base
  BY DEF RebaseRefs, ChangeRefs, Grows
<1> QED
  BY <1>1, <1>2 DEF RebaseRefs

-----------------------------------------------------------------------------

\* The constructor establishes the invariant.
LEMMA InitIInv == Init => IInv
<1> SUFFICES ASSUME Init PROVE IInv
  OBVIOUS
<1> USE ConstantsAssumption
<1> DEFINE first == CHOOSE id \in ProjectRevisionIds : TRUE
<1>1. first \in ProjectRevisionIds
  OBVIOUS
<1>2. /\ canonical = first
      /\ projectRevisions = [p \in {first} |->
           [snapshots |-> InitialSnapshots, parent |-> None, first |-> None, landed |-> {}]]
  BY DEF Init
<1>3. IsMap(projectRevisions, ProjectRevisionIds, ProjectRevision)
  BY <1>1, <1>2 DEF IsMap, ProjectRevision
<1>4. TypeOK
  BY <1>1, <1>2, <1>3 DEF Init, TypeOK, IsMap
<1>5. RefsOK
  BY <1>1, <1>2 DEF Init, RefsOK, Idle
<1> QED
  BY <1>4, <1>5 DEF IInv

-----------------------------------------------------------------------------
(* Each action, under IInv. *)

\* The call of createWorkspace keeps the invariant.
LEMMA BeginCreateIInv ==
  ASSUME IInv, NEW q \in Requests, NEW p \in DOMAIN projectRevisions, NEW m \in Views,
         NEW d \in Directories, BeginCreateWorkspace(q, p, m, d)
  PROVE  IInv'
<1> USE ConstantsAssumption
<1> DEFINE call == [kind |-> "create", base |-> p, mounts |-> m, directory |-> d]
<1>1. call \in CreateCall
  BY DEF IInv, TypeOK, IsMap, CreateCall
<1>2. pending' = [pending EXCEPT ![q] = call]
  BY DEF BeginCreateWorkspace
<1>3. TypeOK'
  BY <1>1, <1>2 DEF IInv, TypeOK, BeginCreateWorkspace
<1>4. \A x \in Requests : IF x = q THEN pending'[x] = call ELSE pending'[x] = pending[x]
  BY <1>2 DEF IInv, TypeOK
<1>5. RefsOK'
  BY <1>4 DEF IInv, RefsOK, BeginCreateWorkspace
<1> QED
  BY <1>3, <1>5 DEF IInv

\* rebaseChange reads a Change and a Workspace that exist.
LEMMA BeginRebaseIInv ==
  ASSUME IInv, NEW q \in Requests, NEW c \in DOMAIN changes,
         NEW p \in DOMAIN projectRevisions, NEW m \in Views,
         NEW d \in Directories, BeginRebaseChange(q, c, p, m, d)
  PROVE  IInv'
<1> USE ConstantsAssumption
<1> DEFINE w == changes[c].workspace
           call == [kind |-> "rebase", base |-> p, mounts |-> m, directory |-> d,
                    change |-> c, read |-> changes[c], previous |-> w,
                    readPrevious |-> IF w = None THEN None ELSE workspaces[w]]
<1>1. /\ changes[c] \in Change
      /\ c \in ChangeIds
      /\ p \in ProjectRevisionIds
      /\ w \in WorkspaceIds \cup {None}
      /\ w # None => w \in DOMAIN workspaces /\ workspaces[w] \in Workspace
  BY DEF IInv, TypeOK, RefsOK, ChangeRefs, IsMap, Change
<1>2. call \in RebaseCall
  BY <1>1 DEF RebaseCall
<1>3. pending' = [pending EXCEPT ![q] = call]
  BY DEF BeginRebaseChange
<1>4. TypeOK'
  BY <1>2, <1>3 DEF IInv, TypeOK, BeginRebaseChange
<1>5. \A x \in Requests : IF x = q THEN pending'[x] = call ELSE pending'[x] = pending[x]
  BY <1>3 DEF IInv, TypeOK
<1>6. RebaseRefs(projectRevisions, workspaces, revisions, changes, call)
  BY <1>1 DEF IInv, RefsOK, RebaseRefs
<1>7. RefsOK'
  BY <1>5, <1>6 DEF IInv, RefsOK, BeginRebaseChange
<1> QED
  BY <1>4, <1>7 DEF IInv

\* A materialization that fails keeps the invariant.
LEMMA FailMaterializeIInv ==
  ASSUME IInv, NEW q \in Requests, FailMaterialize(q)
  PROVE  IInv'
<1>1. \A x \in Requests : IF x = q THEN pending'[x] = Idle ELSE pending'[x] = pending[x]
  BY DEF IInv, TypeOK, FailMaterialize
<1>2. TypeOK'
  BY DEF IInv, TypeOK, FailMaterialize
<1>3. RefsOK'
  BY <1>1 DEF IInv, RefsOK, FailMaterialize, Idle
<1> QED
  BY <1>2, <1>3 DEF IInv

\* What every step that rewrites no suspended call has to establish.
LEMMA RefsFromGrowth ==
  ASSUME IInv, UNCHANGED pending,
         Grows(projectRevisions, projectRevisions', workspaces, workspaces',
               revisions, revisions'),
         DOMAIN changes \subseteq DOMAIN changes',
         \A w \in DOMAIN workspaces' : workspaces'[w].base \in DOMAIN projectRevisions',
         \A c \in DOMAIN changes' :
           ChangeRefs(projectRevisions', workspaces', revisions', c, changes'[c]),
         \A k \in DOMAIN conflicts' : conflicts'[k].workspace \in DOMAIN workspaces'
  PROVE  RefsOK'
<1>1. \A q \in Requests : pending[q].kind = "rebase" =>
        RebaseRefs(projectRevisions', workspaces', revisions', changes', pending[q])
  BY RebaseRefsStable DEF IInv, RefsOK
<1>2. DOMAIN projectRevisions \subseteq DOMAIN projectRevisions'
  BY DEF Grows
<1> QED
  BY <1>1, <1>2 DEF IInv, RefsOK

\* createWorkspace registers a Workspace on a known base.
LEMMA FinishCreateIInv ==
  ASSUME IInv, NEW q \in Requests, FinishCreateWorkspace(q)
  PROVE  IInv'
<1> USE ConstantsAssumption
<1> DEFINE w == Fresh(workspaces, WorkspaceIds)
           new == NewWorkspace(pending[q], None)
<1>1. w \in WorkspaceIds /\ w \notin DOMAIN workspaces
  BY FreshIsNew DEF FinishCreateWorkspace
<1>2. pending[q] \in CreateCall /\ pending[q] # Idle
  BY DEF FinishCreateWorkspace, IInv, TypeOK, RebaseCall, CreateCall, Idle
<1>3. new \in Workspace /\ new.base \in DOMAIN projectRevisions
  BY <1>2 DEF NewWorkspace, Workspace, CreateCall, IInv, RefsOK
<1>4. workspaces' = Set(workspaces, w, new)
  BY DEF FinishCreateWorkspace
<1>5. /\ IsMap(workspaces', WorkspaceIds, Workspace)
      /\ DOMAIN workspaces' = DOMAIN workspaces \cup {w}
      /\ workspaces'[w] = new
      /\ \A x \in DOMAIN workspaces : workspaces'[x] = workspaces[x]
  <2> HIDE DEF new, w
  <2>1. new \in Workspace /\ w \in WorkspaceIds /\ IsMap(workspaces, WorkspaceIds, Workspace)
    BY <1>1, <1>3 DEF IInv, TypeOK
  <2> QED
    BY <2>1, <1>1, <1>4 DEF Set, IsMap
<1>6. /\ directories' \in [Directories -> SUBSET WorkspaceIds]
      /\ pending' = [pending EXCEPT ![q] = Idle]
  BY <1>1 DEF FinishCreateWorkspace, Materialize, IInv, TypeOK
<1>7. TypeOK'
  BY <1>5, <1>6 DEF FinishCreateWorkspace, IInv, TypeOK
<1>8. Grows(projectRevisions, projectRevisions', workspaces, workspaces', revisions, revisions')
  BY <1>5 DEF Grows, FinishCreateWorkspace
<1>9. \A x \in Requests : IF x = q THEN pending'[x] = Idle ELSE pending'[x] = pending[x]
  BY <1>6 DEF IInv, TypeOK
<1>10. \A x \in Requests : pending[x].kind = "rebase" =>
         RebaseRefs(projectRevisions', workspaces', revisions', changes', pending[x])
  BY <1>8, RebaseRefsStable DEF IInv, RefsOK, FinishCreateWorkspace
<1>11. \A c \in DOMAIN changes' :
         ChangeRefs(projectRevisions', workspaces', revisions', c, changes'[c])
  BY <1>8, RefsStable DEF IInv, RefsOK, FinishCreateWorkspace
<1>12. RefsOK'
  BY <1>3, <1>5, <1>9, <1>10, <1>11 DEF IInv, RefsOK, FinishCreateWorkspace, Idle
<1> QED
  BY <1>7, <1>12 DEF IInv

\* createChange binds a new Change to a Workspace that exists.
LEMMA CreateChangeIInv ==
  ASSUME IInv, NEW w \in DOMAIN workspaces, CreateChange(w)
  PROVE  IInv'
<1> USE ConstantsAssumption
<1> DEFINE c == Fresh(changes, ChangeIds)
           new == [base |-> workspaces[w].base, status |-> "active", latest |-> None,
                   workspace |-> w, reverts |-> None]
           ws == [workspaces[w] EXCEPT !.change = c]
<1>1. c \in ChangeIds /\ c \notin DOMAIN changes
  BY FreshIsNew DEF CreateChange
<1>2. w \in WorkspaceIds /\ workspaces[w] \in Workspace
  BY DEF IInv, TypeOK, IsMap
<1>3. new \in Change
  BY <1>2 DEF Workspace, Change
<1>4. /\ IsMap(changes', ChangeIds, Change)
      /\ DOMAIN changes' = DOMAIN changes \cup {c}
      /\ changes'[c] = new
      /\ \A x \in DOMAIN changes : changes'[x] = changes[x]
  BY <1>1, <1>3, SetMap DEF CreateChange, IInv, TypeOK
<1>5. ws \in Workspace /\ ws.base = workspaces[w].base
  BY <1>1, <1>2 DEF Workspace
<1>6. workspaces' = [workspaces EXCEPT ![w] = ws]
  BY DEF CreateChange
<1>7. /\ IsMap(workspaces', WorkspaceIds, Workspace)
      /\ DOMAIN workspaces' = DOMAIN workspaces
      /\ \A x \in DOMAIN workspaces : workspaces'[x].base = workspaces[x].base
  BY <1>5, <1>6, ExceptMap DEF IInv, TypeOK
<1>8. TypeOK'
  BY <1>4, <1>7 DEF CreateChange, IInv, TypeOK
<1>9. Grows(projectRevisions, projectRevisions', workspaces, workspaces', revisions, revisions')
  BY <1>7 DEF Grows, CreateChange
<1>10. ChangeRefs(projectRevisions', workspaces', revisions', c, new)
  BY <1>2, <1>7 DEF ChangeRefs, IInv, RefsOK, CreateChange
<1>11. \A x \in DOMAIN changes :
         ChangeRefs(projectRevisions', workspaces', revisions', x, changes[x])
  BY <1>9, RefsStable DEF IInv, RefsOK
<1>12. RefsOK'
  BY <1>4, <1>7, <1>9, <1>10, <1>11, RefsFromGrowth DEF IInv, RefsOK, CreateChange
<1> QED
  BY <1>8, <1>12 DEF IInv

\* A step that rewrites one Workspace and keeps its base, and adds or rewrites
\* Conflicts.
LEMMA WorkspaceStepIInv ==
  ASSUME IInv, NEW w, NEW ws, w \in DOMAIN workspaces => ws \in Workspace,
         w \in DOMAIN workspaces => ws.base = workspaces[w].base,
         workspaces' = [workspaces EXCEPT ![w] = ws],
         IsMap(conflicts', ConflictIds, Conflict),
         \A k \in DOMAIN conflicts' : conflicts'[k].workspace \in DOMAIN workspaces,
         UNCHANGED <<projectRevisions, canonical, changes, revisions, directories, pending>>
  PROVE  IInv'
<1>1. /\ IsMap(workspaces', WorkspaceIds, Workspace)
      /\ DOMAIN workspaces' = DOMAIN workspaces
      /\ \A x \in DOMAIN workspaces : workspaces'[x].base = workspaces[x].base
  BY DEF IInv, TypeOK, IsMap
<1>2. TypeOK'
  BY <1>1 DEF IInv, TypeOK
<1>3. Grows(projectRevisions, projectRevisions', workspaces, workspaces', revisions, revisions')
  BY <1>1 DEF Grows
<1>4. \A x \in DOMAIN changes :
        ChangeRefs(projectRevisions', workspaces', revisions', x, changes[x])
  BY <1>3, RefsStable DEF IInv, RefsOK
<1>5. RefsOK'
  BY <1>1, <1>3, <1>4, RefsFromGrowth DEF IInv, RefsOK
<1> QED
  BY <1>2, <1>5 DEF IInv

\* registerConflict keeps the invariant.
LEMMA RegisterConflictIInv ==
  ASSUME IInv, NEW c \in DOMAIN changes, RegisterConflict(c)
  PROVE  IInv'
<1> USE ConstantsAssumption
<1> DEFINE k == Fresh(conflicts, ConflictIds)
           w == changes[c].workspace
           new == [change |-> c, workspace |-> w, state |-> "open", resolution |-> None]
           ws == [workspaces[w] EXCEPT !.state = "blocked"]
<1>1. k \in ConflictIds /\ k \notin DOMAIN conflicts
  BY FreshIsNew DEF RegisterConflict
<1>2. /\ c \in ChangeIds
      /\ w \in DOMAIN workspaces /\ w \in WorkspaceIds /\ workspaces[w] \in Workspace
  BY DEF RegisterConflict, IInv, TypeOK, RefsOK, ChangeRefs, IsMap
<1>3. new \in Conflict
  BY <1>2 DEF Conflict
<1>4. conflicts' = Set(conflicts, k, new)
  BY DEF RegisterConflict
<1>5. /\ IsMap(conflicts', ConflictIds, Conflict)
      /\ DOMAIN conflicts' = DOMAIN conflicts \cup {k}
      /\ conflicts'[k] = new
      /\ \A x \in DOMAIN conflicts : conflicts'[x] = conflicts[x]
  <2>1. IsMap(conflicts, ConflictIds, Conflict)
    BY DEF IInv, TypeOK
  <2> HIDE DEF new, k
  <2>2. /\ IsMap(Set(conflicts, k, new), ConflictIds, Conflict)
        /\ DOMAIN Set(conflicts, k, new) = DOMAIN conflicts \cup {k}
        /\ Set(conflicts, k, new)[k] = new
        /\ \A x \in DOMAIN conflicts : x # k => Set(conflicts, k, new)[x] = conflicts[x]
    <3>1. k \in ConflictIds /\ new \in Conflict
      BY <1>1, <1>3
    <3> QED
      BY <2>1, <3>1 DEF IsMap, Set
  <2> QED
    BY <2>2, <1>1, <1>4
<1>6. ws \in Workspace /\ ws.base = workspaces[w].base
  BY <1>2 DEF Workspace
<1>7. workspaces' = [workspaces EXCEPT ![w] = ws]
  BY DEF RegisterConflict
<1>8. \A x \in DOMAIN conflicts' : conflicts'[x].workspace \in DOMAIN workspaces
  BY <1>2, <1>5 DEF IInv, RefsOK
<1>9. UNCHANGED <<projectRevisions, canonical, changes, revisions, directories, pending>>
  BY DEF RegisterConflict
<1> HIDE DEF ws, w
<1> QED
  BY <1>5, <1>6, <1>7, <1>8, <1>9, WorkspaceStepIInv

\* resolveConflict keeps the invariant.
LEMMA ResolveConflictIInv ==
  ASSUME IInv, NEW k \in DOMAIN conflicts, ResolveConflict(k)
  PROVE  IInv'
<1> DEFINE w == conflicts[k].workspace
           st == IF \E j \in DOMAIN conflicts \ {k} : /\ conflicts[j].workspace = w
                                                      /\ conflicts[j].state = "open"
                   THEN "blocked" ELSE "active"
           ws == [workspaces[w] EXCEPT !.state = st]
<1>1. w \in DOMAIN workspaces /\ workspaces[w] \in Workspace /\ conflicts[k] \in Conflict
  BY DEF IInv, TypeOK, RefsOK, IsMap
<1>2. st \in {"active", "blocked"}
  OBVIOUS
<1>3. workspaces' = [workspaces EXCEPT ![w] = ws]
  BY DEF ResolveConflict
<1>4. ws \in Workspace /\ ws.base = workspaces[w].base
  <2> HIDE DEF st
  <2> QED
    BY <1>1, <1>2 DEF Workspace
<1>5. [conflicts[k] EXCEPT !.state = "resolved"] \in Conflict
  BY <1>1 DEF Conflict
<1>6. conflicts' = [conflicts EXCEPT ![k] = [conflicts[k] EXCEPT !.state = "resolved"]]
  BY DEF ResolveConflict
<1>7. IsMap(conflicts', ConflictIds, Conflict) /\ DOMAIN conflicts' = DOMAIN conflicts
  BY <1>5, <1>6, ExceptMap DEF IInv, TypeOK
<1>8. \A x \in DOMAIN conflicts' : conflicts'[x].workspace \in DOMAIN workspaces
  BY <1>1, <1>6, <1>7 DEF IInv, RefsOK
<1>9. UNCHANGED <<projectRevisions, canonical, changes, revisions, directories, pending>>
  BY DEF ResolveConflict
<1> HIDE DEF ws, w
<1> QED
  BY <1>3, <1>4, <1>7, <1>8, <1>9, WorkspaceStepIInv

\* handoffChange keeps the invariant.
LEMMA HandoffIInv ==
  ASSUME IInv, NEW c \in DOMAIN changes, NEW a \in Actors, HandoffChange(c, a)
  PROVE  IInv'
<1> DEFINE w == changes[c].workspace
           ws == [workspaces[w] EXCEPT !.actor = a]
<1>1. w \in DOMAIN workspaces /\ workspaces[w] \in Workspace
  BY DEF HandoffChange, IInv, TypeOK, RefsOK, ChangeRefs, IsMap
<1>2. ws \in Workspace /\ ws.base = workspaces[w].base
  BY <1>1 DEF Workspace
<1>3. workspaces' = [workspaces EXCEPT ![w] = ws]
  BY DEF HandoffChange
<1>4. UNCHANGED <<projectRevisions, canonical, changes, revisions, directories, pending>>
  BY DEF HandoffChange
<1>5. /\ IsMap(conflicts', ConflictIds, Conflict)
      /\ \A k \in DOMAIN conflicts' : conflicts'[k].workspace \in DOMAIN workspaces
  BY DEF HandoffChange, IInv, TypeOK, RefsOK
<1> HIDE DEF ws, w
<1> QED
  BY <1>2, <1>3, <1>4, <1>5, WorkspaceStepIInv

\* The revision that publishRevision writes for a Change record whose references
\* are good, and the Change that then names it.
LEMMA NewRevisionRefs ==
  ASSUME IInv, NEW c \in ChangeIds, NEW ch \in Change, NEW w \in WorkspaceIds,
         NEW ws \in Workspace, NEW M \in SUBSET SourceSpaces, NEW S \in [M -> Snapshots],
         ch.latest # None => ch.latest \in DOMAIN revisions
  PROVE  /\ NewRevision(c, ch, w, ws, S) \in ChangeRevision
         /\ NewRevision(c, ch, w, ws, S).change = c
         /\ NewRevision(c, ch, w, ws, S).workspace = w
         /\ NewRevision(c, ch, w, ws, S).base = ws.base
<1> DEFINE seq == IF ch.latest = None THEN 1 ELSE revisions[ch.latest].sequence + 1
<1>1. seq \in Nat
  BY DEF IInv, TypeOK, IsMap, ChangeRevision
<1>2. S \in UNION {[N -> Snapshots] : N \in SUBSET SourceSpaces}
  OBVIOUS
<1>3. NewRevision(c, ch, w, ws, S) =
        [change |-> c, workspace |-> w, base |-> ws.base, parent |-> ch.latest,
         sequence |-> seq, snapshots |-> S]
  BY DEF NewRevision
<1>4. ws.base \in ProjectRevisionIds /\ ch.latest \in RevisionIds \cup {None}
  BY DEF Workspace, Change
<1> HIDE DEF seq
<1> QED
  BY <1>1, <1>2, <1>3, <1>4 DEF ChangeRevision

\* The Change that publishRevision writes.
LEMMA PublishedRefs ==
  ASSUME NEW ch \in Change, NEW w \in WorkspaceIds, NEW r \in RevisionIds
  PROVE  /\ Published(ch, w, r) \in Change
         /\ Published(ch, w, r).base = ch.base
         /\ Published(ch, w, r).workspace = w
         /\ Published(ch, w, r).latest = r
BY DEF Published, Change

\* publishRevision keeps the invariant.
LEMMA PublishIInv ==
  ASSUME IInv, NEW c \in DOMAIN changes, NEW m \in Views, NEW S \in [m -> Snapshots],
         PublishRevision(c, S)
  PROVE  IInv'
<1> USE ConstantsAssumption
<1> DEFINE ch == changes[c]
           w == ch.workspace
           r == Fresh(revisions, RevisionIds)
           new == NewRevision(c, ch, w, workspaces[w], S)
           pub == Published(ch, w, r)
<1>1. r \in RevisionIds /\ r \notin DOMAIN revisions
  BY FreshIsNew DEF PublishRevision
<1>2. /\ c \in ChangeIds /\ ch \in Change
      /\ w \in DOMAIN workspaces /\ w \in WorkspaceIds /\ workspaces[w] \in Workspace
      /\ workspaces[w].base = ch.base
      /\ ch.latest # None => ch.latest \in DOMAIN revisions
      /\ ch.base \in DOMAIN projectRevisions
  BY DEF PublishRevision, IInv, TypeOK, RefsOK, ChangeRefs, IsMap
<1>3. m \in SUBSET SourceSpaces
  OBVIOUS
<1>4. /\ new \in ChangeRevision
      /\ new.change = c /\ new.workspace = w /\ new.base = workspaces[w].base
  BY <1>2, <1>3, NewRevisionRefs
<1>5. /\ pub \in Change
      /\ pub.base = ch.base /\ pub.workspace = w /\ pub.latest = r
  BY <1>1, <1>2, PublishedRefs
<1>6. /\ revisions' = Set(revisions, r, new)
      /\ changes' = [changes EXCEPT ![c] = pub]
      /\ conflicts' = RecordResolution(c, w, r)
      /\ UNCHANGED <<projectRevisions, canonical, workspaces, directories, pending>>
  BY DEF PublishRevision
<1> HIDE DEF new, pub, ch, w, r
<1>7. /\ IsMap(revisions', RevisionIds, ChangeRevision)
      /\ DOMAIN revisions' = DOMAIN revisions \cup {r}
      /\ revisions'[r] = new
      /\ \A x \in DOMAIN revisions : revisions'[x] = revisions[x]
  BY <1>1, <1>4, <1>6 DEF Set, IsMap, IInv, TypeOK
<1>8. /\ IsMap(changes', ChangeIds, Change)
      /\ DOMAIN changes' = DOMAIN changes
      /\ changes'[c] = pub
      /\ \A x \in DOMAIN changes : x # c => changes'[x] = changes[x]
  BY <1>5, <1>6 DEF IsMap, IInv, TypeOK
<1>9. /\ DOMAIN conflicts' = DOMAIN conflicts
      /\ \A k \in DOMAIN conflicts : /\ conflicts'[k] \in Conflict
                                     /\ conflicts'[k].workspace = conflicts[k].workspace
  <2>1. DOMAIN conflicts' = DOMAIN conflicts
    BY <1>6 DEF RecordResolution
  <2>2. ASSUME NEW k \in DOMAIN conflicts
        PROVE  /\ conflicts'[k] \in Conflict
               /\ conflicts'[k].workspace = conflicts[k].workspace
    <3>1. conflicts[k] \in Conflict
      BY DEF IInv, TypeOK, IsMap
    <3>2. \/ conflicts'[k] = conflicts[k]
          \/ conflicts'[k] = [conflicts[k] EXCEPT !.resolution = r]
      BY <1>6 DEF RecordResolution
    <3> QED
      BY <1>1, <3>1, <3>2 DEF Conflict
  <2> QED
    BY <2>1, <2>2
<1>10. IsMap(conflicts', ConflictIds, Conflict)
  <2>1. conflicts' = [k \in DOMAIN conflicts |-> conflicts'[k]]
    BY <1>6 DEF RecordResolution
  <2> QED
    BY <1>9, <2>1 DEF IsMap, IInv, TypeOK
<1>11. TypeOK'
  BY <1>6, <1>7, <1>8, <1>10 DEF IInv, TypeOK
<1>12. Grows(projectRevisions, projectRevisions', workspaces, workspaces', revisions, revisions')
  BY <1>6, <1>7 DEF Grows
<1>13. \A x \in DOMAIN changes :
         ChangeRefs(projectRevisions', workspaces', revisions', x, changes[x])
  BY <1>12, RefsStable DEF IInv, RefsOK
<1>14. ChangeRefs(projectRevisions', workspaces', revisions', c, pub)
  BY <1>2, <1>4, <1>5, <1>6, <1>7 DEF ChangeRefs
<1>15. \A x \in DOMAIN changes' :
         ChangeRefs(projectRevisions', workspaces', revisions', x, changes'[x])
  BY <1>8, <1>13, <1>14
<1>16. RefsOK'
  BY <1>6, <1>8, <1>9, <1>12, <1>15, RefsFromGrowth DEF IInv, RefsOK
<1> QED
  BY <1>11, <1>16 DEF IInv

\* revertChange keeps the invariant.
LEMMA RevertIInv ==
  ASSUME IInv, NEW r \in DOMAIN revisions, NEW w \in DOMAIN workspaces \cup {None},
         RevertChange(r, w)
  PROVE  IInv'
<1> USE ConstantsAssumption
<1> DEFINE c == Fresh(changes, ChangeIds)
           new == [base |-> canonical, status |-> "active", latest |-> None,
                   workspace |-> w, reverts |-> r]
<1>1. c \in ChangeIds /\ c \notin DOMAIN changes
  BY FreshIsNew DEF RevertChange
<1>2. r \in RevisionIds /\ canonical \in ProjectRevisionIds /\ w \in WorkspaceIds \cup {None}
  BY DEF IInv, TypeOK, IsMap
<1>3. new \in Change
  BY <1>2 DEF Change
<1>4. ChangeRefs(projectRevisions, workspaces, revisions, c, new)
  BY DEF ChangeRefs, RevertChange, IInv, TypeOK
<1>5. changes' = Set(changes, c, new)
  BY DEF RevertChange
<1> HIDE DEF new, c
<1>6. /\ IsMap(changes', ChangeIds, Change)
      /\ DOMAIN changes' = DOMAIN changes \cup {c}
      /\ changes'[c] = new
      /\ \A x \in DOMAIN changes : changes'[x] = changes[x]
  BY <1>1, <1>3, <1>5 DEF Set, IsMap, IInv, TypeOK
<1>7. TypeOK'
  BY <1>6 DEF RevertChange, IInv, TypeOK
<1>8. Grows(projectRevisions, projectRevisions', workspaces, workspaces', revisions, revisions')
  BY DEF Grows, RevertChange
<1>9. RefsOK'
  BY <1>4, <1>6, <1>8, RefsFromGrowth DEF IInv, RefsOK, RevertChange
<1> QED
  BY <1>7, <1>9 DEF IInv

\* rebaseChange writes back copies whose references are still good.
LEMMA FinishRebaseIInv ==
  ASSUME IInv, NEW q \in Requests, FinishRebaseChange(q)
  PROVE  IInv'
<1> USE ConstantsAssumption
<1> DEFINE call == pending[q]
           w == Fresh(workspaces, WorkspaceIds)
           r == Fresh(revisions, RevisionIds)
           c == call.change
           ws == NewWorkspace(call, c)
           ch == RebasedChange(call)
           base == Baseline(call.base, call.mounts)
           new == NewRevision(c, ch, w, ws, base)
           pub == Published(ch, w, r)
           attached == Set(workspaces, w, ws)
           closed == ClosedPrevious(call)
<1>1. /\ w \in WorkspaceIds /\ w \notin DOMAIN workspaces
      /\ r \in RevisionIds /\ r \notin DOMAIN revisions
  BY FreshIsNew DEF FinishRebaseChange
<1>2. /\ call \in RebaseCall
      /\ call.base \in DOMAIN projectRevisions
      /\ RebaseRefs(projectRevisions, workspaces, revisions, changes, call)
  BY DEF FinishRebaseChange, IInv, TypeOK, RefsOK, RebaseCall, CreateCall, Idle
<1>3. /\ c \in ChangeIds /\ c \in DOMAIN changes
      /\ call.read \in Change
      /\ call.base \in ProjectRevisionIds
      /\ call.mounts \in SUBSET SourceSpaces
      /\ call.previous # None => /\ call.previous \in DOMAIN workspaces
                                 /\ call.readPrevious \in Workspace
                                 /\ call.readPrevious.base = workspaces[call.previous].base
      /\ call.read.latest # None => call.read.latest \in DOMAIN revisions
  BY <1>2 DEF RebaseCall, RebaseRefs, ChangeRefs
<1>4. ws \in Workspace /\ ws.base = call.base
  BY <1>3 DEF NewWorkspace, Workspace
<1>5. ch \in Change /\ ch.base = call.base /\ ch.latest = call.read.latest
  BY <1>3 DEF RebasedChange, Change
<1>6. base \in [call.mounts -> Snapshots]
  BY <1>2, <1>3 DEF Baseline, IInv, TypeOK, IsMap, ProjectRevision
<1>7. call.previous # None => closed \in Workspace /\ closed.base = workspaces[call.previous].base
  BY <1>3 DEF ClosedPrevious, Workspace
<1> HIDE DEF ws, ch, base, w, r, c, closed, call
<1>8. /\ new \in ChangeRevision
      /\ new.change = c /\ new.workspace = w /\ new.base = ws.base
  BY <1>1, <1>3, <1>4, <1>5, <1>6, NewRevisionRefs
<1>9. /\ pub \in Change
      /\ pub.base = ch.base /\ pub.workspace = w /\ pub.latest = r
  BY <1>1, <1>5, PublishedRefs
<1>10. /\ revisions' = Set(revisions, r, new)
       /\ changes' = [changes EXCEPT ![c] = pub]
       /\ workspaces' = IF call.previous = None THEN attached
                        ELSE Set(attached, call.previous, closed)
       /\ pending' = [pending EXCEPT ![q] = Idle]
       /\ directories' = [directories EXCEPT ![call.directory] = {w}]
       /\ UNCHANGED <<projectRevisions, canonical, conflicts>>
  BY DEF FinishRebaseChange, Materialize, call, w, r, c, ws, ch, base, closed
<1> HIDE DEF new, pub
<1>11. /\ IsMap(revisions', RevisionIds, ChangeRevision)
       /\ DOMAIN revisions' = DOMAIN revisions \cup {r}
       /\ revisions'[r] = new
       /\ \A x \in DOMAIN revisions : revisions'[x] = revisions[x]
  BY <1>1, <1>8, <1>10 DEF Set, IsMap, IInv, TypeOK
<1>12. /\ IsMap(changes', ChangeIds, Change)
       /\ DOMAIN changes' = DOMAIN changes
       /\ changes'[c] = pub
       /\ \A x \in DOMAIN changes : x # c => changes'[x] = changes[x]
  BY <1>3, <1>9, <1>10 DEF IsMap, IInv, TypeOK
<1>13. /\ IsMap(attached, WorkspaceIds, Workspace)
       /\ DOMAIN attached = DOMAIN workspaces \cup {w}
       /\ attached[w] = ws
       /\ \A x \in DOMAIN workspaces : attached[x] = workspaces[x]
  BY <1>1, <1>4 DEF Set, IsMap, IInv, TypeOK
<1> HIDE DEF attached
<1>14. /\ IsMap(workspaces', WorkspaceIds, Workspace)
       /\ DOMAIN workspaces' = DOMAIN workspaces \cup {w}
       /\ workspaces'[w].base = call.base
       /\ \A x \in DOMAIN workspaces : workspaces'[x].base = workspaces[x].base
  <2>1. CASE call.previous = None
    BY <2>1, <1>4, <1>10, <1>13
  <2>2. CASE call.previous # None
    <3>1. call.previous \in DOMAIN attached /\ call.previous # w
      BY <2>2, <1>1, <1>3, <1>13
    <3>2. closed \in Workspace /\ closed.base = workspaces[call.previous].base
      BY <2>2, <1>7
    <3>3. workspaces' = Set(attached, call.previous, closed)
      BY <2>2, <1>10
    <3> QED
      BY <3>1, <3>2, <3>3, <1>4, <1>13 DEF Set, IsMap
  <2> QED
    BY <2>1, <2>2
<1>15. pending' \in [Requests -> {Idle} \cup CreateCall \cup RebaseCall]
  BY <1>10 DEF IInv, TypeOK
<1>16. directories' \in [Directories -> SUBSET WorkspaceIds]
  BY <1>1, <1>10 DEF IInv, TypeOK
<1>17. TypeOK'
  BY <1>10, <1>11, <1>12, <1>14, <1>15, <1>16 DEF IInv, TypeOK
<1>18. Grows(projectRevisions, projectRevisions', workspaces, workspaces', revisions, revisions')
  BY <1>10, <1>11, <1>14 DEF Grows
<1>19. \A x \in DOMAIN changes :
         ChangeRefs(projectRevisions', workspaces', revisions', x, changes[x])
  BY <1>18, RefsStable DEF IInv, RefsOK
<1>20. ChangeRefs(projectRevisions', workspaces', revisions', c, pub)
  BY <1>2, <1>4, <1>5, <1>8, <1>9, <1>10, <1>11, <1>14 DEF ChangeRefs
<1>21. \A x \in Requests : IF x = q THEN pending'[x] = Idle ELSE pending'[x] = pending[x]
  BY <1>10 DEF IInv, TypeOK
<1>22. \A x \in Requests : pending[x].kind = "rebase" =>
         RebaseRefs(projectRevisions', workspaces', revisions', changes', pending[x])
  BY <1>12, <1>18, RebaseRefsStable DEF IInv, RefsOK
<1>23. \A x \in DOMAIN workspaces' : workspaces'[x].base \in DOMAIN projectRevisions'
  BY <1>2, <1>10, <1>14 DEF IInv, RefsOK
<1>24. \A x \in DOMAIN changes' :
         ChangeRefs(projectRevisions', workspaces', revisions', x, changes'[x])
  BY <1>12, <1>19, <1>20
<1>25. \A k \in DOMAIN conflicts' : conflicts'[k].workspace \in DOMAIN workspaces'
  BY <1>10, <1>14 DEF IInv, RefsOK
<1>26. ASSUME NEW x \in Requests
       PROVE  /\ pending'[x] # Idle => pending'[x].base \in DOMAIN projectRevisions'
              /\ pending'[x].kind = "rebase" =>
                   RebaseRefs(projectRevisions', workspaces', revisions', changes', pending'[x])
  <2>1. CASE x = q
    BY <1>21, <2>1 DEF Idle
  <2>2. CASE x # q
    BY <1>10, <1>21, <1>22, <2>2 DEF IInv, RefsOK
  <2> QED
    BY <2>1, <2>2
<1>27. RefsOK'
  BY <1>23, <1>24, <1>25, <1>26 DEF RefsOK
<1> QED
  BY <1>17, <1>27 DEF IInv

-----------------------------------------------------------------------------
(* Landing. *)

\* A non-empty set of member indices has a last one.
LEMMA MaxOfIndices ==
  ASSUME NEW n \in Nat, NEW S, S \subseteq 1..n, S # {}
  PROVE  \E i \in S : \A j \in S : j <= i
<1> DEFINE Above(i) == {j \in S : j > i}
           F == {Above(i) : i \in S}
           R == StrictSubsetOrdering(S)
<1>1. IsFiniteSet(S)
  <2>1. IsFiniteSet(1..n)
    BY FS_Interval
  <2>2. S \in SUBSET (1..n)
    OBVIOUS
  <2> QED
    BY <2>1, <2>2, FS_Subset
<1>2. IsWellFoundedOn(R, SUBSET S)
  BY <1>1, FS_StrictSubsetOrderingWellFounded, FS_FiniteSubsetsOfFinite
<1>3. F \subseteq SUBSET S /\ F # {}
  OBVIOUS
<1> HIDE DEF R, F
<1>4. PICK x \in F : \A y \in F : ~(<<y, x>> \in R)
  BY <1>2, <1>3, WFMin
<1>5. PICK i \in S : x = Above(i)
  BY <1>4 DEF F
<1>6. ASSUME NEW j \in S, j > i PROVE FALSE
  <2>1. Above(j) \in F
    BY DEF F
  <2>2. Above(j) \subseteq Above(i) /\ j \in Above(i) /\ j \notin Above(j)
    <3>1. i \in Nat /\ j \in Nat /\ S \subseteq Nat
      OBVIOUS
    <3>2. \A k \in S : k > j => k > i
      BY <1>6, <3>1
    <3>3. ~(j > j)
      BY <3>1
    <3> QED
      BY <1>6, <3>2, <3>3
  <2>3. <<Above(j), Above(i)>> \in R
    <3> HIDE DEF Above
    <3>1. Above(i) \in SUBSET S /\ Above(j) \in SUBSET S
      BY DEF Above
    <3> QED
      BY <2>2, <3>1 DEF R, StrictSubsetOrdering
  <2> QED
    BY <2>1, <2>3, <1>4, <1>5
<1> QED
  BY <1>6

\* The cohort that is landed: every member has a latest revision that exists.
LEMMA MembersExist ==
  ASSUME IInv, NEW members \in Cohorts, LandingAccepted(members)
  PROVE  \A c \in Landing(members) :
           /\ c \in DOMAIN changes
           /\ changes[c].latest \in DOMAIN revisions
           /\ changes[c].latest \in RevisionIds
           /\ revisions[changes[c].latest].base = canonical
BY DEF LandingAccepted, Landable, IInv, TypeOK, RefsOK, ChangeRefs, IsMap

\* The composed snapshots of a cohort cover every Source Space.
LEMMA NextSnapshotsType ==
  ASSUME IInv, NEW members \in Cohorts, LandingAccepted(members)
  PROVE  NextSnapshots(members) \in [SourceSpaces -> Snapshots]
<1> USE ConstantsAssumption
<1> DEFINE old == projectRevisions[canonical].snapshots
<1>1. old \in [SourceSpaces -> Snapshots]
  BY DEF IInv, TypeOK, IsMap, ProjectRevision
<1>2. PICK n \in 1..MaxMembers : members \in [1..n -> ChangeIds]
  BY DEF Cohorts
<1>3. \A i \in DOMAIN members : members[i] \in Landing(members)
  BY DEF Landing
<1>4. ASSUME NEW s \in SourceSpaces, Naming(members, s) # {}
      PROVE  \E i \in Naming(members, s) : \A j \in Naming(members, s) : j <= i
  <2>1. Naming(members, s) \subseteq 1..n /\ n \in Nat
    BY <1>2 DEF Naming
  <2> QED
    BY <1>4, <2>1, MaxOfIndices
<1>5. ASSUME NEW s \in SourceSpaces, NEW i \in Naming(members, s)
      PROVE  Member(members, i).snapshots[s] \in Snapshots
  <2>1. i \in DOMAIN members /\ s \in DOMAIN Member(members, i).snapshots
    BY DEF Naming
  <2>2. Member(members, i) \in ChangeRevision
    BY <1>3, <2>1, MembersExist DEF Member, IInv, TypeOK, IsMap
  <2> QED
    BY <2>1, <2>2 DEF ChangeRevision
<1>6. ASSUME NEW s \in SourceSpaces
      PROVE  NextSnapshots(members)[s] \in Snapshots
  <2>1. CASE Naming(members, s) = {}
    BY <1>1, <2>1 DEF NextSnapshots
  <2>2. CASE Naming(members, s) # {}
    <3> DEFINE last == CHOOSE i \in Naming(members, s) : \A j \in Naming(members, s) : j <= i
    <3>1. last \in Naming(members, s)
      BY <1>4, <2>2
    <3>2. NextSnapshots(members)[s] = Member(members, last).snapshots[s]
      BY <2>2 DEF NextSnapshots
    <3> QED
      BY <3>1, <3>2, <1>5
  <2> QED
    BY <2>1, <2>2
<1>7. NextSnapshots(members) = [s \in SourceSpaces |-> NextSnapshots(members)[s]]
  BY DEF NextSnapshots
<1> QED
  BY <1>6, <1>7

\* The effect of a Landing on the maps.
LEMMA LandEffect ==
  ASSUME IInv, NEW members \in Cohorts, LandCohort(members)
  PROVE  /\ canonical' \in ProjectRevisionIds /\ canonical' \notin DOMAIN projectRevisions
         /\ IsMap(projectRevisions', ProjectRevisionIds, ProjectRevision)
         /\ DOMAIN projectRevisions' = DOMAIN projectRevisions \cup {canonical'}
         /\ \A x \in DOMAIN projectRevisions : projectRevisions'[x] = projectRevisions[x]
         /\ projectRevisions'[canonical'].parent = canonical
         /\ projectRevisions'[canonical'].landed =
              {changes[c].latest : c \in Landing(members)}
<1> USE ConstantsAssumption
<1> DEFINE p == Fresh(projectRevisions, ProjectRevisionIds)
           new == NextProjectRevision(members)
<1>1. p \in ProjectRevisionIds /\ p \notin DOMAIN projectRevisions
  BY FreshIsNew DEF LandCohort
<1>2. /\ LandingAccepted(members)
      /\ projectRevisions' = Set(projectRevisions, p, new)
      /\ canonical' = p
  BY DEF LandCohort
<1>3. PICK n \in 1..MaxMembers : members \in [1..n -> ChangeIds]
  BY DEF Cohorts
<1>4. members[1] \in Landing(members)
  BY <1>3 DEF Landing
<1>5. /\ changes[members[1]].latest \in RevisionIds
      /\ {changes[c].latest : c \in Landing(members)} \in SUBSET RevisionIds
  BY <1>2, <1>4, MembersExist
<1>6. canonical \in ProjectRevisionIds
  BY DEF IInv, TypeOK, IsMap
<1>7. NextSnapshots(members) \in [SourceSpaces -> Snapshots]
  BY <1>2, NextSnapshotsType
<1>8. /\ new \in ProjectRevision
      /\ new.parent = canonical
      /\ new.landed = {changes[c].latest : c \in Landing(members)}
  BY <1>5, <1>6, <1>7 DEF NextProjectRevision, ProjectRevision
<1> HIDE DEF new, p
<1> QED
  BY <1>1, <1>2, <1>8 DEF Set, IsMap, IInv, TypeOK

\* landCohort keeps the invariant.
LEMMA LandIInv ==
  ASSUME IInv, NEW members \in Cohorts, LandCohort(members)
  PROVE  IInv'
<1>1. /\ changes' = Landed(members)
      /\ UNCHANGED <<workspaces, revisions, conflicts, directories, pending>>
  BY DEF LandCohort
<1>2. /\ DOMAIN changes' = DOMAIN changes
      /\ \A c \in DOMAIN changes :
           /\ changes'[c] \in Change
           /\ changes'[c].base = changes[c].base
           /\ changes'[c].workspace = changes[c].workspace
           /\ changes'[c].latest = changes[c].latest
  <2>1. DOMAIN changes' = DOMAIN changes
    BY <1>1 DEF Landed
  <2>2. ASSUME NEW c \in DOMAIN changes
        PROVE  /\ changes'[c] \in Change
               /\ changes'[c].base = changes[c].base
               /\ changes'[c].workspace = changes[c].workspace
               /\ changes'[c].latest = changes[c].latest
    <3>1. changes[c] \in Change
      BY DEF IInv, TypeOK, IsMap
    <3>2. changes'[c] = changes[c] \/ changes'[c] = [changes[c] EXCEPT !.status = "landed"]
      BY <1>1 DEF Landed
    <3> QED
      BY <3>1, <3>2 DEF Change
  <2> QED
    BY <2>1, <2>2
<1>3. IsMap(changes', ChangeIds, Change)
  <2>1. changes' = [c \in DOMAIN changes |-> changes'[c]]
    BY <1>1 DEF Landed
  <2> QED
    BY <1>2, <2>1 DEF IsMap, IInv, TypeOK
<1>4. TypeOK'
  BY <1>1, <1>3, LandEffect DEF IInv, TypeOK
<1>5. Grows(projectRevisions, projectRevisions', workspaces, workspaces', revisions, revisions')
  BY <1>1, LandEffect DEF Grows
<1>6. \A x \in DOMAIN changes :
        ChangeRefs(projectRevisions', workspaces', revisions', x, changes[x])
  BY <1>5, RefsStable DEF IInv, RefsOK
<1>7. \A x \in DOMAIN changes' :
        ChangeRefs(projectRevisions', workspaces', revisions', x, changes'[x])
  BY <1>2, <1>6 DEF ChangeRefs
<1>8. RefsOK'
  BY <1>1, <1>2, <1>5, <1>7, LandEffect, RefsFromGrowth DEF IInv, RefsOK
<1> QED
  BY <1>4, <1>8 DEF IInv

-----------------------------------------------------------------------------

\* Every step keeps the invariant.
LEMMA NextIInv == IInv /\ [Next]_vars => IInv'
<1> SUFFICES ASSUME IInv, [Next]_vars PROVE IInv'
  OBVIOUS
<1>1. CASE UNCHANGED vars
  BY <1>1 DEF vars, IInv, TypeOK, RefsOK
<1>2. CASE Next
  BY <1>2, BeginCreateIInv, BeginRebaseIInv, FinishCreateIInv, FinishRebaseIInv,
     FailMaterializeIInv, CreateChangeIInv, RegisterConflictIInv, ResolveConflictIInv,
     PublishIInv, HandoffIInv, RevertIInv, LandIInv DEF Next
<1> QED
  BY <1>1, <1>2

\* The invariant holds in every reachable state.
LEMMA SpecIInv == Spec => []IInv
BY InitIInv, NextIInv, PTL DEF Spec

\* The coordinator's maps hold records of their kind in every reachable state,
\* whatever the ids, Views, Source Spaces and concurrent callers.
THEOREM TypeCorrect == Spec => []TypeOK
<1>1. IInv => TypeOK
  BY DEF IInv
<1> QED
  BY <1>1, SpecIInv, PTL

\* Workspace, Change and latest Change Revision agree on base and Workspace in
\* every reachable state, although rebaseChange writes back what it read before
\* its await (ADR 0111).
THEOREM LineageCorrect == Spec => []InseparableLineage
<1>1. IInv => InseparableLineage
  BY DEF IInv, RefsOK, ChangeRefs, InseparableLineage
<1> QED
  BY <1>1, SpecIInv, PTL

-----------------------------------------------------------------------------
(* The canonical lineage.  LinearLineage needs to know that a parent is    *)
(* never an id still to be taken, and LandsOnce that a landed revision was *)
(* based on the parent of the Project Revision it landed in: a revision    *)
(* landed twice would give two Project Revisions one parent.               *)

LandedOnParent ==
  \A p \in DOMAIN projectRevisions :
    /\ projectRevisions[p].parent \in DOMAIN projectRevisions \cup {None}
    /\ \A r \in projectRevisions[p].landed :
         /\ r \in DOMAIN revisions
         /\ revisions[r].base = projectRevisions[p].parent

LineageInv == IInv /\ LinearLineage /\ LandedOnParent

\* The constructor establishes the lineage invariant.
LEMMA InitLineage == Init => LineageInv
<1> SUFFICES ASSUME Init PROVE LineageInv
  OBVIOUS
<1> USE ConstantsAssumption
<1>1. canonical \in ProjectRevisionIds
  BY DEF Init
<1>2. \A p \in DOMAIN projectRevisions :
        p = canonical /\ projectRevisions[p].parent = None /\ projectRevisions[p].landed = {}
  BY DEF Init
<1>3. LinearLineage /\ LandedOnParent
  BY <1>1, <1>2 DEF LinearLineage, LandedOnParent
<1> QED
  BY <1>3, InitIInv DEF LineageInv

\* Only landCohort touches Project Revisions, and no step rewrites a revision.
LEMMA OtherStepsKeepLineage ==
  ASSUME LineageInv, UNCHANGED <<projectRevisions, canonical>>,
         \A r \in DOMAIN revisions : r \in DOMAIN revisions' /\ revisions'[r] = revisions[r]
  PROVE  (LinearLineage /\ LandedOnParent)'
BY DEF LineageInv, LinearLineage, LandedOnParent

\* A revision is added under an id that is not in use.
LEMMA RevisionsKept ==
  ASSUME IInv, Next
  PROVE  \A r \in DOMAIN revisions : r \in DOMAIN revisions' /\ revisions'[r] = revisions[r]
<1>1. ASSUME NEW rev, HasFresh(revisions, RevisionIds),
             revisions' = Set(revisions, Fresh(revisions, RevisionIds), rev)
      PROVE  \A r \in DOMAIN revisions : r \in DOMAIN revisions' /\ revisions'[r] = revisions[r]
  BY <1>1, FreshIsNew DEF Set
<1>2. CASE \E c \in DOMAIN changes, m \in Views : \E S \in [m -> Snapshots] : PublishRevision(c, S)
  BY <1>1, <1>2 DEF PublishRevision
<1>3. CASE \E q \in Requests : FinishRebaseChange(q)
  BY <1>1, <1>3 DEF FinishRebaseChange
<1>4. CASE UNCHANGED revisions
  BY <1>4
<1> QED
  BY <1>2, <1>3, <1>4 DEF Next, BeginCreateWorkspace, BeginRebaseChange,
     FinishCreateWorkspace, FailMaterialize, CreateChange, RegisterConflict,
     ResolveConflict, HandoffChange, RevertChange, LandCohort

\* landCohort extends the line by one.
LEMMA LandKeepsLineage ==
  ASSUME LineageInv, NEW members \in Cohorts, LandCohort(members)
  PROVE  (LinearLineage /\ LandedOnParent)'
<1> USE ConstantsAssumption
<1> DEFINE p == canonical'
<1>1. /\ p \in ProjectRevisionIds /\ p \notin DOMAIN projectRevisions
      /\ DOMAIN projectRevisions' = DOMAIN projectRevisions \cup {p}
      /\ \A x \in DOMAIN projectRevisions : projectRevisions'[x] = projectRevisions[x]
      /\ projectRevisions'[p].parent = canonical
      /\ projectRevisions'[p].landed = {changes[c].latest : c \in Landing(members)}
  BY LandEffect DEF LineageInv
<1>2. canonical \in DOMAIN projectRevisions /\ p # None
  BY <1>1 DEF LineageInv, IInv, TypeOK
<1>3. LinearLineage'
  <2> HIDE DEF p
  <2>1. \A x \in DOMAIN projectRevisions' : projectRevisions'[x].parent # p
    BY <1>1, <1>2 DEF LineageInv, LandedOnParent
  <2>2. \A x \in DOMAIN projectRevisions : projectRevisions'[x].parent # canonical
    BY <1>1 DEF LineageInv, LinearLineage
  <2>3. \A x, y \in DOMAIN projectRevisions' :
          /\ projectRevisions'[x].parent = projectRevisions'[y].parent
          /\ projectRevisions'[x].parent # None
          => x = y
    BY <1>1, <2>2 DEF LineageInv, LinearLineage
  <2> QED
    BY <2>1, <2>3 DEF LinearLineage, p
<1>4. \A r \in projectRevisions'[p].landed : r \in DOMAIN revisions /\ revisions[r].base = canonical
  <2>1. LandingAccepted(members)
    BY DEF LandCohort
  <2> QED
    BY <1>1, <2>1, MembersExist DEF LineageInv
<1>5. LandedOnParent'
  <2>1. UNCHANGED revisions
    BY DEF LandCohort
  <2> HIDE DEF p
  <2> QED
    BY <1>1, <1>2, <1>4, <2>1 DEF LineageInv, LandedOnParent
<1> QED
  BY <1>3, <1>5

\* Every step keeps the lineage invariant.
LEMMA NextLineage == LineageInv /\ [Next]_vars => LineageInv'
<1> SUFFICES ASSUME LineageInv, [Next]_vars PROVE LineageInv'
  OBVIOUS
<1>1. IInv'
  BY NextIInv DEF LineageInv
<1>2. CASE \E members \in Cohorts : LandCohort(members)
  BY <1>1, <1>2, LandKeepsLineage DEF LineageInv
<1>3. CASE Next /\ UNCHANGED <<projectRevisions, canonical>>
  BY <1>1, <1>3, RevisionsKept, OtherStepsKeepLineage DEF LineageInv
<1>4. CASE UNCHANGED vars
  BY <1>1, <1>4, OtherStepsKeepLineage DEF LineageInv, vars
<1>5. Next => \/ \E members \in Cohorts : LandCohort(members)
              \/ UNCHANGED <<projectRevisions, canonical>>
  BY DEF Next, BeginCreateWorkspace, BeginRebaseChange, FinishCreateWorkspace,
     FinishRebaseChange, FailMaterialize, CreateChange, RegisterConflict,
     ResolveConflict, PublishRevision, HandoffChange, RevertChange
<1> QED
  BY <1>2, <1>3, <1>4, <1>5

\* The lineage invariant holds in every reachable state.
LEMMA SpecLineage == Spec => []LineageInv
BY InitLineage, NextLineage, PTL DEF Spec

\* The canonical Project Revisions form one line (landCohort's compare-and-swap).
THEOREM LinearLineageCorrect == Spec => []LinearLineage
<1>1. LineageInv => LinearLineage
  BY DEF LineageInv
<1> QED
  BY <1>1, SpecLineage, PTL

\* No Change Revision lands twice, whatever resets or reuses its Change.
THEOREM LandsOnceCorrect == Spec => []LandsOnce
<1>1. LineageInv => LandsOnce
  <2> SUFFICES ASSUME LineageInv, NEW p \in DOMAIN projectRevisions,
                      NEW q \in DOMAIN projectRevisions,
                      NEW r \in projectRevisions[p].landed \cap projectRevisions[q].landed
               PROVE  p = q
    BY DEF LandsOnce
  <2>1. /\ revisions[r] \in ChangeRevision
        /\ revisions[r].base = projectRevisions[p].parent
        /\ revisions[r].base = projectRevisions[q].parent
    BY DEF LineageInv, LandedOnParent, IInv, TypeOK, IsMap
  <2>2. projectRevisions[p].parent # None
    BY <2>1, ConstantsAssumption DEF ChangeRevision
  <2> QED
    BY <2>1, <2>2 DEF LineageInv, LinearLineage
<1> QED
  BY <1>1, SpecLineage, PTL

-----------------------------------------------------------------------------
(* No lost update. *)

\* What the Project Revision new made from old by the revisions landed with it
\* has to be, over the map R of revisions.
Composes(R, old, new) ==
  /\ \A r \in new.landed : \A s \in DOMAIN R[r].snapshots :
       R[r].snapshots[s] \in {old.snapshots[s], new.snapshots[s]}
  /\ \A s \in SourceSpaces : new.snapshots[s] # old.snapshots[s] =>
       \E r \in new.landed : /\ s \in DOMAIN R[r].snapshots
                             /\ R[r].snapshots[s] = new.snapshots[s]

\* The Project Revision that landCohort creates composes its members' edits.
LEMMA NextComposes ==
  ASSUME IInv, NEW members \in Cohorts, LandingAccepted(members)
  PROVE  Composes(revisions, projectRevisions[canonical], NextProjectRevision(members))
<1> USE ConstantsAssumption
<1> DEFINE old == projectRevisions[canonical]
           new == NextProjectRevision(members)
           last(s) == CHOOSE i \in Naming(members, s) : \A j \in Naming(members, s) : j <= i
<1>1. PICK n \in 1..MaxMembers : members \in [1..n -> ChangeIds]
  BY DEF Cohorts
<1>2. /\ new.landed = {changes[c].latest : c \in Landing(members)}
      /\ new.snapshots = NextSnapshots(members)
  BY DEF NextProjectRevision
<1>3. ASSUME NEW s \in SourceSpaces, Naming(members, s) # {}
      PROVE  /\ last(s) \in Naming(members, s)
             /\ \A j \in Naming(members, s) : j <= last(s)
             /\ new.snapshots[s] = Member(members, last(s)).snapshots[s]
  <2>1. Naming(members, s) \subseteq 1..n /\ n \in Nat
    BY <1>1 DEF Naming
  <2>2. \E i \in Naming(members, s) : \A j \in Naming(members, s) : j <= i
    BY <1>3, <2>1, MaxOfIndices
  <2>3. /\ last(s) \in Naming(members, s)
        /\ \A j \in Naming(members, s) : j <= last(s)
    BY <2>2
  <2>4. NextSnapshots(members)[s] = Member(members, last(s)).snapshots[s]
    BY <1>3 DEF NextSnapshots
  <2> HIDE DEF last, new
  <2> QED
    BY <2>3, <2>4, <1>2
<1>4. \A i \in DOMAIN members : /\ i \in Nat
                                /\ members[i] \in Landing(members)
                                /\ changes[members[i]].latest \in new.landed
  BY <1>1, <1>2 DEF Landing
<1> HIDE DEF last, new
<1>5. ASSUME NEW r \in new.landed, NEW s \in DOMAIN revisions[r].snapshots
      PROVE  revisions[r].snapshots[s] \in {old.snapshots[s], new.snapshots[s]}
  <2>1. PICK i \in DOMAIN members : r = changes[members[i]].latest
    BY <1>2 DEF Landing
  <2>2. r \in DOMAIN revisions
    BY <1>4, <2>1, MembersExist
  <2>3. s \in SourceSpaces
    BY <2>2 DEF IInv, TypeOK, IsMap, ChangeRevision
  <2>4. i \in Naming(members, s) /\ Member(members, i) = revisions[r]
    BY <2>1 DEF Naming, Member
  <2>5. /\ last(s) \in Naming(members, s)
        /\ i <= last(s)
        /\ new.snapshots[s] = Member(members, last(s)).snapshots[s]
    BY <1>3, <2>3, <2>4
  <2>6. i \in Nat /\ last(s) \in Nat
    BY <1>4, <2>4, <2>5 DEF Naming
  <2>7. CASE i = last(s)
    BY <2>4, <2>5, <2>7
  <2>8. CASE i < last(s)
    <3>1. Compatible(members)
      BY DEF LandingAccepted
    <3> QED
      BY <2>3, <2>4, <2>5, <2>8, <3>1 DEF Compatible
  <2> QED
    BY <2>5, <2>6, <2>7, <2>8
<1>6. ASSUME NEW s \in SourceSpaces, new.snapshots[s] # old.snapshots[s]
      PROVE  \E r \in new.landed : /\ s \in DOMAIN revisions[r].snapshots
                                   /\ revisions[r].snapshots[s] = new.snapshots[s]
  <2>1. Naming(members, s) # {}
    BY <1>2, <1>6 DEF NextSnapshots
  <2>2. /\ last(s) \in Naming(members, s)
        /\ new.snapshots[s] = Member(members, last(s)).snapshots[s]
    BY <1>3, <2>1
  <2>3. changes[members[last(s)]].latest \in new.landed
    BY <1>4, <2>2 DEF Naming
  <2> QED
    BY <2>2, <2>3 DEF Naming, Member
<1> QED
  BY <1>5, <1>6 DEF Composes, new

ComposeInv ==
  /\ LineageInv
  /\ \A p \in DOMAIN projectRevisions : projectRevisions[p].parent # None =>
       Composes(revisions, projectRevisions[projectRevisions[p].parent], projectRevisions[p])

\* Composes looks only at revisions that exist already.
LEMMA ComposesStable ==
  ASSUME NEW R, NEW R1, NEW old, NEW new,
         \A r \in new.landed : R1[r] = R[r], Composes(R, old, new)
  PROVE  Composes(R1, old, new)
BY DEF Composes

\* Every step keeps what was composed.
LEMMA NextCompose == ComposeInv /\ [Next]_vars => ComposeInv'
<1> SUFFICES ASSUME ComposeInv, [Next]_vars PROVE ComposeInv'
  OBVIOUS
<1> USE ConstantsAssumption
<1>1. LineageInv /\ LineageInv'
  BY NextLineage DEF ComposeInv
<1>2. IInv
  BY <1>1 DEF LineageInv
<1>3. \A r \in DOMAIN revisions : r \in DOMAIN revisions' /\ revisions'[r] = revisions[r]
  BY <1>2, RevisionsKept DEF vars
<1>4. ASSUME NEW p \in DOMAIN projectRevisions, projectRevisions[p].parent # None
      PROVE  /\ projectRevisions[p].parent \in DOMAIN projectRevisions
             /\ Composes(revisions', projectRevisions[projectRevisions[p].parent],
                         projectRevisions[p])
  <2>1. /\ projectRevisions[p].parent \in DOMAIN projectRevisions
        /\ \A r \in projectRevisions[p].landed : revisions'[r] = revisions[r]
    BY <1>1, <1>3, <1>4 DEF LineageInv, LandedOnParent
  <2>2. Composes(revisions, projectRevisions[projectRevisions[p].parent], projectRevisions[p])
    BY <1>4 DEF ComposeInv
  <2> QED
    BY <2>1, <2>2, ComposesStable
<1>5. CASE \E members \in Cohorts : LandCohort(members)
  <2>1. PICK members \in Cohorts : LandCohort(members)
    BY <1>5
  <2> DEFINE p == canonical'
  <2>2. /\ p \notin DOMAIN projectRevisions
        /\ DOMAIN projectRevisions' = DOMAIN projectRevisions \cup {p}
        /\ \A x \in DOMAIN projectRevisions : projectRevisions'[x] = projectRevisions[x]
        /\ projectRevisions'[p].parent = canonical
    BY <1>2, <2>1, LandEffect
  <2>3. /\ projectRevisions'[p] = NextProjectRevision(members)
        /\ LandingAccepted(members)
        /\ UNCHANGED revisions
    BY <2>1 DEF LandCohort, Set
  <2>4. canonical \in DOMAIN projectRevisions
    BY <1>2 DEF IInv, TypeOK
  <2>5. Composes(revisions', projectRevisions'[canonical], projectRevisions'[p])
    BY <1>2, <2>2, <2>3, <2>4, NextComposes
  <2> HIDE DEF p
  <2> QED
    BY <1>1, <1>4, <2>2, <2>5 DEF ComposeInv
<1>6. CASE UNCHANGED <<projectRevisions, canonical>>
  BY <1>1, <1>4, <1>6 DEF ComposeInv
<1>7. Next => \/ \E members \in Cohorts : LandCohort(members)
              \/ UNCHANGED <<projectRevisions, canonical>>
  BY DEF Next, BeginCreateWorkspace, BeginRebaseChange, FinishCreateWorkspace,
     FinishRebaseChange, FailMaterialize, CreateChange, RegisterConflict,
     ResolveConflict, PublishRevision, HandoffChange, RevertChange
<1> QED
  BY <1>5, <1>6, <1>7 DEF vars

\* No lost update: a landed Project Revision is its predecessor with exactly the
\* edits of the revisions landed with it, for cohorts of any size in any order
\* (landCohort).
THEOREM LandingComposesEditsCorrect == Spec => []LandingComposesEdits
<1>1. Init => ComposeInv
  <2> SUFFICES ASSUME Init PROVE ComposeInv
    OBVIOUS
  <2>1. \A p \in DOMAIN projectRevisions : projectRevisions[p].parent = None
    BY DEF Init
  <2> QED
    BY <2>1, InitLineage DEF ComposeInv
<1>2. ComposeInv => LandingComposesEdits
  BY DEF ComposeInv, LineageInv, LandedOnParent, Composes, LandingComposesEdits
<1> QED
  BY <1>1, <1>2, NextCompose, PTL DEF Spec

\* Types and the inseparable lineage together, as the runs check them.
THEOREM LineageSoundCorrect == Spec => []LineageSound
  BY TypeCorrect, LineageCorrect, PTL DEF LineageSound

\* What Landing promises, together: one line, no revision twice, no lost edit.
THEOREM LandingsSoundCorrect == Spec => []LandingsSound
  BY LinearLineageCorrect, LandsOnceCorrect, LandingComposesEditsCorrect, PTL DEF LandingsSound
-----------------------------------------------------------------------------
(* Conflicts and Workspaces, and the files of Workspaces.                  *)

\* The references are good, and Workspaces agree with Conflicts and directories.
WorkspacesInv == IInv /\ ConflictsBlockWorkspace /\ DirectoriesNotShared

\* A step that neither opens nor resolves a Conflict leaves the Workspaces in step
\* with them: a Workspace keeps its state, is closed, or is new, and then no
\* Conflict can name it.
LEMMA ConflictsKept ==
  ASSUME IInv, ConflictsBlockWorkspace, DOMAIN conflicts' = DOMAIN conflicts,
         \A k \in DOMAIN conflicts : /\ conflicts'[k].workspace = conflicts[k].workspace
                                     /\ conflicts'[k].state = conflicts[k].state,
         \A w \in DOMAIN workspaces' :
            \/ w \in DOMAIN workspaces /\ workspaces'[w].state = workspaces[w].state
            \/ workspaces'[w].state = "closed"
            \/ w \notin DOMAIN workspaces /\ workspaces'[w].state = "active"
  PROVE  ConflictsBlockWorkspace'
<1>1. \A k \in DOMAIN conflicts : conflicts[k].workspace \in DOMAIN workspaces
  BY DEF IInv, RefsOK
<1> SUFFICES ASSUME NEW w \in DOMAIN workspaces'
             PROVE  LET open == \E k \in DOMAIN conflicts : /\ conflicts[k].workspace = w
                                                            /\ conflicts[k].state = "open"
                    IN  /\ workspaces'[w].state = "active" => ~open
                        /\ workspaces'[w].state = "blocked" => open
  BY DEF ConflictsBlockWorkspace
<1>2. CASE w \in DOMAIN workspaces /\ workspaces'[w].state = workspaces[w].state
  BY <1>2 DEF ConflictsBlockWorkspace
<1>3. CASE workspaces'[w].state = "closed"
  BY <1>3
<1>4. CASE w \notin DOMAIN workspaces /\ workspaces'[w].state = "active"
  BY <1>1, <1>4
<1> QED
  BY <1>2, <1>3, <1>4

\* registerConflict blocks the Workspace of the new Conflict.
LEMMA RegisterBlocks ==
  ASSUME IInv, ConflictsBlockWorkspace, NEW c \in DOMAIN changes, RegisterConflict(c)
  PROVE  ConflictsBlockWorkspace'
<1> DEFINE k == Fresh(conflicts, ConflictIds)
           w == changes[c].workspace
           new == [change |-> c, workspace |-> w, state |-> "open", resolution |-> None]
<1>1. k \notin DOMAIN conflicts /\ w \in DOMAIN workspaces
  BY FreshIsNew DEF RegisterConflict, IInv, RefsOK, ChangeRefs
<1>2. /\ DOMAIN conflicts' = DOMAIN conflicts \cup {k} /\ conflicts'[k] = new
      /\ \A j \in DOMAIN conflicts : conflicts'[j] = conflicts[j]
  BY <1>1 DEF RegisterConflict, Set
<1>3. workspaces' = [workspaces EXCEPT ![w].state = "blocked"]
  BY DEF RegisterConflict
<1>4. new.workspace = w /\ new.state = "open"
  OBVIOUS
<1>5. /\ DOMAIN workspaces' = DOMAIN workspaces
      /\ \A u \in DOMAIN workspaces : u # w => workspaces'[u] = workspaces[u]
      /\ workspaces'[w].state = "blocked"
  <2>1. workspaces[w] \in Workspace
    BY <1>1 DEF IInv, TypeOK, IsMap
  <2> QED
    BY <1>1, <1>3, <2>1 DEF Workspace
<1> HIDE DEF k, w, new
<1> SUFFICES ASSUME NEW u \in DOMAIN workspaces
             PROVE  LET open == \E j \in DOMAIN conflicts' : /\ conflicts'[j].workspace = u
                                                             /\ conflicts'[j].state = "open"
                    IN  /\ workspaces'[u].state = "active" => ~open
                        /\ workspaces'[u].state = "blocked" => open
  BY <1>5 DEF ConflictsBlockWorkspace
<1>6. CASE u = w
  BY <1>2, <1>4, <1>5, <1>6
<1>7. CASE u # w
  BY <1>2, <1>4, <1>5, <1>7 DEF ConflictsBlockWorkspace
<1> QED
  BY <1>6, <1>7

\* resolveConflict computes the state of the Workspace from the other Conflicts.
LEMMA ResolveUnblocks ==
  ASSUME IInv, ConflictsBlockWorkspace, NEW k \in DOMAIN conflicts, ResolveConflict(k)
  PROVE  ConflictsBlockWorkspace'
<1> DEFINE w == conflicts[k].workspace
           others == \E j \in DOMAIN conflicts \ {k} : conflicts[j].workspace = w /\ conflicts[j].state = "open"
<1>1. w \in DOMAIN workspaces
  BY DEF IInv, RefsOK
<1>2. /\ DOMAIN conflicts' = DOMAIN conflicts
      /\ \A j \in DOMAIN conflicts \ {k} : conflicts'[j] = conflicts[j]
      /\ conflicts'[k].workspace = w /\ conflicts'[k].state = "resolved"
  <2>1. conflicts[k] \in Conflict
    BY DEF IInv, TypeOK, IsMap
  <2>2. conflicts' = [conflicts EXCEPT ![k].state = "resolved"]
    BY DEF ResolveConflict
  <2> QED
    BY <2>1, <2>2 DEF Conflict
<1>3. /\ DOMAIN workspaces' = DOMAIN workspaces
      /\ \A u \in DOMAIN workspaces : u # w => workspaces'[u] = workspaces[u]
      /\ workspaces'[w].state = IF others THEN "blocked" ELSE "active"
  <2>1. workspaces[w] \in Workspace
    BY <1>1 DEF IInv, TypeOK, IsMap
  <2>2. workspaces' = [workspaces EXCEPT ![w].state = IF others THEN "blocked" ELSE "active"]
    BY DEF ResolveConflict
  <2> QED
    BY <1>1, <2>1, <2>2 DEF Workspace
<1> HIDE DEF w
<1> SUFFICES ASSUME NEW u \in DOMAIN workspaces
             PROVE  LET open == \E j \in DOMAIN conflicts' : /\ conflicts'[j].workspace = u
                                                             /\ conflicts'[j].state = "open"
                    IN  /\ workspaces'[u].state = "active" => ~open
                        /\ workspaces'[u].state = "blocked" => open
  BY <1>3 DEF ConflictsBlockWorkspace
<1>4. CASE u = w
  BY <1>2, <1>3, <1>4
<1>5. CASE u # w
  <2>1. conflicts[k].workspace # u
    BY <1>5 DEF w
  <2> QED
    BY <1>2, <1>3, <1>5, <2>1 DEF ConflictsBlockWorkspace
<1> QED
  BY <1>4, <1>5

\* The other steps leave the Conflicts, but for the resolution they name.
LEMMA OthersKeepConflicts ==
  ASSUME IInv, Next, ConflictsBlockWorkspace,
         ~\E c \in DOMAIN changes : RegisterConflict(c),
         ~\E k \in DOMAIN conflicts : ResolveConflict(k)
  PROVE  ConflictsBlockWorkspace'
<1>1. CASE UNCHANGED <<workspaces, conflicts>>
  BY <1>1, ConflictsKept
<1>2. ASSUME NEW q \in Requests, FinishCreateWorkspace(q)
      PROVE  ConflictsBlockWorkspace'
  <2> DEFINE w == Fresh(workspaces, WorkspaceIds)
             ws == NewWorkspace(pending[q], None)
  <2>1. w \notin DOMAIN workspaces /\ UNCHANGED conflicts /\ workspaces' = Set(workspaces, w, ws)
    BY <1>2, FreshIsNew DEF FinishCreateWorkspace
  <2>2. ws.state = "active"
    BY DEF NewWorkspace
  <2> HIDE DEF w, ws
  <2>3. \A u \in DOMAIN workspaces' : IF u = w THEN workspaces'[u] = ws
                                               ELSE u \in DOMAIN workspaces /\ workspaces'[u] = workspaces[u]
    BY <2>1 DEF Set
  <2> QED
    BY <2>1, <2>2, <2>3, ConflictsKept
<1>3. ASSUME NEW q \in Requests, FinishRebaseChange(q)
      PROVE  ConflictsBlockWorkspace'
  <2> DEFINE call == pending[q]
             w == Fresh(workspaces, WorkspaceIds)
             ws == NewWorkspace(call, call.change)
             attached == Set(workspaces, w, ws)
             closed == ClosedPrevious(call)
  <2>1. /\ w \notin DOMAIN workspaces /\ UNCHANGED conflicts
        /\ workspaces' = IF call.previous = None THEN attached ELSE Set(attached, call.previous, closed)
        /\ call.kind = "rebase"
    BY <1>3, FreshIsNew DEF FinishRebaseChange
  <2>2. ws.state = "active"
    BY DEF NewWorkspace
  <2>3. call.previous # None => closed.state = "closed" /\ call.previous \in DOMAIN workspaces
    <3>1. RebaseRefs(projectRevisions, workspaces, revisions, changes, call)
      BY <2>1 DEF IInv, RefsOK
    <3> QED
      BY <3>1 DEF RebaseRefs, ChangeRefs, ClosedPrevious, Workspace
  <2> HIDE DEF call, w, ws, closed
  <2>4. \A u \in DOMAIN attached : IF u = w THEN attached[u] = ws
                                            ELSE u \in DOMAIN workspaces /\ attached[u] = workspaces[u]
    BY DEF Set
  <2> HIDE DEF attached
  <2>5. \A u \in DOMAIN workspaces' :
          \/ u \in DOMAIN attached /\ workspaces'[u] = attached[u]
          \/ call.previous # None /\ workspaces'[u] = closed
    BY <2>1 DEF Set
  <2>6. \A u \in DOMAIN workspaces' :
          \/ u = w /\ workspaces'[u] = ws
          \/ u \in DOMAIN workspaces /\ workspaces'[u] = workspaces[u]
          \/ workspaces'[u].state = "closed"
    BY <2>3, <2>4, <2>5
  <2> QED
    BY <2>1, <2>2, <2>6, ConflictsKept
<1>4. ASSUME NEW w, UNCHANGED conflicts, w \in DOMAIN workspaces,
             (\E c : workspaces' = [workspaces EXCEPT ![w].change = c])
               \/ (\E a : workspaces' = [workspaces EXCEPT ![w].actor = a])
      PROVE  ConflictsBlockWorkspace'
  <2>1. \A u \in DOMAIN workspaces : workspaces[u] \in Workspace
    BY DEF IInv, TypeOK, IsMap
  <2>2. DOMAIN workspaces' = DOMAIN workspaces /\ \A u \in DOMAIN workspaces : workspaces'[u].state = workspaces[u].state
    BY <1>4, <2>1 DEF Workspace
  <2> QED
    BY <1>4, <2>2, ConflictsKept
<1>5. ASSUME NEW c, NEW r, NEW w, conflicts' = RecordResolution(c, w, r), UNCHANGED workspaces
      PROVE  ConflictsBlockWorkspace'
  <2>1. \A k \in DOMAIN conflicts : conflicts[k] \in Conflict
    BY DEF IInv, TypeOK, IsMap
  <2>2. /\ DOMAIN conflicts' = DOMAIN conflicts
        /\ \A k \in DOMAIN conflicts : /\ conflicts'[k].workspace = conflicts[k].workspace
                                       /\ conflicts'[k].state = conflicts[k].state
    BY <1>5, <2>1 DEF RecordResolution, Conflict
  <2> QED
    BY <1>5, <2>2, ConflictsKept
<1>6. ASSUME NEW w \in DOMAIN workspaces, CreateChange(w)
      PROVE  ConflictsBlockWorkspace'
  BY <1>4, <1>6 DEF CreateChange
<1>7. ASSUME NEW c \in DOMAIN changes, NEW a \in Actors, HandoffChange(c, a)
      PROVE  ConflictsBlockWorkspace'
  <2>1. changes[c].workspace \in DOMAIN workspaces
    BY <1>7 DEF HandoffChange, IInv, RefsOK, ChangeRefs
  <2> QED
    BY <1>4, <1>7, <2>1 DEF HandoffChange
<1>8. ASSUME NEW c \in DOMAIN changes, NEW snapshots, PublishRevision(c, snapshots)
      PROVE  ConflictsBlockWorkspace'
  BY <1>5, <1>8 DEF PublishRevision
<1> QED
  BY <1>1, <1>2, <1>3, <1>6, <1>7, <1>8
     DEF Next, BeginCreateWorkspace, BeginRebaseChange, FailMaterialize, RevertChange, LandCohort

\* A directory is only ever given its first Workspace.
LEMMA DirectoriesKept ==
  ASSUME IInv, DirectoriesNotShared, [Next]_vars
  PROVE  DirectoriesNotShared'
<1>1. CASE UNCHANGED directories
  BY <1>1 DEF DirectoriesNotShared
<1>2. ASSUME NEW q, NEW w, Materialize(q, w)
      PROVE  DirectoriesNotShared'
  <2>1. \A d \in Directories : directories'[d] = {w} \/ directories'[d] = directories[d]
    BY <1>2 DEF Materialize, IInv, TypeOK
  <2> QED
    BY <2>1 DEF DirectoriesNotShared
<1> QED
  BY <1>1, <1>2
     DEF Next, vars, BeginCreateWorkspace, BeginRebaseChange, FinishCreateWorkspace, FinishRebaseChange,
         FailMaterialize, CreateChange, RegisterConflict, ResolveConflict, PublishRevision, HandoffChange,
         RevertChange, LandCohort

\* A Workspace with an open Conflict stays blocked, and no two Workspaces share a
\* directory (registerConflict, resolveConflict, rebaseChange,
\* materializeWorkspace).
THEOREM WorkspacesExclusiveCorrect == Spec => []WorkspacesExclusive
<1>1. Init => WorkspacesInv
  <2>1. Init => ConflictsBlockWorkspace /\ DirectoriesNotShared
    BY DEF Init, ConflictsBlockWorkspace, DirectoriesNotShared
  <2> QED
    BY <2>1, InitIInv DEF WorkspacesInv
<1>2. WorkspacesInv /\ [Next]_vars => WorkspacesInv'
  <2> SUFFICES ASSUME WorkspacesInv, [Next]_vars PROVE WorkspacesInv'
    OBVIOUS
  <2>1. IInv /\ ConflictsBlockWorkspace /\ DirectoriesNotShared
    BY DEF WorkspacesInv
  <2>2. ConflictsBlockWorkspace'
    <3>1. CASE UNCHANGED vars
      BY <2>1, <3>1 DEF vars, ConflictsBlockWorkspace
    <3>2. CASE Next
      BY <2>1, <3>2, RegisterBlocks, ResolveUnblocks, OthersKeepConflicts
    <3> QED
      BY <3>1, <3>2
  <2> QED
    BY <2>1, <2>2, NextIInv, DirectoriesKept DEF WorkspacesInv
<1>3. WorkspacesInv => WorkspacesExclusive
  BY DEF WorkspacesInv, WorkspacesExclusive
<1> QED
  BY <1>1, <1>2, <1>3, PTL DEF Spec

\* A step that moves the canonical revision lands revisions that are the latest of
\* their Change and whose Workspace has no open Conflict (landCohort).
THEOREM LandsOnlyCleanCorrect == Spec => LandsOnlyClean
<1> DEFINE Clean == canonical' # canonical =>
                      \A r \in projectRevisions'[canonical'].landed :
                        /\ changes[revisions[r].change].latest = r
                        /\ OpenConflicts(revisions[r].change, revisions[r].workspace) = {}
<1>1. IInv /\ [Next]_vars => [Clean]_vars
  <2> SUFFICES ASSUME IInv, Next, canonical' # canonical,
                      NEW r \in projectRevisions'[canonical'].landed
               PROVE  /\ changes[revisions[r].change].latest = r
                      /\ OpenConflicts(revisions[r].change, revisions[r].workspace) = {}
    BY DEF vars
  <2>1. PICK members \in Cohorts : LandCohort(members)
    BY DEF Next, BeginCreateWorkspace, BeginRebaseChange, FinishCreateWorkspace, FinishRebaseChange,
           FailMaterialize, CreateChange, RegisterConflict, ResolveConflict, PublishRevision,
           HandoffChange, RevertChange
  <2>2. projectRevisions'[canonical'] = NextProjectRevision(members) /\ LandingAccepted(members)
    BY <2>1 DEF LandCohort, Set
  <2>3. PICK c \in Landing(members) : r = changes[c].latest
    BY <2>2 DEF NextProjectRevision
  <2>4. c \in DOMAIN changes /\ Landable(c)
    BY <2>2, <2>3 DEF LandingAccepted
  <2>5. revisions[r].change = c
    BY <2>3, <2>4 DEF Landable, IInv, RefsOK, ChangeRefs
  <2> QED
    BY <2>3, <2>4, <2>5 DEF Landable
<1> QED
  BY <1>1, SpecIInv, PTL DEF Spec, LandsOnlyClean
=============================================================================
