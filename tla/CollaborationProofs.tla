------------------------- MODULE CollaborationProofs -------------------------
(***************************************************************************)
(* Invariants of Collaboration for every value of its constants.           *)
(*                                                                         *)
(* None of the properties is inductive.  The gate is evaluated on what the *)
(* authority has loaded, and that is the Authority's snapshot at the       *)
(* commit only because every write makes the suspended calls stale         *)
(* (LandCallSound: a call that is current has loaded db).  The members     *)
(* that land are those of the copy of the cohort read before the await,    *)
(* and they are the cohort's because a cohort id is given out once         *)
(* (ComposingSound) and no step rewrites its members.                      *)
(***************************************************************************)
EXTENDS Collaboration, TLAPS

\* The records of the coordinator and of the suspended calls.
Cohort ==
  [base : Nat, members : (SUBSET Revisions) \ {{}}, state : {"proposed", "blocked", "landed"}]

Evidence == [outcome : {"passed", "failed"}, validity : Policies]

\* The Authority's snapshot.
Snapshot ==
  [published : [Changes -> Seq(Revisions)], evidence : [Revisions -> {None} \cup Evidence], actual : Nat]

ComposeCall == [id : CohortIds, members : (SUBSET Revisions) \ {{}}, base : Nat]

LandCall ==
  [cohort : CohortIds, read : Cohort, at : {"called", "reconciling", "answered"},
   loaded : Snapshot, current : BOOLEAN]

Approval ==
  [cohort : CohortIds, rule : Rules, revision : Revisions, reviewer : Actors,
   policy : Policies, activation : Nat]

FindingRecord == [cohort : CohortIds, revision : Revisions, state : {"open", "resolved"}]

\* An approval is given by somebody who neither wrote nor verified the revision.
Independent(x) == x.reviewer \notin VerifiersOf[x.revision] \cup {AuthorOf[x.revision]}

\* A suspended land: it has the members of its cohort, an answered one has landed,
\* and one that is current has loaded the Authority's snapshot.
LandCallSound(x, C, L, d) ==
  /\ x \in LandCall /\ x.cohort \in DOMAIN C /\ x.read.members = C[x.cohort].members
  /\ x.at = "answered" => x.cohort \in DOMAIN L
  /\ x.current = TRUE => x.loaded = d

\* The ids of cohorts that are still composed are new and different.
ComposingSound ==
  /\ DOMAIN composing = Requests
  /\ \A q \in Requests : composing[q] # None =>
       composing[q] \in ComposeCall /\ composing[q].id \notin DOMAIN cohorts
  /\ \A p, q \in Requests :
       composing[p] # None /\ composing[q] # None /\ composing[p].id = composing[q].id => p = q

\* A cohort that is called landed has landed.
CohortsSound ==
  /\ DOMAIN cohorts \subseteq CohortIds /\ \A c \in DOMAIN cohorts : cohorts[c] \in Cohort
  /\ \A c \in DOMAIN cohorts : cohorts[c].state = "landed" => c \in DOMAIN landings

\* What review is decided from.
ReviewData ==
  /\ policy \in Policies /\ activation \in 0..MaxActivations /\ canonical \in Nat
  /\ \A k \in DOMAIN conflicts : k[1] \in CohortIds /\ conflicts[k] \in {"open", "resolved"}
  /\ \A f \in DOMAIN findings : findings[f] \in FindingRecord
  /\ approvals \subseteq Approval /\ \A x \in approvals : Independent(x)

\* A landing of the authority.
LandingSound(c, l, C, A, n) ==
  /\ c \in DOMAIN C /\ l.members = C[c].members /\ l.revision \in 1..n
  /\ \A r \in l.members : BaseOf[r] + 1 = l.revision
  /\ \A rule \in Rules : \A r \in l.members \cap Affected[rule] :
       \E x \in A : x.cohort = c /\ x.rule = rule /\ x.revision = r /\ x.policy = l.policy

\* No two landings make the same Project Revision.
LandingsSound ==
  /\ \A c \in DOMAIN landings : LandingSound(c, landings[c], cohorts, approvals, db.actual)
  /\ \A b, c \in DOMAIN landings : landings[b].revision = landings[c].revision => b = c

\* Every suspended land is sound.
CallsSound ==
  /\ DOMAIN landing = Requests
  /\ \A q \in Requests : landing[q] # None => LandCallSound(landing[q], cohorts, landings, db)

\* The inductive invariant.
CollInv ==
  /\ db \in Snapshot /\ ReviewData /\ CohortsSound /\ ComposingSound /\ LandingsSound /\ CallsSound

-----------------------------------------------------------------------------
(* What the steps leave alone.                                             *)

\* A suspended call stays sound while cohorts and landings are added.
LEMMA CallStable ==
  ASSUME NEW x, NEW C, NEW C1, NEW L, NEW L1, NEW d, LandCallSound(x, C, L, d),
         \A c \in DOMAIN C : c \in DOMAIN C1 /\ C1[c].members = C[c].members,
         DOMAIN L \subseteq DOMAIN L1
  PROVE  LandCallSound(x, C1, L1, d)
  BY DEF LandCallSound

\* A write of the Authority makes every suspended call stale.
LEMMA OutdatedSound ==
  ASSUME CollInv, NEW L1, NEW d, DOMAIN landings \subseteq DOMAIN L1
  PROVE  /\ DOMAIN Outdated = Requests
         /\ \A q \in Requests : Outdated[q] # None =>
              /\ landing[q] # None /\ LandCallSound(Outdated[q], cohorts, L1, d)
              /\ Outdated[q] = [landing[q] EXCEPT !.current = FALSE]
  <1> SUFFICES ASSUME NEW q \in Requests, Outdated[q] # None
               PROVE  /\ landing[q] # None /\ LandCallSound(Outdated[q], cohorts, L1, d)
                      /\ Outdated[q] = [landing[q] EXCEPT !.current = FALSE]
    BY DEF Outdated
  <1> DEFINE x == landing[q]
             y == [x EXCEPT !.current = FALSE]
  <1>1. x # None /\ Outdated[q] = y
    BY DEF Outdated
  <1>2. LandCallSound(x, cohorts, landings, db)
    BY <1>1 DEF CollInv, CallsSound
  <1> HIDE DEF x
  <1>3. /\ y \in LandCall /\ y.cohort = x.cohort /\ y.read = x.read /\ y.at = x.at /\ y.current = FALSE
    BY <1>2 DEF LandCallSound, LandCall
  <1> HIDE DEF y
  <1>4. LandCallSound(y, cohorts, L1, d)
    BY <1>2, <1>3 DEF LandCallSound
  <1> QED
    BY <1>1, <1>4 DEF x, y

\* A step of the coordinator, or of a composing call.
LEMMA CoordinatorMoves ==
  ASSUME CollInv, ReviewData', approvals \subseteq approvals',
         UNCHANGED <<cohorts, composing, landing, db, landings>>
  PROVE  CollInv'
  <1>1. LandingsSound'
    <2>1. \A c \in DOMAIN landings : LandingSound(c, landings[c], cohorts, approvals', db.actual)
      BY DEF CollInv, LandingsSound, LandingSound
    <2> QED
      BY <2>1 DEF CollInv, LandingsSound
  <1> QED
    BY <1>1 DEF CollInv, CohortsSound, ComposingSound, CallsSound

\* A step of one land call.
LEMMA LandCallMoves ==
  ASSUME CollInv, NEW q \in Requests, NEW x, landing' = [landing EXCEPT ![q] = x],
         x # None => LandCallSound(x, cohorts, landings, db),
         UNCHANGED <<coordinator, composing, db, landings>>
  PROVE  CollInv'
  <1>1. CallsSound'
    BY DEF CollInv, CallsSound, coordinator
  <1> QED
    BY <1>1 DEF CollInv, ReviewData, CohortsSound, ComposingSound, LandingsSound, coordinator

-----------------------------------------------------------------------------
(* The Authority's other writers.                                          *)

\* A write that lands nothing.
LEMMA AuthorityWritten ==
  ASSUME CollInv, db' \in Snapshot, db'.actual = db.actual, landing' = Outdated,
         UNCHANGED <<coordinator, composing, landings>>
  PROVE  CollInv'
  <1>1. CallsSound'
    <2>1. DOMAIN Outdated = Requests /\ \A q \in Requests : Outdated[q] # None =>
            LandCallSound(Outdated[q], cohorts, landings, db')
      BY OutdatedSound
    <2> QED
      BY <2>1 DEF CallsSound, coordinator
  <1>2. LandingsSound'
    BY DEF CollInv, LandingsSound, coordinator
  <1> QED
    BY <1>1, <1>2 DEF CollInv, ReviewData, CohortsSound, ComposingSound, coordinator

\* publishRevision
LEMMA PublishInv ==
  ASSUME CollInv, NEW r \in Revisions, Publish(r)
  PROVE  CollInv'
  <1> DEFINE f == [db.published EXCEPT ![ChangeOf[r]] = Append(@, r)]
             d == [db EXCEPT !.published = f]
  <1>1. db \in Snapshot /\ ChangeOf[r] \in Changes
    BY ConstantsAssumption DEF CollInv
  <1>2. db' = d /\ landing' = Outdated /\ UNCHANGED <<coordinator, composing, landings>>
    BY DEF Publish
  <1>3. f \in [Changes -> Seq(Revisions)]
    <2>1. db.published \in [Changes -> Seq(Revisions)]
      BY <1>1 DEF Snapshot
    <2>2. Append(db.published[ChangeOf[r]], r) \in Seq(Revisions)
      BY <1>1, <2>1
    <2> QED
      BY <1>1, <2>1, <2>2
  <1> HIDE DEF f
  <1>4. d \in Snapshot /\ d.actual = db.actual
    BY <1>1, <1>3 DEF Snapshot
  <1> QED
    BY <1>2, <1>4, AuthorityWritten

\* recordEvidence.
LEMMA RecordEvidenceInv ==
  ASSUME CollInv, NEW r \in Revisions, NEW o \in {"passed", "failed"}, RecordEvidence(r, o)
  PROVE  CollInv'
  <1> DEFINE e == [outcome |-> o, validity |-> policy]
             f == [db.evidence EXCEPT ![r] = e]
             d == [db EXCEPT !.evidence = f]
  <1>1. db \in Snapshot /\ policy \in Policies
    BY DEF CollInv, ReviewData
  <1>2. db' = d /\ landing' = Outdated /\ UNCHANGED <<coordinator, composing, landings>>
    BY DEF RecordEvidence
  <1>3. e \in Evidence
    BY <1>1 DEF Evidence
  <1> HIDE DEF e
  <1>4. f \in [Revisions -> {None} \cup Evidence]
    BY <1>1, <1>3 DEF Snapshot
  <1> HIDE DEF f
  <1>5. d \in Snapshot /\ d.actual = db.actual
    BY <1>1, <1>4 DEF Snapshot
  <1> QED
    BY <1>2, <1>5, AuthorityWritten

-----------------------------------------------------------------------------
(* The coordinator.                                                        *)

\* The canonical copy is brought up to the Authority.
LEMMA SetCanonicalInv ==
  ASSUME CollInv, SetCanonicalProjectRevision
  PROVE  CollInv'
  <1>1. db.actual \in Nat
    BY DEF CollInv, Snapshot
  <1>2. ReviewData' /\ approvals \subseteq approvals'
    BY <1>1 DEF SetCanonicalProjectRevision, CollInv, ReviewData
  <1> QED
    BY <1>2, CoordinatorMoves DEF SetCanonicalProjectRevision

\* activatePolicy.
LEMMA ActivatePolicyInv ==
  ASSUME CollInv, NEW v \in Policies, ActivatePolicy(v)
  PROVE  CollInv'
  <1>1. ReviewData' /\ approvals \subseteq approvals'
    BY ConstantsAssumption DEF ActivatePolicy, CollInv, ReviewData
  <1> QED
    BY <1>1, CoordinatorMoves DEF ActivatePolicy

\* A new cohort is being composed
LEMMA BeginCreateInv ==
  ASSUME CollInv, NEW q \in Requests, NEW id \in FreshCohortIds, NEW members \in SUBSET Revisions,
         NEW base \in {canonical} \cup {BaseOf[r] : r \in members}, BeginCreateCohort(q, id, members, base)
  PROVE  CollInv'
  <1> DEFINE x == [id |-> id, members |-> members, base |-> base]
  <1>1. id \in CohortIds \ DOMAIN cohorts /\ \A p \in Requests : composing[p] # None => composing[p].id # id
    BY DEF FreshCohortIds
  <1>2. base \in Nat
    BY ConstantsAssumption DEF CollInv, ReviewData
  <1>3. /\ members # {} /\ composing[q] = None /\ composing' = [composing EXCEPT ![q] = x]
        /\ UNCHANGED <<coordinator, landing, db, landings>>
    BY DEF BeginCreateCohort
  <1>4. x \in ComposeCall /\ x.id = id
    BY <1>1, <1>2, <1>3 DEF ComposeCall
  <1> HIDE DEF x
  <1>5. DOMAIN composing' = Requests /\ \A p \in Requests : composing'[p] = IF p = q THEN x ELSE composing[p]
    BY <1>3 DEF CollInv, ComposingSound
  <1>6. ComposingSound'
    BY <1>1, <1>3, <1>4, <1>5 DEF CollInv, ComposingSound, coordinator
  <1> QED
    BY <1>3, <1>6 DEF CollInv, ReviewData, CohortsSound, LandingsSound, CallsSound, coordinator

\* The cohort is there, with its Conflicts
LEMMA FinishCreateInv ==
  ASSUME CollInv, NEW q \in Requests, FinishCreateCohort(q)
  PROVE  CollInv'
  <1> DEFINE call == composing[q]
             found == Overlaps(call.id, call.members)
             x == [base |-> call.base, members |-> call.members,
                   state |-> IF found # {} THEN "blocked" ELSE "proposed"]
  <1>1. call \in ComposeCall /\ call.id \in CohortIds \ DOMAIN cohorts
    BY DEF FinishCreateCohort, CollInv, ComposingSound, ComposeCall
  <1>2. \A k \in found : k[1] = call.id
    BY DEF Overlaps
  <1>3. /\ conflicts' = [k \in DOMAIN conflicts \cup found |-> IF k \in found THEN "open" ELSE conflicts[k]]
        /\ cohorts' = Set(cohorts, call.id, x) /\ composing' = [composing EXCEPT ![q] = None]
        /\ UNCHANGED <<policy, activation, canonical, findings, approvals, landing, db, landings>>
        /\ call # None
    BY DEF FinishCreateCohort
  <1>4. x \in Cohort /\ x.state # "landed"
    BY <1>1 DEF Cohort, ComposeCall
  <1> HIDE DEF found, x
  <1>5. /\ DOMAIN cohorts' = DOMAIN cohorts \cup {call.id} /\ cohorts'[call.id] = x
        /\ \A c \in DOMAIN cohorts : cohorts'[c] = cohorts[c]
    BY <1>1, <1>3 DEF Set
  <1>6. DOMAIN composing' = Requests /\ \A p \in Requests : composing'[p] = IF p = q THEN None ELSE composing[p]
    BY <1>3 DEF CollInv, ComposingSound
  <1>7. ComposingSound'
    BY <1>3, <1>5, <1>6 DEF CollInv, ComposingSound
  <1> HIDE DEF call
  <1>8. ReviewData'
    BY <1>1, <1>2, <1>3 DEF CollInv, ReviewData
  <1>9. CohortsSound'
    BY <1>1, <1>3, <1>4, <1>5 DEF CollInv, CohortsSound
  <1>10. CallsSound'
    <2>1. \A p \in Requests : landing[p] # None => LandCallSound(landing[p], cohorts', landings, db)
      BY <1>5, CallStable DEF CollInv, CallsSound
    <2> QED
      BY <1>3, <2>1 DEF CollInv, CallsSound
  <1>11. LandingsSound'
    <2>1. \A c \in DOMAIN landings : LandingSound(c, landings[c], cohorts', approvals, db.actual)
      BY <1>5 DEF CollInv, LandingsSound, LandingSound
    <2> QED
      BY <1>3, <2>1 DEF CollInv, LandingsSound
  <1> QED
    BY <1>3, <1>7, <1>8, <1>9, <1>10, <1>11 DEF CollInv

\* submitFinding.
LEMMA SubmitFindingInv ==
  ASSUME CollInv, NEW c \in DOMAIN cohorts, NEW r \in cohorts[c].members, SubmitFinding(c, r)
  PROVE  CollInv'
  <1> DEFINE f == CHOOSE id \in FindingIds : id \notin DOMAIN findings
             x == [cohort |-> c, revision |-> r, state |-> "open"]
  <1>1. c \in CohortIds /\ r \in Revisions
    BY DEF CollInv, CohortsSound, Cohort
  <1>2. x \in FindingRecord
    BY <1>1 DEF FindingRecord
  <1>3. findings' = Set(findings, f, x) /\ UNCHANGED <<policy, activation, canonical, conflicts, approvals>>
    BY DEF SubmitFinding
  <1> HIDE DEF f, x
  <1>4. \A g \in DOMAIN findings' : findings'[g] = x \/ (g \in DOMAIN findings /\ findings'[g] = findings[g])
    BY <1>3 DEF Set
  <1>5. ReviewData' /\ approvals \subseteq approvals'
    BY <1>2, <1>3, <1>4 DEF CollInv, ReviewData
  <1> QED
    BY <1>5, CoordinatorMoves DEF SubmitFinding

\* resolveFinding.
LEMMA ResolveFindingInv ==
  ASSUME CollInv, NEW f \in DOMAIN findings, ResolveFinding(f)
  PROVE  CollInv'
  <1> DEFINE x == [findings[f] EXCEPT !.state = "resolved"]
  <1>1. x \in FindingRecord
    BY DEF CollInv, ReviewData, FindingRecord
  <1>2. findings' = [findings EXCEPT ![f] = x] /\ UNCHANGED <<policy, activation, canonical, conflicts, approvals>>
    BY DEF ResolveFinding
  <1> HIDE DEF x
  <1>3. ReviewData' /\ approvals \subseteq approvals'
    BY <1>1, <1>2 DEF CollInv, ReviewData
  <1> QED
    BY <1>3, CoordinatorMoves DEF ResolveFinding

\* approve: the reviewer neither wrote nor verified the revision.
LEMMA ApproveInv ==
  ASSUME CollInv, NEW c \in DOMAIN cohorts, NEW rule \in Rules, NEW r \in Revisions, NEW a \in Actors,
         Approve(c, rule, r, a)
  PROVE  CollInv'
  <1> DEFINE x == [cohort |-> c, rule |-> rule, revision |-> r, reviewer |-> a,
                   policy |-> policy, activation |-> activation]
  <1>1. c \in CohortIds /\ policy \in Policies /\ activation \in Nat
    BY ConstantsAssumption DEF CollInv, CohortsSound, ReviewData
  <1>2. x \in Approval /\ Independent(x)
    BY <1>1 DEF Approval, Independent, Approve, MayReview
  <1>3. approvals' = approvals \cup {x} /\ UNCHANGED <<policy, activation, canonical, conflicts, findings>>
    BY DEF Approve
  <1> HIDE DEF x
  <1>4. ReviewData' /\ approvals \subseteq approvals'
    BY <1>2, <1>3 DEF CollInv, ReviewData
  <1> QED
    BY <1>4, CoordinatorMoves DEF Approve

\* resolveConflict.
LEMMA ResolveConflictInv ==
  ASSUME CollInv, NEW k \in DOMAIN conflicts, ResolveConflict(k)
  PROVE  CollInv'
  <1>1. ReviewData' /\ approvals \subseteq approvals'
    BY DEF CollInv, ReviewData, ResolveConflict
  <1> QED
    BY <1>1, CoordinatorMoves DEF ResolveConflict

-----------------------------------------------------------------------------
(* land and the authority.                                                 *)

\* land, up to its await.
LEMMA BeginLandInv ==
  ASSUME CollInv, NEW q \in Requests, NEW c \in DOMAIN cohorts, BeginLand(q, c)
  PROVE  CollInv'
  <1> DEFINE x == [cohort |-> c, read |-> cohorts[c], at |-> "called", loaded |-> db, current |-> TRUE]
  <1>1. LandCallSound(x, cohorts, landings, db)
    BY DEF LandCallSound, LandCall, CollInv, CohortsSound
  <1>2. landing' = [landing EXCEPT ![q] = x] /\ UNCHANGED <<coordinator, composing, db, landings>>
    BY DEF BeginLand
  <1> HIDE DEF x
  <1> QED
    BY <1>1, <1>2, LandCallMoves

\* A cohort that has landed is answered from its receipt.
LEMMA ReplaysInv ==
  ASSUME CollInv, NEW q \in Requests, AuthorityReplays(q)
  PROVE  CollInv'
  <1> DEFINE old == landing[q]
             x == [old EXCEPT !.at = "answered"]
  <1>1. /\ old # None /\ old.cohort \in DOMAIN landings /\ landing' = [landing EXCEPT ![q] = x]
        /\ UNCHANGED <<coordinator, composing, db, landings>>
    BY DEF AuthorityReplays
  <1>2. LandCallSound(old, cohorts, landings, db)
    BY <1>1 DEF CollInv, CallsSound
  <1> HIDE DEF old
  <1>3. x \in LandCall /\ x.cohort = old.cohort /\ x.read = old.read /\ x.current = old.current /\ x.loaded = old.loaded
    BY <1>2 DEF LandCallSound, LandCall
  <1> HIDE DEF x
  <1>4. LandCallSound(x, cohorts, landings, db)
    BY <1>1, <1>2, <1>3 DEF LandCallSound
  <1> QED
    BY <1>1, <1>4, LandCallMoves

\* The snapshot is loaded before the reconciliation is awaited.
LEMMA LoadsInv ==
  ASSUME CollInv, NEW q \in Requests, AuthorityLoads(q)
  PROVE  CollInv'
  <1> DEFINE old == landing[q]
             a == [old EXCEPT !.at = "reconciling"]
             b == [a EXCEPT !.loaded = db]
             x == [b EXCEPT !.current = TRUE]
  <1>1. /\ old # None /\ LandCallSound(old, cohorts, landings, db)
        /\ UNCHANGED <<coordinator, composing, db, landings>> /\ db \in Snapshot
    BY DEF AuthorityLoads, CollInv, CallsSound
  <1>2. landing' = [landing EXCEPT ![q] = x]
    BY <1>1 DEF AuthorityLoads, LandCallSound, LandCall
  <1> HIDE DEF old
  <1>3. a \in LandCall /\ a.cohort = old.cohort /\ a.read = old.read /\ a.at = "reconciling"
    BY <1>1 DEF LandCallSound, LandCall
  <1> HIDE DEF a
  <1>4. b \in LandCall /\ b.cohort = old.cohort /\ b.read = old.read /\ b.at = "reconciling" /\ b.loaded = db
    BY <1>1, <1>3 DEF LandCall
  <1> HIDE DEF b
  <1>5. x \in LandCall /\ x.cohort = old.cohort /\ x.read = old.read /\ x.at = "reconciling" /\ x.loaded = db
    BY <1>4 DEF LandCall
  <1> HIDE DEF x
  <1>6. LandCallSound(x, cohorts, landings, db)
    BY <1>1, <1>5 DEF LandCallSound
  <1> QED
    BY <1>1, <1>2, <1>6, LandCallMoves

\* The caller sees the error.
LEMMA RefusesInv ==
  ASSUME CollInv, NEW q \in Requests, AuthorityRefuses(q)
  PROVE  CollInv'
  BY LandCallMoves DEF AuthorityRefuses

\* A commit is of the snapshot that is the Authority's now
LEMMA CommitIsCurrent ==
  ASSUME CollInv, NEW q \in Requests, AuthorityLands(q)
  PROVE  landing[q] # None /\ Commit(q, db, TRUE)
  <1>1. landing[q] # None
    BY DEF AuthorityLands
  <1>2. CASE Commit(q, landing[q].loaded, landing[q].current)
    <2>1. LandCallSound(landing[q], cohorts, landings, db)
      BY <1>1 DEF CollInv, CallsSound
    <2>2. landing[q].current = TRUE
      BY <1>2, <2>1 DEF Commit, LandCallSound, LandCall
    <2>3. landing[q].loaded = db
      BY <2>1, <2>2 DEF LandCallSound
    <2> QED
      BY <1>1, <1>2, <2>2, <2>3
  <1> QED
    BY <1>1, <1>2 DEF AuthorityLands

\* commitSelection
LEMMA LandsInv ==
  ASSUME CollInv, NEW q \in Requests, AuthorityLands(q)
  PROVE  CollInv'
  <1> DEFINE call == landing[q]
             c == call.cohort
             members == call.read.members
             n == db.actual + 1
             l == [revision |-> n, policy |-> policy, activation |-> activation, members |-> members]
             old == Outdated[q]
             x == [old EXCEPT !.at = "answered"]
             d == [db EXCEPT !.actual = n]
  <1>1. /\ call # None /\ LandCallSound(call, cohorts, landings, db) /\ db \in Snapshot /\ db.actual \in Nat
        /\ Commit(q, db, TRUE)
    BY CommitIsCurrent DEF CollInv, CallsSound, Snapshot
  <1>2. /\ Selectable(db, members) /\ Allowed(c, db.actual, db)
        /\ db' = d /\ landings' = Set(landings, c, l)
        /\ landing' = [Outdated EXCEPT ![q] = x]
        /\ canonical' = db.actual
        /\ UNCHANGED <<policy, activation, cohorts, conflicts, findings, approvals, composing>>
    BY <1>1 DEF Commit, Accepts, AuthorityLands
  <1>3. c \in DOMAIN cohorts /\ members = cohorts[c].members /\ cohorts[c] \in Cohort /\ members \subseteq Revisions
    BY <1>1 DEF LandCallSound, LandCall, CollInv, CohortsSound, Cohort
  <1>4. /\ \A r \in members : BaseOf[r] = db.actual
        /\ \A rule \in Rules : \A r \in members \cap Affected[rule] :
             \E y \in approvals : y.cohort = c /\ y.rule = rule /\ y.revision = r /\ y.policy = policy
    <2>1. \A r \in members : BaseOf[r] = db.actual
      BY <1>2 DEF Selectable
    <2>2. ASSUME NEW rule \in Rules, NEW r \in members \cap Affected[rule]
          PROVE  Approved(c, rule, r)
      <3> DEFINE req == <<rule, r>>
      <3>1. req \in Rules \X cohorts[c].members /\ req[1] = rule /\ req[2] = r
        BY <1>3
      <3> HIDE DEF req
      <3>2. req \in Requirements(c)
        BY <3>1 DEF Requirements
      <3>3. Approved(c, req[1], req[2])
        BY <1>2, <3>2 DEF Allowed
      <3> QED
        BY <3>1, <3>3
    <2> HIDE DEF c, members
    <2> QED
      BY <2>1, <2>2 DEF Approved
  <1>5. l.revision = n /\ l.policy = policy /\ l.members = members /\ n \in Nat /\ n \in 1..n
    BY <1>1
  <1>6. db' \in Snapshot /\ db'.actual = n
    BY <1>1, <1>2 DEF Snapshot
  <1> HIDE DEF l, d
  <1>7. LandingSound(c, l, cohorts, approvals, n)
    BY <1>3, <1>4, <1>5 DEF LandingSound
  <1>8. /\ DOMAIN landings' = DOMAIN landings \cup {c} /\ landings'[c] = l
        /\ \A b \in DOMAIN landings : b # c => landings'[b] = landings[b]
    BY <1>2 DEF Set
  <1>9. \A b \in DOMAIN landings : /\ LandingSound(b, landings[b], cohorts, approvals, n)
                                   /\ landings[b].revision # n
    BY <1>1 DEF CollInv, LandingsSound, LandingSound
  <1>10. LandingsSound'
    <2>1. \A b \in DOMAIN landings' : LandingSound(b, landings'[b], cohorts, approvals, n)
      BY <1>7, <1>8, <1>9
    <2>2. \A a, b \in DOMAIN landings' : landings'[a].revision = landings'[b].revision => a = b
      <3>1. \A a, b \in DOMAIN landings : landings[a].revision = landings[b].revision => a = b
        BY DEF CollInv, LandingsSound
      <3> QED
        BY <1>5, <1>8, <1>9, <3>1
    <2> QED
      BY <1>2, <1>6, <2>1, <2>2 DEF LandingsSound
  <1>11. CallsSound'
    <2>1. /\ DOMAIN Outdated = Requests
          /\ \A p \in Requests : Outdated[p] # None =>
               /\ landing[p] # None /\ LandCallSound(Outdated[p], cohorts, landings', db')
               /\ Outdated[p] = [landing[p] EXCEPT !.current = FALSE]
      BY <1>8, OutdatedSound
    <2>2. /\ old = [call EXCEPT !.current = FALSE] /\ old \in LandCall /\ old.cohort = c /\ old.read = call.read
          /\ old.current = FALSE
      <3>1. old = [call EXCEPT !.current = FALSE]
        BY <1>1 DEF Outdated
      <3>2. call \in LandCall
        BY <1>1 DEF LandCallSound
      <3> HIDE DEF call, old
      <3>3. old \in LandCall /\ old.cohort = call.cohort /\ old.read = call.read /\ old.current = FALSE
        BY <3>1, <3>2 DEF LandCall
      <3> QED
        BY <3>1, <3>3 DEF c
    <2> HIDE DEF old
    <2>3. x \in LandCall /\ x.cohort = c /\ x.read = call.read /\ x.current = FALSE
      BY <2>2 DEF LandCall
    <2>4. LandCallSound(x, cohorts, landings', db')
      BY <1>3, <1>8, <2>3 DEF LandCallSound
    <2> HIDE DEF x
    <2>5. DOMAIN landing' = Requests /\ \A p \in Requests : landing'[p] = IF p = q THEN x ELSE Outdated[p]
      BY <1>2, <2>1
    <2> QED
      BY <1>2, <2>1, <2>4, <2>5 DEF CallsSound
  <1>12. CohortsSound'
    BY <1>2, <1>8 DEF CollInv, CohortsSound
  <1>13. ReviewData' /\ ComposingSound'
    BY <1>1, <1>2 DEF CollInv, ReviewData, ComposingSound
  <1> QED
    BY <1>6, <1>10, <1>11, <1>12, <1>13 DEF CollInv

\* land writes the cohort back
LEMMA FinishLandInv ==
  ASSUME CollInv, NEW q \in Requests, FinishLand(q)
  PROVE  CollInv'
  <1> DEFINE call == landing[q]
             c == call.cohort
             x == [call.read EXCEPT !.state = "landed"]
  <1>1. /\ call # None /\ call.at = "answered" /\ LandCallSound(call, cohorts, landings, db)
        /\ cohorts' = [cohorts EXCEPT ![c] = x] /\ landing' = [landing EXCEPT ![q] = None]
        /\ UNCHANGED <<policy, activation, canonical, conflicts, findings, approvals, composing, db, landings>>
    BY DEF FinishLand, CollInv, CallsSound
  <1>2. x \in Cohort /\ x.members = cohorts[c].members /\ c \in DOMAIN cohorts /\ c \in DOMAIN landings
    BY <1>1 DEF LandCallSound, LandCall, Cohort
  <1> HIDE DEF c, x, call
  <1>3. /\ DOMAIN cohorts' = DOMAIN cohorts /\ \A b \in DOMAIN cohorts : cohorts'[b] = IF b = c THEN x ELSE cohorts[b]
        /\ \A b \in DOMAIN cohorts : cohorts'[b].members = cohorts[b].members
    BY <1>1, <1>2
  <1>4. CohortsSound' /\ ComposingSound' /\ ReviewData'
    BY <1>1, <1>2, <1>3 DEF CollInv, CohortsSound, ComposingSound, ReviewData
  <1>5. CallsSound'
    <2>1. \A p \in Requests : landing[p] # None => LandCallSound(landing[p], cohorts', landings, db)
      BY <1>3, CallStable DEF CollInv, CallsSound
    <2> QED
      BY <1>1, <2>1 DEF CollInv, CallsSound
  <1>6. LandingsSound'
    <2>1. \A b \in DOMAIN landings : LandingSound(b, landings[b], cohorts', approvals, db.actual)
      BY <1>3 DEF CollInv, LandingsSound, LandingSound
    <2> QED
      BY <1>1, <2>1 DEF CollInv, LandingsSound
  <1> QED
    BY <1>1, <1>4, <1>5, <1>6 DEF CollInv

-----------------------------------------------------------------------------
(* The invariant.                                                          *)

\* The initial state.
LEMMA CollInitInv == Init => CollInv
  <1> SUFFICES ASSUME Init PROVE CollInv
    OBVIOUS
  <1>1. /\ cohorts = Empty /\ conflicts = Empty /\ findings = Empty /\ landings = Empty /\ DOMAIN Empty = {}
        /\ approvals = {} /\ composing = [q \in Requests |-> None] /\ landing = [q \in Requests |-> None]
    BY DEF Init, Empty
  <1>2. db \in Snapshot
    <2>1. << >> \in Seq(Revisions)
      OBVIOUS
    <2> QED
      BY <2>1 DEF Init, Snapshot
  <1>3. ReviewData
    BY <1>1, ConstantsAssumption DEF Init, ReviewData
  <1> QED
    BY <1>1, <1>2, <1>3 DEF CollInv, CohortsSound, ComposingSound, LandingsSound, CallsSound

\* Every step.
LEMMA CollStepInv ==
  ASSUME CollInv, [Next]_vars
  PROVE  CollInv'
  <1>1. CASE Next
    BY <1>1, PublishInv, RecordEvidenceInv, SetCanonicalInv, ActivatePolicyInv, BeginCreateInv, FinishCreateInv,
       SubmitFindingInv, ResolveFindingInv, ApproveInv, ResolveConflictInv, BeginLandInv, ReplaysInv, LoadsInv,
       LandsInv, RefusesInv, FinishLandInv DEF Next
  <1>2. CASE UNCHANGED vars
    BY <1>2 DEF CollInv, vars, coordinator, ReviewData, CohortsSound, ComposingSound, LandingsSound, CallsSound
  <1> QED
    BY <1>1, <1>2

\* The invariant holds always.
LEMMA CollAlwaysInv == Spec => []CollInv
  BY CollInitInv, CollStepInv, PTL DEF Spec

\* The records have their types, and every landed revision that a rule affects was
\* approved for its cohort, under the policy it landed with, by somebody who
\* neither wrote nor verified it (approve, evaluateLanding, land).
THEOREM ReviewSoundCorrect == Spec => []ReviewSound
  <1>1. CollInv => TypeOK
    BY DEF CollInv, Snapshot, ReviewData, CohortsSound, LandingsSound, LandingSound, Cohort, FindingRecord,
           Approval, TypeOK
  <1>2. CollInv => LandedIsIndependentlyApproved
    BY DEF CollInv, ReviewData, LandingsSound, LandingSound, Independent, LandedIsIndependentlyApproved
  <1> QED
    BY <1>1, <1>2, CollAlwaysInv, PTL DEF ReviewSound

\* Concurrent and repeated land calls are serial at the authority, and the
\* coordinator records as landed what the authority landed (land, landCohort).
THEOREM LandingsAgreeCorrect == Spec => []LandingsAgree
  <1>1. CollInv => LandingsAreSerial
    BY DEF CollInv, LandingsSound, LandingSound, LandingsAreSerial
  <1>2. CollInv => LandedAgrees
    BY DEF CollInv, LandingsSound, LandingSound, CohortsSound, LandedAgrees
  <1> QED
    BY <1>1, <1>2, CollAlwaysInv, PTL DEF LandingsAgree

\* The authority lands only the latest revisions, with no open Conflict or Finding
\* and with Evidence that has passed at that moment (land, landCohort).
THEOREM LandsOnFreshGateCorrect == Spec => LandsOnFreshGate
  <1> DEFINE Fresh == \A c \in DOMAIN landings' \ DOMAIN landings :
                        /\ \A r \in cohorts[c].members : Latest(db, r)
                        /\ ~OpenFinding(c) /\ ~OpenConflict(c)
                        /\ \A r \in cohorts[c].members \cap NeedsEvidence[policy] :
                             db.evidence[r] = [outcome |-> "passed", validity |-> policy]
  <1>1. CollInv /\ [Next]_vars => [Fresh]_vars
    <2> SUFFICES ASSUME CollInv, Next, NEW c \in DOMAIN landings' \ DOMAIN landings
                 PROVE  /\ \A r \in cohorts[c].members : Latest(db, r)
                        /\ ~OpenFinding(c) /\ ~OpenConflict(c)
                        /\ \A r \in cohorts[c].members \cap NeedsEvidence[policy] :
                             db.evidence[r] = [outcome |-> "passed", validity |-> policy]
      BY DEF vars, coordinator
    <2>1. PICK q \in Requests : AuthorityLands(q)
      BY DEF Next, Publish, RecordEvidence, SetCanonicalProjectRevision, ActivatePolicy, BeginCreateCohort,
             FinishCreateCohort, SubmitFinding, ResolveFinding, Approve, ResolveConflict, BeginLand,
             AuthorityReplays, AuthorityLoads, AuthorityRefuses, FinishLand
    <2>2. Commit(q, db, TRUE) /\ landing[q] # None
      BY <2>1, CommitIsCurrent
    <2>3. c = landing[q].cohort
      BY <2>2 DEF Commit, Set
    <2>4. landing[q].read.members = cohorts[c].members /\ cohorts[c] \in Cohort
      BY <2>2, <2>3 DEF CollInv, CallsSound, CohortsSound, LandCallSound
    <2>5. Selectable(db, cohorts[c].members) /\ Allowed(c, db.actual, db)
      BY <2>2, <2>3, <2>4 DEF Commit, Accepts
    <2>6. ASSUME NEW r \in cohorts[c].members \cap NeedsEvidence[policy]
          PROVE  db.evidence[r] = [outcome |-> "passed", validity |-> policy]
      <3>1. db.evidence[r] # None /\ db.evidence[r].outcome = "passed" /\ db.evidence[r].validity = policy
        BY <2>5 DEF Allowed, Evidenced
      <3>2. r \in Revisions
        BY <2>4 DEF Cohort
      <3>3. db.evidence[r] \in Evidence
        BY <3>1, <3>2 DEF CollInv, Snapshot
      <3> QED
        BY <3>1, <3>3 DEF Evidence
    <2> QED
      BY <2>5, <2>6 DEF Selectable, Allowed
  <1> QED
    BY <1>1, CollAlwaysInv, PTL DEF Spec, LandsOnFreshGate
=============================================================================
