---------------------------- MODULE Collaboration ----------------------------
(***************************************************************************)
(* CollaborationCoordinator of src/change-control/collaboration.ts (review *)
(* Findings, Approvals, Integration Cohorts, the Landing decision) with    *)
(* the authority it lands through, SQLiteCohortLandingAuthority of         *)
(* src/cloudflare/cohort-landing.ts.                                       *)
(*                                                                         *)
(* createCohort awaits its analyzers, land awaits the authority and the    *)
(* authority awaits the reconciliation of the previous Landing's refs;     *)
(* each is split there.  The Change Revisions with their author, verifiers,*)
(* effects and affected scopes are constants: a revision is immutable.     *)
(* The audit log, which nothing reads, and the disclosure projections,     *)
(* which change nothing, are left out, and so are idempotency keys: the    *)
(* first use of a key acts as a request without one, and a later use       *)
(* changes nothing.  Cohort ids are fresh (opaqueId).                      *)
(***************************************************************************)
EXTENDS Naturals, FiniteSets, Sequences

CONSTANTS
  Changes, Revisions,
  ChangeOf,        \* [Revisions -> Changes]
  BaseOf,          \* [Revisions -> Nat]: base Project Revision, numbered along the lineage
  Effects,         \* [Revisions -> SUBSET Effect names]
  Actors,
  AuthorOf,        \* [Revisions -> Actors]
  VerifiersOf,     \* [Revisions -> SUBSET Actors]
  Rules,           \* review ownership rules
  Affected,        \* [Rules -> SUBSET Revisions]: revisions in the rule's scope
  Candidates,      \* [Rules -> SUBSET Actors]: active reviewers of the rule
  Policies,        \* collaboration policy versions
  NeedsEvidence,   \* [Policies -> SUBSET Revisions]
  CohortIds, FindingIds, Requests,
  MaxActivations,  \* bound on activatePolicy
  None

ASSUME ConstantsAssumption ==
  /\ ChangeOf \in [Revisions -> Changes]
  /\ BaseOf \in [Revisions -> Nat]
  /\ AuthorOf \in [Revisions -> Actors]
  /\ VerifiersOf \in [Revisions -> SUBSET Actors]
  /\ Affected \in [Rules -> SUBSET Revisions]
  /\ Candidates \in [Rules -> SUBSET Actors]
  /\ NeedsEvidence \in [Policies -> SUBSET Revisions]
  /\ MaxActivations \in Nat
  /\ None \notin Revisions \cup CohortIds \cup Policies

VARIABLES
  policy,       \* active policy version
  activation,   \* how many policies were activated before it (history)
  canonical,    \* the coordinator's copy of the canonical Project Revision
  cohorts,      \* id -> [base, members, state]
  conflicts,    \* <<cohort, two members, effect>> -> "open" or "resolved"
  findings,     \* id -> [cohort, revision, state]; those that block
  approvals,    \* set of ReviewApproval
  composing,    \* request -> suspended createCohort
  landing,      \* request -> suspended land
  db,           \* the Authority's snapshot: [published, evidence, actual]
  landings      \* the Authority's receipts: cohort -> what was landed

coordinator == <<policy, activation, canonical, cohorts, conflicts, findings, approvals>>
vars == <<coordinator, composing, landing, db, landings>>

Set(f, k, v) == [x \in DOMAIN f \cup {k} |-> IF x = k THEN v ELSE f[x]]

Empty == [x \in {} |-> None]

Init ==
  /\ policy \in Policies
  /\ activation = 0
  /\ canonical = 0
  /\ cohorts = Empty /\ conflicts = Empty /\ findings = Empty
  /\ approvals = {}
  /\ composing = [q \in Requests |-> None]
  /\ landing = [q \in Requests |-> None]
  /\ db = [published |-> [c \in Changes |-> << >>],
           evidence |-> [r \in Revisions |-> None],
           actual |-> 0]
  /\ landings = Empty

LandedChanges == {ChangeOf[r] : r \in UNION {landings[c].members : c \in DOMAIN landings}}

Latest(d, r) ==
  LET revisions == d.published[ChangeOf[r]]
  IN  revisions # << >> /\ revisions[Len(revisions)] = r

Published(d, r) == \E i \in DOMAIN d.published[ChangeOf[r]] : d.published[ChangeOf[r]][i] = r

\* Every write raises the Authority's version, so the version that a suspended
\* call has loaded is current exactly as long as no write comes in between.
Outdated == [q \in Requests |-> IF landing[q] = None THEN None
                                ELSE [landing[q] EXCEPT !.current = FALSE]]

-----------------------------------------------------------------------------
(* Other writers of the Authority: a revision of an unlanded Change on the *)
(* canonical base is published; Evidence is recorded, the latest record    *)
(* for a revision decides.                                                 *)

Publish(r) ==
  /\ ~Published(db, r)
  /\ ChangeOf[r] \notin LandedChanges
  /\ BaseOf[r] = db.actual
  /\ db' = [db EXCEPT !.published[ChangeOf[r]] = Append(@, r)]
  /\ landing' = Outdated
  /\ UNCHANGED <<coordinator, composing, landings>>

RecordEvidence(r, outcome) ==
  /\ \E v \in Policies : r \in NeedsEvidence[v]
  /\ db' = [db EXCEPT !.evidence[r] = [outcome |-> outcome, validity |-> policy]]
  /\ db' # db
  /\ landing' = Outdated
  /\ UNCHANGED <<coordinator, composing, landings>>

-----------------------------------------------------------------------------

SetCanonicalProjectRevision ==
  /\ canonical # db.actual
  /\ canonical' = db.actual
  /\ UNCHANGED <<policy, activation, cohorts, conflicts, findings, approvals,
                 composing, landing, db, landings>>

\* Only the version that is active now is refused.
ActivatePolicy(v) ==
  /\ v # policy
  /\ activation < MaxActivations
  /\ policy' = v
  /\ activation' = activation + 1
  /\ UNCHANGED <<canonical, cohorts, conflicts, findings, approvals,
                 composing, landing, db, landings>>

FreshCohortIds ==
  LET unused == {id \in CohortIds \ DOMAIN cohorts :
                   \A p \in Requests : composing[p] # None => composing[p].id # id}
  IN  IF unused = {} THEN {} ELSE {CHOOSE id \in unused : TRUE}

\* The caller's copy of a Change may be older than the Authority's: a member was
\* its latest revision at some time.
BeginCreateCohort(q, id, members, base) ==
  /\ composing[q] = None
  /\ id \in FreshCohortIds
  /\ members # {}
  /\ \A r, s \in members : ChangeOf[r] = ChangeOf[s] => r = s
  /\ \A r \in members : Published(db, r) /\ BaseOf[r] = base
  /\ composing' = [composing EXCEPT ![q] = [id |-> id, members |-> members, base |-> base]]
  /\ UNCHANGED <<coordinator, landing, db, landings>>

\* declaredEffectOverlapAnalyzer: every effect that two members both declare.
Overlaps(id, members) ==
  {k \in {id} \X (SUBSET members) \X (UNION {Effects[r] : r \in members}) :
     Cardinality(k[2]) = 2 /\ \A r \in k[2] : k[3] \in Effects[r]}

FinishCreateCohort(q) ==
  LET call == composing[q]
      found == Overlaps(call.id, call.members)
  IN  /\ call # None
      /\ conflicts' = [k \in DOMAIN conflicts \cup found |->
                         IF k \in found THEN "open" ELSE conflicts[k]]
      /\ cohorts' = Set(cohorts, call.id,
           [base |-> call.base, members |-> call.members,
            state |-> IF found # {} THEN "blocked" ELSE "proposed"])
      /\ composing' = [composing EXCEPT ![q] = None]
      /\ UNCHANGED <<policy, activation, canonical, findings, approvals,
                     landing, db, landings>>

\* A Finding that does not block is not told apart from none.
SubmitFinding(c, r) ==
  LET f == CHOOSE id \in FindingIds : id \notin DOMAIN findings
  IN  /\ FindingIds \ DOMAIN findings # {}
      /\ r \in cohorts[c].members
      /\ findings' = Set(findings, f, [cohort |-> c, revision |-> r, state |-> "open"])
      /\ UNCHANGED <<policy, activation, canonical, cohorts, conflicts, approvals,
                     composing, landing, db, landings>>

ResolveFinding(f) ==
  /\ findings[f].state = "open"
  /\ findings' = [findings EXCEPT ![f].state = "resolved"]
  /\ UNCHANGED <<policy, activation, canonical, cohorts, conflicts, approvals,
                 composing, landing, db, landings>>

\* requirementsFor: a requirement is a rule together with a member it affects.
Requirements(c) ==
  {req \in Rules \X cohorts[c].members : req[2] \in Affected[req[1]]}

MayReviewAnything(a, rule, r) == a \in Candidates[rule]   \* mutant: no separation of duty

MayReview(a, rule, r) ==
  /\ a # AuthorOf[r]
  /\ a \notin VerifiersOf[r]
  /\ a \in Candidates[rule]

\* The activation is history: the record itself holds only the version.
Approve(c, rule, r, a) ==
  /\ <<rule, r>> \in Requirements(c)
  /\ MayReview(a, rule, r)
  /\ ~\E x \in approvals : /\ x.cohort = c /\ x.rule = rule /\ x.revision = r
                           /\ x.reviewer = a /\ x.policy = policy
  /\ approvals' = approvals \cup
       {[cohort |-> c, rule |-> rule, revision |-> r, reviewer |-> a,
         policy |-> policy, activation |-> activation]}
  /\ UNCHANGED <<policy, activation, canonical, cohorts, conflicts, findings,
                 composing, landing, db, landings>>

\* Any member of the cohort will do as the resolution.
ResolveConflict(k) ==
  /\ conflicts[k] = "open"
  /\ k[1] \in DOMAIN cohorts
  /\ conflicts' = [conflicts EXCEPT ![k] = "resolved"]
  /\ UNCHANGED <<policy, activation, canonical, cohorts, findings, approvals,
                 composing, landing, db, landings>>

-----------------------------------------------------------------------------
(* evaluateLanding: the decision is allow when there is no blocker. *)

OpenConflict(c) == \E k \in DOMAIN conflicts : k[1] = c /\ conflicts[k] = "open"

OpenFinding(c) == \E f \in DOMAIN findings : findings[f].cohort = c /\ findings[f].state = "open"

Approved(c, rule, r) ==
  \E x \in approvals : x.cohort = c /\ x.rule = rule /\ x.revision = r /\ x.policy = policy

Evidenced(d, r) ==
  r \in NeedsEvidence[policy] =>
    /\ d.evidence[r] # None
    /\ d.evidence[r].outcome = "passed"
    /\ d.evidence[r].validity = policy

Allowed(c, head, d) ==
  /\ cohorts[c].state # "landed"
  /\ cohorts[c].base = head
  /\ ~OpenConflict(c)
  /\ ~OpenFinding(c)
  /\ \A req \in Requirements(c) : Approved(c, req[1], req[2])
  /\ \A r \in cohorts[c].members : Evidenced(d, r)

\* land, up to its await.
BeginLand(q, c) ==
  /\ landing[q] = None
  /\ Allowed(c, canonical, db)
  /\ landing' = [landing EXCEPT ![q] =
       [cohort |-> c, read |-> cohorts[c], at |-> "called", loaded |-> db, current |-> TRUE]]
  /\ UNCHANGED <<coordinator, composing, db, landings>>

-----------------------------------------------------------------------------
(* SQLiteCohortLandingAuthority.landCohort.  A cohort that has landed is   *)
(* answered from its receipt.  After an earlier Landing the reconciliation *)
(* of its refs is awaited, with the snapshot already loaded.               *)

AuthorityReplays(q) ==
  /\ landing[q] # None
  /\ landing[q].at = "called"
  /\ landing[q].cohort \in DOMAIN landings
  /\ landing' = [landing EXCEPT ![q].at = "answered"]
  /\ UNCHANGED <<coordinator, composing, db, landings>>

AuthorityLoads(q) ==
  /\ landing[q] # None
  /\ landing[q].at = "called"
  /\ landing[q].cohort \notin DOMAIN landings
  /\ landing[q].read.base = db.actual
  /\ db.actual # 0
  /\ landing' = [landing EXCEPT ![q].at = "reconciling", ![q].loaded = db, ![q].current = TRUE]
  /\ UNCHANGED <<coordinator, composing, db, landings>>

Selectable(d, members) ==
  \A r \in members : Latest(d, r) /\ BaseOf[r] = d.actual

AcceptsUnseen(c, members, d) == Selectable(d, members)   \* mutant: gate not evaluated

\* commitSelection: the members and the policy gate on the loaded snapshot (the
\* gate brings the coordinator's canonical copy up to it), then the version fence.
Accepts(c, members, d) == Selectable(d, members) /\ Allowed(c, d.actual, d)

UnfencedCommit(q, d, current) ==   \* mutant: the version is not compared
  LET call == landing[q]
  IN  /\ Accepts(call.cohort, call.read.members, d)
      /\ db' = [d EXCEPT !.actual = @ + 1]
      /\ landings' = Set(landings, call.cohort,
           [revision |-> d.actual + 1, policy |-> policy, activation |-> activation,
            members |-> call.read.members])
      /\ landing' = [Outdated EXCEPT ![q].at = "answered"]
      /\ canonical' = d.actual

Commit(q, d, current) ==
  LET call == landing[q]
  IN  /\ Accepts(call.cohort, call.read.members, d)
      /\ current
      /\ db' = [d EXCEPT !.actual = @ + 1]
      /\ landings' = Set(landings, call.cohort,
           [revision |-> d.actual + 1, policy |-> policy, activation |-> activation,
            members |-> call.read.members])
      /\ landing' = [Outdated EXCEPT ![q].at = "answered"]
      /\ canonical' = d.actual

\* Without an earlier Landing, load and commit are one synchronous step.
AuthorityLands(q) ==
  /\ landing[q] # None
  /\ \/ /\ landing[q].at = "called"
        /\ landing[q].cohort \notin DOMAIN landings
        /\ landing[q].read.base = db.actual
        /\ db.actual = 0
        /\ Commit(q, db, TRUE)
     \/ /\ landing[q].at = "reconciling"
        /\ Commit(q, landing[q].loaded, landing[q].current)
  /\ UNCHANGED <<policy, activation, cohorts, conflicts, findings, approvals, composing>>

\* The authority refuses, the reconciliation is incomplete or the commit is
\* stale: land throws and the caller sees the error.
AuthoritySwallows(q) ==   \* mutant: the error is lost and nothing settles
  /\ landing[q] # None
  /\ landing[q].at = "reconciling"
  /\ UNCHANGED vars

AuthorityRefuses(q) ==
  /\ landing[q] # None
  /\ LET call == landing[q]
     IN  \/ /\ call.at = "called"
            /\ call.cohort \notin DOMAIN landings
            /\ \/ call.read.base # db.actual
               \/ db.actual = 0 /\ ~Accepts(call.cohort, call.read.members, db)
         \/ call.at = "reconciling"
  /\ landing' = [landing EXCEPT ![q] = None]
  /\ UNCHANGED <<coordinator, composing, db, landings>>

\* The cohort is written back from the copy read before the await.
FinishLand(q) ==
  /\ landing[q] # None
  /\ landing[q].at = "answered"
  /\ cohorts' = [cohorts EXCEPT ![landing[q].cohort] = [landing[q].read EXCEPT !.state = "landed"]]
  /\ landing' = [landing EXCEPT ![q] = None]
  /\ UNCHANGED <<policy, activation, canonical, conflicts, findings, approvals,
                 composing, db, landings>>

Next ==
  \/ \E r \in Revisions : Publish(r)
  \/ \E r \in Revisions, o \in {"passed", "failed"} : RecordEvidence(r, o)
  \/ SetCanonicalProjectRevision
  \/ \E v \in Policies : ActivatePolicy(v)
  \/ \E q \in Requests, id \in FreshCohortIds, members \in SUBSET Revisions :
       \E base \in {canonical} \cup {BaseOf[r] : r \in members} : BeginCreateCohort(q, id, members, base)
  \/ \E q \in Requests : FinishCreateCohort(q)
  \/ \E c \in DOMAIN cohorts : \E r \in cohorts[c].members : SubmitFinding(c, r)
  \/ \E f \in DOMAIN findings : ResolveFinding(f)
  \/ \E c \in DOMAIN cohorts, rule \in Rules, r \in Revisions, a \in Actors :
       Approve(c, rule, r, a)
  \/ \E k \in DOMAIN conflicts : ResolveConflict(k)
  \/ \E q \in Requests, c \in DOMAIN cohorts : BeginLand(q, c)
  \/ \E q \in Requests : AuthorityReplays(q)
  \/ \E q \in Requests : AuthorityLoads(q)
  \/ \E q \in Requests : AuthorityLands(q)
  \/ \E q \in Requests : AuthorityRefuses(q)
  \/ \E q \in Requests : FinishLand(q)

\* The event loop resumes a call whose promise has settled.
Fairness == \A q \in Requests : /\ WF_vars(FinishCreateCohort(q))
                                /\ WF_vars(AuthorityReplays(q) \/ AuthorityLoads(q)
                                             \/ AuthorityLands(q) \/ AuthorityRefuses(q))
                                /\ WF_vars(FinishLand(q))

Spec == Init /\ [][Next]_vars /\ Fairness

-----------------------------------------------------------------------------
(* Properties. *)

\* Every map of the coordinator and the authority holds records of its kind.
TypeOK ==
  /\ policy \in Policies /\ activation \in 0..MaxActivations
  /\ canonical \in Nat /\ db.actual \in Nat
  /\ DOMAIN cohorts \subseteq CohortIds
  /\ \A c \in DOMAIN cohorts :
       cohorts[c] \in [base : Nat, members : (SUBSET Revisions) \ {{}},
                       state : {"proposed", "blocked", "landed"}]
  /\ \A k \in DOMAIN conflicts : k[1] \in CohortIds /\ conflicts[k] \in {"open", "resolved"}
  /\ \A f \in DOMAIN findings :
       findings[f] \in [cohort : CohortIds, revision : Revisions, state : {"open", "resolved"}]
  /\ approvals \subseteq [cohort : CohortIds, rule : Rules, revision : Revisions,
                          reviewer : Actors, policy : Policies, activation : Nat]
  /\ db.published \in [Changes -> Seq(Revisions)]
  /\ DOMAIN landings \subseteq DOMAIN cohorts

\* Every landed revision that a rule affects was approved for that cohort, under
\* the policy it landed with, by a reviewer who neither wrote nor verified it
\* (approve, evaluateLanding, ADR 0035), whatever was activated, published or
\* requested while land was suspended.
LandedIsIndependentlyApproved ==
  \A c \in DOMAIN landings : \A rule \in Rules :
    \A r \in landings[c].members \cap Affected[rule] :
      \E x \in approvals :
        /\ x.cohort = c /\ x.rule = rule /\ x.revision = r
        /\ x.policy = landings[c].policy
        /\ x.reviewer \notin VerifiersOf[r] \cup {AuthorOf[r]}

\* Two landings never create the same Project Revision, and every landed member
\* was based on the revision its landing replaced (cohort-landing.ts), although
\* the coordinator's own canonical copy lags behind the authority.
LandingsAreSerial ==
  \A b, c \in DOMAIN landings :
    /\ landings[b].revision = landings[c].revision => b = c
    /\ \A r \in landings[c].members : BaseOf[r] + 1 = landings[c].revision

\* A step of the authority lands only the latest revisions of its Changes, with
\* no open Conflict or Finding in the cohort and Evidence that has passed at that
\* moment, not only when land was called (land, landCohort).
LandsOnFreshGate ==
  [][\A c \in DOMAIN landings' \ DOMAIN landings :
       /\ \A r \in cohorts[c].members : Latest(db, r)
       /\ ~OpenFinding(c) /\ ~OpenConflict(c)
       /\ \A r \in cohorts[c].members \cap NeedsEvidence[policy] :
            db.evidence[r] = [outcome |-> "passed", validity |-> policy]]_vars

\* The coordinator calls a cohort landed only if the authority landed it, with
\* those members (land checks the receipt).
LandedAgrees ==
  \A c \in DOMAIN cohorts : cohorts[c].state = "landed" =>
    c \in DOMAIN landings /\ landings[c].members = cohorts[c].members

\* A land call is answered: it does not stay suspended.
LandSettles == \A q \in Requests : landing[q] # None ~> landing[q] = None

\* The records have their types, and nothing landed that its author or its
\* verifier approved (approve, land).
ReviewSound == TypeOK /\ LandedIsIndependentlyApproved

\* Concurrent and repeated land calls are serial at the authority, and the
\* coordinator records as landed what the authority landed (land, landCohort).
LandingsAgree == LandingsAreSerial /\ LandedAgrees

-----------------------------------------------------------------------------
(* What the documentation or the code's own text says, and the code does   *)
(* not keep.                                                               *)

\* "Existing approvals remain historical records and are deliberately stale for
\* the new version" (activatePolicy): an approval counts only in the activation
\* it was given in.  A version may be activated again, and its old approvals
\* count again.
ApprovalsOfThisActivation ==
  \A c \in DOMAIN landings : \A rule \in Rules :
    \A r \in landings[c].members \cap Affected[rule] :
      \E x \in approvals : /\ x.cohort = c /\ x.rule = rule /\ x.revision = r
                           /\ x.activation = landings[c].activation

\* "A request for changes leaves the Change inspectable and not ready to Land"
\* (ADR 0005); a Finding "is attached to a stable Change and one immutable Change
\* Revision" (ADR 0035).  evaluateLanding looks only at Findings of its own
\* cohort, so the same revision lands in another.
NoLandingWithOpenFinding ==
  [][\A c \in DOMAIN landings' \ DOMAIN landings :
       \A f \in DOMAIN findings :
         findings[f].state = "open" => findings[f].revision \notin cohorts[c].members]_vars
=============================================================================
