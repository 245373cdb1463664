------------------------ MODULE AuthorityPullRequests ------------------------
(***************************************************************************)
(* Pull Requests and the Repository Mirror of AuthorityPlaneCoordinator    *)
(* (src/cloudflare/authority-plane.ts).  A Pull Request is a projection of *)
(* one Change that reviewers approve; mirror.sync and mirror.reconcile     *)
(* turn the proposals of an external host into Changes, Change Revisions   *)
(* and Pull Requests.  The host delivers its events at least once, in any  *)
(* order, and reports any status.                                          *)
(*                                                                         *)
(* There is one configured Mirror, of which only the remote generation is  *)
(* kept: no command reads its state, its pending Changes or the records of *)
(* its operations.  Refs are left out next to the commits they point at;   *)
(* revisionIds is a set, since a Pull Request only ever appends to it.  A  *)
(* proposal names its base commit, and its kind is pull-request: the kinds *)
(* ref and commit do the same without the projection.  The session is the  *)
(* signed Mirror coordinator's, which must name a delivery; the            *)
(* RepositoryDriver's observation of the head is external and holds.       *)
(***************************************************************************)
EXTENDS Authority

CONSTANTS
  PullRequestIds,
  ProposalKeys,        \* external keys: the host's Pull Requests
  Deliveries,          \* delivery ids of the host's events
  Generations,         \* remote generations the Mirror meets
  FirstGeneration      \* the generation it is configured with

ASSUME PullRequestAssumption ==
  /\ FirstGeneration \in Generations
  /\ None \notin ProposalKeys \cup Deliveries \cup Generations

VARIABLES
  pullRequests,        \* id -> record
  remoteGeneration,    \* of the Mirror
  proposals,           \* key -> externalProposals
  deliveries           \* delivery id -> proposal key: mirrorDeliveries

prVars == <<lineage, pullRequests, remoteGeneration, proposals, deliveries>>

-----------------------------------------------------------------------------
(* The records. *)

\* A review that does not approve clears the approval; what it was bound to
\* is not read again.
Review ==
  [state     : {"pending", "approved"},
   head      : Commits \cup {None},
   base      : Commits \cup {None},
   revisions : SUBSET RevisionIds]              \* reviewRevisionSetDigest

NoReview ==
  [state |-> "pending", head |-> None, base |-> None, revisions |-> {}]

PullRequest ==
  [change    : ChangeIds,
   key       : ProposalKeys \cup {None},        \* externalKey
   head      : Commits,
   base      : Commits,
   status    : {"open", "closed", "blocked", "merged"},
   review    : Review,
   revisions : SUBSET RevisionIds]

Proposal ==
  [change    : ChangeIds,
   head      : Commits,                         \* latestHeadCommit
   observed  : SUBSET Commits,                  \* observedHeadCommits
   revisions : SUBSET RevisionIds,              \* changeRevisionIds
   status    : {"open", "closed", "merged", "blocked"}]

PrTypeOK ==
  /\ LineageTypeOK
  /\ IsMap(pullRequests, PullRequestIds, PullRequest)
  /\ remoteGeneration \in Generations
  /\ IsMap(proposals, ProposalKeys, Proposal)
  /\ IsMap(deliveries, Deliveries, ProposalKeys \cup {None})

\* The Mirror is configured: mirror.configure.
PrInit ==
  /\ LineageInit
  /\ pullRequests = [x \in {} |-> None]
  /\ remoteGeneration = FirstGeneration
  /\ proposals = [k \in {} |-> None]
  /\ deliveries = [d \in {} |-> None]

-----------------------------------------------------------------------------
(* pullRequest.open, update and review. *)

RevisionsOf(c) == {r \in DOMAIN changeRevisions : changeRevisions[r].change = c}

OpenPullRequest(c, key, head, base, revs) ==
  /\ HasFresh(pullRequests, PullRequestIds)
  /\ c \in DOMAIN changes
  /\ revs \subseteq RevisionsOf(c)
  /\ pullRequests' =
       Set(pullRequests, Fresh(pullRequests, PullRequestIds),
           [change |-> c, key |-> key, head |-> head, base |-> base,
            status |-> "open", review |-> NoReview, revisions |-> revs])
  /\ UNCHANGED <<lineage, remoteGeneration, proposals, deliveries>>

\* The context a review is about.
Context(pr) == <<pr.head, pr.base, pr.revisions>>

\* invalidatePullRequestReview, when the context changed.
Reviewed(old, new) ==
  IF Context(new) # Context(old) THEN [new EXCEPT !.review = NoReview] ELSE new

UpdatePullRequest(x, head, base, newRevisions) ==
  LET old == pullRequests[x]
      new == [old EXCEPT !.head = head, !.base = base,
                         !.revisions = @ \cup newRevisions]
  IN  /\ old.status # "merged"
      /\ newRevisions \subseteq RevisionsOf(old.change)
      /\ pullRequests' = [pullRequests EXCEPT ![x] = Reviewed(old, new)]
      /\ UNCHANGED <<lineage, remoteGeneration, proposals, deliveries>>

ReviewPullRequest(x, approves) ==
  LET old == pullRequests[x]
  IN  /\ old.status # "merged"
      /\ pullRequests' = [pullRequests EXCEPT ![x].review =
           IF approves THEN [state |-> "approved", head |-> old.head,
                             base |-> old.base, revisions |-> old.revisions]
                       ELSE NoReview]
      /\ UNCHANGED <<lineage, remoteGeneration, proposals, deliveries>>

-----------------------------------------------------------------------------
(* pullRequest.close, reopen, block and merge. *)

\* PULL_REQUEST_TRANSITIONS
Transitions ==
  [open    |-> {"closed", "blocked", "merged"},
   closed  |-> {"open"},
   blocked |-> {"open"},
   merged  |-> {}]

\* pullRequestApprovalIsCurrent
ApprovalIsCurrent(pr) ==
  /\ pr.review.state = "approved"
  /\ <<pr.review.head, pr.review.base, pr.review.revisions>> = Context(pr)

Mergeable(pr) ==
  /\ changes[pr.change].status = "landed"
  /\ ApprovalIsCurrent(pr)

MovePullRequest(x, desired) ==
  /\ desired \in Transitions[pullRequests[x].status]
  /\ desired = "merged" => Mergeable(pullRequests[x])
  /\ pullRequests' = [pullRequests EXCEPT ![x].status = desired]
  /\ UNCHANGED <<lineage, remoteGeneration, proposals, deliveries>>

-----------------------------------------------------------------------------
(* mirror.sync and mirror.reconcile.  A delivery that is in the ledger is  *)
(* answered from it and changes nothing.                                   *)

\* A sync names the remote generation it expects, None being one that the
\* Mirror never had; mirror.reconcile does not compare it.
Operations ==
  [kind : {"sync"}, expected : Generations \cup {None}]
    \cup [kind : {"remote-as-proposal", "canonical-wins"}, expected : {None}]

\* A sync that did not expect the Mirror's generation is blocked; otherwise
\* the provider's outcome stands.  Every outcome but success is alike here.
Succeeds(op, succeeded) ==
  succeeded /\ (op.kind = "sync" => op.expected = remoteGeneration)

\* Only a success moves the boundary.
GenerationAfter(succeeds, actual) ==
  IF succeeds THEN actual ELSE remoteGeneration

AnyDelivery(d) == TRUE   \* mutant: the ledger is not asked

FirstDelivery(d) == d \notin DOMAIN deliveries

\* The delivery is recorded whatever becomes of the operation.
Recorded(d, key) ==
  IF d = None THEN deliveries ELSE Set(deliveries, d, key)

\* An operation that imports nothing: it carries no proposal, it did not
\* succeed, or the canonical side wins.
SyncMirror(op, actual, succeeded, d, key) ==
  LET succeeds == Succeeds(op, succeeded)
  IN  /\ FirstDelivery(d)
      /\ key # None => ~succeeds \/ op.kind = "canonical-wins"
      /\ remoteGeneration' = GenerationAfter(succeeds, actual)
      /\ deliveries' = Recorded(d, key)
      /\ UNCHANGED <<lineage, pullRequests, proposals>>

\* The stable Change of a proposal: the one it has, or a new one on the
\* canonical Project Revision (a nested change.create).
ProposalChangeId(key) ==
  IF key \in DOMAIN proposals THEN proposals[key].change
                              ELSE Fresh(changes, ChangeIds)

ProposalChange(key) ==
  IF key \in DOMAIN proposals THEN changes[proposals[key].change]
                              ELSE NewChange(canonical, None)

Observed(key) ==
  IF key \in DOMAIN proposals THEN proposals[key].observed ELSE {}

IsNewDelivery(key, head) == TRUE   \* mutant: every delivery is a new head

IsNewHead(key, head) == head \notin Observed(key)

\* A head seen for the first time is published (a nested revision.publish,
\* which a landed Change refuses, and with it the whole command).
ImportHead(key, head, candidate, view) ==
  LET c == ProposalChangeId(key)
      change == ProposalChange(key)
      r == Fresh(changeRevisions, RevisionIds)
  IN  IF IsNewHead(key, head)
        THEN /\ HasFresh(changeRevisions, RevisionIds)
             /\ key \in DOMAIN proposals => Publishable(c)
             /\ changeRevisions' =
                  Set(changeRevisions, r,
                      NewRevision(c, change, candidate, view, head))
             /\ changes' = Set(changes, c, Submitted(change, r))
        ELSE /\ changes' = Set(changes, c, change)
             /\ UNCHANGED changeRevisions

NewRevisions(key, head) ==
  IF IsNewHead(key, head) THEN {Fresh(changeRevisions, RevisionIds)} ELSE {}

ImportedProposal(key, head, status) ==
  [change |-> ProposalChangeId(key), head |-> head,
   observed |-> Observed(key) \cup {head},
   revisions |-> (IF key \in DOMAIN proposals THEN proposals[key].revisions
                                              ELSE {})
                   \cup NewRevisions(key, head),
   status |-> status]

\* "merged" on the host is "blocked" here until the Change has landed.
ProjectedStatus(key, status) ==
  IF status = "merged" /\ ProposalChange(key).status # "landed"
    THEN "blocked" ELSE status

\* The projection of a Pull Request that is not merged yet.
Projected(pr, key, head, base, status) ==
  Reviewed(pr, [pr EXCEPT !.head = head, !.base = base,
                          !.status = ProjectedStatus(key, status),
                          !.revisions = @ \cup NewRevisions(key, head)])

IsTerminal(pr) == pr.status = "merged"

\* One Pull Request carries the key: a matching one, or a new one.
ProjectPullRequest(key, head, base, status) ==
  LET matching == {x \in DOMAIN pullRequests : pullRequests[x].key = key}
  IN  \/ /\ matching = {}
         /\ HasFresh(pullRequests, PullRequestIds)
         /\ pullRequests' =
              Set(pullRequests, Fresh(pullRequests, PullRequestIds),
                  [change |-> ProposalChangeId(key), key |-> key,
                   head |-> head, base |-> base,
                   status |-> ProjectedStatus(key, status),
                   review |-> NoReview,
                   revisions |-> NewRevisions(key, head)])
      \/ \E x \in matching :
           pullRequests' =
             IF IsTerminal(pullRequests[x]) THEN pullRequests
             ELSE [pullRequests EXCEPT ![x] =
                     Projected(pullRequests[x], key, head, base, status)]

\* A proposal is imported against the canonical Project Revision, through a
\* View of it.
ImportProposal(op, actual, d, key, head, status, candidate, view) ==
  /\ d # None
  /\ FirstDelivery(d)
  /\ Succeeds(op, TRUE)
  /\ op.kind # "canonical-wins"
  /\ view \in DOMAIN workspaces
  /\ workspaces[view].base = canonical
  /\ key \in DOMAIN proposals \/ HasFresh(changes, ChangeIds)
  /\ ImportHead(key, head, candidate, view)
  /\ proposals' = Set(proposals, key, ImportedProposal(key, head, status))
  /\ ProjectPullRequest(key, head, projectRevisions[canonical].snapshot, status)
  /\ deliveries' = Recorded(d, key)
  /\ remoteGeneration' = GenerationAfter(TRUE, actual)
  /\ UNCHANGED <<projectRevisions, canonical, workspaces>>

-----------------------------------------------------------------------------
PullRequestNext ==
  \/ \E c \in DOMAIN changes, key \in ProposalKeys \cup {None},
        head, base \in Commits :
       \E revs \in SUBSET RevisionsOf(c) :
         OpenPullRequest(c, key, head, base, revs)
  \/ \E x \in DOMAIN pullRequests :
       \/ \E head, base \in Commits,
             revs \in {{}} \cup {{r} : r \in DOMAIN changeRevisions} :
            UpdatePullRequest(x, head, base, revs)
       \/ \E approves \in BOOLEAN : ReviewPullRequest(x, approves)
       \/ \E desired \in {"closed", "open", "blocked", "merged"} :
            MovePullRequest(x, desired)

MirrorNext ==
  \E op \in Operations, actual \in Generations :
    \/ \E succeeded \in BOOLEAN :
         \/ SyncMirror(op, actual, succeeded, None, None)
         \/ \E d \in Deliveries, key \in ProposalKeys \cup {None} :
              SyncMirror(op, actual, succeeded, d, key)
    \/ \E d \in Deliveries, key \in ProposalKeys, head \in Commits,
          status \in {"open", "closed", "merged", "blocked"},
          candidate \in Candidates, view \in DOMAIN workspaces :
         ImportProposal(op, actual, d, key, head, status, candidate, view)

PrNext ==
  \/ LineageNext /\ UNCHANGED <<pullRequests, remoteGeneration, proposals, deliveries>>
  \/ PullRequestNext
  \/ MirrorNext

PrSpec == PrInit /\ [][PrNext]_prVars

-----------------------------------------------------------------------------
(* What holds. *)

\* An approval is only ever shown for the head, the base and the revisions
\* the reviewer saw: commands and the Mirror both withdraw it when one of
\* them changes (docs/adr/0102, invalidatePullRequestReview).
ApprovalsAreCurrent ==
  \A x \in DOMAIN pullRequests :
    pullRequests[x].review.state = "approved" =>
      ApprovalIsCurrent(pullRequests[x])

\* A merged Pull Request is terminal for every actor, the Mirror included:
\* nothing of it changes again (docs/adr/0102 "status=merged is terminal").
MergedIsTerminal ==
  [][\A x \in DOMAIN pullRequests :
       pullRequests[x].status = "merged" =>
         pullRequests'[x] = pullRequests[x]]_prVars

\* Each head the host showed became exactly one Change Revision of the
\* proposal's one Change, however often and in whatever order its events
\* were delivered (observedHeadCommits, mirrorDeliveries).
HeadsImportedOnce ==
  \A k \in DOMAIN proposals :
    LET p == proposals[k]
    IN  /\ p.revisions \subseteq RevisionsOf(p.change)
        /\ p.observed = {changeRevisions[r].snapshot : r \in p.revisions}
        /\ \A r, s \in p.revisions :
             changeRevisions[r].snapshot = changeRevisions[s].snapshot => r = s

\* A late copy of an event cannot move a proposal, or the Pull Request that
\* mirrors it, back: they follow the host only on a delivery that was not
\* recorded before.
RedeliveryMovesNothing ==
  [][\A k \in DOMAIN proposals :
       proposals'[k] # proposals[k] => DOMAIN deliveries' # DOMAIN deliveries
    ]_prVars

\* A Pull Request that carries a key no local caller attached to another
\* Change is merged only when its Change has landed, whatever the host says.
MergedIsLanded ==
  \A x \in DOMAIN pullRequests :
    LET pr == pullRequests[x]
    IN  pr.status = "merged"
          /\ (pr.key \in DOMAIN proposals => proposals[pr.key].change = pr.change)
        => changes[pr.change].status = "landed"

\* The records have their types, and every snapshot can be loaded again.
RecordsRestorable == PrTypeOK /\ LineageRestorable

\* Each head is one revision, an approval is of what the Pull Request now is, and
\* only landed work is merged, whatever the host delivers and in what order.
PullRequestsSound == HeadsImportedOnce /\ ApprovalsAreCurrent /\ MergedIsLanded

\* Neither a merge nor a delivery that was recorded is taken back by later events.
PullRequestsSettle == MergedIsTerminal /\ RedeliveryMovesNothing

-----------------------------------------------------------------------------
(* What the documents say and the code does not do. *)

\* docs/adr/0108: "Direct merge from closed or blocked is impossible without
\* explicit reopen."  The Mirror writes the status the host reports.
NoMergeWithoutReopen ==
  [][\A x \in DOMAIN pullRequests :
       /\ pullRequests[x].status \in {"closed", "blocked"}
       => pullRequests'[x].status # "merged"]_prVars

\* docs/adr/0102: "A new source state requires a new review."
\* revision.publish and landing.apply do not look at the Pull Request, so
\* the revision that landed need not be one that was approved.
MergedAsReviewed ==
  \A x \in DOMAIN pullRequests :
    LET pr == pullRequests[x]
    IN  pr.status = "merged" =>
          ApprovalIsCurrent(pr) /\ changes[pr.change].latest \in pr.revisions

\* docs/adr/0017: the adapter "deduplicates retries".  A delivery whose
\* sync was blocked is in the ledger too, and its retry imports nothing.
RecordedIsImported ==
  \A d \in DOMAIN deliveries :
    deliveries[d] # None => deliveries[d] \in DOMAIN proposals
=============================================================================
