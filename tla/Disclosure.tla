------------------------------ MODULE Disclosure ------------------------------
(* What the public sees of a Project that has private Source Spaces          *)
(* (disclosure/hybrid.ts) and the intake of public contributions             *)
(* (disclosure/public-intake.ts).  One Change, its effects and Evidence, the *)
(* Intents and Pull Requests around it, and the snapshots of the Source      *)
(* Spaces are kept as one authoritative record; each audience is shown a     *)
(* projection of it.  A Sealed Verifier reads private files and returns what *)
(* its contract discloses; a Publication Change puts a projection into the   *)
(* open for good.  A digest of some data is modelled by the data itself.     *)
EXTENDS Integers, Sequences, FiniteSets, Functions

CONSTANTS
  DsSpaces,          \* Source Spaces of the Project
  DsPublic,          \* those that are classified public
  DsItems,           \* ids of Evidence, Intents, comments and Pull Requests
  DsMaxSnapshot,     \* bounds
  DsMaxPublications,
  DsMaxSealed,
  DiLimit,           \* contributions the intake policy allows
  DiMaxRequests,     \* bound
  DsNone

ASSUME DsAssumption ==
  /\ {DsMaxPublications, DsMaxSealed, DiLimit, DiMaxRequests} \subseteq Nat
  /\ DsMaxSnapshot \in Nat \ {0}
  /\ DsPublic \subseteq DsSpaces

VARIABLES
  dsWorld,         \* the authoritative record of the Project
  dsPublications,  \* Publication Changes: a projection and a state
  dsSealed,        \* results a Sealed Verifier gave to callers
  dsClone,         \* what the destination of the public clone holds
  diIntake         \* the public intake controller

dsVars == <<dsWorld, dsPublications, dsSealed, dsClone>>
diVars == <<diIntake>>

DsClass == {"public", "project", "restricted"}

\* disclosureRank
DsRank(class) == CASE class = "public" -> 0 [] class = "project" -> 1 [] OTHER -> 2

DsItem == [id : DsItems, class : DsClass]

DsWorldSet == [snapshots : [DsSpaces -> 1 .. DsMaxSnapshot],
               affected : SUBSET DsSpaces, effects : SUBSET DsSpaces,
               evidence : SUBSET DsItem, intents : SUBSET DsItem, requests : SUBSET DsItem]

\* A projection: snapshots of the Source Spaces it was asked for.
DsProjectionSet == UNION {[ids -> 1 .. DsMaxSnapshot] : ids \in SUBSET DsSpaces}

DsResult == [audience : DsClass, level : {"status", "safe-summary", "redacted-findings", "authorized-detail"},
             summary : {"none", "safe", "restricted"}, findings : {"none", "safe", "restricted"}]

DiIntakeSet == [status : {"closed", "open", "suspended"}, requests : 0 .. DiMaxRequests,
                accepted : 0 .. DiLimit, denied : 0 .. DiMaxRequests, pending : 0 .. DiMaxRequests,
                mode : {"rate-limited", "approval-only"}]

DsTypeOK ==
  /\ dsWorld \in DsWorldSet
  /\ \A i \in DOMAIN dsPublications :
       /\ dsPublications[i].projection \in DsProjectionSet
       /\ dsPublications[i].state \in {"draft", "previewed", "approved", "landed", "revoked"}
  /\ dsSealed \subseteq DsResult
  /\ dsClone \in [kind : {"empty", "private", "partial", "public"}, holds : DsProjectionSet]
  /\ diIntake \in DiIntakeSet
  /\ diIntake.accepted + diIntake.denied + diIntake.pending <= diIntake.requests

DsInit ==
  /\ dsWorld = [snapshots |-> [s \in DsSpaces |-> 1], affected |-> {}, effects |-> {},
                evidence |-> {}, intents |-> {}, requests |-> {}]
  /\ dsPublications = <<>> /\ dsSealed = {}
  /\ dsClone = [kind |-> "empty", holds |-> <<>>]

DiInit ==
  diIntake = [status |-> "closed", requests |-> 0, accepted |-> 0, denied |-> 0, pending |-> 0,
              mode |-> "rate-limited"]

-----------------------------------------------------------------------------
(* Projections *)

DsAnySpaces(ids) == ids # {} /\ ids \subseteq DsSpaces   \* mutant: the classification is not read

\* publicSourceSpaceIds: a request that names a Source Space that is not
\* public, or not of the Project, is refused.
DsDisclosable(ids) == ids # {} /\ ids \subseteq DsPublic

\* createPublicProjection: every field comes from the selected Source Spaces.
DsProjection(w, ids) == Restrict(w.snapshots, ids)

\* The projections a public caller can get.
DsProjections(w) == {DsProjection(w, ids) : ids \in {ids \in SUBSET DsSpaces : DsDisclosable(ids)}}

DsVisible(items, audience) == {i \in items : DsRank(i.class) <= DsRank(audience)}

\* summarizeIntentForAudience, with its comments, and summarizePullRequestForAudience.
DsIntentSummaries(w, audience) == DsVisible(w.intents, audience)

\* The Change of a Pull Request is named to the inner audiences only.
DsRequestSummaries(w, audience) ==
  {[request |-> r, change |-> IF audience = "public" THEN DsNone ELSE "change"] :
     r \in DsVisible(w.requests, audience)}

\* summarizeChangeForAudience: an inner audience sees every effect and all Evidence.
DsChangeSummary(w, audience, projection) ==
  LET visible == IF audience = "public" THEN w.effects \cap DsPublic ELSE w.effects
      affected == IF audience = "public" THEN w.affected \cap DsPublic ELSE w.affected
  IN [affected |-> affected \cup visible,
      effects |-> visible,
      evidence |-> IF audience = "public" THEN {e \in w.evidence : e.class = "public"} ELSE w.evidence,
      change |-> IF audience = "public" THEN <<"public-change", projection, "change">> ELSE "change"]

DsPublicView(w) ==
  [projections |-> DsProjections(w),
   intents |-> DsIntentSummaries(w, "public"),
   requests |-> DsRequestSummaries(w, "public"),
   changes |-> {DsChangeSummary(w, "public", p) : p \in DsProjections(w)}]

-----------------------------------------------------------------------------
(* The record of the Project moves on: outside this component *)

DsEdit(s) ==
  /\ dsWorld.snapshots[s] < DsMaxSnapshot
  /\ dsWorld' = [dsWorld EXCEPT !.snapshots[s] = @ + 1, !.affected = @ \cup {s}]
  /\ UNCHANGED <<dsPublications, dsSealed, dsClone>>

DsDeclareEffect(s) ==
  /\ s \notin dsWorld.effects
  /\ dsWorld' = [dsWorld EXCEPT !.effects = @ \cup {s}]
  /\ UNCHANGED <<dsPublications, dsSealed, dsClone>>

DsAddItem(item) ==
  /\ \A i \in dsWorld.evidence \cup dsWorld.intents \cup dsWorld.requests : i.id # item.id
  /\ \E part \in {"evidence", "intents", "requests"} :
       dsWorld' = [dsWorld EXCEPT ![part] = @ \cup {item}]
  /\ UNCHANGED <<dsPublications, dsSealed, dsClone>>

-----------------------------------------------------------------------------
(* Sealed verification *)

\* containsRestrictedMarker of the payload that the verifier calls safe.
DsRestricted(payload) == "restricted" \in {payload.summary, payload.findings}

\* What a contract's level lets through of the payload.
DsDisclosed(level, payload) ==
  [summary |-> IF level = "status" THEN "none" ELSE payload.summary,
   findings |-> IF level \in {"redacted-findings", "authorized-detail"} THEN payload.findings
                ELSE "none"]

\* runSealedVerifier: the audience is allowed by the contract; a refusal leaves nothing.
DsRunSealed(audience, level, payload, id) ==
  /\ Cardinality(dsSealed) < DsMaxSealed
  /\ \A i \in dsWorld.evidence \cup dsWorld.intents \cup dsWorld.requests : i.id # id
  /\ ~ (audience = "public" /\ level = "authorized-detail")
  /\ (audience = "public" \/ level # "authorized-detail") => ~ DsRestricted(payload)
  /\ level \in {"safe-summary", "redacted-findings"} =>
       payload.summary # "none" \/ payload.findings # "none"
  /\ dsSealed' = dsSealed \cup
       {[audience |-> audience, level |-> level, summary |-> DsDisclosed(level, payload).summary,
         findings |-> DsDisclosed(level, payload).findings]}
  /\ dsWorld' = [dsWorld EXCEPT !.evidence = @ \cup {[id |-> id, class |-> audience]}]
  /\ UNCHANGED <<dsPublications, dsClone>>

-----------------------------------------------------------------------------
(* Publication Changes and the public clone *)

DsPublish(ids) ==
  /\ Len(dsPublications) < DsMaxPublications
  /\ DsDisclosable(ids)
  /\ dsPublications' = Append(dsPublications,
       [projection |-> DsProjection(dsWorld, ids), state |-> "draft"])
  /\ UNCHANGED <<dsWorld, dsSealed, dsClone>>

DsMove(i, from, to) ==
  /\ dsPublications[i].state \in from
  /\ dsPublications' = [dsPublications EXCEPT ![i].state = to]
  /\ UNCHANGED <<dsWorld, dsSealed, dsClone>>

DsPreview(i) == DsMove(i, {"draft", "previewed"}, "previewed")
DsApprove(i) == DsMove(i, {"previewed"}, "approved")
DsLand(i)    == DsMove(i, {"approved", "previewed"}, "landed")
DsRevoke(i)  == DsMove(i, {"landed"}, "revoked")

\* materializePublicProjection into an empty directory; when the repository
\* cannot be made or the commit fails, what was written so far stays.
DsMaterialize(ids, succeeds) ==
  /\ dsClone.kind = "empty" /\ DsDisclosable(ids)
  /\ dsClone' = [kind |-> IF succeeds THEN "public" ELSE "partial",
                 holds |-> DsProjection(dsWorld, ids)]
  /\ UNCHANGED <<dsWorld, dsPublications, dsSealed>>

\* The directory is a checkout of private sources, or it is emptied.
DsDirectory(kind) ==
  /\ dsClone.kind # kind
  /\ dsClone' = [kind |-> kind,
                 holds |-> IF kind = "empty" THEN <<>> ELSE DsProjection(dsWorld, DsSpaces)]
  /\ UNCHANGED <<dsWorld, dsPublications, dsSealed>>

DsNext ==
  \/ \E s \in DsSpaces : DsEdit(s) \/ DsDeclareEffect(s)
  \/ \E item \in DsItem : DsAddItem(item)
  \/ \E audience \in DsClass, id \in DsItems,
        level \in {"status", "safe-summary", "redacted-findings", "authorized-detail"},
        payload \in [summary : {"none", "safe", "restricted"}, findings : {"none", "safe", "restricted"}] :
       DsRunSealed(audience, level, payload, id)
  \/ \E ids \in SUBSET DsSpaces :
       \/ DsPublish(ids)
       \/ \E succeeds \in BOOLEAN : DsMaterialize(ids, succeeds)
  \/ \E i \in DOMAIN dsPublications : DsPreview(i) \/ DsApprove(i) \/ DsLand(i) \/ DsRevoke(i)
  \/ \E kind \in {"empty", "private"} : DsDirectory(kind)

-----------------------------------------------------------------------------
(* The public intake *)

DiOpen == diIntake.status = "closed" /\ diIntake' = [diIntake EXCEPT !.status = "open"]

DiSuspend == diIntake.status # "suspended" /\ diIntake' = [diIntake EXCEPT !.status = "suspended"]

DiReopen == diIntake.status = "suspended" /\ diIntake' = [diIntake EXCEPT !.status = "open"]

DiCleanup == diIntake' = [diIntake EXCEPT !.status = "closed", !.pending = 0]

\* A controller is made with the other mode.
DiOtherMode ==
  /\ diIntake.requests = 0 /\ diIntake.status = "closed" /\ diIntake.mode = "rate-limited"
  /\ diIntake' = [diIntake EXCEPT !.mode = "approval-only"]

\* Every request counts against the limit, the denied ones too.
DiSubmit ==
  /\ diIntake.requests < DiMaxRequests
  /\ diIntake' = LET counted == [diIntake EXCEPT !.requests = @ + 1] IN
       CASE diIntake.status # "open" -> [counted EXCEPT !.denied = @ + 1]
         [] diIntake.status = "open" /\ diIntake.mode = "approval-only" -> [counted EXCEPT !.pending = @ + 1]
         [] OTHER -> IF counted.requests > DiLimit THEN [counted EXCEPT !.denied = @ + 1]
                     ELSE [counted EXCEPT !.accepted = @ + 1]

DiNext == DiOpen \/ DiSuspend \/ DiReopen \/ DiCleanup \/ DiOtherMode \/ DiSubmit

DsSpec == DsInit /\ DiInit /\ [][(DsNext /\ UNCHANGED diVars) \/ (DiNext /\ UNCHANGED dsVars)]_<<dsVars, diVars>>

-----------------------------------------------------------------------------

\* The record with everything that is not public taken out of it.
DsErased(w) ==
  [snapshots |-> [s \in DsSpaces |-> IF s \in DsPublic THEN w.snapshots[s] ELSE 1],
   affected |-> w.affected \cap DsPublic, effects |-> w.effects \cap DsPublic,
   evidence |-> DsVisible(w.evidence, "public"), intents |-> DsVisible(w.intents, "public"),
   requests |-> DsVisible(w.requests, "public")]

\* The public learns nothing of what is private: all it can ask for, projections
\* of every selection, Intents, Pull Requests and Changes, is the same as if the
\* private part of the record did not exist; no public result of a Sealed
\* Verifier carries a restricted marker or more than its level; and neither a
\* publication nor a public clone holds a private Source Space
\* (createPublicProjection, the summaries, runSealedVerifier, materialize).
DsPublicIsPublic ==
  /\ DsPublicView(dsWorld) = DsPublicView(DsErased(dsWorld))
  /\ \A r \in dsSealed : r.audience = "public" =>
       /\ "restricted" \notin {r.summary, r.findings}
       /\ r.level = "status" => r.summary = "none" /\ r.findings = "none"
  /\ \A i \in DOMAIN dsPublications : DOMAIN dsPublications[i].projection \subseteq DsPublic
  /\ dsClone.kind # "private" => DOMAIN dsClone.holds \subseteq DsPublic
=============================================================================
