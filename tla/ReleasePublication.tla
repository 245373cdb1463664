------------------------- MODULE ReleasePublication -------------------------
(* Publication of an Artifact to a Target that is not a runtime: a download  *)
(* channel or a package registry (ReleasePublicationCoordinator in           *)
(* delivery/release-publication.ts), through the adapter for GitHub Releases *)
(* (portability/github-release-assets.ts).  A publication is a series of     *)
(* calls to the provider: find the Release of the tag, create a draft,       *)
(* upload the Artifact and its manifest, publish the draft, look again.  An  *)
(* answer may be lost after the call took effect, and other publications go  *)
(* on between any two calls.                                                 *)
EXTENDS Integers, Sequences

CONSTANTS
  RpArtifacts,       \* Artifacts of the registered Releases
  RpReleaseOf,       \* Artifact -> its Release, whose digest is the tag
  RpAssetName,       \* Artifact -> the last part of its output path
  RpMaxPublications, \* bound on publications; their ids are given in order
  RpMaxAttempts,     \* bound on the attempts of one publication
  RpMaxDrafts,       \* bound on the Releases the provider is made to create
  RpNone

ASSUME RpAssumption ==
  /\ RpNone \notin RpArtifacts
  /\ RpMaxPublications \in Nat /\ RpMaxAttempts \in Nat /\ RpMaxDrafts \in Nat

RpPublications == 1 .. RpMaxPublications
RpTags == {RpReleaseOf[a] : a \in RpArtifacts}
RpNames == {RpAssetName[a] : a \in RpArtifacts}

VARIABLES
  rpTarget,      \* current Artifact, history of Releases, state, and whether a
                 \* published Release of this repository is immutable
  rpRecord,      \* publication -> its record
  rpCall,        \* publication -> where its call of the adapter is
  rpProvider     \* the Releases of the repository, in the order of creation

rpVars == <<rpTarget, rpRecord, rpCall, rpProvider>>

RpStates == {"absent", "proposed", "publishing", "published", "failed", "blocked", "degraded"}
RpTarget == [state : {"absent", "configured", "published", "degraded"},
             current : RpArtifacts \cup {RpNone}, history : Seq(RpTags),
             immutable : BOOLEAN]
RpRecord == [state : RpStates, artifact : RpArtifacts \cup {RpNone},
             attempt : 0 .. RpMaxAttempts, providerRelease : 0 .. RpMaxDrafts]
\* What the adapter holds between two calls: the Release it works on and the
\* asset names it saw there when it last looked.
RpCall == [at : {"none", "find", "create", "createLost", "artifact", "manifest",
                 "beforePublish", "publish", "final"},
           release : 0 .. RpMaxDrafts, seen : SUBSET (RpNames \X {"bytes", "manifest"})]
\* An asset has a name and the Artifact whose bytes, or manifest, it holds.
RpProviderRelease == [tag : RpTags, draft : BOOLEAN,
                      assets : SUBSET (RpNames \X {"bytes", "manifest"} \X RpArtifacts)]

RpTypeOK ==
  /\ rpTarget \in RpTarget
  /\ rpRecord \in [RpPublications -> RpRecord]
  /\ rpCall \in [RpPublications -> RpCall]
  /\ rpProvider \in Seq(RpProviderRelease)

RpIdle == [at |-> "none", release |-> 0, seen |-> {}]

RpInit ==
  /\ rpTarget = [state |-> "absent", current |-> RpNone, history |-> << >>,
                 immutable |-> TRUE]
  /\ rpRecord = [p \in RpPublications |->
       [state |-> "absent", artifact |-> RpNone, attempt |-> 0, providerRelease |-> 0]]
  /\ rpCall = [p \in RpPublications |-> RpIdle]
  /\ rpProvider = << >>

\* createReleaseAssetTarget and the constructor, for a repository whose
\* published Releases are immutable or not.
RpConfigure(immutable) ==
  /\ rpTarget.state = "absent"
  /\ rpTarget' = [rpTarget EXCEPT !.state = "configured", !.immutable = immutable]
  /\ UNCHANGED <<rpRecord, rpCall, rpProvider>>

-----------------------------------------------------------------------------
(* publish and retry *)

\* execute, up to the call of the adapter.
RpExecute(p, rec) ==
  /\ rpRecord' = [rpRecord EXCEPT ![p] = [rec EXCEPT !.state = "publishing"]]
  /\ rpCall' = [rpCall EXCEPT ![p] = [RpIdle EXCEPT !.at = "find"]]
  /\ UNCHANGED <<rpTarget, rpProvider>>

\* The Target pointer the caller expects is compared here and never again.
RpPublish(p, a, expected) ==
  /\ rpTarget.state # "absent"
  /\ rpRecord[p].state = "absent"
  /\ \A q \in 1 .. p - 1 : rpRecord[q].state # "absent"
  /\ expected = rpTarget.current
  /\ RpExecute(p, [state |-> "proposed", artifact |-> a, attempt |-> 0, providerRelease |-> 0])

RpRetry(p) ==
  /\ rpRecord[p].state \in {"failed", "blocked", "degraded"}
  /\ rpRecord[p].attempt < RpMaxAttempts
  /\ RpExecute(p, [rpRecord[p] EXCEPT !.attempt = @ + 1])

\* The adapter answered that it failed: nothing was changed, or nobody knows.
RpFail(p, state) ==
  /\ rpRecord' = [rpRecord EXCEPT ![p].state = state]
  /\ rpCall' = [rpCall EXCEPT ![p] = RpIdle]
  /\ rpTarget' = IF state = "degraded" THEN [rpTarget EXCEPT !.state = "degraded"] ELSE rpTarget

-----------------------------------------------------------------------------
(* publishDetached, from one call of the provider to the next *)

RpArtifactOf(p) == rpRecord[p].artifact
RpAsset(p, kind) == <<RpAssetName[RpArtifactOf(p)], kind>>
RpSeen(i) == {<<x[1], x[2]>> : x \in rpProvider[i].assets}

RpGoesTo(p, at, i) ==
  /\ rpCall' = [rpCall EXCEPT ![p] = [at |-> at, release |-> i, seen |-> RpSeen(i)]]
  /\ UNCHANGED <<rpTarget, rpRecord>>

\* What may become of a request: it is done or not and, when done, answered or
\* not.  A request that failed in a way that may pass is repeated by the client.
RpAnswered(done, answered) == answered => done

\* The first Release of the tag, drafts included.
RpByTag(p) ==
  {i \in DOMAIN rpProvider :
     /\ rpProvider[i].tag = RpReleaseOf[RpArtifactOf(p)]
     /\ \A j \in 1 .. i - 1 : rpProvider[j].tag # rpProvider[i].tag}

\* The bytes cannot be read, differ from the digest, or may not be disclosed
\* to this repository: nothing was called.
RpRefused(p, state) ==
  /\ rpCall[p].at = "find"
  /\ RpFail(p, state)
  /\ UNCHANGED rpProvider

\* Any call that only reads may fail, and so may the credential it needs.
RpReadFails(p) ==
  /\ rpCall[p].at \in {"find", "createLost", "artifact", "manifest", "beforePublish", "final"}
  /\ RpFail(p, "degraded")
  /\ UNCHANGED rpProvider

RpFind(p) ==
  /\ rpCall[p].at = "find"
  /\ IF RpByTag(p) = {}
       THEN rpCall' = [rpCall EXCEPT ![p].at = "create"] /\ UNCHANGED <<rpTarget, rpRecord>>
       ELSE \E i \in RpByTag(p) : RpGoesTo(p, "artifact", i)
  /\ UNCHANGED rpProvider

RpCreate(p, done, answered) ==
  /\ rpCall[p].at = "create"
  /\ RpAnswered(done, answered)
  /\ done => Len(rpProvider) < RpMaxDrafts
  /\ rpProvider' = IF done THEN Append(rpProvider, [tag |-> RpReleaseOf[RpArtifactOf(p)],
                                                    draft |-> TRUE, assets |-> {}])
                   ELSE rpProvider
  /\ rpCall' = [rpCall EXCEPT ![p] =
       IF answered THEN [at |-> "artifact", release |-> Len(rpProvider'), seen |-> {}]
       ELSE [RpIdle EXCEPT !.at = "createLost"]]
  /\ UNCHANGED <<rpTarget, rpRecord>>

RpCreateLost(p) ==
  /\ rpCall[p].at = "createLost"
  /\ IF RpByTag(p) = {} THEN RpFail(p, "degraded")
     ELSE \E i \in RpByTag(p) : RpGoesTo(p, "artifact", i)
  /\ UNCHANGED rpProvider

\* verifyDownloadedAsset: the asset of the name holds exactly the bytes.
RpVerified(p, i, kind) ==
  <<RpAssetName[RpArtifactOf(p)], kind, RpArtifactOf(p)>> \in rpProvider[i].assets

RpAfterAsset(kind) == IF kind = "bytes" THEN "manifest" ELSE "beforePublish"
RpAssetStep(kind) == IF kind = "bytes" THEN "artifact" ELSE "manifest"

RpExistingIsTaken(p, kind) ==   \* mutant: an asset of the name is not downloaded
  LET i == rpCall[p].release IN
  /\ rpCall[p].at = RpAssetStep(kind)
  /\ RpAsset(p, kind) \in rpCall[p].seen
  /\ RpGoesTo(p, RpAfterAsset(kind), i)
  /\ UNCHANGED rpProvider

\* ensureAsset: the asset is there already, under the name.
RpExistingAsset(p, kind) ==
  LET i == rpCall[p].release IN
  /\ rpCall[p].at = RpAssetStep(kind)
  /\ RpAsset(p, kind) \in rpCall[p].seen
  /\ IF RpVerified(p, i, kind) THEN RpGoesTo(p, RpAfterAsset(kind), i)
     ELSE RpFail(p, "degraded")
  /\ UNCHANGED rpProvider

\* ensureAsset: the upload, which the provider refuses when the name is taken
\* or the Release is published and immutable, and the look that follows it,
\* whether it was answered or not.
RpUpload(p, kind, done) ==
  LET i == rpCall[p].release IN
  /\ rpCall[p].at = RpAssetStep(kind)
  /\ RpAsset(p, kind) \notin rpCall[p].seen
  /\ done => /\ RpAsset(p, kind) \notin RpSeen(i)
             /\ rpProvider[i].draft \/ ~ rpTarget.immutable
  /\ rpProvider' = IF done THEN [rpProvider EXCEPT ![i].assets =
                     @ \cup {<<RpAssetName[RpArtifactOf(p)], kind, RpArtifactOf(p)>>}]
                   ELSE rpProvider
  /\ IF done \/ RpVerified(p, i, kind)
       THEN /\ rpCall' = [rpCall EXCEPT ![p] =
                 [at |-> RpAfterAsset(kind), release |-> i,
                  seen |-> RpSeen(i) \cup {RpAsset(p, kind)}]]
            /\ UNCHANGED <<rpTarget, rpRecord>>
       ELSE RpFail(p, "degraded")

RpBeforePublish(p) ==
  LET i == rpCall[p].release IN
  /\ rpCall[p].at = "beforePublish"
  /\ RpGoesTo(p, IF rpProvider[i].draft THEN "publish" ELSE "final", i)
  /\ UNCHANGED rpProvider

\* A call whose answer is lost is followed by a look at the Release.
RpPublishDraft(p, done) ==
  LET i == rpCall[p].release IN
  /\ rpCall[p].at = "publish"
  /\ rpProvider' = IF done THEN [rpProvider EXCEPT ![i].draft = FALSE] ELSE rpProvider
  /\ IF ~ rpProvider'[i].draft THEN RpGoesTo(p, "final", i) ELSE RpFail(p, "degraded")

\* The last look: the Release is public, immutable, and has the bytes.
RpLooksAgain(p, i) ==
  CASE rpProvider[i].draft       -> "degraded"
    [] ~ rpTarget.immutable /\ ~ rpProvider[i].draft -> "blocked"
    [] OTHER -> IF RpVerified(p, i, "bytes") THEN "published" ELSE "degraded"

\* The last look, and execute after the adapter answered: the pointer moves
\* to this Artifact, wherever it stood.
RpSucceeds(p) ==
  LET i == rpCall[p].release
      a == RpArtifactOf(p)
  IN /\ rpCall[p].at = "final"
     /\ IF RpLooksAgain(p, i) # "published" THEN RpFail(p, RpLooksAgain(p, i))
        ELSE /\ rpRecord' = [rpRecord EXCEPT ![p].state = "published",
                                             ![p].providerRelease = i]
             /\ rpTarget' = [rpTarget EXCEPT !.state = "published", !.current = a,
                  !.history = IF @ # << >> /\ @[Len(@)] = RpReleaseOf[a] THEN @
                              ELSE Append(@, RpReleaseOf[a])]
             /\ rpCall' = [rpCall EXCEPT ![p] = RpIdle]
     /\ UNCHANGED rpProvider

RpNext ==
  \/ \E immutable \in BOOLEAN : RpConfigure(immutable)
  \/ \E p \in RpPublications :
       \/ \E a \in RpArtifacts, expected \in RpArtifacts \cup {RpNone} : RpPublish(p, a, expected)
       \/ RpRetry(p)
       \/ \E state \in {"failed", "blocked"} : RpRefused(p, state)
       \/ RpReadFails(p)
       \/ RpFind(p)
       \/ \E done, answered \in BOOLEAN : RpCreate(p, done, answered)
       \/ RpCreateLost(p)
       \/ \E kind \in {"bytes", "manifest"} :
            \/ RpExistingAsset(p, kind)
            \/ \E done \in BOOLEAN : RpUpload(p, kind, done)
       \/ RpBeforePublish(p)
       \/ \E done \in BOOLEAN : RpPublishDraft(p, done)
       \/ RpSucceeds(p)

RpSpec == RpInit /\ [][RpNext]_rpVars

-----------------------------------------------------------------------------

\* What is recorded as published can be downloaded: the provider's Release of
\* the record is public, has the Release's tag, and holds the Artifact's own
\* bytes and manifest under its name, whatever calls were lost, repeated or
\* made by other publications of the same Release in between
\* (publishDetached, ensureAsset).
RpPublishedIsDownloadable ==
  \A p \in RpPublications : rpRecord[p].state = "published" =>
    LET i == rpRecord[p].providerRelease IN
    /\ i \in DOMAIN rpProvider
    /\ rpProvider[i].tag = RpReleaseOf[RpArtifactOf(p)]
    /\ ~ rpProvider[i].draft
    /\ RpVerified(p, i, "bytes") /\ RpVerified(p, i, "manifest")
=============================================================================
