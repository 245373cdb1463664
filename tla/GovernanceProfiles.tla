-------------------------- MODULE GovernanceProfiles --------------------------
(* Governance Profiles of a Realm (GovernanceProfileRegistry in              *)
(* governance/profiles.ts).  A profile has several versions under one id; it *)
(* is activated per scope, evaluated against observations of its controls,   *)
(* and its exported bundle is replayed into a registry that may already hold *)
(* another version.  Every operation is one step.                            *)
EXTENDS Integers, Sequences, FiniteSets

CONSTANTS
  GpProfiles,         \* profiles: [id, digest, required, optional], sets of controls
  GpScopes,           \* scopes a profile may be active in
  GpMaxEvaluations    \* bound

ASSUME GpAssumption == GpMaxEvaluations \in Nat

VARIABLES
  gpRegistered,     \* [profile, retired], in the order they were registered
  gpActive,         \* <<profile, scope>>: active applications
  gpBundles,        \* exported bundles: a profile and its observations
  gpEvaluations     \* evaluations that were recorded

gpVars == <<gpRegistered, gpActive, gpBundles, gpEvaluations>>

\* An observation of each control, or none.
GpObservations == [UNION {p.required \cup p.optional : p \in GpProfiles} ->
                     {"satisfied", "failed", "indeterminate", "missing"}]

\* asked: the profile the caller had in hand.
GpEvaluation == [profile : GpProfiles, scope : GpScopes, observations : GpObservations,
                 status : {"ready", "blocked", "indeterminate"}, asked : GpProfiles]

GpTypeOK ==
  /\ gpRegistered \in Seq([profile : GpProfiles, retired : BOOLEAN])
  /\ gpActive \subseteq GpProfiles \X GpScopes
  /\ gpBundles \subseteq GpProfiles \X GpObservations
  /\ gpEvaluations \subseteq GpEvaluation

GpInit == gpRegistered = <<>> /\ gpActive = {} /\ gpBundles = {} /\ gpEvaluations = {}

-----------------------------------------------------------------------------

\* registerProfile: the version that is there stays as it is, retired or not.
GpWith(profile, retired) ==
  IF \E i \in DOMAIN gpRegistered : gpRegistered[i].profile = profile
    THEN gpRegistered ELSE Append(gpRegistered, [profile |-> profile, retired |-> retired])

GpRegister(profile, retired) ==
  /\ GpWith(profile, retired) # gpRegistered
  /\ gpRegistered' = GpWith(profile, retired)
  /\ UNCHANGED <<gpActive, gpBundles, gpEvaluations>>

\* requireProfile: the first registered under the id, whatever its version.
GpRequire(registered, id) ==
  registered[CHOOSE i \in DOMAIN registered :
               /\ registered[i].profile.id = id
               /\ \A j \in 1 .. i - 1 : registered[j].profile.id # id]

GpKnown(id) == \E i \in DOMAIN gpRegistered : gpRegistered[i].profile.id = id

GpActivate(id, scope) ==
  /\ GpKnown(id) /\ ~ GpRequire(gpRegistered, id).retired
  /\ gpActive' = gpActive \cup {<<GpRequire(gpRegistered, id).profile, scope>>}
  /\ UNCHANGED <<gpRegistered, gpBundles, gpEvaluations>>

\* An observation of a control the profile does not have is refused.
GpObservable(profile, observations) ==
  \A c \in DOMAIN observations :
    observations[c] # "missing" => c \in profile.required \cup profile.optional

GpStatus(profile, observations) ==
  IF \E c \in profile.required : observations[c] # "satisfied" THEN "blocked"
  ELSE IF \E c \in profile.optional : observations[c] = "indeterminate" THEN "indeterminate"
  ELSE "ready"

GpEvaluated(profile, scope, observations, asked) ==
  [profile |-> profile, scope |-> scope, observations |-> observations, asked |-> asked,
   status |-> GpStatus(profile, observations)]

\* evaluate: of the profile the id stands for, where it is active.
GpEvaluates(id, scope, observations) ==
  LET profile == GpRequire(gpRegistered, id).profile IN
  /\ Cardinality(gpEvaluations) < GpMaxEvaluations
  /\ GpKnown(id) /\ <<profile, scope>> \in gpActive
  /\ GpObservable(profile, observations)
  /\ gpEvaluations' = gpEvaluations \cup {GpEvaluated(profile, scope, observations, profile)}
  /\ UNCHANGED <<gpRegistered, gpActive>>

GpEvaluate(id, scope, observations) ==
  GpEvaluates(id, scope, observations) /\ UNCHANGED gpBundles

\* exportProfile evaluates and packs the profile with its observations.
GpExport(id, scope, observations) ==
  /\ GpEvaluates(id, scope, observations)
  /\ gpBundles' = gpBundles \cup {<<GpRequire(gpRegistered, id).profile, observations>>}

\* A bundle that another registry exported.
GpReceive(profile, observations) ==
  /\ gpBundles = {} /\ GpObservable(profile, observations)
  /\ gpBundles' = {<<profile, observations>>}
  /\ UNCHANGED <<gpRegistered, gpActive, gpEvaluations>>

\* replay: register as a draft, activate when the bundle's version has no
\* application, evaluate.  The last two look the profile up by its id, so that
\* another version may answer; a replay that is then refused keeps what it did.
GpReplay(bundle, scope) ==
  LET registered == GpWith(bundle[1], FALSE)
      found == GpRequire(registered, bundle[1].id)
      active == IF <<bundle[1], scope>> \in gpActive \/ found.retired
                  THEN gpActive ELSE gpActive \cup {<<found.profile, scope>>}
      evaluates == /\ <<bundle[1], scope>> \in gpActive \/ ~ found.retired
                   /\ <<found.profile, scope>> \in active
                   /\ GpObservable(found.profile, bundle[2])
  IN /\ Cardinality(gpEvaluations) < GpMaxEvaluations
     /\ gpRegistered' = registered /\ gpActive' = active
     /\ gpEvaluations' = IF evaluates
          THEN gpEvaluations \cup {GpEvaluated(found.profile, scope, bundle[2], bundle[1])}
          ELSE gpEvaluations
     /\ UNCHANGED gpBundles

GpNext ==
  \/ \E profile \in GpProfiles, retired \in BOOLEAN : GpRegister(profile, retired)
  \/ \E profile \in GpProfiles, scope \in GpScopes :
       \/ GpActivate(profile.id, scope)
       \/ \E observations \in GpObservations :
            \/ GpEvaluate(profile.id, scope, observations)
            \/ GpExport(profile.id, scope, observations)
  \/ \E profile \in GpProfiles, observations \in GpObservations : GpReceive(profile, observations)
  \/ \E bundle \in gpBundles, scope \in GpScopes : GpReplay(bundle, scope)

GpSpec == GpInit /\ [][GpNext]_gpVars

-----------------------------------------------------------------------------

\* An evaluation that reports ready speaks of a profile that is registered, not
\* retired and active in its scope, and every control that profile requires was
\* observed and satisfied, also when the evaluation came out of a replayed
\* bundle whose own profile is another version (evaluate, replay).
GpReadyIsMet ==
  \A e \in gpEvaluations : e.status = "ready" =>
    /\ <<e.profile, e.scope>> \in gpActive
    /\ [profile |-> e.profile, retired |-> FALSE] \in {gpRegistered[i] : i \in DOMAIN gpRegistered}
    /\ \A c \in e.profile.required : e.observations[c] = "satisfied"

\* A replayed bundle is evaluated against the profile it carries (replay).
GpReplayIsExact == \A e \in gpEvaluations : e.profile = e.asked
=============================================================================
