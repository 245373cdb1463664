-------------------------- MODULE MCRealmServices ---------------------------
(* The services of a Realm that say who may do what and what is shown to     *)
(* whom: identity and the owner's claim, the public gateway, hosted          *)
(* Workspaces, extensions, governance profiles, disclosure and public        *)
(* intake, the store of Realms hosted together, and the storage of the       *)
(* Authority.  Each keeps its state to itself, so a behaviour is one of one  *)
(* service: the run explores them side by side and not the product of their  *)
(* states.                                                                   *)
EXTENDS
  RealmIdentity, OwnerClaim, PublicGateway, HostedWorkspaces, Extensions,
  GovernanceProfiles, Disclosure, HostedIsolation, AuthorityStorage

VARIABLE service   \* the service whose behaviour this is

Services ==
  {"identity", "claim", "gateway", "hosted", "extensions", "governance",
  "disclosure", "intake", "isolation", "storage"}

-----------------------------------------------------------------------------
(* Constants of the instance *)

\* An extension in two versions that ask for different things, and another one
\* of an unverified publisher.
MCAsks(kind, names) == {kind} \X names
MCPackages ==
  {[id |-> "x1", digest |-> "d1", trust |-> "verified", lifecycle |-> "proposed",
    requested |-> MCAsks("capability", {"target.promote"})
                    \cup MCAsks("effect", {"target.promote", "canonical.write"})],
   [id |-> "x1", digest |-> "d2", trust |-> "verified", lifecycle |-> "proposed",
    requested |-> MCAsks("effect", {"read"})],
   [id |-> "x2", digest |-> "d3", trust |-> "unverified", lifecycle |-> "proposed",
    requested |-> MCAsks("capability", {"target.promote"})]}

\* Two versions of one profile; the second requires what the first had optional.
MCProfiles ==
  {[id |-> "g", digest |-> "v1", required |-> {"c1"}, optional |-> {"c2"}],
   [id |-> "g", digest |-> "v2", required |-> {"c1", "c2"}, optional |-> {}]}

\* A denial that may be retried leaves the gateway's records at once, a terminal
\* one after a step of the clock.
MCRetention == [retryable \in BOOLEAN |-> IF retryable THEN 0 ELSE 1]

\* Two Realms, each with a host of its own.
MCSites == {<<"ra", "ha">>, <<"rb", "hb">>}

-----------------------------------------------------------------------------
(* One service at a time *)

OthersKeep(s) ==
  /\ s # "identity" => UNCHANGED idVars
  /\ s # "claim" => UNCHANGED ocVars
  /\ s # "gateway" => UNCHANGED gwVars
  /\ s # "hosted" => UNCHANGED hwVars
  /\ s # "extensions" => UNCHANGED exVars
  /\ s # "governance" => UNCHANGED gpVars
  /\ s # "disclosure" => UNCHANGED dsVars
  /\ s # "intake" => UNCHANGED diVars
  /\ s # "isolation" => UNCHANGED saVars
  /\ s # "storage" => UNCHANGED asVars

MCInit ==
  /\ service \in Services
  /\ IdInit /\ OcInit /\ GwInit /\ HwInit /\ ExInit /\ GpInit /\ DsInit /\ DiInit
  /\ SaInit /\ AsInit

MCNext ==
  /\ \/ service = "identity" /\ IdNext
     \/ service = "claim" /\ OcNext
     \/ service = "gateway" /\ GwNext
     \/ service = "hosted" /\ HwNext
     \/ service = "extensions" /\ ExNext
     \/ service = "governance" /\ GpNext
     \/ service = "disclosure" /\ DsNext
     \/ service = "intake" /\ DiNext
     \/ service = "isolation" /\ SaNext
     \/ service = "storage" /\ AsNext
  /\ OthersKeep(service) /\ UNCHANGED service

mcVars ==
  <<service, idVars, ocVars, gwVars, hwVars, exVars, gpVars, dsVars, diVars, saVars, asVars>>
MCSpec == MCInit /\ [][MCNext]_mcVars

-----------------------------------------------------------------------------

\* The records of the services have their types; what an Agent may do is still
\* allowed to the Session that delegated, under the Grant it delegated from
\* (RealmIdentityPolicy.delegateAgent, evaluate); and in the store of Realms
\* hosted together every change has left its message and its event, under
\* numbers that are not given out again after a restore
\* (HostedSaaSIsolationStore).
RealmServicesConsistent ==
  /\ IdTypeOK /\ OcTypeOK /\ GwTypeOK /\ HwTypeOK /\ ExTypeOK /\ GpTypeOK /\ DsTypeOK /\ SaTypeOK
  /\ AsTypeOK
  /\ IdAgentWithinDelegator /\ SaStoreAgrees

\* What governance decided is what is applied: an extension runs with what was
\* reviewed of the very package that is installed, whatever was replaced or
\* revoked since, and a scope is ready only under an active profile whose
\* required controls are met (ExtensionRegistry, GovernanceProfileRegistry).
GovernanceIsApplied == ExRunsWhatWasReviewed /\ GpReadyIsMet
=============================================================================
