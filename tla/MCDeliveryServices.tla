------------------------ MODULE MCDeliveryServices ------------------------
(* The services a delivery goes through outside of the Authority plane:      *)
(* Runners, local execution, the Promotion coordinator of a local Target,    *)
(* the adapter of a Worker Target and the publication of Releases.  They     *)
(* share no state, so a behaviour is one of one service: the run explores    *)
(* the services side by side and not the product of their states.            *)
EXTENDS Runners, LocalExecution, WorkerPromotions, ReleasePublication,
        WorkerAdapter

CONSTANTS r1, r2, j1, j2

VARIABLE service   \* the service whose behaviour this is

Services == {"runners", "execution", "promotions", "publication", "adapter"}

-----------------------------------------------------------------------------
(* Constants of the instance *)

\* r2 fits only the second Job.
MCQualified == {<<r1, j1>>, <<r1, j2>>, <<r2, j2>>}

\* Two Actions; the second takes the output of the first, and its Module
\* depends on the first one's.  Only the second Verifier is required.
MCTasks == <<[action |-> "a", verifier |-> "u"], [action |-> "b", verifier |-> "v"]>>
MCModuleOf == [a |-> "m", b |-> "n"]
MCModuleDeps == [m |-> {}, n |-> {"m"}]
MCInputPaths == [a |-> {"s"}, b |-> {"a"}]
MCRequired == {MCTasks[2]}

\* Two Artifacts of one Release, one of another, all with the same file name.
MCReleaseOf == [a |-> "R", b |-> "R", c |-> "S"]
MCAssetName == [a |-> "x", b |-> "x", c |-> "x"]

\* All of the traffic at once, and half of it first.
MCPolicies == {<<100>>, <<50, 100>>}

-----------------------------------------------------------------------------
(* One service at a time *)

OthersKeep(s) ==
  /\ s # "runners" => UNCHANGED runnerVars
  /\ s # "execution" => UNCHANGED execVars
  /\ s # "promotions" => UNCHANGED wpVars
  /\ s # "publication" => UNCHANGED rpVars
  /\ s # "adapter" => UNCHANGED waVars

MCInit ==
  /\ service \in Services
  /\ RunnerInit /\ ExecInit /\ WpInit /\ RpInit /\ WaInit

MCNext ==
  /\ \/ service = "runners" /\ RunnerNext
     \/ service = "execution" /\ ExecNext
     \/ service = "promotions" /\ WpNext
     \/ service = "publication" /\ RpNext
     \/ service = "adapter" /\ WaNext
  /\ OthersKeep(service) /\ UNCHANGED service

MCSpec == MCInit /\ [][MCNext]_<<service, runnerVars, execVars, wpVars, rpVars, waVars>>

-----------------------------------------------------------------------------

\* The records of the services have their types and agree with each other: at
\* most one credential of a Job is active and it is that of the Runner that
\* holds the unfinished Attempt; Job, Attempt and Run tell the same story
\* (retry, expire, markRunnerUnavailable); a Target that is called healthy
\* between calls made one at a time serves its current Release (promote,
\* rollbackToPrevious); and the versions the adapter gives traffic to hold what
\* they are tagged with, are uploaded once and have all of the traffic when it
\* says so (versionForRelease, ensureVersion, apply, rollback).
DeliveryServicesConsistent ==
  /\ RunnerTypeOK /\ ExecTypeOK /\ WpTypeOK /\ RpTypeOK /\ WaTypeOK
  /\ RunnerLeaseIsCurrent /\ RunnerJobAgrees /\ WpHealthyIsServed
  /\ WaDeploysVerified
=============================================================================
