---------------------------- MODULE WorkerAdapter ----------------------------
(* The adapter that puts a Release on a Cloudflare Worker                    *)
(* (CloudflareWorkerTargetAdapter in cloudflare/worker-target.ts, with the   *)
(* credential broker of promotion-credential-broker.ts).  Every execution of *)
(* a Promotion has an adapter of its own: it previews and applies a Release  *)
(* and may roll back to the one before.  Each operation first finds the      *)
(* provider's version of the Release, in its own cache, in the identity      *)
(* ledger or by its tag, or uploads one; a version is read back and compared *)
(* before it is used.  apply raises the traffic in steps.  Executions go on  *)
(* side by side, requests are refused or their answers lost, an execution    *)
(* dies, and others upload and delete versions.                              *)
EXTENDS Integers, Sequences, FiniteSets

CONSTANTS
  WaReleases,      \* immutable Releases, each with its manifest
  WaJobs,          \* executions
  WaPolicies,      \* rollout policies: the percentages of their steps, in order
  WaMaxVersions,   \* bound on versions at the provider
  WaMaxFaults,     \* bound on refused and lost requests and on deaths
  WaMaxMeddling,   \* bound on what others do at the provider
  WaForeign        \* content that is not that of any Release

\* validateRolloutPolicy
ASSUME WaAssumption ==
  /\ WaForeign \notin WaReleases
  /\ {WaMaxVersions, WaMaxFaults, WaMaxMeddling} \subseteq Nat
  /\ WaReleases # {} /\ WaPolicies # {} /\ WaPolicies \subseteq Seq(1 .. 100)
  /\ \A steps \in WaPolicies :
       /\ Len(steps) > 0 /\ steps[Len(steps)] = 100
       /\ \A i \in 2 .. Len(steps) : steps[i - 1] < steps[i]

VARIABLES
  waVersions,   \* the provider's versions, in the order of upload
  waActive,     \* the provider's active deployment: versions and their shares
  waLedger,     \* Release -> the version the identity ledger names, or 0
  waJob,        \* the executions
  waFaults,     \* faults and meddling so far
  waLast,       \* history: the execution that deployed last
  waTwice       \* history: Releases that two executions were uploading at
                \* once, or whose version was deleted

waVars == <<waVersions, waActive, waLedger, waJob, waFaults, waLast, waTwice>>

WaVersionIds == 1 .. WaMaxVersions
WaVersion == [tag : WaReleases, content : WaReleases \cup {WaForeign}, gone : BOOLEAN]
WaShare == [version : WaVersionIds, percentage : 1 .. 100]
WaAt == {"idle", "lookup", "list", "read", "readNew", "persist", "upload",
         "base", "deploy", "observe", "save", "between", "done"}
WaJob == [at : WaAt, op : {"preview", "apply", "rollback"}, release : WaReleases,
          candidate : WaReleases, cache : [WaReleases -> 0 .. WaMaxVersions],
          version : 0 .. WaMaxVersions, base : Seq(WaShare),
          steps : WaPolicies, step : Nat, result : {"none", "succeeded", "failed", "indeterminate"}]

WaTypeOK ==
  /\ waVersions \in Seq(WaVersion) /\ Len(waVersions) <= WaMaxVersions
  /\ waActive \in Seq(WaShare)
  /\ waLedger \in [WaReleases -> 0 .. WaMaxVersions]
  /\ waJob \in [WaJobs -> WaJob]
  /\ waFaults.faults \in 0 .. WaMaxFaults /\ waFaults.meddling \in 0 .. WaMaxMeddling

WaInit ==
  /\ waVersions = << >> /\ waActive = << >>
  /\ waLedger = [r \in WaReleases |-> 0]
  /\ waJob = [j \in WaJobs |->
       LET r == CHOOSE x \in WaReleases : TRUE IN
       [at |-> "idle", op |-> "preview", release |-> r, candidate |-> r,
        cache |-> [x \in WaReleases |-> 0], version |-> 0, base |-> << >>,
        steps |-> CHOOSE x \in WaPolicies : TRUE, step |-> 1, result |-> "none"]]
  /\ waFaults = [faults |-> 0, meddling |-> 0]
  /\ waLast = {} /\ waTwice = {}

WaGoes(j, at) == waJob' = [waJob EXCEPT ![j].at = at]
WaHas(j, at, v) == waJob' = [waJob EXCEPT ![j].at = at, ![j].version = v]
WaEnds(j, result) == waJob' = [waJob EXCEPT ![j].at = "done", ![j].result = result]
WaFault == /\ waFaults.faults < WaMaxFaults
           /\ waFaults' = [waFaults EXCEPT !.faults = @ + 1]
WaProvider == <<waVersions, waActive>>
WaHistory == <<waLast, waTwice>>

\* What the provider answers for a version: it is there, or 404.
WaThere(v) == ~ waVersions[v].gone
\* assertCloudflareWorkerVersionReadback, for the Release of the operation: its
\* manifest annotation, runtime, bindings and modules (the bytes of a module
\* only where the provider returns them).
WaMatches(v, r) == waVersions[v].content = r

-----------------------------------------------------------------------------
(* The operations, as the coordinator calls them *)

\* promote: a preview, with an adapter that knows nothing yet.
WaStart(j, r, steps) ==
  /\ waJob[j].at = "idle"
  /\ waJob' = [waJob EXCEPT ![j].at = "lookup", ![j].release = r, ![j].candidate = r,
                            ![j].steps = steps]
  /\ UNCHANGED <<WaProvider, waLedger, waFaults, WaHistory>>

\* After a preview that was healthy, apply, or rollback where the Promotion is
\* one; after a candidate that was not, a rollback to another Release, or
\* nothing.
WaContinue(j, op, r) ==
  /\ waJob[j].at = "between"
  /\ IF waJob[j].op = "preview" THEN r = waJob[j].candidate
     ELSE waJob[j].release = waJob[j].candidate /\ op = "rollback" /\ r # waJob[j].candidate
  /\ waJob' = [waJob EXCEPT ![j].at = "lookup", ![j].op = op, ![j].release = r,
                            ![j].version = 0, ![j].result = "none"]
  /\ UNCHANGED <<WaProvider, waLedger, waFaults, WaHistory>>

-----------------------------------------------------------------------------
(* versionForRelease *)

WaAfterVersion(j, v) ==
  /\ waJob' = [waJob EXCEPT
       ![j].version = v, ![j].step = 1, ![j].base = << >>,
       ![j].cache[waJob[j].release] = v,
       ![j].at = CASE waJob[j].op = "preview" -> "between"
                   [] waJob[j].op = "rollback" -> "deploy"
                   [] OTHER -> IF waJob[j].steps[1] < 100 THEN "base" ELSE "deploy"]

\* ensureVersion uploads when the version was not found; rollback does not.
WaNotFound(j) ==
  IF waJob[j].op = "rollback" THEN WaEnds(j, "failed") ELSE WaGoes(j, "upload")

\* The cache, then the version the ledger names, if it is still there.
WaLookup(j) ==
  LET r == waJob[j].release
      v == waLedger[r]
  IN /\ waJob[j].at = "lookup"
     /\ \/ waJob[j].cache[r] # 0 /\ WaAfterVersion(j, waJob[j].cache[r])
        \/ /\ waJob[j].cache[r] = 0 /\ v # 0 /\ WaThere(v)
           /\ IF WaMatches(v, r) THEN WaAfterVersion(j, v) ELSE WaEnds(j, "failed")
        \/ waJob[j].cache[r] = 0 /\ (v # 0 => ~ WaThere(v)) /\ WaGoes(j, "list")
     /\ UNCHANGED <<WaProvider, waLedger, waFaults, WaHistory>>

\* A version with the tag of the Release, the first the provider lists.
WaList(j) ==
  LET tagged == {v \in 1 .. Len(waVersions) : WaThere(v) /\ waVersions[v].tag = waJob[j].release}
  IN /\ waJob[j].at = "list"
     /\ \/ \E v \in tagged : WaHas(j, "read", v) /\ UNCHANGED waTwice
        \/ /\ tagged = {}
           /\ WaNotFound(j)
           /\ waTwice' = IF \E k \in WaJobs \ {j} :
                              waJob[k].release = waJob[j].release /\ waJob[k].at = "upload"
                         THEN waTwice \cup {waJob[j].release} ELSE waTwice
     /\ UNCHANGED <<WaProvider, waLedger, waFaults, waLast>>

\* readVersionDetail of a version that was listed.
WaRead(j) ==
  LET v == waJob[j].version IN
  /\ waJob[j].at = "read"
  /\ \/ ~ WaThere(v) /\ WaNotFound(j)
     \/ WaThere(v) /\ WaMatches(v, waJob[j].release) /\ WaGoes(j, "persist")
     \/ WaThere(v) /\ ~ WaMatches(v, waJob[j].release) /\ WaEnds(j, "failed")
  /\ UNCHANGED <<WaProvider, waLedger, waFaults, WaHistory>>

\* persistProviderIdentity, then the cache.
WaPersist(j) ==
  /\ waJob[j].at = "persist"
  /\ waLedger' = [waLedger EXCEPT ![waJob[j].release] = waJob[j].version]
  /\ WaAfterVersion(j, waJob[j].version)
  /\ UNCHANGED <<WaProvider, waFaults, WaHistory>>

-----------------------------------------------------------------------------
(* ensureVersion: the upload *)

WaAppend(r, content) ==
  /\ Len(waVersions) < WaMaxVersions
  /\ waVersions' = Append(waVersions, [tag |-> r, content |-> content, gone |-> FALSE])

WaUpload(j) ==
  /\ waJob[j].at = "upload"
  /\ WaAppend(waJob[j].release, waJob[j].release)
  /\ \/ WaHas(j, "readNew", Len(waVersions) + 1) /\ UNCHANGED waFaults
     \/ WaEnds(j, "indeterminate") /\ WaFault
  /\ UNCHANGED <<waActive, waLedger, WaHistory>>

\* readVersionDetail of the version just uploaded: 404 ends the operation.
WaReadNew(j) ==
  LET v == waJob[j].version IN
  /\ waJob[j].at = "readNew"
  /\ IF WaThere(v) THEN WaGoes(j, "persist") ELSE WaEnds(j, "failed")
  /\ UNCHANGED <<WaProvider, waLedger, waFaults, WaHistory>>

-----------------------------------------------------------------------------
(* apply and rollback *)

\* The active deployment is read once, before the first step.
WaReadBase(j) ==
  /\ waJob[j].at = "base"
  /\ IF waActive = << >> THEN WaEnds(j, "indeterminate")
     ELSE waJob' = [waJob EXCEPT ![j].at = "deploy", ![j].base = waActive]
  /\ UNCHANGED <<WaProvider, waLedger, waFaults, WaHistory>>

WaPercentage(j) == IF waJob[j].op = "rollback" THEN 100 ELSE waJob[j].steps[waJob[j].step]

\* deploymentVersions: the rest stays with the other version that has most,
\* the first of them where several have as much.
WaOthers(j) == {i \in 1 .. Len(waJob[j].base) : waJob[j].base[i].version # waJob[j].version}
WaPrevious(j) ==
  LET share(i) == waJob[j].base[i].percentage
      most == {i \in WaOthers(j) : \A k \in WaOthers(j) : share(k) <= share(i)}
  IN waJob[j].base[CHOOSE i \in most : \A k \in most : i <= k].version

WaSplit(j) ==
  LET p == WaPercentage(j) IN
  <<[version |-> waJob[j].version, percentage |-> p]>>
    \o IF p = 100 THEN << >> ELSE <<[version |-> WaPrevious(j), percentage |-> 100 - p]>>

\* One POST of a deployment.  The provider refuses versions it no longer has.
WaDeploy(j) ==
  /\ waJob[j].at = "deploy"
  /\ IF WaPercentage(j) < 100 /\ WaOthers(j) = {}
     THEN WaEnds(j, "indeterminate") /\ UNCHANGED <<waActive, waFaults, waLast>>
     ELSE \/ /\ \E i \in 1 .. Len(WaSplit(j)) : ~ WaThere(WaSplit(j)[i].version)
             /\ WaEnds(j, "failed") /\ UNCHANGED <<waActive, waFaults, waLast>>
          \/ /\ \A i \in 1 .. Len(WaSplit(j)) : WaThere(WaSplit(j)[i].version)
             /\ waActive' = WaSplit(j) /\ waLast' = {j}
             /\ \/ WaGoes(j, "observe") /\ UNCHANGED waFaults
                \/ WaEnds(j, "indeterminate") /\ WaFault
  /\ UNCHANGED <<waVersions, waLedger, waTwice>>

\* The rollout observer looks at a step of apply that asks for an observation;
\* it lets the rollout go on or not.
WaObserve(j, ok) ==
  /\ waJob[j].at = "observe"
  /\ \/ ~ ok /\ waJob[j].op = "apply" /\ WaEnds(j, "indeterminate")
     \/ /\ ok /\ WaPercentage(j) < 100
        /\ waJob' = [waJob EXCEPT ![j].at = "deploy", ![j].step = @ + 1]
     \/ ok /\ WaPercentage(j) = 100 /\ WaGoes(j, "save")
  /\ UNCHANGED <<WaProvider, waLedger, waFaults, WaHistory>>

\* persistProviderIdentity with the deployment; the operation succeeded.
WaSave(j) ==
  /\ waJob[j].at = "save"
  /\ waLedger' = [waLedger EXCEPT ![waJob[j].release] = waJob[j].version]
  /\ waJob' = [waJob EXCEPT ![j].at = "between", ![j].result = "succeeded"]
  /\ UNCHANGED <<WaProvider, waFaults, WaHistory>>

-----------------------------------------------------------------------------
(* Faults *)

\* Before the request has an effect: the broker has no credential that is
\* active, unexpired and of the scope (issue, observe), the provider refuses
\* (responseResult), or the request, or the write of the ledger, is lost.
WaRefused(j, result) ==
  /\ waJob[j].at \notin {"idle", "between", "done", "observe"}
  /\ result = "indeterminate" => waJob[j].at \in {"list", "read", "readNew", "persist", "upload", "base", "deploy", "save"}
  /\ WaEnds(j, result)
  /\ WaFault
  /\ UNCHANGED <<WaProvider, waLedger, WaHistory>>

\* The process of the execution dies; nothing of it is left.
WaDies(j) ==
  /\ waJob[j].at \notin {"idle", "done"}
  /\ WaEnds(j, "none")
  /\ WaFault
  /\ UNCHANGED <<WaProvider, waLedger, WaHistory>>

WaMeddle == /\ waFaults.meddling < WaMaxMeddling
            /\ waFaults' = [waFaults EXCEPT !.meddling = @ + 1]

\* Somebody uploads something else under the tag of the Release.
WaForeignUpload(r) ==
  /\ WaMeddle
  /\ WaAppend(r, WaForeign)
  /\ UNCHANGED <<waActive, waLedger, waJob, WaHistory>>

\* A version without traffic is deleted.
WaDelete(v) ==
  /\ WaMeddle
  /\ WaThere(v) /\ \A i \in 1 .. Len(waActive) : waActive[i].version # v
  /\ waVersions' = [waVersions EXCEPT ![v].gone = TRUE]
  /\ waTwice' = waTwice \cup {waVersions[v].tag}
  /\ UNCHANGED <<waActive, waLedger, waJob, waLast>>

WaNext ==
  \/ \E j \in WaJobs :
       \/ \E r \in WaReleases :
            \/ \E steps \in WaPolicies : WaStart(j, r, steps)
            \/ \E op \in {"apply", "rollback"} : WaContinue(j, op, r)
       \/ WaLookup(j) \/ WaList(j) \/ WaRead(j) \/ WaPersist(j)
       \/ WaUpload(j) \/ WaReadNew(j)
       \/ WaReadBase(j) \/ WaDeploy(j) \/ WaSave(j)
       \/ \E ok \in BOOLEAN : WaObserve(j, ok)
       \/ \E result \in {"failed", "indeterminate"} : WaRefused(j, result)
       \/ WaDies(j)
  \/ \E r \in WaReleases : WaForeignUpload(r)
  \/ \E v \in 1 .. Len(waVersions) : WaDelete(v)

WaSpec == WaInit /\ [][WaNext]_waVars

-----------------------------------------------------------------------------

\* Only versions that hold exactly the Release they are tagged with get
\* traffic, are remembered or are named by the ledger, whoever else uploads
\* under the tag (readVersionDetail, versionForRelease).
WaTrafficIsVerified ==
  /\ \A i \in 1 .. Len(waActive) :
       LET x == waVersions[waActive[i].version] IN x.content = x.tag
  /\ \A r \in WaReleases : waLedger[r] # 0 => waVersions[waLedger[r]].content = r
  /\ \A j \in WaJobs, r \in WaReleases :
       waJob[j].cache[r] # 0 => waVersions[waJob[j].cache[r]].content = r

\* However many answers are lost and executions die, a Release is uploaded a
\* second time only if two executions were at it at once or its version was
\* deleted (ensureVersion looks for the tag first).
WaUploadedOnce ==
  \A r \in WaReleases \ waTwice :
    Cardinality({v \in 1 .. Len(waVersions) : waVersions[v].tag = r /\ waVersions[v].content = r}) <= 1

\* An apply or rollback that succeeded left the whole traffic with its Release,
\* if no other execution has deployed since (apply, rollback).
WaSucceededServes ==
  \A j \in WaJobs :
    (waJob[j].result = "succeeded" /\ waLast = {j}) =>
      waActive = <<[version |-> waJob[j].version, percentage |-> 100]>>

\* The versions the adapter deploys are what it was asked to deploy, uploaded
\* once, and all of the traffic once it says so.
WaDeploysVerified == WaTrafficIsVerified /\ WaUploadedOnce /\ WaSucceededServes
=============================================================================
