------------------------------- MODULE Runners -------------------------------
(* The coordinator of external Runners (ExternalRunnerCoordinator in         *)
(* execution/runner.ts).  A Job has a sequence of Attempts, the last one     *)
(* current; an active Runner pulls a queued Job, proves its key by answering *)
(* the challenge of the offer and gets a credential bound to Job, Attempt    *)
(* and Runner until the Attempt's lease ends.  Runners are remote: between   *)
(* any two calls of one, another Runner, the operator or the clock may act.  *)
EXTENDS Integers, Sequences

CONSTANTS
  RunnerIds,     \* Runners that may be enrolled
  JobIds,        \* Jobs, one per enqueue idempotency key
  RetryKeys,     \* idempotency keys of retry
  Qualified,     \* pairs <<runner, job>>: capabilities, network and secrets fit
  MaxAttempts,   \* bound on the Attempts of a Job
  NoRunner       \* "runner:unassigned"

ASSUME RunnersAssumption ==
  /\ Qualified \subseteq RunnerIds \X JobIds
  /\ MaxAttempts \in Nat \ {0}
  /\ NoRunner \notin RunnerIds

VARIABLES
  runnerStatus,   \* Runner -> its status, "absent" before enrollment
  runnerJob,      \* Job -> its state, Run status, Runner and Attempts
  runnerQueue,    \* Jobs in the order of createdAt
  runnerRetry     \* retry idempotency key -> Job, or NoRunner when unused

runnerVars == <<runnerStatus, runnerJob, runnerQueue, runnerRetry>>

RunnerStatuses == {"absent", "enrolled", "active", "unavailable",
                   "quarantined", "disabled"}
RunnerOpen == {"offered", "running", "cancel-requested"}
RunnerFinal == {"succeeded", "failed", "indeterminate", "cancelled",
                "expired", "quarantined"}
RunnerResults == {"succeeded", "failed", "indeterminate"}
RunnerRetryable == RunnerFinal \ {"succeeded"}

RunnerAttempts ==
  [state : {"queued"} \cup RunnerOpen \cup RunnerFinal,
   runner : RunnerIds \cup {NoRunner},
   credential : {"none", "active", "revoked"},
   lapsed : BOOLEAN]             \* its leaseExpiresAt has passed

RunnerJobs ==
  [state : {"absent", "queued"} \cup RunnerOpen \cup RunnerFinal,
   run : {"queued", "running"} \cup RunnerResults,
   runner : RunnerIds \cup {NoRunner},
   attempts : Seq(RunnerAttempts)]

RunnerTypeOK ==
  /\ runnerStatus \in [RunnerIds -> RunnerStatuses]
  /\ runnerJob \in [JobIds -> RunnerJobs]
  /\ runnerQueue \in Seq(JobIds)
  /\ runnerRetry \in [RetryKeys -> JobIds \cup {NoRunner}]

RunnerFreshAttempt ==
  [state |-> "queued", runner |-> NoRunner, credential |-> "none", lapsed |-> FALSE]

RunnerInit ==
  /\ runnerStatus = [r \in RunnerIds |-> "absent"]
  /\ runnerJob = [j \in JobIds |->
       [state |-> "absent", run |-> "queued", runner |-> NoRunner, attempts |-> << >>]]
  /\ runnerQueue = << >>
  /\ runnerRetry = [k \in RetryKeys |-> NoRunner]

Current(j) == Len(runnerJob[j].attempts)
CurrentAttempt(j) == runnerJob[j].attempts[Current(j)]

\* The Job j after its current Attempt became a, with Job and Run state.
WithAttempt(j, a, run) ==
  [runnerJob[j] EXCEPT !.state = a.state, !.run = run,
                       !.attempts[Current(j)] = a]

\* The Job j after its current Attempt ended: its credentials are revoked.
EndedKeepsCredential(j, state, run) ==   \* mutant: credentials not revoked
  WithAttempt(j, [CurrentAttempt(j) EXCEPT !.state = state], run)

RunnerEnded(j, state, run) ==
  WithAttempt(j, [CurrentAttempt(j) EXCEPT
                    !.state = state,
                    !.credential = IF @ = "none" THEN @ ELSE "revoked"], run)

-----------------------------------------------------------------------------
(* Operator: Runners *)

RunnerEnroll(r) ==
  /\ runnerStatus[r] = "absent"
  /\ runnerStatus' = [runnerStatus EXCEPT ![r] = "enrolled"]
  /\ UNCHANGED <<runnerJob, runnerQueue, runnerRetry>>

RunnerActivate(r) ==
  /\ runnerStatus[r] \in {"enrolled", "unavailable"}
  /\ runnerStatus' = [runnerStatus EXCEPT ![r] = "active"]
  /\ UNCHANGED <<runnerJob, runnerQueue, runnerRetry>>

RunnerDisable(r) ==
  /\ runnerStatus[r] # "absent"
  /\ runnerStatus' = [runnerStatus EXCEPT ![r] = "disabled"]
  /\ UNCHANGED <<runnerJob, runnerQueue, runnerRetry>>

LostWhateverState(r, status, state) ==   \* mutant: finished Jobs included
  /\ runnerStatus[r] # "absent"
  /\ runnerStatus' = [runnerStatus EXCEPT ![r] = status]
  /\ runnerJob' = [j \in JobIds |->
       IF runnerJob[j].runner = r THEN RunnerEnded(j, state, "indeterminate")
       ELSE runnerJob[j]]
  /\ UNCHANGED <<runnerQueue, runnerRetry>>

\* Losing a Runner ends every open Attempt it holds; the Run's outcome at the
\* provider is unknown.
RunnerLost(r, status, state) ==
  /\ runnerStatus[r] # "absent"
  /\ runnerStatus' = [runnerStatus EXCEPT ![r] = status]
  /\ runnerJob' = [j \in JobIds |->
       IF runnerJob[j].runner = r /\ runnerJob[j].state \in RunnerOpen
         THEN RunnerEnded(j, state, "indeterminate")
         ELSE runnerJob[j]]
  /\ UNCHANGED <<runnerQueue, runnerRetry>>

RunnerMarkUnavailable(r) == RunnerLost(r, "unavailable", "indeterminate")
RunnerQuarantine(r) == RunnerLost(r, "quarantined", "quarantined")

-----------------------------------------------------------------------------
(* Operator: Jobs *)

RunnerEnqueue(j) ==
  /\ runnerJob[j].state = "absent"
  /\ runnerJob' = [runnerJob EXCEPT ![j] =
       [@ EXCEPT !.state = "queued", !.attempts = <<RunnerFreshAttempt>>]]
  /\ runnerQueue' = Append(runnerQueue, j)
  /\ UNCHANGED <<runnerStatus, runnerRetry>>

\* A claimed Job is told to stop; an offered one has no credential to report
\* with and waits for its lease to end.
RunnerRequestCancellation(j) ==
  /\ runnerJob[j].state \in {"offered", "running"}
  /\ runnerJob' = [runnerJob EXCEPT ![j] =
       WithAttempt(j, [CurrentAttempt(j) EXCEPT !.state = "cancel-requested"], @.run)]
  /\ UNCHANGED <<runnerStatus, runnerQueue, runnerRetry>>

RunnerRetryJob(j, k) ==
  /\ runnerRetry[k] = NoRunner       \* a used key only answers again
  /\ runnerJob[j].state \in RunnerRetryable
  /\ Current(j) < MaxAttempts
  /\ runnerJob' = [runnerJob EXCEPT ![j] =
       [state |-> "queued", run |-> "queued", runner |-> NoRunner,
        attempts |-> Append(@.attempts, RunnerFreshAttempt)]]
  /\ runnerRetry' = [runnerRetry EXCEPT ![k] = j]
  /\ UNCHANGED <<runnerStatus, runnerQueue>>

\* expire applies to every Attempt that is not final, queued ones included.
RunnerExpire(j) ==
  /\ runnerJob[j].state # "absent"
  /\ CurrentAttempt(j).lapsed
  /\ CurrentAttempt(j).state \notin RunnerFinal
  /\ runnerJob' = [runnerJob EXCEPT ![j] = RunnerEnded(j, "expired", "indeterminate")]
  /\ UNCHANGED <<runnerStatus, runnerQueue, runnerRetry>>

\* The clock passes the leaseExpiresAt of an Attempt.
RunnerLeaseLapses(j) ==
  /\ runnerJob[j].state \in {"queued"} \cup RunnerOpen
  /\ ~ CurrentAttempt(j).lapsed
  /\ runnerJob' = [runnerJob EXCEPT ![j].attempts[Current(j)].lapsed = TRUE]
  /\ UNCHANGED <<runnerStatus, runnerQueue, runnerRetry>>

-----------------------------------------------------------------------------
(* Runner *)

RunnerMatchesJob(r, j) == runnerStatus[r] = "active" /\ <<r, j>> \in Qualified

\* The oldest queued Job that fits; its lease is not looked at.
RunnerPull(r) ==
  /\ runnerStatus[r] = "active"
  /\ \E i \in 1 .. Len(runnerQueue) :
       LET fits(n) == /\ runnerJob[runnerQueue[n]].state = "queued"
                      /\ RunnerMatchesJob(r, runnerQueue[n])
           j == runnerQueue[i]
       IN /\ fits(i)
          /\ \A n \in 1 .. i - 1 : ~ fits(n)
          /\ runnerJob' = [runnerJob EXCEPT ![j] =
               [WithAttempt(j, [CurrentAttempt(j) EXCEPT !.state = "offered"], @.run)
                  EXCEPT !.runner = r]]
  /\ UNCHANGED <<runnerStatus, runnerQueue, runnerRetry>>

\* Only the Runner the challenge was handed to can answer it; that it still
\* fits the Job is not checked again.  A lapsed lease expires the Attempt.
RunnerClaim(r, j) ==
  /\ runnerStatus[r] = "active"
  /\ runnerJob[j].state = "offered"
  /\ runnerJob[j].runner = r
  /\ ~ CurrentAttempt(j).lapsed
  /\ runnerJob' = [runnerJob EXCEPT ![j] =
       WithAttempt(j, [CurrentAttempt(j) EXCEPT !.state = "running", !.runner = r,
                                                !.credential = "active"], "running")]
  /\ UNCHANGED <<runnerStatus, runnerQueue, runnerRetry>>

\* Job j and Attempt a of a credential that authorizeCredential accepts.  The
\* status of the Runner is not looked at.
RunnerAuthorized(j, a) ==
  /\ a \in 1 .. Len(runnerJob[j].attempts)
  /\ runnerJob[j].attempts[a].credential = "active"
  /\ ~ runnerJob[j].attempts[a].lapsed
  /\ a = Current(j)

\* A call with a credential past its expiry is refused and revokes it.
RunnerCredentialLapses(j, a) ==
  /\ a \in 1 .. Len(runnerJob[j].attempts)
  /\ runnerJob[j].attempts[a].credential = "active"
  /\ runnerJob[j].attempts[a].lapsed
  /\ runnerJob' = [runnerJob EXCEPT ![j].attempts[a].credential = "revoked"]
  /\ UNCHANGED <<runnerStatus, runnerQueue, runnerRetry>>

\* complete: a signed result over the exact context, its outputs in scope.
RunnerSubmit(j, a, result) ==
  /\ RunnerAuthorized(j, a)
  /\ runnerJob[j].state = "running"
  /\ runnerJob' = [runnerJob EXCEPT ![j] = RunnerEnded(j, result, result)]
  /\ UNCHANGED <<runnerStatus, runnerQueue, runnerRetry>>

\* A Runner that cannot tell whether it cleaned up leaves the Job quarantined.
RunnerFinalizeCancellation(j, a, outcome) ==
  /\ RunnerAuthorized(j, a)
  /\ runnerJob[j].state = "cancel-requested"
  /\ runnerJob' = [runnerJob EXCEPT ![j] =
       RunnerEnded(j, IF outcome = "unknown" THEN "quarantined" ELSE "cancelled",
                   "indeterminate")]
  /\ UNCHANGED <<runnerStatus, runnerQueue, runnerRetry>>

RunnerNext ==
  \/ \E r \in RunnerIds :
       \/ RunnerEnroll(r) \/ RunnerActivate(r) \/ RunnerDisable(r)
       \/ RunnerMarkUnavailable(r) \/ RunnerQuarantine(r) \/ RunnerPull(r)
       \/ \E j \in JobIds : RunnerClaim(r, j)
  \/ \E j \in JobIds :
       \/ RunnerEnqueue(j) \/ RunnerRequestCancellation(j)
       \/ RunnerExpire(j) \/ RunnerLeaseLapses(j)
       \/ \E k \in RetryKeys : RunnerRetryJob(j, k)
       \/ \E a \in 1 .. MaxAttempts :
            \/ RunnerCredentialLapses(j, a)
            \/ \E result \in RunnerResults : RunnerSubmit(j, a, result)
            \/ \E outcome \in {"stopped", "unknown"} :
                 RunnerFinalizeCancellation(j, a, outcome)

RunnerSpec == RunnerInit /\ [][RunnerNext]_runnerVars

-----------------------------------------------------------------------------

\* At any moment at most one credential of a Job is active, and it is that of
\* the Runner now holding the current, unfinished Attempt: no retry, loss of a
\* Runner or expiry leaves an older lease able to submit (retry, expire,
\* markRunnerUnavailable, authorizeCredential).
RunnerLeaseIsCurrent ==
  \A j \in JobIds : \A a \in 1 .. Len(runnerJob[j].attempts) :
    LET att == runnerJob[j].attempts[a] IN
    att.credential = "active" =>
      /\ a = Current(j)
      /\ att.state \in {"running", "cancel-requested"}
      /\ runnerJob[j].runner = att.runner
      /\ runnerStatus[att.runner] \in {"active", "disabled"}

\* Job, current Attempt and Run tell the same story: the Job has the state of
\* its current Attempt, the Run succeeded exactly when the Job did, every
\* earlier Attempt ended otherwise, and a succeeded Job is never run again.
RunnerJobAgrees ==
  \A j \in JobIds : runnerJob[j].state # "absent" =>
    /\ runnerJob[j].state = CurrentAttempt(j).state
    /\ (runnerJob[j].run = "succeeded") <=> (runnerJob[j].state = "succeeded")
    /\ (runnerJob[j].run = "running") => runnerJob[j].state \in {"running", "cancel-requested"}
    /\ \A a \in 1 .. Current(j) - 1 : runnerJob[j].attempts[a].state \in RunnerRetryable

\* "The previous Attempt remains immutable and inspectable": once an Attempt
\* ended, no later step gives it another state.
RunnerAttemptsFinal ==
  [][\A j \in JobIds : \A a \in 1 .. Len(runnerJob[j].attempts) :
       runnerJob[j].attempts[a].state \in RunnerFinal =>
         /\ a <= Len(runnerJob'[j].attempts)
         /\ runnerJob'[j].attempts[a].state = runnerJob[j].attempts[a].state]_runnerVars
=============================================================================
