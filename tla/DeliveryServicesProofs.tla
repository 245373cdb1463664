----------------------- MODULE DeliveryServicesProofs -----------------------
(* Proofs about the services a delivery goes through: Runners, local         *)
(* execution, the Promotion coordinator of a local Target, the publication   *)
(* of Releases and the adapter of a Worker Target.  Each part finds the      *)
(* inductive invariant of one service; the last one puts them together.      *)
EXTENDS MCDeliveryServices, TLAPS, FiniteSetTheorems, WellFoundedInduction

-----------------------------------------------------------------------------
(* Runners *)

\* A Job before enrollment, or one whose Attempts before the last ended without
\* success and without a lease; only the last may have one, and the Runner that
\* holds it was not lost.
RunnerJobSound(job, status) ==
  IF job.state = "absent"
    THEN job.attempts = << >> /\ job.run = "queued"
    ELSE LET last == job.attempts[Len(job.attempts)] IN
         /\ Len(job.attempts) > 0
         /\ job.state = last.state
         /\ (job.run = "succeeded") <=> (job.state = "succeeded")
         /\ job.run = "running" => job.state \in {"running", "cancel-requested"}
         /\ last.credential = "active" =>
              /\ last.state \in {"running", "cancel-requested"}
              /\ job.runner = last.runner /\ last.runner \in RunnerIds
              /\ status[last.runner] \in {"active", "disabled"}
         /\ \A a \in 1 .. Len(job.attempts) - 1 :
              /\ job.attempts[a].state \in RunnerRetryable
              /\ job.attempts[a].credential # "active"

RunnerInv ==
  /\ RunnerTypeOK
  /\ \A j \in JobIds : RunnerJobSound(runnerJob[j], runnerStatus)

\* What WithAttempt makes of a Job that has an Attempt.
LEMMA WithAttemptIs ==
  ASSUME RunnerTypeOK, NEW j \in JobIds, Len(runnerJob[j].attempts) > 0,
         NEW a \in RunnerAttempts, NEW run \in {"queued", "running"} \cup RunnerResults
  PROVE  LET w == WithAttempt(j, a, run) IN
         /\ w \in RunnerJobs
         /\ w.state = a.state /\ w.run = run /\ w.runner = runnerJob[j].runner
         /\ Len(w.attempts) = Current(j)
         /\ w.attempts[Current(j)] = a
         /\ \A i \in 1 .. Current(j) - 1 : w.attempts[i] = runnerJob[j].attempts[i]
  <1> DEFINE job == runnerJob[j]
             w == WithAttempt(j, a, run)
             s == [job.attempts EXCEPT ![Current(j)] = a]
  <1>1. job \in RunnerJobs /\ Current(j) = Len(job.attempts)
    BY DEF RunnerTypeOK, Current
  <1>2. job.attempts \in Seq(RunnerAttempts) /\ Current(j) \in 1 .. Len(job.attempts)
    BY <1>1 DEF RunnerJobs
  <1>3. /\ s \in Seq(RunnerAttempts) /\ Len(s) = Current(j) /\ s[Current(j)] = a
        /\ \A i \in 1 .. Current(j) - 1 : s[i] = job.attempts[i]
    <2> HIDE DEF job
    <2> QED
      BY <1>1, <1>2
  <1>4. a.state \in {"absent", "queued"} \cup RunnerOpen \cup RunnerFinal
    BY DEF RunnerAttempts
  <1>5. w = [job EXCEPT !.state = a.state, !.run = run, !.attempts = s]
    BY <1>1 DEF WithAttempt, RunnerJobs
  <1> HIDE DEF job, s, w
  <1>6. w \in RunnerJobs /\ w.state = a.state /\ w.run = run /\ w.runner = job.runner /\ w.attempts = s
    BY <1>1, <1>3, <1>4, <1>5 DEF RunnerJobs
  <1> QED
    BY <1>3, <1>6 DEF job, w

\* A sound Job stays so when its last Attempt becomes a, as long as a, the Run
\* and the lease go together.
LEMMA WithAttemptSound ==
  ASSUME RunnerInv, NEW j \in JobIds, runnerJob[j].state # "absent",
         NEW a \in RunnerAttempts, NEW run \in {"queued", "running"} \cup RunnerResults,
         NEW status,
         a.state # "absent",
         (run = "succeeded") <=> (a.state = "succeeded"),
         run = "running" => a.state \in {"running", "cancel-requested"},
         a.credential = "active" =>
           /\ a.state \in {"running", "cancel-requested"}
           /\ runnerJob[j].runner = a.runner /\ a.runner \in RunnerIds
           /\ status[a.runner] \in {"active", "disabled"}
  PROVE  /\ WithAttempt(j, a, run) \in RunnerJobs
         /\ RunnerJobSound(WithAttempt(j, a, run), status)
  <1> DEFINE w == WithAttempt(j, a, run)
  <1>1. /\ Len(runnerJob[j].attempts) > 0
        /\ \A i \in 1 .. Len(runnerJob[j].attempts) - 1 :
              /\ runnerJob[j].attempts[i].state \in RunnerRetryable
              /\ runnerJob[j].attempts[i].credential # "active"
    BY DEF RunnerInv, RunnerJobSound
  <1>2. /\ w \in RunnerJobs
        /\ w.state = a.state /\ w.run = run /\ w.runner = runnerJob[j].runner
        /\ Len(w.attempts) = Len(runnerJob[j].attempts)
        /\ w.attempts[Len(w.attempts)] = a
        /\ \A i \in 1 .. Len(w.attempts) - 1 : w.attempts[i] = runnerJob[j].attempts[i]
    BY <1>1, WithAttemptIs DEF RunnerInv, Current
  <1> HIDE DEF w
  <1> QED
    BY <1>1, <1>2 DEF RunnerJobSound, w

\* The last Attempt of a Job, as the invariant has it.
LEMMA CurrentAttemptIs ==
  ASSUME RunnerInv, NEW j \in JobIds, runnerJob[j].state # "absent"
  PROVE  LET last == CurrentAttempt(j) IN
         /\ Current(j) \in 1 .. Len(runnerJob[j].attempts)
         /\ last \in RunnerAttempts
         /\ runnerJob[j] \in RunnerJobs
         /\ last.state = runnerJob[j].state
         /\ (runnerJob[j].run = "succeeded") <=> (last.state = "succeeded")
         /\ runnerJob[j].run = "running" => last.state \in {"running", "cancel-requested"}
         /\ last.credential = "active" =>
              /\ last.state \in {"running", "cancel-requested"}
              /\ runnerJob[j].runner = last.runner /\ last.runner \in RunnerIds
              /\ runnerStatus[last.runner] \in {"active", "disabled"}
  <1>1. runnerJob[j] \in RunnerJobs
    BY DEF RunnerInv, RunnerTypeOK
  <1>2. runnerJob[j].attempts \in Seq(RunnerAttempts)
    BY <1>1 DEF RunnerJobs
  <1>3. RunnerJobSound(runnerJob[j], runnerStatus)
    BY DEF RunnerInv
  <1> QED
    BY <1>1, <1>2, <1>3 DEF RunnerJobSound, Current, CurrentAttempt

\* An ended Attempt has no lease, so it is sound whoever was lost.
LEMMA RunnerEndedSound ==
  ASSUME RunnerInv, NEW j \in JobIds, runnerJob[j].state # "absent",
         NEW state \in RunnerFinal, NEW run \in RunnerResults, NEW status,
         (run = "succeeded") <=> (state = "succeeded")
  PROVE  /\ RunnerEnded(j, state, run) \in RunnerJobs
         /\ RunnerJobSound(RunnerEnded(j, state, run), status)
  <1> DEFINE a == [CurrentAttempt(j) EXCEPT
                    !.state = state,
                    !.credential = IF @ = "none" THEN @ ELSE "revoked"]
  <1>1. CurrentAttempt(j) \in RunnerAttempts
    BY CurrentAttemptIs
  <1>2. a \in RunnerAttempts /\ a.state = state /\ a.credential # "active"
    BY <1>1 DEF RunnerAttempts, RunnerFinal
  <1>3. RunnerEnded(j, state, run) = WithAttempt(j, a, run)
    BY DEF RunnerEnded
  <1>4. state # "absent" /\ run # "running"
    BY DEF RunnerFinal, RunnerResults
  <1> HIDE DEF a
  <1> QED
    BY <1>2, <1>3, <1>4, WithAttemptSound

\* A Job that stays as it is stays sound while no Runner of its lease is lost.
LEMMA RunnerJobKept ==
  ASSUME RunnerInv, NEW j \in JobIds, NEW status,
         \A r \in RunnerIds : runnerStatus[r] \in {"active", "disabled"} =>
           \/ status[r] \in {"active", "disabled"}
           \/ runnerJob[j].runner # r
           \/ runnerJob[j].state \notin RunnerOpen
  PROVE  RunnerJobSound(runnerJob[j], status)
  <1>1. RunnerJobSound(runnerJob[j], runnerStatus)
    BY DEF RunnerInv
  <1> QED
    BY <1>1 DEF RunnerJobSound, RunnerOpen

\* Of the last Attempt only the lease moves: it lapses or is revoked.
LEMMA RunnerLeaseMoves ==
  ASSUME RunnerInv, NEW j \in JobIds, runnerJob[j].state # "absent",
         NEW a \in RunnerAttempts,
         a.state = CurrentAttempt(j).state, a.runner = CurrentAttempt(j).runner,
         a.credential \in {CurrentAttempt(j).credential, "revoked"}
  PROVE  LET w == [runnerJob[j] EXCEPT !.attempts = [@ EXCEPT ![Current(j)] = a]] IN
         w \in RunnerJobs /\ RunnerJobSound(w, runnerStatus)
  <1> DEFINE s == [runnerJob[j].attempts EXCEPT ![Current(j)] = a]
             w == [runnerJob[j] EXCEPT !.attempts = s]
  <1>1. /\ runnerJob[j] \in RunnerJobs /\ RunnerJobSound(runnerJob[j], runnerStatus)
        /\ runnerJob[j].attempts \in Seq(RunnerAttempts)
    BY DEF RunnerInv, RunnerTypeOK, RunnerJobs
  <1>2. Current(j) = Len(runnerJob[j].attempts) /\ Len(runnerJob[j].attempts) > 0
    BY <1>1 DEF Current, RunnerJobSound
  <1>3. /\ s \in Seq(RunnerAttempts) /\ Len(s) = Len(runnerJob[j].attempts) /\ s[Len(s)] = a
        /\ \A i \in 1 .. Len(s) - 1 : s[i] = runnerJob[j].attempts[i]
    BY <1>1, <1>2
  <1> HIDE DEF s
  <1>4. /\ w \in RunnerJobs /\ w.state = runnerJob[j].state /\ w.run = runnerJob[j].run
        /\ w.runner = runnerJob[j].runner /\ w.attempts = s
    BY <1>1, <1>3 DEF RunnerJobs
  <1> HIDE DEF w
  <1>5. RunnerJobSound(w, runnerStatus)
    BY <1>1, <1>2, <1>3, <1>4 DEF RunnerJobSound, CurrentAttempt
  <1> QED
    BY <1>4, <1>5 DEF w, s

LEMMA RunnerInvStep == RunnerInv /\ [RunnerNext]_runnerVars => RunnerInv'
  <1> SUFFICES ASSUME RunnerInv, [RunnerNext]_runnerVars PROVE RunnerInv'
    OBVIOUS
  <1> USE RunnersAssumption
  <1>0. RunnerTypeOK /\ \A j \in JobIds : RunnerJobSound(runnerJob[j], runnerStatus)
    BY DEF RunnerInv
  \* Only the status of r changes, and not to one of a lost Runner.
  <1>1. ASSUME NEW r \in RunnerIds, NEW s \in {"enrolled", "active", "disabled"},
               runnerStatus[r] \in {"active", "disabled"} => s # "enrolled",
               runnerStatus' = [runnerStatus EXCEPT ![r] = s],
               UNCHANGED <<runnerJob, runnerQueue, runnerRetry>>
        PROVE  RunnerInv'
    <2>1. RunnerTypeOK'
      BY <1>0, <1>1 DEF RunnerTypeOK, RunnerStatuses
    <2>2. \A q \in RunnerIds : runnerStatus[q] \in {"active", "disabled"} =>
                                 runnerStatus'[q] \in {"active", "disabled"}
      BY <1>0, <1>1 DEF RunnerTypeOK
    <2>3. \A j \in JobIds : RunnerJobSound(runnerJob[j], runnerStatus')
      BY <2>2, RunnerJobKept
    <2> QED
      BY <1>1, <2>1, <2>3 DEF RunnerInv
  \* Only Job j changes.
  <1>2. ASSUME NEW j \in JobIds, NEW job \in RunnerJobs, RunnerJobSound(job, runnerStatus),
               runnerJob' = [runnerJob EXCEPT ![j] = job],
               runnerQueue' \in Seq(JobIds), runnerRetry' \in [RetryKeys -> JobIds \cup {NoRunner}],
               UNCHANGED runnerStatus
        PROVE  RunnerInv'
    <2>1. RunnerTypeOK'
      BY <1>0, <1>2 DEF RunnerTypeOK
    <2>2. \A i \in JobIds : runnerJob'[i] = IF i = j THEN job ELSE runnerJob[i]
      BY <1>0, <1>2 DEF RunnerTypeOK
    <2> QED
      BY <1>0, <1>2, <2>1, <2>2 DEF RunnerInv
  <1>3. ASSUME NEW r \in RunnerIds, RunnerEnroll(r) \/ RunnerActivate(r) \/ RunnerDisable(r)
        PROVE  RunnerInv'
    BY <1>1, <1>3 DEF RunnerEnroll, RunnerActivate, RunnerDisable
  <1>4. ASSUME NEW r \in RunnerIds, NEW status \in {"unavailable", "quarantined"},
               NEW state \in {"indeterminate", "quarantined"}, RunnerLost(r, status, state)
        PROVE  RunnerInv'
    <2>1. ASSUME NEW j \in JobIds
          PROVE  runnerJob'[j] \in RunnerJobs /\ RunnerJobSound(runnerJob'[j], runnerStatus')
      <3>1. CASE runnerJob[j].runner = r /\ runnerJob[j].state \in RunnerOpen
        <4>1. runnerJob'[j] = RunnerEnded(j, state, "indeterminate")
          BY <1>4, <3>1 DEF RunnerLost
        <4>2. runnerJob[j].state # "absent" /\ state \in RunnerFinal /\ "indeterminate" \in RunnerResults
          BY <3>1 DEF RunnerOpen, RunnerFinal, RunnerResults
        <4> QED
          BY <4>1, <4>2, RunnerEndedSound
      <3>2. CASE ~ (runnerJob[j].runner = r /\ runnerJob[j].state \in RunnerOpen)
        <4>1. runnerJob'[j] = runnerJob[j]
          BY <1>4, <3>2 DEF RunnerLost
        <4>2. \A q \in RunnerIds : q # r => runnerStatus'[q] = runnerStatus[q]
          BY <1>0, <1>4 DEF RunnerLost, RunnerTypeOK
        <4>3. RunnerJobSound(runnerJob[j], runnerStatus')
          BY <4>2, <3>2, RunnerJobKept
        <4> QED
          BY <4>1, <4>3, <1>0 DEF RunnerTypeOK
      <3> QED
        BY <3>1, <3>2
    <2>2. RunnerTypeOK'
      BY <2>1, <1>0, <1>4 DEF RunnerLost, RunnerTypeOK, RunnerStatuses
    <2> QED
      BY <2>1, <2>2 DEF RunnerInv
  <1>5. ASSUME NEW r \in RunnerIds, RunnerPull(r) PROVE RunnerInv'
    <2>1. PICK i \in 1 .. Len(runnerQueue) :
            /\ runnerJob[runnerQueue[i]].state = "queued"
            /\ runnerJob' = [runnerJob EXCEPT ![runnerQueue[i]] =
                 [WithAttempt(runnerQueue[i], [CurrentAttempt(runnerQueue[i]) EXCEPT !.state = "offered"],
                              @.run) EXCEPT !.runner = r]]
      BY <1>5 DEF RunnerPull
    <2> DEFINE j == runnerQueue[i]
               a == [CurrentAttempt(j) EXCEPT !.state = "offered"]
               run == runnerJob[j].run
               w == WithAttempt(j, a, run)
               job == [w EXCEPT !.runner = r]
    <2>2. j \in JobIds /\ runnerJob[j].state # "absent"
      BY <2>1, <1>0 DEF RunnerTypeOK
    <2>3. a \in RunnerAttempts /\ a.state = "offered" /\ a.credential # "active"
      BY <2>1, <2>2, CurrentAttemptIs DEF RunnerAttempts, RunnerOpen
    <2>4. /\ run \in {"queued", "running"} \cup RunnerResults
          /\ run # "succeeded" /\ run # "running"
      BY <2>1, <2>2, CurrentAttemptIs DEF RunnerJobs
    <2>5. runnerJob' = [runnerJob EXCEPT ![j] = job] /\ j \in JobIds
      BY <2>1, <2>2, <1>0 DEF RunnerTypeOK
    <2> HIDE DEF j, a, run
    <2>6. w \in RunnerJobs /\ RunnerJobSound(w, runnerStatus) /\ w.attempts[Len(w.attempts)] = a
      <3>1. Len(runnerJob[j].attempts) > 0
        BY <2>2, <1>0 DEF RunnerJobSound
      <3>2. Len(w.attempts) = Current(j) /\ w.attempts[Current(j)] = a
        BY <3>1, <2>2, <2>3, <2>4, <1>0, WithAttemptIs
      <3> QED
        BY <2>2, <2>3, <2>4, <3>2, WithAttemptSound
    <2> HIDE DEF w
    <2>7. job \in RunnerJobs /\ RunnerJobSound(job, runnerStatus)
      BY <2>3, <2>6 DEF RunnerJobs, RunnerJobSound
    <2> HIDE DEF job
    <2> QED
      BY <2>5, <2>7, <1>0, <1>2, <1>5 DEF RunnerPull, RunnerTypeOK
  \* The last Attempt of a Job under way becomes a.
  <1>6. ASSUME NEW j \in JobIds, runnerJob[j].state # "absent",
               NEW a \in RunnerAttempts, NEW run \in {"queued", "running"} \cup RunnerResults,
               a.state # "absent",
               (run = "succeeded") <=> (a.state = "succeeded"),
               run = "running" => a.state \in {"running", "cancel-requested"},
               a.credential = "active" =>
                 /\ a.state \in {"running", "cancel-requested"}
                 /\ runnerJob[j].runner = a.runner /\ a.runner \in RunnerIds
                 /\ runnerStatus[a.runner] \in {"active", "disabled"},
               runnerJob' = [runnerJob EXCEPT ![j] = WithAttempt(j, a, run)],
               UNCHANGED <<runnerStatus, runnerQueue, runnerRetry>>
        PROVE  RunnerInv'
    BY <1>0, <1>2, <1>6, WithAttemptSound DEF RunnerTypeOK
  <1>7. ASSUME NEW j \in JobIds, runnerJob[j].state # "absent",
               NEW state \in RunnerFinal, NEW run \in RunnerResults,
               (run = "succeeded") <=> (state = "succeeded"),
               runnerJob' = [runnerJob EXCEPT ![j] = RunnerEnded(j, state, run)],
               UNCHANGED <<runnerStatus, runnerQueue, runnerRetry>>
        PROVE  RunnerInv'
    BY <1>0, <1>2, <1>7, RunnerEndedSound DEF RunnerTypeOK
  <1>8. ASSUME NEW r \in RunnerIds, NEW j \in JobIds, RunnerClaim(r, j) PROVE RunnerInv'
    <2> DEFINE a == [CurrentAttempt(j) EXCEPT !.state = "running", !.runner = r,
                                              !.credential = "active"]
    <2>1. runnerJob[j].state # "absent" /\ runnerStatus[r] = "active" /\ runnerJob[j].runner = r
      BY <1>8 DEF RunnerClaim
    <2>2. CurrentAttempt(j) \in RunnerAttempts
      BY <2>1, CurrentAttemptIs
    <2>3. /\ a \in RunnerAttempts /\ a.state = "running" /\ a.runner = r /\ a.credential = "active"
      BY <2>2 DEF RunnerAttempts, RunnerOpen
    <2>4. /\ runnerJob' = [runnerJob EXCEPT ![j] = WithAttempt(j, a, "running")]
          /\ UNCHANGED <<runnerStatus, runnerQueue, runnerRetry>>
      BY <1>8 DEF RunnerClaim
    <2> HIDE DEF a
    <2> QED
      BY <2>1, <2>3, <2>4, <1>6
  <1>9. ASSUME NEW j \in JobIds, RunnerEnqueue(j) PROVE RunnerInv'
    <2> DEFINE s == <<RunnerFreshAttempt>>
               job == [runnerJob[j] EXCEPT !.state = "queued", !.attempts = s]
    <2>1. RunnerFreshAttempt \in RunnerAttempts
      BY DEF RunnerFreshAttempt, RunnerAttempts
    <2>2. /\ s \in Seq(RunnerAttempts) /\ Len(s) = 1
          /\ s[1].state = "queued" /\ s[1].credential = "none"
      BY <2>1 DEF RunnerFreshAttempt
    <2>3. runnerJob[j] \in RunnerJobs /\ runnerJob[j].run = "queued"
      BY <1>0, <1>9 DEF RunnerEnqueue, RunnerTypeOK, RunnerJobSound
    <2>4. runnerJob' = [runnerJob EXCEPT ![j] = job] /\ runnerQueue' \in Seq(JobIds)
          /\ UNCHANGED <<runnerStatus, runnerRetry>>
      BY <1>9, <1>0 DEF RunnerEnqueue, RunnerTypeOK
    <2> HIDE DEF s
    <2>5. job \in RunnerJobs /\ job.state = "queued" /\ job.run = "queued" /\ job.attempts = s
      BY <2>2, <2>3 DEF RunnerJobs
    <2> HIDE DEF job
    <2>6. RunnerJobSound(job, runnerStatus)
      <3>1. Len(job.attempts) = 1
        BY <2>2, <2>5
      <3>2. job.attempts[1] = s[1]
        BY <2>5
      <3>3. \A a \in 1 .. Len(job.attempts) - 1 : FALSE
        BY <3>1
      <3>4. job.attempts[Len(job.attempts)].state = "queued"
            /\ job.attempts[Len(job.attempts)].credential = "none"
        BY <3>1, <3>2, <2>2
      <3>5. Len(job.attempts) > 0
        BY <3>1
      <3> QED
        BY <2>5, <3>3, <3>4, <3>5 DEF RunnerJobSound
    <2> QED
      BY <2>4, <2>5, <2>6, <1>0, <1>2 DEF RunnerTypeOK
  <1>10. ASSUME NEW j \in JobIds, RunnerRequestCancellation(j) PROVE RunnerInv'
    <2> DEFINE a == [CurrentAttempt(j) EXCEPT !.state = "cancel-requested"]
               run == runnerJob[j].run
    <2>1. runnerJob[j].state # "absent" /\ runnerJob[j].state # "succeeded"
      BY <1>10 DEF RunnerRequestCancellation
    <2>2. /\ a \in RunnerAttempts /\ a.state = "cancel-requested"
          /\ a.credential = CurrentAttempt(j).credential /\ a.runner = CurrentAttempt(j).runner
      BY <2>1, CurrentAttemptIs DEF RunnerAttempts, RunnerOpen
    <2>3. /\ run \in {"queued", "running"} \cup RunnerResults /\ run # "succeeded"
      BY <2>1, CurrentAttemptIs DEF RunnerJobs
    <2>4. /\ runnerJob' = [runnerJob EXCEPT ![j] = WithAttempt(j, a, run)]
          /\ UNCHANGED <<runnerStatus, runnerQueue, runnerRetry>>
      BY <1>10, <1>0 DEF RunnerRequestCancellation, RunnerTypeOK
    <2>5. a.credential = "active" =>
                 /\ runnerJob[j].runner = a.runner /\ a.runner \in RunnerIds
                 /\ runnerStatus[a.runner] \in {"active", "disabled"}
      BY <2>1, <2>2, CurrentAttemptIs
    <2> HIDE DEF a, run
    <2> QED
      BY <2>1, <2>2, <2>3, <2>4, <2>5, <1>6
  <1>11. ASSUME NEW j \in JobIds, RunnerExpire(j) PROVE RunnerInv'
    BY <1>7, <1>11 DEF RunnerExpire, RunnerFinal, RunnerResults
  <1>12. ASSUME NEW j \in JobIds, RunnerLeaseLapses(j) PROVE RunnerInv'
    <2> DEFINE a == [CurrentAttempt(j) EXCEPT !.lapsed = TRUE]
    <2>1. runnerJob[j].state # "absent"
      BY <1>12 DEF RunnerLeaseLapses, RunnerOpen
    <2>2. /\ a \in RunnerAttempts /\ a.state = CurrentAttempt(j).state
          /\ a.credential = CurrentAttempt(j).credential /\ a.runner = CurrentAttempt(j).runner
      BY <2>1, CurrentAttemptIs DEF RunnerAttempts
    <2>3. /\ runnerJob' = [runnerJob EXCEPT ![j] =
                [runnerJob[j] EXCEPT !.attempts = [@ EXCEPT ![Current(j)] = a]]]
          /\ UNCHANGED <<runnerStatus, runnerQueue, runnerRetry>>
      BY <1>12 DEF RunnerLeaseLapses, CurrentAttempt
    <2> HIDE DEF a
    <2> QED
      BY <2>1, <2>2, <2>3, <1>0, <1>2, RunnerLeaseMoves DEF RunnerTypeOK
  <1>13. ASSUME NEW j \in JobIds, NEW k \in RetryKeys, RunnerRetryJob(j, k) PROVE RunnerInv'
    <2> DEFINE s == Append(runnerJob[j].attempts, RunnerFreshAttempt)
               job == [state |-> "queued", run |-> "queued", runner |-> NoRunner, attempts |-> s]
               n == Len(runnerJob[j].attempts)
    <2>1. RunnerFreshAttempt \in RunnerAttempts
      BY DEF RunnerFreshAttempt, RunnerAttempts
    <2>2. /\ runnerJob[j].state # "absent" /\ runnerJob[j].state \in RunnerRetryable
          /\ runnerJob' = [runnerJob EXCEPT ![j] = job]
          /\ runnerRetry' = [runnerRetry EXCEPT ![k] = j]
          /\ UNCHANGED <<runnerStatus, runnerQueue>>
      BY <1>13, <1>0 DEF RunnerRetryJob, RunnerTypeOK, RunnerRetryable, RunnerFinal
    <2>3. runnerJob[j] \in RunnerJobs /\ RunnerJobSound(runnerJob[j], runnerStatus)
      BY <1>0 DEF RunnerTypeOK
    <2>4. runnerJob[j].attempts \in Seq(RunnerAttempts)
      BY <2>3 DEF RunnerJobs
    <2>5. /\ s \in Seq(RunnerAttempts) /\ Len(s) = n + 1 /\ n \in Nat
          /\ s[n + 1].state = "queued" /\ s[n + 1].credential = "none"
          /\ \A i \in 1 .. n : s[i] = runnerJob[j].attempts[i]
      BY <2>1, <2>4 DEF RunnerFreshAttempt
    <2>6. \A i \in 1 .. n : /\ runnerJob[j].attempts[i].state \in RunnerRetryable
                             /\ runnerJob[j].attempts[i].credential # "active"
      BY <2>2, <2>3, <2>5 DEF RunnerJobSound, RunnerRetryable, RunnerFinal
    <2> HIDE DEF s
    <2>7. job \in RunnerJobs /\ job.state = "queued" /\ job.run = "queued" /\ job.attempts = s
      BY <2>5 DEF RunnerJobs
    <2> HIDE DEF job, n
    <2>8. RunnerJobSound(job, runnerStatus)
      BY <2>5, <2>6, <2>7 DEF RunnerJobSound
    <2> QED
      BY <2>2, <2>7, <2>8, <1>0, <1>2 DEF RunnerTypeOK
  <1>14. ASSUME NEW j \in JobIds, NEW i \in 1 .. MaxAttempts, RunnerCredentialLapses(j, i) PROVE RunnerInv'
    <2> DEFINE a == [CurrentAttempt(j) EXCEPT !.credential = "revoked"]
    <2>1. runnerJob[j].state # "absent" /\ i = Current(j)
      BY <1>14, <1>0 DEF RunnerCredentialLapses, RunnerJobSound, Current
    <2>2. /\ a \in RunnerAttempts /\ a.state = CurrentAttempt(j).state
          /\ a.credential = "revoked" /\ a.runner = CurrentAttempt(j).runner
      BY <2>1, CurrentAttemptIs DEF RunnerAttempts
    <2>3. /\ runnerJob' = [runnerJob EXCEPT ![j] =
                [runnerJob[j] EXCEPT !.attempts = [@ EXCEPT ![Current(j)] = a]]]
          /\ UNCHANGED <<runnerStatus, runnerQueue, runnerRetry>>
      BY <1>14, <2>1 DEF RunnerCredentialLapses, CurrentAttempt
    <2> HIDE DEF a
    <2> QED
      BY <2>1, <2>2, <2>3, <1>0, <1>2, RunnerLeaseMoves DEF RunnerTypeOK
  <1>15. ASSUME NEW j \in JobIds, NEW a \in 1 .. MaxAttempts, NEW result \in RunnerResults,
                RunnerSubmit(j, a, result)
         PROVE RunnerInv'
    <2>1. runnerJob[j].state # "absent" /\ result \in RunnerFinal
      BY <1>15 DEF RunnerSubmit, RunnerResults, RunnerFinal
    <2> QED
      BY <2>1, <1>7, <1>15 DEF RunnerSubmit
  <1>16. ASSUME NEW j \in JobIds, NEW a \in 1 .. MaxAttempts, NEW outcome \in {"stopped", "unknown"},
                RunnerFinalizeCancellation(j, a, outcome)
         PROVE RunnerInv'
    BY <1>7, <1>16 DEF RunnerFinalizeCancellation, RunnerFinal, RunnerResults
  <1>17. CASE UNCHANGED runnerVars
    BY <1>0, <1>17 DEF runnerVars, RunnerInv, RunnerTypeOK
  <1> QED
    BY <1>3, <1>4, <1>5, <1>8, <1>9, <1>10, <1>11, <1>12, <1>13, <1>14, <1>15, <1>16, <1>17
       DEF RunnerNext, RunnerMarkUnavailable, RunnerQuarantine

LEMMA RunnerInvHolds == RunnerSpec => []RunnerInv
  <1>1. RunnerInit => RunnerInv
    <2> SUFFICES ASSUME RunnerInit PROVE RunnerInv
      OBVIOUS
    <2> DEFINE job == [state |-> "absent", run |-> "queued", runner |-> NoRunner, attempts |-> << >>]
    <2>1. job \in RunnerJobs /\ RunnerJobSound(job, runnerStatus)
      BY DEF RunnerJobs, RunnerJobSound
    <2>2. runnerJob = [j \in JobIds |-> job]
      BY DEF RunnerInit
    <2> HIDE DEF job
    <2> QED
      BY <2>1, <2>2 DEF RunnerInit, RunnerInv, RunnerTypeOK, RunnerStatuses
  <1> QED
    BY <1>1, RunnerInvStep, PTL DEF RunnerSpec

\* Every record of the Runner coordinator has its type.
THEOREM RunnerTypeCorrect == RunnerSpec => []RunnerTypeOK
  BY RunnerInvHolds, PTL DEF RunnerInv

\* At most one credential of a Job is active, that of the Runner holding the
\* current, unfinished Attempt, whatever is retried, lost or expired.
THEOREM RunnerLeaseIsCurrentCorrect == RunnerSpec => []RunnerLeaseIsCurrent
  <1>1. RunnerInv => RunnerLeaseIsCurrent
    <2> SUFFICES ASSUME RunnerInv, NEW j \in JobIds, NEW a \in 1 .. Len(runnerJob[j].attempts),
                        runnerJob[j].attempts[a].credential = "active"
                 PROVE  LET att == runnerJob[j].attempts[a] IN
                        /\ a = Current(j)
                        /\ att.state \in {"running", "cancel-requested"}
                        /\ runnerJob[j].runner = att.runner
                        /\ runnerStatus[att.runner] \in {"active", "disabled"}
      BY DEF RunnerLeaseIsCurrent
    <2>1. RunnerJobSound(runnerJob[j], runnerStatus)
      BY DEF RunnerInv
    <2> QED
      BY <2>1 DEF RunnerJobSound, Current
  <1> QED
    BY <1>1, RunnerInvHolds, PTL

\* Job, current Attempt and Run tell the same story.
THEOREM RunnerJobAgreesCorrect == RunnerSpec => []RunnerJobAgrees
  <1>1. RunnerInv => RunnerJobAgrees
    BY DEF RunnerInv, RunnerJobSound, RunnerJobAgrees, Current, CurrentAttempt
  <1> QED
    BY <1>1, RunnerInvHolds, PTL

\* The Attempts of Job j that ended are in the Job job, as they ended.
RunnerKeeps(j, job) ==
  \A a \in 1 .. Len(runnerJob[j].attempts) :
    runnerJob[j].attempts[a].state \in RunnerFinal =>
      /\ a <= Len(job.attempts)
      /\ job.attempts[a].state = runnerJob[j].attempts[a].state

\* An Attempt that ended is not given another state by retry, cancellation,
\* expiry or the loss of its Runner.
THEOREM RunnerAttemptsFinalCorrect == RunnerSpec => RunnerAttemptsFinal
  <1>1. ASSUME RunnerInv, RunnerNext, NEW j \in JobIds
        PROVE  RunnerKeeps(j, runnerJob'[j])
    <2>1. /\ runnerJob \in [JobIds -> RunnerJobs] /\ runnerQueue \in Seq(JobIds)
          /\ runnerJob[j].attempts \in Seq(RunnerAttempts)
          /\ RunnerJobSound(runnerJob[j], runnerStatus)
      BY <1>1 DEF RunnerInv, RunnerTypeOK, RunnerJobs
    <2>2. RunnerKeeps(j, runnerJob[j])
      BY <2>1 DEF RunnerKeeps
    \* The last Attempt is replaced, and had not ended.
    <2>3. ASSUME runnerJob[j].state \in {"queued"} \cup RunnerOpen, NEW a, NEW run
          PROVE  RunnerKeeps(j, WithAttempt(j, a, run))
      <3> DEFINE s == [runnerJob[j].attempts EXCEPT ![Current(j)] = a]
      <3>1. WithAttempt(j, a, run).attempts = s
        BY <2>1 DEF WithAttempt, RunnerJobs
      <3>2. /\ Len(s) = Len(runnerJob[j].attempts)
            /\ \A i \in 1 .. Len(s) : i # Current(j) => s[i] = runnerJob[j].attempts[i]
        BY <2>1
      <3>3. runnerJob[j].attempts[Current(j)].state \notin RunnerFinal
        BY <2>1, <2>3 DEF RunnerJobSound, Current, RunnerOpen, RunnerFinal
      <3> HIDE DEF s
      <3> QED
        BY <2>1, <3>1, <3>2, <3>3 DEF RunnerKeeps
    <2>4. ASSUME runnerJob[j].state \in {"queued"} \cup RunnerOpen, NEW state, NEW run
          PROVE  RunnerKeeps(j, RunnerEnded(j, state, run))
      BY <2>3, <2>4 DEF RunnerEnded
    \* The state of no Attempt changes.
    <2>5. ASSUME NEW i, NEW a, a.state = runnerJob[j].attempts[i].state
          PROVE  RunnerKeeps(j, [runnerJob[j] EXCEPT !.attempts = [@ EXCEPT ![i] = a]])
      <3> DEFINE s == [runnerJob[j].attempts EXCEPT ![i] = a]
                 w == [runnerJob[j] EXCEPT !.attempts = s]
      <3>1. w.attempts = s
        BY <2>1 DEF RunnerJobs
      <3>2. /\ Len(s) = Len(runnerJob[j].attempts)
            /\ \A k \in 1 .. Len(s) : s[k] = IF k = i THEN a ELSE runnerJob[j].attempts[k]
        BY <2>1
      <3> HIDE DEF s
      <3> QED
        BY <2>1, <2>5, <3>1, <3>2 DEF RunnerKeeps
    <2>6. ASSUME NEW r \in RunnerIds, NEW status, NEW state, RunnerLost(r, status, state)
          PROVE  RunnerKeeps(j, runnerJob'[j])
      BY <2>2, <2>4, <2>6 DEF RunnerLost
    <2>7. ASSUME NEW r \in RunnerIds, RunnerPull(r)
          PROVE  RunnerKeeps(j, runnerJob'[j])
      <3>1. PICK i \in 1 .. Len(runnerQueue) :
              /\ runnerJob[runnerQueue[i]].state = "queued"
              /\ runnerJob' = [runnerJob EXCEPT ![runnerQueue[i]] =
                   [WithAttempt(runnerQueue[i], [CurrentAttempt(runnerQueue[i]) EXCEPT !.state = "offered"],
                                @.run) EXCEPT !.runner = r]]
        BY <2>7 DEF RunnerPull
      <3>2. CASE runnerQueue[i] = j
        <4> DEFINE w == WithAttempt(j, [CurrentAttempt(j) EXCEPT !.state = "offered"], runnerJob[j].run)
                   job == [w EXCEPT !.runner = r]
        <4>1. runnerJob'[j] = job
          BY <2>1, <3>1, <3>2
        <4>2. RunnerKeeps(j, w)
          BY <2>3, <3>1, <3>2
        <4>3. job.attempts = w.attempts
          BY DEF WithAttempt
        <4> HIDE DEF w, job
        <4> QED
          BY <4>1, <4>2, <4>3 DEF RunnerKeeps
      <3>3. CASE runnerQueue[i] # j
        BY <2>1, <2>2, <3>1, <3>3
      <3> QED
        BY <3>2, <3>3
    <2>8. ASSUME NEW r \in RunnerIds,
                 RunnerEnroll(r) \/ RunnerActivate(r) \/ RunnerDisable(r)
          PROVE  RunnerKeeps(j, runnerJob'[j])
      BY <2>2, <2>8 DEF RunnerEnroll, RunnerActivate, RunnerDisable
    \* Another Job changes.
    <2>9. ASSUME NEW i \in JobIds, i # j, NEW job, runnerJob' = [runnerJob EXCEPT ![i] = job]
          PROVE  RunnerKeeps(j, runnerJob'[j])
      BY <2>1, <2>2, <2>9
    <2>10. ASSUME NEW job, RunnerKeeps(j, job), runnerJob' = [runnerJob EXCEPT ![j] = job]
           PROVE  RunnerKeeps(j, runnerJob'[j])
      BY <2>1, <2>10
    <2>11. ASSUME NEW r \in RunnerIds, NEW i \in JobIds, RunnerClaim(r, i)
           PROVE  RunnerKeeps(j, runnerJob'[j])
      <3>1. CASE i = j
        BY <2>3, <2>10, <2>11, <3>1 DEF RunnerClaim, RunnerOpen
      <3>2. CASE i # j
        BY <2>9, <2>11, <3>2 DEF RunnerClaim
      <3> QED
        BY <3>1, <3>2
    <2>12. ASSUME NEW i \in JobIds, RunnerRequestCancellation(i)
           PROVE  RunnerKeeps(j, runnerJob'[j])
      <3>1. CASE i = j
        BY <2>1, <2>3, <2>10, <2>12, <3>1 DEF RunnerRequestCancellation, RunnerOpen
      <3>2. CASE i # j
        BY <2>9, <2>12, <3>2 DEF RunnerRequestCancellation
      <3> QED
        BY <3>1, <3>2
    <2>13. ASSUME NEW i \in JobIds, RunnerExpire(i)
           PROVE  RunnerKeeps(j, runnerJob'[j])
      <3>1. CASE i = j
        <4>1. runnerJob[j].state \in {"queued"} \cup RunnerOpen
          BY <2>1, <2>13, <3>1 DEF RunnerExpire, RunnerJobSound, CurrentAttempt, Current, RunnerJobs
        <4> QED
          BY <4>1, <2>4, <2>10, <2>13, <3>1 DEF RunnerExpire
      <3>2. CASE i # j
        BY <2>9, <2>13, <3>2 DEF RunnerExpire
      <3> QED
        BY <3>1, <3>2
    <2>14. ASSUME NEW i \in JobIds, NEW a \in 1 .. MaxAttempts,
                  \/ \E result \in RunnerResults : RunnerSubmit(i, a, result)
                  \/ \E outcome \in {"stopped", "unknown"} : RunnerFinalizeCancellation(i, a, outcome)
           PROVE  RunnerKeeps(j, runnerJob'[j])
      <3>1. \E state, run : runnerJob' = [runnerJob EXCEPT ![i] = RunnerEnded(i, state, run)]
        BY <2>14 DEF RunnerSubmit, RunnerFinalizeCancellation
      <3>2. runnerJob[i].state \in RunnerOpen
        BY <2>14 DEF RunnerSubmit, RunnerFinalizeCancellation, RunnerOpen
      <3>3. CASE i = j
        BY <3>1, <3>2, <3>3, <2>4, <2>10
      <3>4. CASE i # j
        BY <3>1, <3>4, <2>9
      <3> QED
        BY <3>3, <3>4
    <2>15. ASSUME NEW i \in JobIds, RunnerEnqueue(i)
           PROVE  RunnerKeeps(j, runnerJob'[j])
      <3>1. CASE i = j
        <4>1. Len(runnerJob[j].attempts) = 0
          BY <2>1, <2>15, <3>1 DEF RunnerEnqueue, RunnerJobSound
        <4> QED
          BY <4>1 DEF RunnerKeeps
      <3>2. CASE i # j
        BY <2>9, <2>15, <3>2 DEF RunnerEnqueue
      <3> QED
        BY <3>1, <3>2
    <2>16. ASSUME NEW i \in JobIds, NEW k \in RetryKeys, RunnerRetryJob(i, k)
           PROVE  RunnerKeeps(j, runnerJob'[j])
      <3>1. CASE i = j
        <4> DEFINE s == Append(runnerJob[j].attempts, RunnerFreshAttempt)
        <4>1. runnerJob'[j].attempts = s
          BY <2>1, <2>16, <3>1 DEF RunnerRetryJob
        <4>2. /\ Len(s) = Len(runnerJob[j].attempts) + 1
              /\ \A n \in 1 .. Len(runnerJob[j].attempts) : s[n] = runnerJob[j].attempts[n]
          BY <2>1
        <4> HIDE DEF s
        <4> QED
          BY <4>1, <4>2, <2>1 DEF RunnerKeeps
      <3>2. CASE i # j
        BY <2>9, <2>16, <3>2 DEF RunnerRetryJob
      <3> QED
        BY <3>1, <3>2
    <2>17. ASSUME NEW i \in JobIds, RunnerLeaseLapses(i)
           PROVE  RunnerKeeps(j, runnerJob'[j])
      <3>1. CASE i = j
        <4> DEFINE a == [CurrentAttempt(j) EXCEPT !.lapsed = TRUE]
        <4>1. /\ runnerJob' = [runnerJob EXCEPT ![j] =
                    [runnerJob[j] EXCEPT !.attempts = [@ EXCEPT ![Current(j)] = a]]]
          BY <2>17, <3>1 DEF RunnerLeaseLapses, CurrentAttempt
        <4>2. a.state = runnerJob[j].attempts[Current(j)].state
          BY DEF CurrentAttempt
        <4> HIDE DEF a
        <4> QED
          BY <4>1, <4>2, <2>5, <2>10
      <3>2. CASE i # j
        BY <2>9, <2>17, <3>2 DEF RunnerLeaseLapses
      <3> QED
        BY <3>1, <3>2
    <2>18. ASSUME NEW i \in JobIds, NEW n \in 1 .. MaxAttempts, RunnerCredentialLapses(i, n)
           PROVE  RunnerKeeps(j, runnerJob'[j])
      <3>1. CASE i = j
        <4> DEFINE a == [runnerJob[j].attempts[n] EXCEPT !.credential = "revoked"]
        <4>1. /\ runnerJob' = [runnerJob EXCEPT ![j] =
                    [runnerJob[j] EXCEPT !.attempts = [@ EXCEPT ![n] = a]]]
          BY <2>18, <3>1 DEF RunnerCredentialLapses
        <4>2. a.state = runnerJob[j].attempts[n].state
          OBVIOUS
        <4> HIDE DEF a
        <4> QED
          BY <4>1, <4>2, <2>5, <2>10
      <3>2. CASE i # j
        BY <2>9, <2>18, <3>2 DEF RunnerCredentialLapses
      <3> QED
        BY <3>1, <3>2
    <2> QED
      BY <1>1, <2>6, <2>7, <2>8, <2>11, <2>12, <2>13, <2>14, <2>15, <2>16, <2>17, <2>18
         DEF RunnerNext, RunnerMarkUnavailable, RunnerQuarantine
  <1>2. ASSUME RunnerInv, [RunnerNext]_runnerVars
        PROVE  [\A j \in JobIds : RunnerKeeps(j, runnerJob'[j])]_runnerVars
    BY <1>1, <1>2
  <1> QED
    BY <1>2, RunnerInvHolds, PTL DEF RunnerSpec, RunnerAttemptsFinal, RunnerKeeps

-----------------------------------------------------------------------------
(* Local execution *)

\* Evidence that names what it was made of: its keys are those of its inputs,
\* and what passed is what the Action builds from them.
ExecGood(e) ==
  /\ DOMAIN e = {"id", "task", "validity", "reuse", "inputs", "outcome", "out"}
  /\ e.task \in ExecTasks
  /\ e.outcome \in {"passed", "failed"}
  /\ e.reuse = ReuseKey(e.task, e.inputs)
  /\ e.validity = ValidityKey(e.validity[1], e.task, e.inputs)
  /\ e.outcome = "passed" => e.out = Build(e.task.action, e.inputs)

\* Only what passed is in the cache.
ExecEvidenceGood ==
  /\ \A e \in execCache.exact \cup execCache.reusable : ExecGood(e) /\ e.outcome = "passed"
  /\ execLedger \in Seq(Range(execLedger))
  /\ \A i \in 1 .. Len(execLedger) : ExecGood(execLedger[i])

\* The last word of the ledger on a failed result is that it failed.
ExecFailureStands(n) ==
  execRelease.results[n].outcome = "failed" =>
    \E l \in 1 .. Len(execLedger) :
      /\ execLedger[l] = execRelease.results[n]
      /\ \A m \in l + 1 .. Len(execLedger) : execLedger[m].task # Tasks[n]

\* The files are still what result n says it took and made.
ExecFilesMatch(n) ==
  /\ execRelease.results[n].inputs = InputsOf(Tasks[n].action)
  /\ execRelease.results[n].out = execFiles[Tasks[n].action]

ExecResultOK(n) ==
  LET e == execRelease.results[n] IN
  /\ ExecGood(e) /\ e.task = Tasks[n] /\ e.validity[1] = execRelease.rev
  /\ ExecFailureStands(n)

ExecAllPassed ==
  \A n \in 1 .. Len(execRelease.results) : execRelease.results[n].outcome = "passed"

ExecUnderWay ==
  LET r == execRelease IN
  /\ DOMAIN r = {"at", "rev", "inputs", "reading", "results", "selected"}
  /\ r.at \in 1 .. Len(Tasks) + 1
  /\ r.reading \in BOOLEAN
  /\ r.results \in Seq(Range(r.results)) /\ Len(r.results) = r.at - 1
  /\ ~ r.reading => r.at <= Len(Tasks) /\ r.inputs = InputsOf(Tasks[r.at].action)
  /\ \A n \in 1 .. Len(r.results) : ExecResultOK(n)
  /\ TasksInOrder /\ ExecAllPassed => \A n \in 1 .. Len(r.results) : ExecFilesMatch(n)

ExecInv ==
  /\ DOMAIN execFiles = ExecPaths
  /\ execFiles = [p \in ExecPaths |-> execFiles[p]]
  /\ ExecEvidenceGood
  /\ execRelease = Idle \/ ExecUnderWay
  /\ execReleases \in Seq(Range(execReleases))
  /\ \A i \in 1 .. Len(execReleases) : execReleases[i].status \in {"ready", "draft"}
  /\ ExecReadyIsWhole

\* What appending does to a sequence, whatever it holds.
LEMMA AppendKeeps ==
  ASSUME NEW s, s \in Seq(Range(s)), NEW e
  PROVE  LET t == Append(s, e) IN
         /\ t \in Seq(Range(t))
         /\ Len(s) \in Nat /\ Len(t) = Len(s) + 1
         /\ t[Len(s) + 1] = e
         /\ \A i \in 1 .. Len(s) : t[i] = s[i]
  <1> DEFINE S == Range(s) \cup {e}
             t == Append(s, e)
  <1>1. s \in Seq(S) /\ e \in S
    <2> DEFINE R == Range(s)
    <2>1. s \in Seq(R)
      OBVIOUS
    <2> HIDE DEF R
    <2> QED
      BY <2>1 DEF R
  <1> HIDE DEF S
  <1>2. /\ t \in Seq(S) /\ Len(s) \in Nat /\ Len(t) = Len(s) + 1
        /\ t[Len(s) + 1] = e
        /\ \A i \in 1 .. Len(s) : t[i] = s[i]
    BY <1>1
  <1> HIDE DEF t
  <1>3. t \in Seq(Range(t))
    <2>1. \A i \in 1 .. Len(t) : t[i] \in Range(t)
      BY <1>2 DEF Range
    <2> DEFINE R == Range(t)
    <2> HIDE DEF R
    <2>2. \A i \in 1 .. Len(t) : t[i] \in R
      BY <2>1 DEF R
    <2>3. t \in Seq(R)
      BY <1>2, <2>2
    <2> QED
      BY <2>3 DEF R
  <1> QED
    BY <1>2, <1>3 DEF t

\* What the constants are known to be.
LEMMA ExecConstants ==
  /\ Len(Tasks) \in Nat
  /\ \A i \in 1 .. Len(Tasks) : Tasks[i].action \in ExecActions /\ Tasks[i] \in ExecTasks
  /\ \A i, k \in 1 .. Len(Tasks) : Tasks[i] = Tasks[k] => i = k
  /\ ExecActions \subseteq ExecPaths
  /\ \A b \in ExecActions : InputPaths[b] \subseteq ExecPaths
  <1>1. /\ Tasks \in Seq([action : ExecActions, verifier : STRING])
        /\ \A i, k \in 1 .. Len(Tasks) : Tasks[i] = Tasks[k] => i = k
        /\ InputPaths \in [ExecActions -> SUBSET ExecPaths]
    BY ExecAssumption
  <1>2. /\ Len(Tasks) \in Nat
        /\ \A i \in 1 .. Len(Tasks) : Tasks[i] \in [action : ExecActions, verifier : STRING]
        /\ DOMAIN Tasks = 1 .. Len(Tasks)
    <2> DEFINE S == [action : ExecActions, verifier : STRING]
    <2>1. Tasks \in Seq(S)
      BY <1>1
    <2> HIDE DEF S
    <2>2. /\ Len(Tasks) \in Nat /\ DOMAIN Tasks = 1 .. Len(Tasks)
          /\ \A i \in 1 .. Len(Tasks) : Tasks[i] \in S
      BY <2>1
    <2> QED
      BY <2>2 DEF S
  <1>3. \A i \in 1 .. Len(Tasks) : Tasks[i] \in ExecTasks
    BY <1>2 DEF ExecTasks, Range
  <1>4. ExecActions \subseteq ExecPaths
    BY DEF ExecPaths
  <1>5. \A b \in ExecActions : InputPaths[b] \subseteq ExecPaths
    BY <1>1
  <1> QED
    BY <1>1, <1>2, <1>3, <1>4, <1>5

\* A running Release takes one more result: what is good of the others stays,
\* since only the output of this Action changes and none of them takes it.
LEMMA ExecReturned ==
  ASSUME ExecInv, ExecRunning,
         NEW e, ExecGood(e), e.task = ExecTask, e.inputs = execRelease.inputs,
         e.validity[1] = execRelease.rev,
         Returned(e),
         execLedger' \in {execLedger, Append(execLedger, e)},
         e.outcome = "failed" => execLedger' = Append(execLedger, e),
         DOMAIN execFiles' = ExecPaths, execFiles' = [p \in ExecPaths |-> execFiles'[p]],
         \A p \in ExecPaths : p # ExecTask.action => execFiles'[p] = execFiles[p],
         e.outcome = "passed" => execFiles'[ExecTask.action] = e.out
  PROVE  ExecUnderWay'
  <1> DEFINE r == execRelease
             n == Len(r.results)
             a == ExecTask.action
  <1>1. /\ Len(Tasks) \in Nat
        /\ \A i \in 1 .. Len(Tasks) : Tasks[i].action \in ExecActions
        /\ \A i, k \in 1 .. Len(Tasks) : Tasks[i] = Tasks[k] => i = k
        /\ ExecActions \subseteq ExecPaths
        /\ \A b \in ExecActions : InputPaths[b] \subseteq ExecPaths
    BY ExecConstants
  <1>2. /\ ExecUnderWay /\ ExecEvidenceGood
        /\ r.at \in 1 .. Len(Tasks) /\ n = r.at - 1 /\ n \in Nat
        /\ ExecTask = Tasks[n + 1] /\ a \in ExecActions
        /\ ~ r.reading /\ r.inputs = InputsOf(a)
    BY <1>1 DEF ExecInv, ExecRunning, ExecUnderWay, ExecTask
  <1>3. /\ DOMAIN r' = {"at", "rev", "inputs", "reading", "results", "selected"}
        /\ r'.at = r.at + 1 /\ r'.rev = r.rev /\ r'.reading = TRUE
        /\ r'.results = Append(r.results, e)
    BY <1>2 DEF Returned, ExecUnderWay
  <1>4. /\ r'.results \in Seq(Range(r'.results)) /\ Len(r'.results) = n + 1
        /\ r'.results[n + 1] = e
        /\ \A i \in 1 .. n : r'.results[i] = r.results[i]
    BY <1>2, <1>3, AppendKeeps DEF ExecUnderWay
  <1> HIDE DEF n
  <1>5. ASSUME NEW i \in 1 .. n + 1 PROVE ExecResultOK(i)'
    <2>1. CASE i = n + 1
      <3>1. ExecFailureStands(i)'
        <4> SUFFICES ASSUME e.outcome = "failed" PROVE ExecFailureStands(i)'
          BY <2>1, <1>4 DEF ExecFailureStands
        <4>1. execLedger' = Append(execLedger, e)
          OBVIOUS
        <4>2. /\ Len(execLedger) \in Nat /\ Len(execLedger') = Len(execLedger) + 1
              /\ execLedger'[Len(execLedger) + 1] = e
          BY <4>1, <1>2, AppendKeeps DEF ExecEvidenceGood
        <4>3. /\ Len(execLedger') \in 1 .. Len(execLedger') /\ execLedger'[Len(execLedger')] = e
              /\ \A m \in Len(execLedger') + 1 .. Len(execLedger') : FALSE
          BY <4>2
        <4> QED
          BY <4>3, <2>1, <1>4 DEF ExecFailureStands
      <3> QED
        BY <2>1, <3>1, <1>2, <1>3, <1>4 DEF ExecResultOK
    <2>2. CASE i # n + 1
      <3>1. i \in 1 .. n /\ ExecResultOK(i)
        BY <2>2, <1>2 DEF ExecUnderWay, n
      <3>2. ExecFailureStands(i)'
        <4> SUFFICES ASSUME r.results[i].outcome = "failed" PROVE ExecFailureStands(i)'
          BY <3>1, <1>4 DEF ExecFailureStands
        <4>1. PICK l \in 1 .. Len(execLedger) :
                /\ execLedger[l] = r.results[i]
                /\ \A m \in l + 1 .. Len(execLedger) : execLedger[m].task # Tasks[i]
          BY <3>1 DEF ExecResultOK, ExecFailureStands
        <4>2. CASE execLedger' = execLedger
          BY <4>1, <4>2, <3>1, <1>4 DEF ExecFailureStands
        <4>3. CASE execLedger' = Append(execLedger, e)
          <5>1. /\ Len(execLedger) \in Nat /\ Len(execLedger') = Len(execLedger) + 1
                /\ execLedger'[Len(execLedger) + 1] = e
                /\ \A m \in 1 .. Len(execLedger) : execLedger'[m] = execLedger[m]
            BY <4>3, <1>2, AppendKeeps DEF ExecEvidenceGood
          <5>2. e.task # Tasks[i]
            BY <3>1, <1>1, <1>2
          <5>3. l \in 1 .. Len(execLedger') /\ execLedger'[l] = r.results[i]
            BY <4>1, <5>1
          <5>4. ASSUME NEW m \in l + 1 .. Len(execLedger') PROVE execLedger'[m].task # Tasks[i]
            <6>1. m \in l + 1 .. Len(execLedger) \/ m = Len(execLedger) + 1
              BY <5>1
            <6> QED
              BY <4>1, <5>1, <5>2, <6>1
          <5> QED
            BY <5>3, <5>4, <3>1, <1>4 DEF ExecFailureStands
        <4> QED
          BY <4>2, <4>3
      <3> QED
        BY <3>1, <3>2, <1>2, <1>3, <1>4 DEF ExecResultOK
    <2> QED
      BY <2>1, <2>2
  <1>6. ASSUME TasksInOrder, ExecAllPassed', NEW i \in 1 .. n + 1 PROVE ExecFilesMatch(i)'
    <2>1. e.outcome = "passed" /\ execFiles'[a] = e.out
      <3>1. n + 1 \in 1 .. Len(r'.results)
        BY <1>2, <1>4
      <3>2. r'.results[n + 1].outcome = "passed"
        BY <1>6, <3>1 DEF ExecAllPassed
      <3> QED
        BY <3>2, <1>4
    <2>2. ExecAllPassed
      <3> SUFFICES ASSUME NEW k \in 1 .. n PROVE r.results[k].outcome = "passed"
        BY DEF ExecAllPassed, n
      <3>1. k \in 1 .. Len(r'.results)
        BY <1>2, <1>4
      <3>2. r'.results[k].outcome = "passed"
        BY <1>6, <3>1 DEF ExecAllPassed
      <3> QED
        BY <3>2, <1>4
    \* No result so far takes the output of this Action.
    <2>3. ASSUME NEW k \in 1 .. n + 1 PROVE a \notin InputPaths[Tasks[k].action]
      <3>1. k \in 1 .. Len(Tasks) /\ n + 1 \in 1 .. Len(Tasks) /\ ~ (n + 1 < k)
        BY <1>1, <1>2
      <3> QED
        BY <3>1, <1>2, <1>6 DEF TasksInOrder
    <2>4. ASSUME NEW k \in 1 .. n + 1
          PROVE  InputsOf(Tasks[k].action)' = InputsOf(Tasks[k].action)
      <3>1. \A p \in InputPaths[Tasks[k].action] : execFiles'[p] = execFiles[p]
        <4>1. Tasks[k].action \in ExecActions
          BY <1>1, <1>2
        <4> QED
          BY <4>1, <2>3, <1>1
      <3> QED
        BY <3>1 DEF InputsOf
    <2>5. CASE i = n + 1
      BY <2>1, <2>4, <2>5, <1>2, <1>4 DEF ExecFilesMatch
    <2>6. ASSUME i # n + 1
          PROVE  /\ i \in 1 .. n /\ ExecResultOK(i) /\ ExecFilesMatch(i)
                 /\ r.results[i].outcome = "passed" /\ Tasks[i].action \in ExecActions
      BY <2>2, <2>6, <1>1, <1>2, <1>6 DEF ExecUnderWay, ExecAllPassed, n
    <2>7. CASE i # n + 1 /\ Tasks[i].action # a
      <3>1. execFiles'[Tasks[i].action] = execFiles[Tasks[i].action]
        BY <2>6, <2>7, <1>1
      <3> QED
        BY <2>4, <2>6, <2>7, <3>1, <1>4 DEF ExecFilesMatch
    <2>8. CASE i # n + 1 /\ Tasks[i].action = a
      <3>1. r.results[i].out = Build(a, InputsOf(a))
        BY <2>6, <2>8 DEF ExecResultOK, ExecGood, ExecFilesMatch
      <3>2. e.out = Build(a, InputsOf(a))
        BY <2>1, <1>2 DEF ExecGood
      <3> QED
        BY <2>1, <2>4, <2>6, <2>8, <3>1, <3>2, <1>4 DEF ExecFilesMatch
    <2> QED
      BY <2>5, <2>7, <2>8
  <1>7. r'.at \in 1 .. Len(Tasks) + 1 /\ Len(r'.results) = r'.at - 1
    BY <1>1, <1>2, <1>3, <1>4
  <1>8. (TasksInOrder /\ ExecAllPassed)' => TasksInOrder /\ ExecAllPassed'
    BY DEF TasksInOrder
  <1> QED
    BY <1>3, <1>4, <1>5, <1>6, <1>7, <1>8 DEF ExecUnderWay

\* With the files at rest while a Release runs, ExecInv is inductive.
LEMMA ExecInvStep ==
  ASSUME ~ EditsDuringRun, ExecInv, [ExecNext]_execVars
  PROVE  ExecInv'
  <1>0. /\ DOMAIN execFiles = ExecPaths /\ execFiles = [p \in ExecPaths |-> execFiles[p]]
        /\ ExecEvidenceGood /\ (execRelease = Idle \/ ExecUnderWay)
        /\ execReleases \in Seq(Range(execReleases))
        /\ \A i \in 1 .. Len(execReleases) : execReleases[i].status \in {"ready", "draft"}
        /\ ExecReadyIsWhole
    BY DEF ExecInv
  \* The Releases returned so far do not change.
  <1>1. ASSUME UNCHANGED execReleases
        PROVE  /\ (execReleases \in Seq(Range(execReleases)))'
               /\ \A i \in 1 .. Len(execReleases') : execReleases'[i].status \in {"ready", "draft"}
               /\ ExecReadyIsWhole'
    BY <1>0, <1>1 DEF ExecReadyIsWhole, TasksInOrder
  <1>2. ASSUME UNCHANGED <<execCache, execLedger>> PROVE ExecEvidenceGood'
    BY <1>0, <1>2 DEF ExecEvidenceGood
  <1>3. ASSUME NEW rev \in Revisions, NEW selected, NEW newLedger \in BOOLEAN,
               ExecStart(rev, selected, newLedger)
        PROVE  ExecInv'
    <2>1. /\ execRelease' = [at |-> 1, rev |-> rev, inputs |-> << >>, reading |-> TRUE,
                             results |-> << >>, selected |-> selected]
          /\ UNCHANGED <<execFiles, execCache, execReleases>>
          /\ execLedger' \in {<< >>, execLedger}
      BY <1>3 DEF ExecStart
    <2>2. ExecUnderWay'
      <3>1. /\ DOMAIN execRelease' = {"at", "rev", "inputs", "reading", "results", "selected"}
            /\ execRelease'.at = 1 /\ execRelease'.reading = TRUE /\ execRelease'.results = << >>
        BY <2>1
      <3>2. /\ (execRelease.results \in Seq(Range(execRelease.results)))'
            /\ Len(execRelease'.results) = 0
            /\ \A n \in 1 .. Len(execRelease'.results) : FALSE
        BY <3>1
      <3>3. execRelease'.at \in 1 .. Len(Tasks) + 1
        BY <3>1, ExecConstants
      <3>4. \A n \in 1 .. Len(execRelease'.results) : ExecResultOK(n)' /\ ExecFilesMatch(n)'
        BY <3>2
      <3>5. ~ (~ execRelease'.reading) /\ execRelease'.reading \in BOOLEAN
        BY <3>1
      <3> QED
        BY <3>1, <3>2, <3>3, <3>4, <3>5 DEF ExecUnderWay
    <2>3. ExecEvidenceGood'
      <3>1. CASE execLedger' = execLedger
        BY <2>1, <3>1, <1>2
      <3>2. CASE execLedger' = << >>
        BY <2>1, <3>2, <1>0 DEF ExecEvidenceGood
      <3> QED
        BY <2>1, <3>1, <3>2
    <2> QED
      BY <2>1, <2>2, <2>3, <1>0, <1>1 DEF ExecInv
  <1>4. ASSUME ExecReadInputs PROVE ExecInv'
    <2>1. ExecUnderWay'
      <3> DEFINE r == execRelease
      <3>1. ExecUnderWay /\ r.at <= Len(Tasks) /\ UNCHANGED <<execFiles, execLedger>>
            /\ r' = [r EXCEPT !.reading = FALSE, !.inputs = InputsOf(ExecTask.action)]
        BY <1>0, <1>4 DEF ExecReadInputs
      <3>2. /\ DOMAIN r' = {"at", "rev", "inputs", "reading", "results", "selected"}
            /\ r'.at = r.at /\ r'.rev = r.rev /\ r'.reading = FALSE /\ r'.results = r.results
            /\ r'.inputs = InputsOf(Tasks[r.at].action)
        BY <3>1 DEF ExecUnderWay, ExecTask
      <3>3. \A b : InputsOf(b)' = InputsOf(b)
        BY <3>1 DEF InputsOf
      <3>4. /\ r.at \in 1 .. Len(Tasks) + 1 /\ r.results \in Seq(Range(r.results))
            /\ Len(r.results) = r.at - 1
            /\ \A n \in 1 .. Len(r.results) : ExecResultOK(n)
            /\ TasksInOrder /\ ExecAllPassed => \A n \in 1 .. Len(r.results) : ExecFilesMatch(n)
        BY <3>1 DEF ExecUnderWay
      <3>5. \A n \in 1 .. Len(r'.results) : ExecResultOK(n)'
        BY <3>1, <3>2, <3>4 DEF ExecResultOK, ExecFailureStands
      <3>6. (TasksInOrder /\ ExecAllPassed)' => \A n \in 1 .. Len(r'.results) : ExecFilesMatch(n)'
        BY <3>1, <3>2, <3>3, <3>4 DEF ExecAllPassed, ExecFilesMatch, TasksInOrder
      <3> QED
        BY <3>1, <3>2, <3>3, <3>4, <3>5, <3>6 DEF ExecUnderWay
    <2> QED
      BY <2>1, <1>0, <1>1, <1>2, <1>4 DEF ExecInv, ExecReadInputs
  \* One more result e, that is good: the ledger has it, and the cache may.
  <1>a. ASSUME ExecRunning, NEW e, ExecGood(e), e.task = ExecTask, e.inputs = execRelease.inputs,
               e.validity[1] = execRelease.rev, Returned(e),
               execLedger' \in {execLedger, Append(execLedger, e)},
               e.outcome = "failed" => execLedger' = Append(execLedger, e),
               execCache' \in {execCache, Keep(e)},
               DOMAIN execFiles' = ExecPaths, execFiles' = [p \in ExecPaths |-> execFiles'[p]],
               \A p \in ExecPaths : p # ExecTask.action => execFiles'[p] = execFiles[p],
               e.outcome = "passed" => execFiles'[ExecTask.action] = e.out,
               UNCHANGED execReleases
        PROVE  ExecInv'
    <2>1. ExecUnderWay'
      BY <1>a, ExecReturned
    <2>2. \A o \in execCache'.exact \cup execCache'.reusable : ExecGood(o) /\ o.outcome = "passed"
      BY <1>0, <1>a DEF Keep, ExecEvidenceGood
    <2>3. /\ (execLedger \in Seq(Range(execLedger)))'
          /\ \A i \in 1 .. Len(execLedger') : ExecGood(execLedger'[i])
      <3>1. CASE execLedger' = execLedger
        BY <3>1, <1>0 DEF ExecEvidenceGood
      <3>2. CASE execLedger' = Append(execLedger, e)
        <4>1. /\ (execLedger \in Seq(Range(execLedger)))'
              /\ Len(execLedger) \in Nat /\ Len(execLedger') = Len(execLedger) + 1
              /\ execLedger'[Len(execLedger) + 1] = e
              /\ \A i \in 1 .. Len(execLedger) : execLedger'[i] = execLedger[i]
          BY <3>2, <1>0, AppendKeeps DEF ExecEvidenceGood
        <4> QED
          BY <4>1, <1>0, <1>a DEF ExecEvidenceGood
      <3> QED
        BY <3>1, <3>2, <1>a
    <2> QED
      BY <2>1, <2>2, <2>3, <1>1, <1>a DEF ExecInv, ExecEvidenceGood
  <1>b. ASSUME ExecRunning
        PROVE  /\ ExecUnderWay /\ ExecTask \in ExecTasks /\ ExecTask.action \in ExecPaths
               /\ execRelease.inputs = InputsOf(ExecTask.action)
    BY <1>0, <1>b, ExecConstants DEF ExecRunning, ExecUnderWay, ExecTask
  <1>5. ASSUME ExecExactHit PROVE ExecInv'
    <2>1. PICK e \in Cached :
            /\ execLedger' = IF e \in Range(execLedger) THEN execLedger ELSE Append(execLedger, e)
            /\ Returned(e)
      BY <1>5 DEF ExecExactHit
    <2>2. /\ ExecGood(e) /\ e.outcome = "passed" /\ e.out = execFiles[ExecTask.action]
          /\ e.validity = ValidityKey(execRelease.rev, ExecTask, execRelease.inputs)
      BY <1>0, <2>1 DEF Cached, BytesMatch, ExecEvidenceGood
    <2>3. e.task = ExecTask /\ e.inputs = execRelease.inputs /\ e.validity[1] = execRelease.rev
      BY <2>2 DEF ExecGood, ValidityKey
    <2>4. ExecRunning /\ UNCHANGED <<execFiles, execCache, execReleases>>
      BY <1>5 DEF ExecExactHit
    <2> QED
      BY <2>1, <2>2, <2>3, <2>4, <1>0, <1>a
  <1>6. ASSUME ExecReuse PROVE ExecInv'
    <2>1. PICK e \in Reusable :
            LET r == [e EXCEPT
                        !.id = ExecEvidenceId,
                        !.inputs = execRelease.inputs,
                        !.validity = ValidityKey(execRelease.rev, ExecTask, execRelease.inputs)]
            IN /\ execLedger' = Append(execLedger, r)
               /\ execCache' = Keep(r)
               /\ Returned(r)
      BY <1>6 DEF ExecReuse
    <2> DEFINE r == [e EXCEPT
                       !.id = ExecEvidenceId,
                       !.inputs = execRelease.inputs,
                       !.validity = ValidityKey(execRelease.rev, ExecTask, execRelease.inputs)]
    <2>2. /\ ExecGood(e) /\ e.outcome = "passed" /\ e.out = execFiles[ExecTask.action]
          /\ e.reuse = ReuseKey(ExecTask, execRelease.inputs)
      BY <1>0, <2>1 DEF Reusable, BytesMatch, ExecEvidenceGood
    <2>3. /\ ExecGood(r) /\ r.task = ExecTask /\ r.inputs = execRelease.inputs
          /\ r.validity[1] = execRelease.rev /\ r.outcome = e.outcome /\ r.out = e.out
      <3> DEFINE v == ValidityKey(execRelease.rev, ExecTask, execRelease.inputs)
      <3>1. e.task = ExecTask /\ e.inputs = execRelease.inputs
        BY <2>2 DEF ExecGood, ReuseKey
      <3>2. v = ValidityKey(v[1], ExecTask, execRelease.inputs) /\ v[1] = execRelease.rev
        BY DEF ValidityKey
      <3> HIDE DEF v
      <3>3. /\ DOMAIN r = {"id", "task", "validity", "reuse", "inputs", "outcome", "out"}
            /\ r.task = e.task /\ r.inputs = execRelease.inputs /\ r.validity = v /\ r.reuse = e.reuse
            /\ r.outcome = e.outcome /\ r.out = e.out
        BY <2>2 DEF ExecGood, v
      <3> HIDE DEF r
      <3> QED
        BY <2>2, <3>1, <3>2, <3>3 DEF ExecGood
    <2>4. execLedger' = Append(execLedger, r) /\ execCache' = Keep(r) /\ Returned(r)
      BY <2>1
    <2>5. ExecRunning /\ UNCHANGED <<execFiles, execReleases>>
      BY <1>6 DEF ExecReuse
    <2> HIDE DEF r
    <2> QED
      BY <2>2, <2>3, <2>4, <2>5, <1>0, <1>a
  <1>7. ASSUME NEW ok \in BOOLEAN, ExecCommand(ok) PROVE ExecInv'
    <2> DEFINE a == ExecTask.action
               present == \A p \in DOMAIN execRelease.inputs : execRelease.inputs[p] # Missing
               passed == ok /\ present
               v == ValidityKey(execRelease.rev, ExecTask, execRelease.inputs)
               k == ReuseKey(ExecTask, execRelease.inputs)
               o == IF passed THEN "passed" ELSE "failed"
               b == IF passed THEN Build(a, InputsOf(a)) ELSE Missing
               e == [id |-> ExecEvidenceId, task |-> ExecTask, validity |-> v, reuse |-> k,
                     inputs |-> execRelease.inputs, outcome |-> o, out |-> b]
    <2>1. /\ ExecRunning /\ UNCHANGED execReleases
          /\ \/ passed /\ execFiles' = [execFiles EXCEPT ![a] = Build(a, InputsOf(a))]
             \/ ~ passed /\ execFiles' \in {execFiles, [execFiles EXCEPT ![a] = Missing]}
          /\ execLedger' = Append(execLedger, e) /\ execCache' = Keep(e) /\ Returned(e)
      BY <1>7 DEF ExecCommand
    <2>2. /\ a \in ExecPaths /\ ExecTask \in ExecTasks /\ execRelease.inputs = InputsOf(a)
      BY <2>1, <1>b
    <2> HIDE DEF passed
    <2>3. /\ v[1] = execRelease.rev /\ v = ValidityKey(v[1], ExecTask, execRelease.inputs)
          /\ o \in {"passed", "failed"}
          /\ o = "passed" => b = Build(a, execRelease.inputs) /\ execFiles'[a] = b
      BY <1>0, <2>1, <2>2 DEF ValidityKey
    <2>4. /\ DOMAIN execFiles' = ExecPaths /\ execFiles' = [p \in ExecPaths |-> execFiles'[p]]
          /\ \A p \in ExecPaths : p # a => execFiles'[p] = execFiles[p]
      BY <1>0, <2>1, <2>2
    <2>5. k = ReuseKey(ExecTask, execRelease.inputs)
      OBVIOUS
    <2> HIDE DEF v, o, b, k
    <2>6. /\ DOMAIN e = {"id", "task", "validity", "reuse", "inputs", "outcome", "out"}
          /\ e.task = ExecTask /\ e.validity = v /\ e.reuse = k
          /\ e.inputs = execRelease.inputs /\ e.outcome = o /\ e.out = b
      OBVIOUS
    <2> HIDE DEF e
    <2>7. ExecGood(e)
      BY <2>2, <2>3, <2>5, <2>6 DEF ExecGood
    <2> QED
      BY <2>1, <2>3, <2>4, <2>6, <2>7, <1>a
  <1>8. ASSUME ExecFinish PROVE ExecInv'
    <2> DEFINE res == execRelease.results
               required == {i \in 1 .. Len(res) : \/ res[i].task \in RequiredTasks
                                                  \/ res[i].outcome = "failed"}
               blocked == \E i \in required : GateBlocks(res[i].task, res[i].validity)
               new == [rev |-> execRelease.rev, results |-> res,
                       status |-> IF blocked THEN "draft" ELSE "ready"]
    <2>1. /\ execRelease.at = Len(Tasks) + 1 /\ execRelease' = Idle
          /\ UNCHANGED <<execFiles, execCache, execLedger>>
          /\ execReleases' = Append(execReleases, new)
          /\ ExecUnderWay
      BY <1>0, <1>8 DEF ExecFinish
    <2>2. /\ Len(res) = Len(Tasks) /\ Len(Tasks) \in Nat
          /\ \A n \in 1 .. Len(Tasks) : ExecResultOK(n)
          /\ TasksInOrder /\ ExecAllPassed => \A n \in 1 .. Len(Tasks) : ExecFilesMatch(n)
      BY <2>1, ExecConstants DEF ExecUnderWay
    \* A result that failed blocks the Release.
    <2>3. ASSUME NEW n \in 1 .. Len(Tasks), res[n].outcome = "failed"
          PROVE  blocked
      <3>1. n \in required
        BY <2>2, <2>3
      <3>2. PICK l \in 1 .. Len(execLedger) :
              /\ execLedger[l] = res[n]
              /\ \A m \in l + 1 .. Len(execLedger) : execLedger[m].task # Tasks[n]
        BY <2>2, <2>3 DEF ExecResultOK, ExecFailureStands
      <3>3. res[n].task = Tasks[n]
        BY <2>2 DEF ExecResultOK
      <3> DEFINE of == {i \in 1 .. Len(execLedger) : execLedger[i].task = res[n].task}
                 last == CHOOSE i \in of : \A m \in of : m <= i
      <3>4. l \in of /\ \A m \in of : m <= l
        <4>1. Len(execLedger) \in Nat
          BY <1>0, AppendKeeps DEF ExecEvidenceGood
        <4> QED
          BY <3>2, <3>3, <4>1
      <3>5. last \in of /\ \A m \in of : m <= last
        BY <3>4
      <3>6. last = l
        <4>1. \A m \in of : m \in Int
          OBVIOUS
        <4> HIDE DEF of, last
        <4> QED
          BY <3>4, <3>5, <4>1
      <3>7. execLedger[last].outcome # "passed"
        BY <3>2, <3>6, <2>3
      <3>8. GateBlocks(res[n].task, res[n].validity)
        BY <3>7 DEF GateBlocks
      <3> QED
        BY <3>1, <3>8
    <2>4. /\ new.status \in {"ready", "draft"} /\ new.results = res /\ new.rev = execRelease.rev
          /\ new.status = "ready" => ~ blocked
      <3> HIDE DEF blocked, res
      <3> QED
        OBVIOUS
    <2> HIDE DEF new, blocked
    <2>5. /\ (execReleases \in Seq(Range(execReleases)))'
          /\ Len(execReleases) \in Nat /\ Len(execReleases') = Len(execReleases) + 1
          /\ execReleases'[Len(execReleases) + 1] = new
          /\ \A i \in 1 .. Len(execReleases) : execReleases'[i] = execReleases[i]
      BY <2>1, <1>0, AppendKeeps
    <2>6. ASSUME new.status = "ready", NEW n \in 1 .. Len(Tasks)
          PROVE  /\ res[n].task = Tasks[n] /\ res[n].outcome = "passed"
                 /\ res[n].validity[1] = new.rev
                 /\ TasksInOrder =>
                      \A k \in 1 .. n - 1 :
                        Tasks[k].action \in InputPaths[Tasks[n].action] =>
                          res[n].inputs[Tasks[k].action] = res[k].out
      <3>1. \A k \in 1 .. Len(Tasks) : res[k].outcome = "passed"
        BY <2>2, <2>3, <2>4, <2>6 DEF ExecResultOK, ExecGood
      <3>2. TasksInOrder => \A k \in 1 .. Len(Tasks) : ExecFilesMatch(k)
        BY <2>2, <3>1 DEF ExecAllPassed
      <3>3. ASSUME TasksInOrder, NEW k \in 1 .. n - 1,
                   Tasks[k].action \in InputPaths[Tasks[n].action]
            PROVE  res[n].inputs[Tasks[k].action] = res[k].out
        <4>1. k \in 1 .. Len(Tasks)
          BY <2>2
        <4> QED
          BY <4>1, <3>2, <3>3 DEF ExecFilesMatch, InputsOf
      <3> QED
        BY <2>2, <2>4, <3>1, <3>3 DEF ExecResultOK
    <2>7. ExecReadyIsWhole'
      <3> SUFFICES ASSUME NEW i \in 1 .. Len(execReleases'), execReleases'[i].status = "ready"
                   PROVE  LET r == execReleases'[i] IN
                          /\ Len(r.results) = Len(Tasks)
                          /\ \A n \in 1 .. Len(Tasks) :
                               /\ r.results[n].task = Tasks[n]
                               /\ r.results[n].outcome = "passed"
                               /\ r.results[n].validity[1] = r.rev
                               /\ TasksInOrder =>
                                    \A k \in 1 .. n - 1 :
                                      Tasks[k].action \in InputPaths[Tasks[n].action] =>
                                        r.results[n].inputs[Tasks[k].action] = r.results[k].out
        BY DEF ExecReadyIsWhole, TasksInOrder
      <3>1. CASE i = Len(execReleases) + 1
        BY <3>1, <2>2, <2>4, <2>5, <2>6
      <3>2. CASE i # Len(execReleases) + 1
        <4>1. i \in 1 .. Len(execReleases) /\ execReleases'[i] = execReleases[i]
          BY <3>2, <2>5
        <4> QED
          BY <4>1, <1>0 DEF ExecReadyIsWhole
      <3> QED
        BY <3>1, <3>2
    <2>8. \A i \in 1 .. Len(execReleases') : execReleases'[i].status \in {"ready", "draft"}
      BY <2>4, <2>5, <1>0
    <2> QED
      BY <2>1, <2>5, <2>7, <2>8, <1>0, <1>2 DEF ExecInv
  <1>9. ASSUME NEW p \in ExecPaths, NEW content, ExecEdit(p, content) PROVE ExecInv'
    <2>1. /\ execRelease = Idle /\ execFiles' = [execFiles EXCEPT ![p] = content]
          /\ UNCHANGED <<execCache, execLedger, execRelease, execReleases>>
      BY <1>9 DEF ExecEdit
    <2> QED
      BY <2>1, <1>0, <1>1, <1>2 DEF ExecInv
  <1>10. CASE UNCHANGED execVars
    <2>1. UNCHANGED <<execFiles, execCache, execLedger, execRelease, execReleases>>
      BY <1>10 DEF execVars
    <2>2. ExecUnderWay => ExecUnderWay'
      BY <2>1 DEF ExecUnderWay, ExecResultOK, ExecFailureStands, ExecAllPassed, ExecFilesMatch,
                  InputsOf, TasksInOrder
    <2> QED
      BY <2>1, <2>2, <1>0, <1>1, <1>2 DEF ExecInv
  <1> QED
    BY <1>3, <1>4, <1>5, <1>6, <1>7, <1>8, <1>9, <1>10 DEF ExecNext, ExecPaths

LEMMA ExecInvHolds == ASSUME ~ EditsDuringRun PROVE ExecSpec => []ExecInv
  <1>1. ExecInit => ExecInv
    <2> SUFFICES ASSUME ExecInit PROVE ExecInv
      OBVIOUS
    <2>1. /\ execFiles = [p \in ExecPaths |-> Missing] /\ execCache.exact = {} /\ execCache.reusable = {}
          /\ execLedger = << >> /\ execRelease = Idle /\ execReleases = << >>
      BY DEF ExecInit
    <2>2. ExecEvidenceGood
      BY <2>1 DEF ExecEvidenceGood
    <2>3. ExecReadyIsWhole
      BY <2>1 DEF ExecReadyIsWhole
    <2> QED
      BY <2>1, <2>2, <2>3 DEF ExecInv
  <1>2. ExecInv /\ [ExecNext]_execVars => ExecInv'
    BY ExecInvStep
  <1> QED
    BY <1>1, <1>2, PTL DEF ExecSpec

LEMMA ExecLedgerGood ==
  ASSUME ExecInv, NEW e \in Range(execLedger)
  PROVE  ExecGood(e)
  <1> DEFINE S == Range(execLedger)
  <1>1. execLedger \in Seq(S) /\ \A i \in 1 .. Len(execLedger) : ExecGood(execLedger[i])
    BY DEF ExecInv, ExecEvidenceGood
  <1>2. PICK i \in DOMAIN execLedger : e = execLedger[i]
    BY DEF Range
  <1> HIDE DEF S
  <1> QED
    BY <1>1, <1>2

\* While nobody edits the directory of a Release that runs, Evidence that passed
\* names what its Action builds from the inputs it names, however often it was
\* answered from the cache, and a ready Release is whole.
THEOREM ExecReleaseIsSoundCorrect ==
  ASSUME ~ EditsDuringRun PROVE ExecSpec => []ExecReleaseIsSound
  <1>1. ExecInv => ExecReleaseIsSound
    <2> SUFFICES ASSUME ExecInv PROVE ExecEvidenceIsRebuilt
      BY DEF ExecInv, ExecReleaseIsSound
    <2>1. \A e \in Range(execLedger) : ExecGood(e)
      BY ExecLedgerGood
    <2> QED
      BY <2>1 DEF ExecInv, ExecEvidenceGood, ExecEvidenceIsRebuilt, ExecGood
  <1> QED
    BY <1>1, ExecInvHolds, PTL

\* The records of local execution have their types.
THEOREM ExecTypeCorrect ==
  ASSUME ~ EditsDuringRun PROVE ExecSpec => []ExecTypeOK
  <1>1. ExecInv => ExecTypeOK
    <2> SUFFICES ASSUME ExecInv PROVE ExecTypeOK
      OBVIOUS
    <2>1. \A e \in Range(execLedger) : ExecGood(e)
      BY ExecLedgerGood
    <2> QED
      BY <2>1 DEF ExecInv, ExecEvidenceGood, ExecTypeOK, ExecGood, ExecUnderWay
  <1> QED
    BY <1>1, ExecInvHolds, PTL

-----------------------------------------------------------------------------
(* The Promotion coordinator of a local Target *)

WpRecords == [state : WpStates, release : WpOrNone, previous : WpOrNone,
              kind : {"promotion", "rollback"}]

WpTargets == [state : {"absent", "configured", "healthy", "degraded"},
              current : WpOrNone, history : Seq(WpReleases),
              can : SUBSET WpCapabilities, serial : BOOLEAN]

WpRuns == [at : WpStages, previous : WpOrNone]

\* The Release of an execution is known, and a Release it may go back to was
\* current once, so the Target runs something.
WpRunIsOfRelease(p) ==
  /\ wpPromotion[p].state # "absent" => wpPromotion[p].release \in WpReleases
  /\ wpRun[p].at # "none" => wpPromotion[p].state # "absent"
  /\ wpRun[p].at \in {"rollback", "rollbackHealth"} => wpRun[p].previous # WpNone
  /\ wpPromotion[p].previous # WpNone \/ wpRun[p].previous # WpNone
       => wpTarget.current # WpNone

WpRunsAreOfReleases == \A p \in WpPromotions : WpRunIsOfRelease(p)

WpInv == WpTypeOK /\ WpRunsAreOfReleases

\* With one call at a time: the execution of p is the only one, it started from
\* the Release that is still current, and it goes back to that one only while
\* the Target is degraded.
WpRunAlone(p) ==
  wpRun[p].at # "none" =>
    /\ \A q \in WpPromotions : q # p => wpRun[q].at = "none"
    /\ wpPromotion[p].previous = wpTarget.current
    /\ wpRun[p].at \in {"rollback", "rollbackHealth"} =>
         wpRun[p].previous = wpTarget.current /\ wpTarget.state = "degraded"

\* Only a Target that can preview nothing leaves a Promotion proposed.
WpProposedIsStuck(p) ==
  wpPromotion[p].state = "proposed" => ~ ({"profile", "preview"} \subseteq wpTarget.can)

\* p leaves no doubt what is served: no operator's rollback that failed or is
\* under way, nothing applied and not yet judged.
WpNoDoubt(p) ==
  /\ wpRun[p].at \in {"none", "preview", "apply"}
  /\ wpPromotion[p].kind = "rollback" =>
       wpRun[p].at = "none" /\ wpPromotion[p].state \notin {"proposed", "failed", "blocked"}

WpServedWithoutDoubt ==
  wpTarget.state = "healthy" /\ (\A p \in WpPromotions : WpNoDoubt(p))
    => wpServed = wpTarget.current

\* Nothing was asked of a Target before it was configured.
WpUnused(p) ==
  wpTarget.state = "absent" => wpPromotion[p].state = "absent" /\ wpRun[p].at = "none"

WpSerial ==
  /\ \A p \in WpPromotions : WpUnused(p)
  /\ wpTarget.serial =>
       /\ \A p \in WpPromotions : WpRunAlone(p) /\ WpProposedIsStuck(p)
       /\ WpServedWithoutDoubt

LEMMA WpTypes ==
  WpTypeOK <=> /\ wpTarget \in WpTargets
               /\ wpPromotion \in [WpPromotions -> WpRecords]
               /\ wpKey \in Seq(WpPromotions)
               /\ wpRun \in [WpPromotions -> WpRuns]
               /\ wpServed \in WpOrNone
  BY DEF WpTypeOK, WpTargets, WpRecords, WpRuns

LEMMA WpTypesAfter ==
  ASSUME wpTarget' \in WpTargets, wpPromotion' \in [WpPromotions -> WpRecords],
         wpKey' \in Seq(WpPromotions), wpRun' \in [WpPromotions -> WpRuns],
         wpServed' \in WpOrNone
  PROVE  WpTypeOK'
  BY DEF WpTypeOK, WpTargets, WpRecords, WpRuns

\* What WpMoves and WpEnds do to the two maps.
LEMMA WpMovesType ==
  ASSUME WpTypeOK, NEW p \in WpPromotions, NEW state \in WpStates,
         NEW at \in WpStages, NEW previous \in WpOrNone, WpMoves(p, state, at, previous)
  PROVE  /\ wpPromotion' \in [WpPromotions -> WpRecords]
         /\ wpRun' \in [WpPromotions -> WpRuns]
         /\ wpPromotion'[p].state = state
         /\ wpPromotion'[p].release = wpPromotion[p].release
         /\ wpPromotion'[p].previous = wpPromotion[p].previous
         /\ wpPromotion'[p].kind = wpPromotion[p].kind
         /\ wpRun'[p].at = at /\ wpRun'[p].previous = previous
         /\ \A q \in WpPromotions : q # p => /\ wpPromotion'[q] = wpPromotion[q]
                                             /\ wpRun'[q] = wpRun[q]
  BY DEF WpMoves, WpTypeOK, WpRecords, WpRuns

\* What WpExecute does to them: the record is taken over and runs, or not.
LEMMA WpExecuteType ==
  ASSUME WpTypeOK, NEW p \in WpPromotions, NEW rec \in WpRecords, WpExecute(p, rec)
  PROVE  /\ wpPromotion' \in [WpPromotions -> WpRecords]
         /\ wpRun' \in [WpPromotions -> WpRuns]
         /\ wpPromotion'[p].release = rec.release
         /\ wpPromotion'[p].previous = rec.previous
         /\ wpPromotion'[p].kind = rec.kind
         /\ \/ /\ {"profile", "preview"} \subseteq wpTarget.can
               /\ wpPromotion'[p].state = "validating"
               /\ wpRun'[p].at = "preview" /\ wpRun'[p].previous = WpNone
            \/ /\ ~ ({"profile", "preview"} \subseteq wpTarget.can)
               /\ wpPromotion'[p].state = rec.state
               /\ wpRun' = wpRun
         /\ \A q \in WpPromotions : q # p => /\ wpPromotion'[q] = wpPromotion[q]
                                             /\ wpRun'[q] = wpRun[q]
  <1> DEFINE run == [at |-> "preview", previous |-> WpNone]
             val == [rec EXCEPT !.state = "validating"]
  <1>1. /\ run \in WpRuns /\ run.at = "preview" /\ run.previous = WpNone
        /\ val \in WpRecords
        /\ val.state = "validating" /\ val.release = rec.release
        /\ val.previous = rec.previous /\ val.kind = rec.kind
    BY DEF WpRuns, WpStages, WpOrNone, WpRecords, WpStates
  <1>2. /\ wpPromotion \in [WpPromotions -> WpRecords]
        /\ wpRun \in [WpPromotions -> WpRuns]
    BY WpTypes
  <1>3. CASE {"profile", "preview"} \subseteq wpTarget.can
    <2>1. wpPromotion' = [wpPromotion EXCEPT ![p] = val] /\ wpRun' = [wpRun EXCEPT ![p] = run]
      BY <1>3 DEF WpExecute
    <2> HIDE DEF run, val
    <2> QED
      BY <2>1, <1>1, <1>2, <1>3
  <1>4. CASE ~ ({"profile", "preview"} \subseteq wpTarget.can)
    <2>1. wpPromotion' = [wpPromotion EXCEPT ![p] = rec] /\ wpRun' = wpRun
      BY <1>4 DEF WpExecute
    <2> QED
      BY <2>1, <1>2, <1>4
  <1> QED
    BY <1>3, <1>4

LEMMA WpInvStep == WpInv /\ [WpNext]_wpVars => WpInv'
  <1> SUFFICES ASSUME WpInv, [WpNext]_wpVars PROVE WpInv'
    OBVIOUS
  <1> USE WpAssumption
  <1>0. WpTypeOK /\ WpRunsAreOfReleases
    BY DEF WpInv
  <1>1. ASSUME NEW can \in SUBSET WpCapabilities, NEW serial \in BOOLEAN, WpConfigure(can, serial)
        PROVE  WpInv'
    BY <1>0, <1>1 DEF WpConfigure, WpInv, WpTypeOK, WpRunsAreOfReleases, WpRunIsOfRelease
  <1>2. ASSUME NEW p \in WpPromotions, NEW r \in WpReleases, NEW kind \in {"promotion", "rollback"},
               WpRequested(p, r, kind)
        PROVE  WpInv'
    <2> DEFINE rec == [state |-> "proposed", release |-> r,
                       previous |-> wpTarget.current, kind |-> kind]
    <2>1. /\ rec \in WpRecords
          /\ rec.state = "proposed" /\ rec.release = r /\ rec.previous = wpTarget.current
      BY <1>0 DEF WpRecords, WpStates, WpOrNone, WpTypeOK
    <2>2. WpExecute(p, rec) /\ UNCHANGED <<wpTarget, wpServed>> /\ wpKey' = Append(wpKey, p)
      BY <1>2 DEF WpRequested
    <2> HIDE DEF rec
    <2>3. WpTypeOK'
      BY <2>1, <2>2, <1>0, WpExecuteType, WpTypes, WpTypesAfter
    <2>4. WpRunsAreOfReleases'
      BY <2>1, <2>2, <1>0, WpExecuteType DEF WpRunsAreOfReleases, WpRunIsOfRelease
    <2> QED
      BY <2>3, <2>4 DEF WpInv
  <1>3. ASSUME NEW p \in WpPromotions, NEW k \in 1 .. WpMaxKeys, WpPromoteAgain(p, k)
        PROVE  WpInv'
    <2>1. wpPromotion[p] \in WpRecords
      BY <1>0 DEF WpTypeOK, WpRecords
    <2>2. WpExecute(p, wpPromotion[p]) /\ UNCHANGED <<wpTarget, wpKey, wpServed>>
      BY <1>3 DEF WpPromoteAgain
    <2>3. WpTypeOK'
      BY <2>1, <2>2, <1>0, WpExecuteType, WpTypes, WpTypesAfter
    <2>4. WpRunsAreOfReleases'
      BY <2>1, <2>2, <1>0, <1>3, WpExecuteType DEF WpPromoteAgain, WpRunsAreOfReleases, WpRunIsOfRelease
    <2> QED
      BY <2>3, <2>4 DEF WpInv
  <1>4. ASSUME NEW p \in WpPromotions, WpRetryPromotion(p)
        PROVE  WpInv'
    <2> DEFINE rec == [wpPromotion[p] EXCEPT !.state = "proposed", !.previous = wpTarget.current]
    <2>1. rec \in WpRecords
      <3>1. wpPromotion[p] \in WpRecords /\ wpTarget.current \in WpOrNone
        BY <1>0 DEF WpTypeOK, WpRecords
      <3>2. "proposed" \in WpStates
        BY DEF WpStates
      <3> QED
        BY <3>1, <3>2 DEF WpRecords
    <2>2. /\ UNCHANGED <<wpTarget, wpServed>> /\ wpKey' = Append(wpKey, p)
          /\ \/ WpExecute(p, rec)
             \/ wpPromotion' = [wpPromotion EXCEPT ![p] = rec] /\ UNCHANGED wpRun
          /\ wpPromotion[p].state # "absent"
      BY <1>4 DEF WpRetryPromotion, WpRetryable
    <2>3. rec.release = wpPromotion[p].release /\ rec.previous = wpTarget.current
          /\ rec.state = "proposed"
      BY <1>0 DEF WpTypeOK
    <2> HIDE DEF rec
    <2>4. WpTypeOK'
      BY <2>1, <2>2, <1>0, WpExecuteType, WpTypes, WpTypesAfter
    <2>5. WpRunsAreOfReleases'
      <3>1. CASE WpExecute(p, rec)
        BY <2>1, <2>2, <2>3, <3>1, <1>0, WpExecuteType DEF WpRunsAreOfReleases, WpRunIsOfRelease
      <3>2. CASE wpPromotion' = [wpPromotion EXCEPT ![p] = rec] /\ UNCHANGED wpRun
        <4>1. \A q \in WpPromotions : wpPromotion'[q] = IF q = p THEN rec ELSE wpPromotion[q]
          BY <3>2, <1>0, WpTypes
        <4> QED
          BY <4>1, <3>2, <2>1, <2>2, <2>3, <1>0 DEF WpRunsAreOfReleases, WpRunIsOfRelease
      <3> QED
        BY <2>2, <3>1, <3>2
    <2> QED
      BY <2>4, <2>5 DEF WpInv
  <1>5. ASSUME NEW p \in WpPromotions, WpRollbackToPrevious(p)
        PROVE  WpInv'
    <2>1. WpPreviousReleases \subseteq WpReleases
      BY <1>0 DEF WpPreviousReleases, WpTypeOK
    <2> QED
      BY <2>1, <1>5, <1>2 DEF WpRollbackToPrevious
  \* The execution of p goes from one await to the next; the Target keeps or
  \* takes a Release.
  <1>6. ASSUME NEW p \in WpPromotions, NEW state \in WpStates \ {"absent"},
               NEW at \in WpStages, NEW previous \in WpOrNone, WpMoves(p, state, at, previous),
               wpRun[p].at # "none", UNCHANGED wpKey, wpServed' \in WpOrNone,
               wpTarget' \in WpTargets,
               wpTarget'.current # wpTarget.current => wpTarget'.current # WpNone,
               at \in {"rollback", "rollbackHealth"} => previous # WpNone,
               previous # WpNone => wpTarget.current # WpNone
        PROVE  WpInv'
    <2>1. WpTypeOK'
      BY <1>6, <1>0, WpMovesType, WpTypes, WpTypesAfter
    <2>2. WpRunsAreOfReleases'
      BY <1>6, <1>0, WpMovesType DEF WpRunsAreOfReleases, WpRunIsOfRelease
    <2> QED
      BY <2>1, <2>2 DEF WpInv
  <1>a. /\ WpNone \in WpOrNone /\ WpReleases \subseteq WpOrNone
        /\ {"none", "preview", "apply", "health", "rollback", "rollbackHealth"} \subseteq WpStages
        /\ {"failed", "blocked", "applying", "healthy", "degraded", "rolled-back"} \subseteq
             WpStates \ {"absent"}
    BY DEF WpOrNone, WpStages, WpStates
  <1>b. /\ wpTarget \in WpTargets /\ wpServed \in WpOrNone
        /\ \A p \in WpPromotions :
             /\ wpPromotion[p].release \in WpOrNone /\ wpPromotion[p].previous \in WpOrNone
             /\ wpPromotion[p].state \in WpStates
             /\ wpRun[p].at \in WpStages /\ wpRun[p].previous \in WpOrNone
    BY <1>0 DEF WpTypeOK, WpTargets
  <1>c. ASSUME NEW s \in {"healthy", "degraded"}
        PROVE  LET t == [wpTarget EXCEPT !.state = s] IN t \in WpTargets /\ t.current = wpTarget.current
    BY <1>b, <1>c DEF WpTargets
  <1>7. ASSUME NEW p \in WpPromotions, NEW answer \in {"ok", "failed", "blocked"}, WpPreview(p, answer)
        PROVE  WpInv'
    <2>1. \E state \in WpStates \ {"absent"}, at \in {"none", "apply"} : WpMoves(p, state, at, WpNone)
      BY <1>7, <1>a DEF WpPreview, WpEnds
    <2>2. wpRun[p].at # "none" /\ UNCHANGED <<wpTarget, wpKey, wpServed>>
      BY <1>7 DEF WpPreview
    <2> QED
      BY <2>1, <2>2, <1>6, <1>a, <1>b
  <1>8. ASSUME NEW p \in WpPromotions,
               NEW answer \in {"ok", "mismatch", "indeterminate", "failed", "blocked"},
               WpApply(p, answer)
        PROVE  WpInv'
    <2>1. wpServed' \in WpOrNone /\ UNCHANGED wpKey /\ wpRun[p].at # "none"
      BY <1>b, <1>8 DEF WpApply
    <2>2. /\ wpTarget' \in {wpTarget, [wpTarget EXCEPT !.state = "degraded"]}
          /\ \E state \in WpStates \ {"absent"}, at \in {"none", "health"} : WpMoves(p, state, at, WpNone)
      BY <1>8, <1>a DEF WpApply, WpEnds
    <2>3. wpTarget' \in WpTargets /\ wpTarget'.current = wpTarget.current
      BY <2>2, <1>b, <1>c
    <2> QED
      BY <2>1, <2>2, <2>3, <1>6, <1>a, <1>b
  <1>9. ASSUME NEW p \in WpPromotions, WpHealthy(p)
        PROVE  WpInv'
    <2> DEFINE r == wpPromotion[p].release
               h == IF wpTarget.history # << >> /\ wpTarget.history[Len(wpTarget.history)] = r
                      THEN wpTarget.history ELSE Append(wpTarget.history, r)
    <2>1. r \in WpReleases
      BY <1>0, <1>9 DEF WpHealthy, WpRunsAreOfReleases, WpRunIsOfRelease
    <2>2. h \in Seq(WpReleases)
      <3>1. wpTarget.history \in Seq(WpReleases)
        BY <1>b DEF WpTargets
      <3> HIDE DEF r
      <3> QED
        BY <2>1, <3>1
    <2>3. wpTarget' = [wpTarget EXCEPT !.state = "healthy", !.current = r, !.history = h]
      BY <1>9 DEF WpHealthy
    <2>4. /\ wpRun[p].at # "none" /\ UNCHANGED <<wpKey, wpServed>>
          /\ WpMoves(p, "healthy", "none", WpNone)
      BY <1>9 DEF WpHealthy, WpEnds
    <2> HIDE DEF r, h
    <2>5. wpTarget' \in WpTargets /\ wpTarget'.current = r
      BY <2>1, <2>2, <2>3, <1>a, <1>b DEF WpTargets
    <2> QED
      BY <2>1, <2>4, <2>5, <1>6, <1>a, <1>b
  <1>10. ASSUME NEW p \in WpPromotions, WpUnhealthy(p)
         PROVE  WpInv'
    <2>1. /\ wpRun[p].at # "none" /\ UNCHANGED <<wpKey, wpServed>>
          /\ wpTarget' = [wpTarget EXCEPT !.state = "degraded"]
          /\ \/ /\ WpMoves(p, "degraded", "rollback", wpPromotion[p].previous)
                /\ wpPromotion[p].previous # WpNone
             \/ WpMoves(p, "degraded", "none", WpNone)
      BY <1>10 DEF WpUnhealthy, WpEnds
    <2>2. wpTarget' \in WpTargets /\ wpTarget'.current = wpTarget.current
      BY <2>1, <1>c
    <2>3. wpPromotion[p].previous # WpNone => wpTarget.current # WpNone
      BY <1>0 DEF WpRunsAreOfReleases, WpRunIsOfRelease
    <2> QED
      BY <2>1, <2>2, <2>3, <1>6, <1>a, <1>b
  <1>11. ASSUME NEW p \in WpPromotions, NEW ok \in BOOLEAN, WpRollback(p, ok)
         PROVE  WpInv'
    <2>1. /\ UNCHANGED <<wpTarget, wpPromotion, wpKey>> /\ wpServed' \in WpOrNone
          /\ wpRun[p].at = "rollback"
          /\ \/ wpRun' = [wpRun EXCEPT ![p].at = "rollbackHealth"]
             \/ wpRun' = [wpRun EXCEPT ![p] = WpNotRunning]
      BY <1>11, <1>b DEF WpRollback
    <2>2. wpRun \in [WpPromotions -> WpRuns]
      BY <1>0, WpTypes
    <2>3. /\ wpRun' \in [WpPromotions -> WpRuns]
          /\ \/ wpRun'[p].at = "rollbackHealth" /\ wpRun'[p].previous = wpRun[p].previous
             \/ wpRun'[p].at = "none" /\ wpRun'[p].previous = WpNone
          /\ \A q \in WpPromotions : q # p => wpRun'[q] = wpRun[q]
      BY <2>1, <2>2, <1>a DEF WpRuns, WpNotRunning
    <2>4. WpTypeOK'
      BY <2>1, <2>3, <1>0, WpTypes, WpTypesAfter
    <2>5. WpRunsAreOfReleases'
      BY <2>1, <2>3, <1>0 DEF WpRunsAreOfReleases, WpRunIsOfRelease
    <2> QED
      BY <2>4, <2>5 DEF WpInv
  <1>12. ASSUME NEW p \in WpPromotions, NEW ok \in BOOLEAN, WpRollbackHealth(p, ok)
         PROVE  WpInv'
    <2>1. wpPromotion[p].state \in WpStates \ {"absent"}
      BY <1>0, <1>b, <1>12 DEF WpRollbackHealth, WpRunsAreOfReleases, WpRunIsOfRelease
    <2>2. /\ wpRun[p].at # "none" /\ UNCHANGED <<wpKey, wpServed>>
          /\ wpTarget' \in {wpTarget, [wpTarget EXCEPT !.state = "healthy"]}
          /\ \E state \in WpStates \ {"absent"} : WpMoves(p, state, "none", WpNone)
      BY <2>1, <1>a, <1>12 DEF WpRollbackHealth, WpEnds
    <2>3. wpTarget' \in WpTargets /\ wpTarget'.current = wpTarget.current
      BY <2>2, <1>b, <1>c
    <2> QED
      BY <2>2, <2>3, <1>6, <1>a, <1>b
  <1>13. CASE UNCHANGED wpVars
    BY <1>0, <1>13 DEF wpVars, WpInv, WpTypeOK, WpRunsAreOfReleases, WpRunIsOfRelease
  <1> QED
    BY <1>1, <1>2, <1>3, <1>4, <1>5, <1>7, <1>8, <1>9, <1>10, <1>11, <1>12, <1>13
       DEF WpNext, WpPromote

LEMMA WpInvHolds == WpSpec => []WpInv
  <1>1. WpInit => WpInv
    BY WpAssumption DEF WpInit, WpInv, WpTypeOK, WpRunsAreOfReleases, WpRunIsOfRelease, WpNotRunning, WpOrNone,
       WpStages, WpStates
  <1> QED
    BY <1>1, WpInvStep, PTL DEF WpSpec

\* The Target of the coordinator implements the abstract one: completeHealthy
\* advances it, what degrade does changes neither pointer nor history, and only
\* a Target that names a Release is called healthy after a rollback.
THEOREM WpRefinesTargetPointer == WpSpec => WpIsTargetPointer
  <1>1. WpInit => Pointer!Init
    BY DEF WpInit, Pointer!Init
  <1>2. ASSUME WpInv, [WpNext]_wpVars
        PROVE  [Pointer!Next]_(Pointer!pointerVars)
    <2>1. /\ wpTarget \in WpTargets
          /\ \A p \in WpPromotions : WpRunIsOfRelease(p)
      BY <1>2, WpTypes DEF WpInv, WpRunsAreOfReleases
    <2>2. ASSUME wpTarget' \in {wpTarget, [wpTarget EXCEPT !.state = "degraded"]}
          PROVE  [Pointer!Next]_(Pointer!pointerVars)
      BY <2>1, <2>2 DEF WpTargets, Pointer!pointerVars, Pointer!Next, Pointer!Degrade
    <2>3. ASSUME NEW can \in SUBSET WpCapabilities, NEW serial \in BOOLEAN, WpConfigure(can, serial)
          PROVE  UNCHANGED Pointer!pointerVars
      BY <2>1, <2>3 DEF WpConfigure, WpTargets, Pointer!pointerVars
    <2>4. ASSUME NEW p \in WpPromotions, WpHealthy(p)
          PROVE  Pointer!Next
      <3> DEFINE r == wpPromotion[p].release
      <3>1. r \in WpReleases
        BY <2>1, <2>4 DEF WpHealthy, WpRunIsOfRelease
      <3>2. Pointer!Advance(r)
        BY <2>1, <2>4 DEF WpHealthy, WpTargets, Pointer!Advance
      <3> QED
        BY <3>1, <3>2 DEF Pointer!Next
    <2>5. ASSUME NEW p \in WpPromotions, NEW ok \in BOOLEAN, WpRollbackHealth(p, ok)
          PROVE  Pointer!Next \/ wpTarget' = wpTarget
      <3>1. wpTarget.current # WpNone
        BY <2>1, <2>5 DEF WpRollbackHealth, WpRunIsOfRelease
      <3>2. CASE ok
        BY <2>1, <2>5, <3>1, <3>2 DEF WpRollbackHealth, WpTargets, Pointer!Next, Pointer!Recover
      <3>3. CASE ~ ok
        BY <2>5, <3>3 DEF WpRollbackHealth
      <3> QED
        BY <3>2, <3>3
    <2>6. ASSUME NEW p \in WpPromotions,
                 \/ \E r \in WpReleases : WpPromote(p, r)
                 \/ \E k \in 1 .. WpMaxKeys : WpPromoteAgain(p, k)
                 \/ WpRetryPromotion(p) \/ WpRollbackToPrevious(p)
                 \/ \E answer \in {"ok", "failed", "blocked"} : WpPreview(p, answer)
                 \/ \E ok \in BOOLEAN : WpRollback(p, ok)
          PROVE  wpTarget' = wpTarget
      BY <2>6 DEF WpPromote, WpPromoteAgain, WpRetryPromotion, WpRollbackToPrevious,
                  WpRequested, WpPreview, WpRollback
    <2>7. ASSUME NEW p \in WpPromotions,
                 WpUnhealthy(p) \/ \E answer \in {"ok", "mismatch", "indeterminate",
                                                 "failed", "blocked"} : WpApply(p, answer)
          PROVE  wpTarget' \in {wpTarget, [wpTarget EXCEPT !.state = "degraded"]}
      BY <2>7 DEF WpUnhealthy, WpApply
    <2>8. CASE UNCHANGED wpVars
      BY <2>2, <2>8 DEF wpVars
    <2> QED
      BY <1>2, <2>2, <2>3, <2>4, <2>5, <2>6, <2>7, <2>8 DEF WpNext
  <1> QED
    BY <1>1, <1>2, WpInvHolds, PTL DEF WpSpec, WpIsTargetPointer, Pointer!Spec

LEMMA WpSerialStep == WpInv /\ WpSerial /\ [WpNext]_wpVars => WpSerial'
  <1> SUFFICES ASSUME WpInv, WpSerial, [WpNext]_wpVars PROVE WpSerial'
    OBVIOUS
  <1>0. /\ WpTypeOK /\ wpTarget \in WpTargets
        /\ \A p \in WpPromotions : WpRunIsOfRelease(p)
    BY WpTypes DEF WpInv, WpRunsAreOfReleases
  <1> USE DEF WpUnused, WpRunAlone, WpProposedIsStuck, WpNoDoubt, WpServedWithoutDoubt
  <1>1. ASSUME NEW can \in SUBSET WpCapabilities, NEW serial \in BOOLEAN, WpConfigure(can, serial)
        PROVE  WpSerial'
    <2>1. /\ wpTarget.state = "absent" /\ wpTarget'.state = "configured"
          /\ UNCHANGED <<wpPromotion, wpRun>>
      BY <1>0, <1>1 DEF WpConfigure, WpTargets
    <2> QED
      BY <2>1 DEF WpSerial
  \* A record is taken over by a call and runs, or the Target is not able to.
  <1>2. ASSUME NEW p \in WpPromotions, NEW rec \in WpRecords, WpExecute(p, rec),
               WpMayCall, wpTarget.state # "absent",
               UNCHANGED <<wpTarget, wpServed>>,
               rec.kind = wpPromotion[p].kind \/ wpPromotion[p].state = "absent",
               rec.state = "proposed",
               wpTarget.serial /\ ({"profile", "preview"} \subseteq wpTarget.can)
                 => rec.previous = wpTarget.current
        PROVE  WpSerial'
    <2>1. /\ wpPromotion'[p].previous = rec.previous
          /\ wpPromotion'[p].kind = rec.kind
          /\ \/ /\ {"profile", "preview"} \subseteq wpTarget.can
                /\ wpPromotion'[p].state = "validating"
                /\ wpRun'[p].at = "preview" /\ wpRun'[p].previous = WpNone
             \/ /\ ~ ({"profile", "preview"} \subseteq wpTarget.can)
                /\ wpPromotion'[p].state = rec.state
                /\ wpRun' = wpRun
          /\ \A q \in WpPromotions : q # p => /\ wpPromotion'[q] = wpPromotion[q]
                                              /\ wpRun'[q] = wpRun[q]
      BY <1>0, <1>2, WpExecuteType
    <2> QED
      BY <1>2, <2>1 DEF WpSerial, WpMayCall
  <1>3. ASSUME NEW p \in WpPromotions, NEW r \in WpReleases, NEW kind \in {"promotion", "rollback"},
               WpRequested(p, r, kind)
        PROVE  WpSerial'
    <2> DEFINE rec == [state |-> "proposed", release |-> r,
                       previous |-> wpTarget.current, kind |-> kind]
    <2>1. /\ rec \in WpRecords
          /\ rec.state = "proposed" /\ rec.previous = wpTarget.current
      BY <1>0 DEF WpRecords, WpStates, WpOrNone, WpTargets
    <2>2. /\ WpExecute(p, rec) /\ UNCHANGED <<wpTarget, wpServed>> /\ WpMayCall
          /\ wpTarget.state # "absent" /\ wpPromotion[p].state = "absent"
      BY <1>3 DEF WpRequested
    <2> HIDE DEF rec
    <2> QED
      BY <2>1, <2>2, <1>2
  <1>4. ASSUME NEW p \in WpPromotions, NEW k \in 1 .. WpMaxKeys, WpPromoteAgain(p, k)
        PROVE  WpSerial'
    <2>1. wpPromotion[p] \in WpRecords
      BY <1>0 DEF WpTypeOK, WpRecords
    <2>2. /\ WpExecute(p, wpPromotion[p]) /\ UNCHANGED <<wpTarget, wpServed>> /\ WpMayCall
          /\ wpPromotion[p].state = "proposed"
      BY <1>4 DEF WpPromoteAgain
    <2> QED
      BY <2>1, <2>2, <1>2 DEF WpSerial
  <1>5. ASSUME NEW p \in WpPromotions, WpRetryPromotion(p)
        PROVE  WpSerial'
    <2> DEFINE rec == [wpPromotion[p] EXCEPT !.state = "proposed", !.previous = wpTarget.current]
    <2>1. /\ rec \in WpRecords /\ rec.kind = wpPromotion[p].kind
          /\ rec.state = "proposed" /\ rec.previous = wpTarget.current
      <3>1. wpPromotion[p] \in WpRecords /\ wpTarget.current \in WpOrNone
        BY <1>0 DEF WpTypeOK, WpRecords
      <3>2. "proposed" \in WpStates
        BY DEF WpStates
      <3> QED
        BY <3>1, <3>2 DEF WpRecords
    <2>2. /\ UNCHANGED <<wpTarget, wpServed>> /\ WpMayCall
          /\ wpPromotion[p].state # "absent"
          /\ IF wpRun[p].at = "none" THEN WpExecute(p, rec)
               ELSE wpPromotion' = [wpPromotion EXCEPT ![p] = rec] /\ UNCHANGED wpRun
      BY <1>5 DEF WpRetryPromotion, WpRetryable
    <2>3. wpTarget.state # "absent"
      BY <2>2 DEF WpSerial
    <2> HIDE DEF rec
    <2>4. CASE wpRun[p].at = "none"
      BY <2>1, <2>2, <2>3, <2>4, <1>2
    <2>5. CASE wpRun[p].at # "none"
      BY <2>2, <2>3, <2>5 DEF WpSerial, WpMayCall
    <2> QED
      BY <2>4, <2>5
  <1>6. ASSUME NEW p \in WpPromotions, WpRollbackToPrevious(p)
        PROVE  WpSerial'
    <2>1. WpPreviousReleases \subseteq WpReleases
      BY <1>0 DEF WpPreviousReleases, WpTargets
    <2> QED
      BY <2>1, <1>6, <1>3 DEF WpRollbackToPrevious
  \* What an execution leaves behind: its own record and the Target.
  <1>7. ASSUME NEW p \in WpPromotions, NEW state \in WpStates \ {"absent", "proposed"},
               NEW at \in WpStages, NEW previous \in WpOrNone, WpMoves(p, state, at, previous),
               wpRun[p].at # "none"
        PROVE  /\ wpPromotion'[p].state = state
               /\ wpPromotion'[p].kind = wpPromotion[p].kind
               /\ wpPromotion'[p].previous = wpPromotion[p].previous
               /\ wpRun'[p].at = at /\ wpRun'[p].previous = previous
               /\ \A q \in WpPromotions : q # p => /\ wpPromotion'[q] = wpPromotion[q]
                                                   /\ wpRun'[q] = wpRun[q]
               /\ wpTarget.state # "absent"
               /\ wpTarget.serial =>
                    /\ \A q \in WpPromotions : q # p => wpRun[q].at = "none"
                    /\ wpPromotion[p].previous = wpTarget.current
    BY <1>0, <1>7, WpMovesType DEF WpSerial
  <1>a. /\ WpNone \in WpOrNone
        /\ {"none", "preview", "apply", "health", "rollback", "rollbackHealth"} \subseteq WpStages
        /\ {"failed", "blocked", "applying", "healthy", "degraded", "rolled-back"} \subseteq
             WpStates \ {"absent", "proposed"}
    BY DEF WpOrNone, WpStages, WpStates
  <1>b. \A p \in WpPromotions : wpPromotion[p].previous \in WpOrNone /\ wpPromotion[p].state \in WpStates
    BY <1>0 DEF WpTypeOK
  <1>8. ASSUME NEW p \in WpPromotions, NEW answer \in {"ok", "failed", "blocked"}, WpPreview(p, answer)
        PROVE  WpSerial'
    <2>1. /\ wpRun[p].at = "preview" /\ UNCHANGED <<wpTarget, wpKey, wpServed>>
          /\ \/ WpMoves(p, "applying", "apply", WpNone)
             \/ \E state \in {"failed", "blocked"} : WpMoves(p, state, "none", WpNone)
      BY <1>8 DEF WpPreview, WpEnds
    <2>2. CASE WpMoves(p, "applying", "apply", WpNone)
      BY <2>1, <2>2, <1>7, <1>a DEF WpSerial
    <2>3. ASSUME NEW state \in {"failed", "blocked"}, WpMoves(p, state, "none", WpNone)
          PROVE  WpSerial'
      BY <2>1, <2>3, <1>7, <1>a DEF WpSerial
    <2> QED
      BY <2>1, <2>2, <2>3
  <1>9. ASSUME NEW p \in WpPromotions,
               NEW answer \in {"ok", "mismatch", "indeterminate", "failed", "blocked"},
               WpApply(p, answer)
        PROVE  WpSerial'
    <2>1. wpRun[p].at = "apply"
      BY <1>9 DEF WpApply
    <2>2. CASE WpMoves(p, "applying", "health", WpNone) /\ UNCHANGED wpTarget
      BY <2>1, <2>2, <1>7, <1>a DEF WpSerial
    <2>3. CASE /\ WpMoves(p, "degraded", "none", WpNone)
               /\ wpTarget' = [wpTarget EXCEPT !.state = "degraded"]
      <3>1. /\ wpTarget'.state = "degraded" /\ wpTarget'.serial = wpTarget.serial
            /\ wpTarget'.current = wpTarget.current /\ wpTarget'.can = wpTarget.can
        BY <1>0, <2>3 DEF WpTargets
      <3> QED
        BY <2>1, <2>3, <3>1, <1>7, <1>a DEF WpSerial
    <2>4. ASSUME NEW state \in {"failed", "blocked"}, WpMoves(p, state, "none", WpNone),
                 UNCHANGED wpTarget, wpServed' = wpServed \/ wpPromotion[p].kind = "rollback"
          PROVE  WpSerial'
      <3>1. wpPromotion[p].kind \in {"promotion", "rollback"}
        BY <1>0 DEF WpTypeOK
      <3> QED
        BY <2>1, <2>4, <3>1, <1>7, <1>a DEF WpSerial
    <2>5. wpPromotion[p].kind \in {"promotion", "rollback"}
      BY <1>0 DEF WpTypeOK
    <2> QED
      BY <1>9, <2>2, <2>3, <2>4, <2>5 DEF WpApply, WpEnds
  <1>10. ASSUME NEW p \in WpPromotions, WpHealthy(p)
         PROVE  WpSerial'
    <2>1. /\ wpRun[p].at = "health" /\ WpMoves(p, "healthy", "none", WpNone)
          /\ wpServed' = wpPromotion[p].release
          /\ wpTarget'.state = "healthy" /\ wpTarget'.serial = wpTarget.serial
          /\ wpTarget'.current = wpPromotion[p].release /\ wpTarget'.can = wpTarget.can
      BY <1>0, <1>10 DEF WpHealthy, WpEnds, WpTargets
    <2> QED
      BY <2>1, <1>7, <1>a DEF WpSerial
  <1>11. ASSUME NEW p \in WpPromotions, WpUnhealthy(p)
         PROVE  WpSerial'
    <2>1. /\ wpRun[p].at = "health"
          /\ wpTarget'.state = "degraded" /\ wpTarget'.serial = wpTarget.serial
          /\ wpTarget'.current = wpTarget.current /\ wpTarget'.can = wpTarget.can
          /\ \/ WpMoves(p, "degraded", "rollback", wpPromotion[p].previous)
             \/ WpMoves(p, "degraded", "none", WpNone)
      BY <1>0, <1>11 DEF WpUnhealthy, WpEnds, WpTargets
    <2>2. CASE WpMoves(p, "degraded", "rollback", wpPromotion[p].previous)
      BY <2>1, <2>2, <1>7, <1>a, <1>b DEF WpSerial
    <2>3. CASE WpMoves(p, "degraded", "none", WpNone)
      BY <2>1, <2>3, <1>7, <1>a DEF WpSerial
    <2> QED
      BY <2>1, <2>2, <2>3
  <1>12. ASSUME NEW p \in WpPromotions, NEW ok \in BOOLEAN, WpRollback(p, ok)
         PROVE  WpSerial'
    <2>1. /\ UNCHANGED <<wpTarget, wpPromotion, wpKey>>
          /\ wpRun[p].at = "rollback"
          /\ \/ wpRun' = [wpRun EXCEPT ![p].at = "rollbackHealth"]
             \/ wpRun' = [wpRun EXCEPT ![p] = WpNotRunning]
      BY <1>12 DEF WpRollback
    <2>2. /\ \/ wpRun'[p].at = "rollbackHealth" /\ wpRun'[p].previous = wpRun[p].previous
             \/ wpRun'[p].at = "none" /\ wpRun'[p].previous = WpNone
          /\ \A q \in WpPromotions : q # p => wpRun'[q] = wpRun[q]
      BY <2>1, <1>0, WpTypes DEF WpRuns, WpNotRunning
    <2> QED
      BY <2>1, <2>2 DEF WpSerial
  <1>13. ASSUME NEW p \in WpPromotions, NEW ok \in BOOLEAN, WpRollbackHealth(p, ok)
         PROVE  WpSerial'
    <2>1. wpRun[p].at = "rollbackHealth" /\ UNCHANGED wpServed
      BY <1>13 DEF WpRollbackHealth
    <2>2. /\ wpTarget'.serial = wpTarget.serial /\ wpTarget'.current = wpTarget.current
          /\ wpTarget'.can = wpTarget.can
          /\ \/ ok /\ wpTarget'.state = "healthy" /\ wpServed = wpRun[p].previous
             \/ wpTarget'.state = wpTarget.state
      BY <1>0, <1>13 DEF WpRollbackHealth, WpTargets
    <2>3. \E state \in {"rolled-back", wpPromotion[p].state} : WpMoves(p, state, "none", WpNone)
      BY <1>13 DEF WpRollbackHealth, WpEnds
    <2>4. PICK state \in {"rolled-back", wpPromotion[p].state} : WpMoves(p, state, "none", WpNone)
      BY <2>3
    <2>5. /\ wpPromotion'[p].state = state
          /\ wpPromotion'[p].kind = wpPromotion[p].kind
          /\ wpRun'[p].at = "none"
          /\ \A q \in WpPromotions : q # p => /\ wpPromotion'[q] = wpPromotion[q]
                                              /\ wpRun'[q] = wpRun[q]
      BY <2>4, <1>0, <1>a, <1>b, WpMovesType
    <2> QED
      BY <2>1, <2>2, <2>4, <2>5 DEF WpSerial
  <1>14. CASE UNCHANGED wpVars
    BY <1>14 DEF wpVars, WpSerial
  <1> QED
    BY <1>1, <1>3, <1>4, <1>5, <1>6, <1>8, <1>9, <1>10, <1>11, <1>12, <1>13, <1>14
       DEF WpNext, WpPromote

\* Whatever the provider answers, the records of the coordinator have their
\* types and only a known Release is executed.
THEOREM WpTypeCorrect == WpSpec => [](WpTypeOK /\ WpRunsAreOfReleases)
  BY WpInvHolds, PTL DEF WpInv

\* Between calls made one at a time, a Target called healthy serves the Release
\* it names, unless an operator's rollback failed (failFromAdapter).
THEOREM WpHealthyIsServedCorrect == WpSpec => []WpHealthyIsServed
  <1>1. WpInit => WpSerial
    BY DEF WpInit, WpSerial, WpUnused, WpRunAlone, WpProposedIsStuck, WpNoDoubt,
           WpServedWithoutDoubt, WpNotRunning
  <1>2. WpSerial => WpHealthyIsServed
    BY DEF WpSerial, WpServedWithoutDoubt, WpNoDoubt, WpHealthyIsServed
  <1> QED
    BY <1>1, <1>2, WpInvHolds, WpSerialStep, PTL DEF WpSpec

-----------------------------------------------------------------------------
(* Publication of Releases *)

\* Release i of the provider is that of Artifact a's Release; it holds the
\* asset of a.
RpIsFor(releases, i, a) == i \in 1 .. Len(releases) /\ releases[i].tag = RpReleaseOf[a]
RpHolds(releases, i, a, kind) == <<RpAssetName[a], kind, a>> \in releases[i].assets

\* A call of the adapter works on the Release of its Artifact and has what it
\* has checked so far; what is published has everything and is public.
RpProgress(releases, c, rec) ==
  LET a == rec.artifact
      i == rec.providerRelease
  IN /\ c.at # "none" \/ rec.state # "absent" => a \in RpArtifacts
     /\ c.at \in {"artifact", "manifest", "beforePublish", "publish", "final"} =>
          RpIsFor(releases, c.release, a)
     /\ c.at \in {"manifest", "beforePublish", "publish", "final"} =>
          RpHolds(releases, c.release, a, "bytes")
     /\ c.at \in {"beforePublish", "publish", "final"} => RpHolds(releases, c.release, a, "manifest")
     /\ rec.state = "published" =>
          /\ RpIsFor(releases, i, a) /\ ~ releases[i].draft
          /\ RpHolds(releases, i, a, "bytes") /\ RpHolds(releases, i, a, "manifest")

RpInv ==
  /\ RpTypeOK
  /\ Len(rpProvider) <= RpMaxDrafts
  /\ \A p \in RpPublications : RpProgress(rpProvider, rpCall[p], rpRecord[p])

\* What the provider is made to do takes nothing back.
RpGrows(releases, next) ==
  /\ next \in Seq(RpProviderRelease) /\ Len(next) <= RpMaxDrafts
  /\ Len(releases) <= Len(next)
  /\ \A i \in 1 .. Len(releases) :
       /\ next[i].tag = releases[i].tag
       /\ ~ releases[i].draft => ~ next[i].draft
       /\ releases[i].assets \subseteq next[i].assets

LEMMA RpGrowsKeeps ==
  ASSUME NEW releases \in Seq(RpProviderRelease), NEW next, RpGrows(releases, next),
         NEW c, NEW rec, RpProgress(releases, c, rec)
  PROVE  RpProgress(next, c, rec)
  <1>1. Len(releases) \in Nat /\ Len(next) \in Nat
    BY DEF RpGrows
  <1> QED
    BY <1>1 DEF RpGrows, RpProgress, RpIsFor, RpHolds

\* The provider after a Release of its own was changed or one was added.
LEMMA RpGrowsByOne ==
  ASSUME RpInv, NEW x \in RpProviderRelease
  PROVE  /\ Len(rpProvider) < RpMaxDrafts => RpGrows(rpProvider, Append(rpProvider, x))
         /\ \A i \in 1 .. Len(rpProvider) :
              /\ x.tag = rpProvider[i].tag /\ (~ rpProvider[i].draft => ~ x.draft)
              /\ rpProvider[i].assets \subseteq x.assets
              => RpGrows(rpProvider, [rpProvider EXCEPT ![i] = x])
         /\ RpGrows(rpProvider, rpProvider)
  <1>1. rpProvider \in Seq(RpProviderRelease) /\ Len(rpProvider) <= RpMaxDrafts /\ RpMaxDrafts \in Nat
    BY RpAssumption DEF RpInv, RpTypeOK
  <1> QED
    BY <1>1 DEF RpGrows

\* One publication takes a step: its record and its call are what the step says.
LEMMA RpOneMoves ==
  ASSUME RpInv, NEW p \in RpPublications, NEW rec \in RpRecord, NEW c \in RpCall,
         rpRecord' = [rpRecord EXCEPT ![p] = rec], rpCall' = [rpCall EXCEPT ![p] = c],
         rpTarget' \in RpTarget, RpGrows(rpProvider, rpProvider'),
         RpProgress(rpProvider', c, rec)
  PROVE  RpInv'
  <1>1. /\ rpRecord \in [RpPublications -> RpRecord] /\ rpCall \in [RpPublications -> RpCall]
        /\ rpProvider \in Seq(RpProviderRelease)
    BY DEF RpInv, RpTypeOK
  <1>2. RpTypeOK' /\ Len(rpProvider') <= RpMaxDrafts
    BY <1>1 DEF RpTypeOK, RpGrows
  <1>3. ASSUME NEW q \in RpPublications PROVE RpProgress(rpProvider', rpCall'[q], rpRecord'[q])
    <2>1. CASE q = p
      BY <1>1, <2>1
    <2>2. CASE q # p
      <3>1. rpCall'[q] = rpCall[q] /\ rpRecord'[q] = rpRecord[q]
        BY <1>1, <2>2
      <3>2. RpProgress(rpProvider, rpCall[q], rpRecord[q])
        BY DEF RpInv
      <3> QED
        BY <1>1, <3>1, <3>2, RpGrowsKeeps
    <2> QED
      BY <2>1, <2>2
  <1> QED
    BY <1>2, <1>3 DEF RpInv

\* What is known of a publication.
LEMMA RpKnown ==
  ASSUME RpInv, NEW p \in RpPublications
  PROVE  /\ rpTarget \in RpTarget
         /\ rpRecord \in [RpPublications -> RpRecord] /\ rpRecord[p] \in RpRecord
         /\ rpCall \in [RpPublications -> RpCall] /\ rpCall[p] \in RpCall
         /\ rpProvider \in Seq(RpProviderRelease) /\ Len(rpProvider) \in Nat
         /\ DOMAIN rpProvider = 1 .. Len(rpProvider)
         /\ Len(rpProvider) <= RpMaxDrafts /\ RpMaxDrafts \in Nat
         /\ RpProgress(rpProvider, rpCall[p], rpRecord[p])
         /\ RpGrows(rpProvider, rpProvider)
         /\ RpIdle \in RpCall
  <1>1. /\ rpTarget \in RpTarget
        /\ rpRecord \in [RpPublications -> RpRecord] /\ rpCall \in [RpPublications -> RpCall]
        /\ rpProvider \in Seq(RpProviderRelease) /\ Len(rpProvider) <= RpMaxDrafts /\ RpMaxDrafts \in Nat
        /\ RpProgress(rpProvider, rpCall[p], rpRecord[p])
    BY RpAssumption DEF RpInv, RpTypeOK
  <1>2. RpIdle \in RpCall
    BY <1>1 DEF RpIdle, RpCall
  <1>3. RpGrows(rpProvider, rpProvider)
    BY <1>1 DEF RpGrows
  <1> QED
    BY <1>1, <1>2, <1>3

\* The call ends with a failure.
LEMMA RpFailKeeps ==
  ASSUME RpInv, NEW p \in RpPublications, rpCall[p].at # "none",
         NEW state \in {"failed", "blocked", "degraded"}, RpFail(p, state),
         RpGrows(rpProvider, rpProvider')
  PROVE  RpInv'
  <1> DEFINE rec == [rpRecord[p] EXCEPT !.state = state]
  <1>1. /\ rec \in RpRecord /\ rec.state = state /\ rec.artifact = rpRecord[p].artifact
    BY RpKnown DEF RpRecord, RpStates
  <1>2. rpRecord' = [rpRecord EXCEPT ![p] = rec] /\ rpCall' = [rpCall EXCEPT ![p] = RpIdle]
    BY RpKnown DEF RpFail
  <1>3. rpTarget' \in RpTarget
    BY RpKnown DEF RpFail, RpTarget
  <1>4. RpIdle.at = "none" /\ rpRecord[p].artifact \in RpArtifacts
    BY RpKnown DEF RpIdle, RpProgress
  <1> HIDE DEF rec
  <1>5. RpProgress(rpProvider', RpIdle, rec)
    BY <1>1, <1>4 DEF RpProgress
  <1> QED
    BY <1>1, <1>2, <1>3, <1>5, RpKnown, RpOneMoves

\* The names of the assets of a Release.
LEMMA RpSeenType ==
  ASSUME RpInv, NEW i \in 1 .. Len(rpProvider)
  PROVE  RpSeen(i) \subseteq RpNames \X {"bytes", "manifest"}
  <1>1. rpProvider[i] \in RpProviderRelease
    BY DEF RpInv, RpTypeOK
  <1>2. rpProvider[i].assets \subseteq RpNames \X {"bytes", "manifest"} \X RpArtifacts
    BY <1>1 DEF RpProviderRelease
  <1> QED
    BY <1>2 DEF RpSeen

\* The call goes on with Release i and what it is known to hold.
LEMMA RpGoesKeeps ==
  ASSUME RpInv, NEW p \in RpPublications, rpCall[p].at # "none",
         NEW i \in 1 .. Len(rpProvider),
         NEW at \in {"artifact", "manifest", "beforePublish", "publish", "final"},
         NEW seen \in SUBSET (RpNames \X {"bytes", "manifest"}),
         rpCall' = [rpCall EXCEPT ![p] = [at |-> at, release |-> i, seen |-> seen]],
         UNCHANGED <<rpTarget, rpRecord>>, RpGrows(rpProvider, rpProvider'),
         RpIsFor(rpProvider', i, rpRecord[p].artifact),
         at # "artifact" => RpHolds(rpProvider', i, rpRecord[p].artifact, "bytes"),
         at \in {"beforePublish", "publish", "final"} =>
           RpHolds(rpProvider', i, rpRecord[p].artifact, "manifest")
  PROVE  RpInv'
  <1> DEFINE c == [at |-> at, release |-> i, seen |-> seen]
  <1>1. c \in RpCall /\ c.at = at /\ c.release = i
    BY RpKnown DEF RpCall
  <1>2. rpRecord' = [rpRecord EXCEPT ![p] = rpRecord[p]] /\ rpTarget' \in RpTarget
    BY RpKnown
  <1> HIDE DEF c
  <1>3. RpProgress(rpProvider', rpCall[p], rpRecord[p])
    BY RpKnown, RpGrowsKeeps
  <1>4. RpProgress(rpProvider', c, rpRecord[p])
    BY <1>1, <1>3 DEF RpProgress
  <1>5. rpCall' = [rpCall EXCEPT ![p] = c]
    BY DEF c
  <1> QED
    BY <1>1, <1>2, <1>4, <1>5, RpKnown, RpOneMoves

\* The same after a look at the Release that changed nothing.
LEMMA RpLookKeeps ==
  ASSUME RpInv, NEW p \in RpPublications, rpCall[p].at # "none",
         NEW i \in 1 .. Len(rpProvider),
         NEW at \in {"artifact", "manifest", "beforePublish", "publish", "final"},
         RpGoesTo(p, at, i), RpGrows(rpProvider, rpProvider'),
         RpIsFor(rpProvider, i, rpRecord[p].artifact),
         at # "artifact" => RpHolds(rpProvider, i, rpRecord[p].artifact, "bytes"),
         at \in {"beforePublish", "publish", "final"} =>
           RpHolds(rpProvider, i, rpRecord[p].artifact, "manifest")
  PROVE  RpInv'
  <1>1. /\ rpCall' = [rpCall EXCEPT ![p] = [at |-> at, release |-> i, seen |-> RpSeen(i)]]
        /\ UNCHANGED <<rpTarget, rpRecord>>
        /\ RpSeen(i) \in SUBSET (RpNames \X {"bytes", "manifest"})
    BY RpSeenType DEF RpGoesTo
  <1>2. /\ RpIsFor(rpProvider', i, rpRecord[p].artifact)
        /\ \A kind : RpHolds(rpProvider, i, rpRecord[p].artifact, kind) =>
                      RpHolds(rpProvider', i, rpRecord[p].artifact, kind)
    BY RpKnown DEF RpGrows, RpIsFor, RpHolds
  <1> QED
    BY <1>1, <1>2, RpGoesKeeps

LEMMA RpInvStep == RpInv /\ [RpNext]_rpVars => RpInv'
  <1> SUFFICES ASSUME RpInv, [RpNext]_rpVars PROVE RpInv'
    OBVIOUS
  <1>1. ASSUME NEW immutable \in BOOLEAN, RpConfigure(immutable) PROVE RpInv'
    <2>1. rpTarget' \in RpTarget /\ UNCHANGED <<rpRecord, rpCall, rpProvider>>
      BY <1>1 DEF RpConfigure, RpTarget, RpInv, RpTypeOK
    <2> QED
      BY <2>1 DEF RpInv, RpTypeOK
  \* A call starts with nothing known.
  <1>2. ASSUME NEW p \in RpPublications, NEW rec \in RpRecord, rec.artifact \in RpArtifacts,
               RpExecute(p, rec)
        PROVE  RpInv'
    <2> DEFINE pub == [rec EXCEPT !.state = "publishing"]
               c == [RpIdle EXCEPT !.at = "find"]
    <2>1. pub \in RpRecord /\ pub.state = "publishing" /\ pub.artifact = rec.artifact
      BY DEF RpRecord, RpStates
    <2>2. c \in RpCall /\ c.at = "find"
      BY RpKnown DEF RpCall
    <2>3. /\ rpRecord' = [rpRecord EXCEPT ![p] = pub] /\ rpCall' = [rpCall EXCEPT ![p] = c]
          /\ UNCHANGED <<rpTarget, rpProvider>>
      BY <1>2 DEF RpExecute
    <2> HIDE DEF pub, c
    <2>4. RpProgress(rpProvider', c, pub)
      BY <1>2, <2>1, <2>2 DEF RpProgress
    <2> QED
      BY <2>1, <2>2, <2>3, <2>4, RpKnown, RpOneMoves
  <1>3. ASSUME NEW p \in RpPublications, NEW a \in RpArtifacts, NEW expected, RpPublish(p, a, expected)
        PROVE  RpInv'
    <2> DEFINE rec == [state |-> "proposed", artifact |-> a, attempt |-> 0, providerRelease |-> 0]
    <2>1. rec \in RpRecord /\ rec.artifact \in RpArtifacts
      BY RpAssumption DEF RpRecord, RpStates
    <2>2. RpExecute(p, rec)
      BY <1>3 DEF RpPublish
    <2> HIDE DEF rec
    <2> QED
      BY <2>1, <2>2, <1>2
  <1>4. ASSUME NEW p \in RpPublications, RpRetry(p) PROVE RpInv'
    <2> DEFINE rec == [rpRecord[p] EXCEPT !.attempt = @ + 1]
    <2>1. rec \in RpRecord /\ rec.artifact = rpRecord[p].artifact
      <3> DEFINE r == rpRecord[p]
                 n == r.attempt + 1
      <3>1. r \in RpRecord /\ r.attempt < RpMaxAttempts
        BY <1>4, RpKnown DEF RpRetry
      <3>2. r.attempt \in 0 .. RpMaxAttempts
        BY <3>1 DEF RpRecord
      <3>3. n \in 0 .. RpMaxAttempts
        BY <3>1, <3>2, RpAssumption
      <3>4. rec = [r EXCEPT !.attempt = n]
        OBVIOUS
      <3> HIDE DEF r, n
      <3>5. [r EXCEPT !.attempt = n] \in RpRecord /\ [r EXCEPT !.attempt = n].artifact = r.artifact
        BY <3>1, <3>3 DEF RpRecord
      <3> QED
        BY <3>4, <3>5 DEF r
    <2>2. rpRecord[p].artifact \in RpArtifacts
      BY <1>4, RpKnown DEF RpRetry, RpProgress
    <2>3. RpExecute(p, rec)
      BY <1>4 DEF RpRetry
    <2> HIDE DEF rec
    <2> QED
      BY <2>1, <2>2, <2>3, <1>2
  <1>5. ASSUME NEW p \in RpPublications,
               RpReadFails(p) \/ \E state \in {"failed", "blocked"} : RpRefused(p, state)
        PROVE  RpInv'
    <2>1. /\ rpCall[p].at # "none" /\ UNCHANGED rpProvider
          /\ \E state \in {"failed", "blocked", "degraded"} : RpFail(p, state)
      BY <1>5 DEF RpReadFails, RpRefused
    <2> QED
      BY <2>1, RpKnown, RpFailKeeps
  <1>6. ASSUME NEW p \in RpPublications, NEW i \in RpByTag(p), rpCall[p].at # "none",
               RpGoesTo(p, "artifact", i), UNCHANGED rpProvider
        PROVE  RpInv'
    <2>1. i \in 1 .. Len(rpProvider) /\ RpIsFor(rpProvider, i, rpRecord[p].artifact)
      BY <1>6, RpKnown DEF RpByTag, RpArtifactOf, RpIsFor
    <2> QED
      BY <2>1, <1>6, RpKnown, RpLookKeeps
  <1>7. ASSUME NEW p \in RpPublications, RpFind(p) PROVE RpInv'
    <2>1. CASE RpByTag(p) = {}
      <3> DEFINE c == [rpCall[p] EXCEPT !.at = "create"]
      <3>1. c \in RpCall /\ c.at = "create"
        BY RpKnown DEF RpCall
      <3>2. rpCall' = [rpCall EXCEPT ![p] = c] /\ UNCHANGED <<rpTarget, rpRecord, rpProvider>>
        BY <1>7, <2>1, RpKnown DEF RpFind
      <3>3. rpCall[p].at = "find"
        BY <1>7 DEF RpFind
      <3> HIDE DEF c
      <3>4. RpProgress(rpProvider', c, rpRecord[p])
        BY <3>1, <3>2, <3>3, RpKnown DEF RpProgress
      <3>5. rpRecord' = [rpRecord EXCEPT ![p] = rpRecord[p]]
        BY <3>2, RpKnown
      <3> QED
        BY <3>1, <3>2, <3>4, <3>5, RpKnown, RpOneMoves
    <2>2. CASE RpByTag(p) # {}
      BY <1>6, <1>7, <2>2 DEF RpFind
    <2> QED
      BY <2>1, <2>2
  <1>8. ASSUME NEW p \in RpPublications, NEW done \in BOOLEAN, NEW answered \in BOOLEAN,
               RpCreate(p, done, answered)
        PROVE  RpInv'
    <2> DEFINE tag == RpReleaseOf[rpRecord[p].artifact]
               new == [tag |-> tag, draft |-> TRUE, assets |-> {}]
    <2>1. /\ rpCall[p].at = "create" /\ UNCHANGED <<rpTarget, rpRecord>> /\ (answered => done)
          /\ rpRecord[p].artifact \in RpArtifacts
      BY <1>8, RpKnown DEF RpCreate, RpAnswered, RpProgress
    <2>2. new \in RpProviderRelease /\ new.tag = tag
      BY <2>1 DEF RpProviderRelease, RpTags
    <2> HIDE DEF new
    <2>3. RpGrows(rpProvider, rpProvider')
      BY <1>8, <2>2, RpGrowsByOne, RpKnown DEF RpCreate, RpArtifactOf, new
    <2>4. CASE answered
      <3> DEFINE n == Len(rpProvider) + 1
      <3>1. rpProvider' = Append(rpProvider, new) /\ Len(rpProvider) < RpMaxDrafts
        BY <1>8, <2>1, <2>4 DEF RpCreate, RpArtifactOf, new
      <3>2. Len(rpProvider') = n /\ rpProvider'[n] = new /\ n \in 1 .. n /\ n \in 0 .. RpMaxDrafts
        BY <3>1, <2>2, RpKnown
      <3> DEFINE c == [at |-> "artifact", release |-> n, seen |-> {}]
      <3>3. rpCall' = [rpCall EXCEPT ![p] = c]
        BY <1>8, <2>4, <3>2 DEF RpCreate
      <3>4. c \in RpCall /\ c.at = "artifact" /\ c.release = n
        BY <3>2 DEF RpCall
      <3> HIDE DEF c, n
      <3>5. RpIsFor(rpProvider', n, rpRecord[p].artifact)
        BY <3>2, <2>2 DEF RpIsFor
      <3>6. RpProgress(rpProvider', rpCall[p], rpRecord[p])
        BY <2>3, RpKnown, RpGrowsKeeps
      <3>7. RpProgress(rpProvider', c, rpRecord[p])
        BY <2>1, <3>4, <3>5, <3>6 DEF RpProgress
      <3>8. rpRecord' = [rpRecord EXCEPT ![p] = rpRecord[p]]
        BY <2>1, RpKnown
      <3> QED
        BY <2>1, <2>3, <3>3, <3>4, <3>7, <3>8, RpKnown, RpOneMoves
    <2>5. CASE ~ answered
      <3> DEFINE c == [RpIdle EXCEPT !.at = "createLost"]
      <3>1. c \in RpCall /\ c.at = "createLost"
        BY RpKnown DEF RpCall
      <3>2. rpCall' = [rpCall EXCEPT ![p] = c]
        BY <1>8, <2>5 DEF RpCreate
      <3> HIDE DEF c
      <3>3. RpProgress(rpProvider', rpCall[p], rpRecord[p])
        BY <2>3, RpKnown, RpGrowsKeeps
      <3>4. RpProgress(rpProvider', c, rpRecord[p])
        BY <2>1, <3>1, <3>3 DEF RpProgress
      <3>5. rpRecord' = [rpRecord EXCEPT ![p] = rpRecord[p]]
        BY <2>1, RpKnown
      <3> QED
        BY <2>1, <2>3, <3>1, <3>2, <3>4, <3>5, RpKnown, RpOneMoves
    <2> QED
      BY <2>4, <2>5
  <1>9. ASSUME NEW p \in RpPublications, RpCreateLost(p) PROVE RpInv'
    <2>1. CASE RpByTag(p) = {}
      BY <1>9, <2>1, RpKnown, RpFailKeeps DEF RpCreateLost
    <2>2. CASE RpByTag(p) # {}
      BY <1>6, <1>9, <2>2 DEF RpCreateLost
    <2> QED
      BY <2>1, <2>2
  <1>10. ASSUME NEW p \in RpPublications, NEW kind \in {"bytes", "manifest"},
                RpExistingAsset(p, kind)
         PROVE  RpInv'
    <2> DEFINE i == rpCall[p].release
               a == rpRecord[p].artifact
    <2>1. /\ rpCall[p].at = RpAssetStep(kind) /\ UNCHANGED rpProvider
          /\ IF RpHolds(rpProvider, i, a, kind) THEN RpGoesTo(p, RpAfterAsset(kind), i)
               ELSE RpFail(p, "degraded")
      BY <1>10 DEF RpExistingAsset, RpVerified, RpHolds, RpArtifactOf
    <2>2. /\ rpCall[p].at # "none" /\ i \in 1 .. Len(rpProvider) /\ RpIsFor(rpProvider, i, a)
          /\ kind = "manifest" => RpHolds(rpProvider, i, a, "bytes")
      BY <2>1, RpKnown DEF RpAssetStep, RpProgress, RpIsFor
    <2>3. CASE RpHolds(rpProvider, i, a, kind)
      <3>1. /\ RpAfterAsset(kind) \in {"manifest", "beforePublish"}
            /\ RpHolds(rpProvider, i, a, "bytes")
            /\ RpAfterAsset(kind) = "beforePublish" => RpHolds(rpProvider, i, a, "manifest")
        BY <2>2, <2>3 DEF RpAfterAsset
      <3> QED
        BY <2>1, <2>2, <2>3, <3>1, RpKnown, RpLookKeeps
    <2>4. CASE ~ RpHolds(rpProvider, i, a, kind)
      BY <2>1, <2>2, <2>4, RpKnown, RpFailKeeps
    <2> QED
      BY <2>3, <2>4
  <1>11. ASSUME NEW p \in RpPublications, NEW kind \in {"bytes", "manifest"}, NEW done \in BOOLEAN,
                RpUpload(p, kind, done)
         PROVE  RpInv'
    <2> DEFINE i == rpCall[p].release
               a == rpRecord[p].artifact
               asset == <<RpAssetName[a], kind, a>>
               x == [rpProvider[i] EXCEPT !.assets = @ \cup {asset}]
               seen == RpSeen(i) \cup {RpAsset(p, kind)}
    <2>1. /\ rpCall[p].at = RpAssetStep(kind)
          /\ IF done \/ RpHolds(rpProvider, i, a, kind)
               THEN /\ rpCall' = [rpCall EXCEPT ![p] =
                         [at |-> RpAfterAsset(kind), release |-> i, seen |-> seen]]
                    /\ UNCHANGED <<rpTarget, rpRecord>>
               ELSE RpFail(p, "degraded")
          /\ IF done THEN rpProvider' = [rpProvider EXCEPT ![i] = x] ELSE UNCHANGED rpProvider
      BY <1>11, RpKnown DEF RpUpload, RpVerified, RpHolds, RpArtifactOf
    <2>2. /\ rpCall[p].at # "none" /\ i \in 1 .. Len(rpProvider) /\ RpIsFor(rpProvider, i, a)
          /\ kind = "manifest" => RpHolds(rpProvider, i, a, "bytes")
          /\ a \in RpArtifacts
      BY <2>1, RpKnown DEF RpAssetStep, RpProgress, RpIsFor
    <2>3. /\ x \in RpProviderRelease /\ x.tag = rpProvider[i].tag /\ x.draft = rpProvider[i].draft
          /\ rpProvider[i].assets \subseteq x.assets /\ asset \in x.assets
      <3>1. rpProvider[i] \in RpProviderRelease
        BY <2>2, RpKnown
      <3>2. asset \in RpNames \X {"bytes", "manifest"} \X RpArtifacts
        BY <2>2 DEF RpNames
      <3> HIDE DEF asset, i
      <3> QED
        BY <3>1, <3>2 DEF RpProviderRelease
    <2> HIDE DEF x
    <2>4. RpGrows(rpProvider, rpProvider')
      BY <2>1, <2>2, <2>3, RpGrowsByOne, RpKnown
    <2>5. CASE done \/ RpHolds(rpProvider, i, a, kind)
      <3>1. RpHolds(rpProvider', i, a, kind)
        BY <2>1, <2>2, <2>3, <2>5, RpKnown DEF RpHolds
      <3>2. /\ RpIsFor(rpProvider', i, a)
            /\ kind = "manifest" => RpHolds(rpProvider', i, a, "bytes")
        BY <2>2, <2>4, RpKnown DEF RpGrows, RpIsFor, RpHolds
      <3>3. seen \in SUBSET (RpNames \X {"bytes", "manifest"})
        <4>1. RpAsset(p, kind) \in RpNames \X {"bytes", "manifest"}
          BY <2>2 DEF RpAsset, RpArtifactOf, RpNames
        <4> QED
          BY <4>1, <2>2, RpSeenType
      <3>4. /\ RpAfterAsset(kind) \in {"manifest", "beforePublish"}
            /\ RpHolds(rpProvider', i, a, "bytes")
            /\ RpAfterAsset(kind) = "beforePublish" => RpHolds(rpProvider', i, a, "manifest")
        BY <3>1, <3>2 DEF RpAfterAsset
      <3> HIDE DEF seen
      <3> QED
        BY <2>1, <2>2, <2>4, <2>5, <3>2, <3>3, <3>4, RpGoesKeeps
    <2>6. CASE ~ (done \/ RpHolds(rpProvider, i, a, kind))
      BY <2>1, <2>2, <2>4, <2>6, RpFailKeeps
    <2> QED
      BY <2>5, <2>6
  <1>12. ASSUME NEW p \in RpPublications, RpBeforePublish(p) PROVE RpInv'
    <2> DEFINE i == rpCall[p].release
               a == rpRecord[p].artifact
    <2>1. /\ rpCall[p].at = "beforePublish" /\ UNCHANGED rpProvider
          /\ \E at \in {"publish", "final"} : RpGoesTo(p, at, i)
      BY <1>12 DEF RpBeforePublish
    <2>2. /\ i \in 1 .. Len(rpProvider) /\ RpIsFor(rpProvider, i, a)
          /\ RpHolds(rpProvider, i, a, "bytes") /\ RpHolds(rpProvider, i, a, "manifest")
      BY <2>1, RpKnown DEF RpProgress, RpIsFor
    <2> QED
      BY <2>1, <2>2, RpKnown, RpLookKeeps
  <1>13. ASSUME NEW p \in RpPublications, NEW done \in BOOLEAN, RpPublishDraft(p, done) PROVE RpInv'
    <2> DEFINE i == rpCall[p].release
               a == rpRecord[p].artifact
               x == [rpProvider[i] EXCEPT !.draft = FALSE]
    <2>1. /\ rpCall[p].at = "publish"
          /\ rpProvider' \in {rpProvider, [rpProvider EXCEPT ![i] = x]}
          /\ RpGoesTo(p, "final", i) \/ RpFail(p, "degraded")
      BY <1>13 DEF RpPublishDraft
    <2>2. /\ i \in 1 .. Len(rpProvider) /\ RpIsFor(rpProvider, i, a)
          /\ RpHolds(rpProvider, i, a, "bytes") /\ RpHolds(rpProvider, i, a, "manifest")
      BY <2>1, RpKnown DEF RpProgress, RpIsFor
    <2>3. /\ x \in RpProviderRelease /\ x.tag = rpProvider[i].tag /\ x.draft = FALSE
          /\ x.assets = rpProvider[i].assets
      <3> DEFINE r == rpProvider[i]
      <3>1. r \in RpProviderRelease
        BY <2>2, RpKnown
      <3>2. x = [r EXCEPT !.draft = FALSE]
        OBVIOUS
      <3> HIDE DEF r, x
      <3>3. FALSE \in BOOLEAN
        OBVIOUS
      <3>4. x \in RpProviderRelease
        BY <3>1, <3>2, <3>3 DEF RpProviderRelease
      <3>5. x.tag = r.tag /\ x.draft = FALSE /\ x.assets = r.assets
        BY <3>1, <3>2 DEF RpProviderRelease
      <3> QED
        BY <3>4, <3>5 DEF r
    <2> HIDE DEF x
    <2>4. RpGrows(rpProvider, rpProvider')
      BY <2>1, <2>2, <2>3, RpGrowsByOne
    <2> QED
      BY <2>1, <2>2, <2>4, RpLookKeeps, RpFailKeeps
  <1>14. ASSUME NEW p \in RpPublications, RpSucceeds(p) PROVE RpInv'
    <2> DEFINE i == rpCall[p].release
               a == rpRecord[p].artifact
    <2>1. rpCall[p].at = "final" /\ UNCHANGED rpProvider
      BY <1>14 DEF RpSucceeds
    <2>2. /\ i \in 1 .. Len(rpProvider) /\ RpIsFor(rpProvider, i, a) /\ a \in RpArtifacts
          /\ RpHolds(rpProvider, i, a, "bytes") /\ RpHolds(rpProvider, i, a, "manifest")
      BY <2>1, RpKnown DEF RpProgress, RpIsFor
    <2>3. CASE RpLooksAgain(p, i) # "published"
      <3>1. RpLooksAgain(p, i) \in {"degraded", "blocked", "published"}
        BY DEF RpLooksAgain
      <3>2. RpFail(p, RpLooksAgain(p, i))
        BY <1>14, <2>3 DEF RpSucceeds
      <3> QED
        BY <2>1, <2>3, <3>1, <3>2, RpKnown, RpFailKeeps
    <2>4. CASE RpLooksAgain(p, i) = "published"
      <3>1. ~ rpProvider[i].draft
        BY <2>4 DEF RpLooksAgain
      <3> DEFINE rec == [rpRecord[p] EXCEPT !.state = "published", !.providerRelease = i]
                 h == IF rpTarget.history # << >>
                           /\ rpTarget.history[Len(rpTarget.history)] = RpReleaseOf[a]
                        THEN rpTarget.history ELSE Append(rpTarget.history, RpReleaseOf[a])
      <3>2. /\ rpRecord' = [rpRecord EXCEPT ![p] = rec] /\ rpCall' = [rpCall EXCEPT ![p] = RpIdle]
            /\ rpTarget' = [rpTarget EXCEPT !.state = "published", !.current = a, !.history = h]
        BY <1>14, <2>4, RpKnown DEF RpSucceeds, RpArtifactOf
      <3>3. /\ rec \in RpRecord /\ rec.state = "published" /\ rec.artifact = a
            /\ rec.providerRelease = i
        BY <2>2, RpKnown DEF RpRecord, RpStates, RpCall
      <3>4. h \in Seq(RpTags)
        <4>1. rpTarget.history \in Seq(RpTags) /\ RpReleaseOf[a] \in RpTags
          BY <2>2, RpKnown DEF RpTarget, RpTags
        <4> HIDE DEF a
        <4> QED
          BY <4>1
      <3> HIDE DEF rec, h
      <3>5. rpTarget' \in RpTarget
        BY <3>2, <3>4, <2>2, RpKnown DEF RpTarget
      <3>6. RpIdle.at = "none"
        BY DEF RpIdle
      <3>7. RpProgress(rpProvider', RpIdle, rec)
        BY <2>1, <2>2, <3>1, <3>3, <3>6 DEF RpProgress
      <3> QED
        BY <2>1, <3>2, <3>3, <3>5, <3>7, RpKnown, RpOneMoves
    <2> QED
      BY <2>3, <2>4
  <1>15. CASE UNCHANGED rpVars
    BY <1>15 DEF rpVars, RpInv, RpTypeOK
  <1> QED
    BY <1>1, <1>3, <1>4, <1>5, <1>7, <1>8, <1>9, <1>10, <1>11, <1>12, <1>13, <1>14, <1>15
       DEF RpNext

LEMMA RpInvHolds == RpSpec => []RpInv
  <1>1. RpInit => RpInv
    <2> SUFFICES ASSUME RpInit PROVE RpInv
      OBVIOUS
    <2> DEFINE rec == [state |-> "absent", artifact |-> RpNone, attempt |-> 0, providerRelease |-> 0]
    <2>1. rec \in RpRecord /\ rec.state = "absent"
      BY RpAssumption DEF RpRecord, RpStates
    <2>2. RpIdle \in RpCall /\ RpIdle.at = "none"
      BY RpAssumption DEF RpIdle, RpCall
    <2>3. /\ rpTarget \in RpTarget /\ rpRecord = [p \in RpPublications |-> rec]
          /\ rpCall = [p \in RpPublications |-> RpIdle] /\ rpProvider = << >>
      BY DEF RpInit, RpTarget
    <2> HIDE DEF rec
    <2>4. RpProgress(rpProvider, RpIdle, rec)
      BY <2>1, <2>2 DEF RpProgress
    <2> QED
      BY <2>1, <2>2, <2>3, <2>4, RpAssumption DEF RpInv, RpTypeOK
  <1> QED
    BY <1>1, RpInvStep, PTL DEF RpSpec

\* The records of the publications have their types.
THEOREM RpTypeCorrect == RpSpec => []RpTypeOK
  BY RpInvHolds, PTL DEF RpInv

\* Whatever calls are lost, repeated or made by others, what is recorded as
\* published is public under the tag of its Release and has the Artifact's own
\* bytes and manifest.
THEOREM RpPublishedIsDownloadableCorrect == RpSpec => []RpPublishedIsDownloadable
  <1>1. RpInv => RpPublishedIsDownloadable
    <2> SUFFICES ASSUME RpInv, NEW p \in RpPublications, rpRecord[p].state = "published"
                 PROVE  LET i == rpRecord[p].providerRelease IN
                        /\ i \in DOMAIN rpProvider
                        /\ rpProvider[i].tag = RpReleaseOf[RpArtifactOf(p)]
                        /\ ~ rpProvider[i].draft
                        /\ RpVerified(p, i, "bytes") /\ RpVerified(p, i, "manifest")
      BY DEF RpPublishedIsDownloadable
    <2> QED
      BY RpKnown DEF RpProgress, RpIsFor, RpHolds, RpVerified, RpArtifactOf
  <1> QED
    BY <1>1, RpInvHolds, PTL

-----------------------------------------------------------------------------
(* The adapter of a Worker Target *)

\* Version v holds exactly Release r, and says so.
WaOwn(versions, v, r) ==
  v \in 1 .. Len(versions) /\ versions[v].tag = r /\ versions[v].content = r

\* Every version that has a share holds the Release it is tagged with.
WaSharesOwn(versions, shares) ==
  \A i \in 1 .. Len(shares) : \E r \in WaReleases : WaOwn(versions, shares[i].version, r)

\* What an execution has checked when it is at a step; the version of the tag
\* that it listed and has not read yet may hold anything.
WaJobSound(versions, x) ==
  /\ x.step \in 1 .. Len(x.steps)
  /\ x.at = "idle" => x.step = 1
  /\ \A r \in WaReleases : x.cache[r] # 0 => WaOwn(versions, x.cache[r], r)
  /\ x.at = "read" => x.version \in 1 .. Len(versions) /\ versions[x.version].tag = x.release
  /\ x.at \in {"readNew", "persist", "base", "deploy", "observe", "save"} =>
       WaOwn(versions, x.version, x.release)
  /\ WaSharesOwn(versions, x.base)
  /\ x.result = "succeeded" => x.at = "between"

\* The execution has just put the whole traffic on its version, or says so.
WaHasAll(x) ==
  \/ x.at = "save" \/ x.result = "succeeded"
  \/ x.at = "observe" /\ (x.op = "rollback" \/ x.steps[x.step] = 100)
WaServes(active, x) ==
  Len(active) = 1 /\ active[1].version = x.version /\ active[1].percentage = 100

\* Of a Release that is not in waTwice no version was deleted and at most one
\* is its own; none is while an execution is about to upload it, and only one
\* execution is.
WaOnce(versions, jobs, r) ==
  /\ \A v \in 1 .. Len(versions) : versions[v].tag = r => ~ versions[v].gone
  /\ \A v, w \in 1 .. Len(versions) : WaOwn(versions, v, r) /\ WaOwn(versions, w, r) => v = w
  /\ \A j \in WaJobs : jobs[j].at = "upload" /\ jobs[j].release = r =>
       /\ \A v \in 1 .. Len(versions) : ~ WaOwn(versions, v, r)
       /\ \A k \in WaJobs : jobs[k].at = "upload" /\ jobs[k].release = r => k = j

WaCounts == [faults : 0 .. WaMaxFaults, meddling : 0 .. WaMaxMeddling]

WaInv ==
  /\ WaTypeOK /\ waFaults \in WaCounts
  /\ WaSharesOwn(waVersions, waActive)
  /\ \A r \in WaReleases : waLedger[r] # 0 => WaOwn(waVersions, waLedger[r], r)
  /\ \A j \in WaJobs : WaJobSound(waVersions, waJob[j])
  /\ \A j \in WaJobs : waLast = {j} /\ WaHasAll(waJob[j]) => WaServes(waActive, waJob[j])
  /\ \A r \in WaReleases \ waTwice : WaOnce(waVersions, waJob, r)

LEMMA WaConstants ==
  /\ WaForeign \notin WaReleases
  /\ WaMaxVersions \in Nat /\ WaMaxFaults \in Nat /\ WaMaxMeddling \in Nat
  /\ \A steps \in WaPolicies :
       /\ steps \in Seq(1 .. 100) /\ Len(steps) \in Nat /\ Len(steps) > 0
       /\ steps[Len(steps)] = 100 /\ \A i \in 1 .. Len(steps) : steps[i] \in 1 .. 100
  <1>1. \A steps \in WaPolicies : steps \in Seq(1 .. 100) /\ Len(steps) > 0 /\ steps[Len(steps)] = 100
    BY WaAssumption
  <1>2. \A S : \A steps \in Seq(S) :
          Len(steps) \in Nat /\ \A i \in 1 .. Len(steps) : steps[i] \in S
    OBVIOUS
  <1>3. WaMaxVersions \in Nat /\ WaMaxFaults \in Nat /\ WaMaxMeddling \in Nat
    BY WaAssumption
  <1> QED
    BY <1>1, <1>2, <1>3, WaAssumption

\* Only the execution j moves.
WaMoves(j) ==
  waJob' \in [WaJobs -> WaJob] /\ \A k \in WaJobs \ {j} : waJob'[k] = waJob[k]

\* What most steps of an execution leave alone.
WaKept(x, y) ==
  /\ x.op = y.op /\ x.release = y.release /\ x.candidate = y.candidate
  /\ x.cache = y.cache /\ x.base = y.base /\ x.steps = y.steps /\ x.step = y.step

LEMMA WaGoesIs ==
  ASSUME waJob \in [WaJobs -> WaJob], NEW j \in WaJobs, NEW at \in WaAt, WaGoes(j, at)
  PROVE  /\ WaMoves(j) /\ WaKept(waJob'[j], waJob[j]) /\ waJob'[j].at = at
         /\ waJob'[j].version = waJob[j].version /\ waJob'[j].result = waJob[j].result
  BY DEF WaGoes, WaMoves, WaKept, WaJob

LEMMA WaHasIs ==
  ASSUME waJob \in [WaJobs -> WaJob], NEW j \in WaJobs, NEW at \in WaAt,
         NEW v \in 0 .. WaMaxVersions, WaHas(j, at, v)
  PROVE  /\ WaMoves(j) /\ WaKept(waJob'[j], waJob[j]) /\ waJob'[j].at = at
         /\ waJob'[j].version = v /\ waJob'[j].result = waJob[j].result
  BY DEF WaHas, WaMoves, WaKept, WaJob

LEMMA WaEndsIs ==
  ASSUME waJob \in [WaJobs -> WaJob], NEW j \in WaJobs,
         NEW result \in {"none", "succeeded", "failed", "indeterminate"}, WaEnds(j, result)
  PROVE  /\ WaMoves(j) /\ WaKept(waJob'[j], waJob[j]) /\ waJob'[j].at = "done"
         /\ waJob'[j].version = waJob[j].version /\ waJob'[j].result = result
  <1>1. "done" \in WaAt
    BY DEF WaAt
  <1> QED
    BY <1>1 DEF WaEnds, WaMoves, WaKept, WaJob

LEMMA WaAfterVersionIs ==
  ASSUME waJob \in [WaJobs -> WaJob], NEW j \in WaJobs, NEW v \in 0 .. WaMaxVersions,
         WaAfterVersion(j, v)
  PROVE  /\ WaMoves(j)
         /\ waJob'[j].op = waJob[j].op /\ waJob'[j].release = waJob[j].release
         /\ waJob'[j].steps = waJob[j].steps /\ waJob'[j].result = waJob[j].result
         /\ waJob'[j].version = v /\ waJob'[j].step = 1 /\ waJob'[j].base = << >>
         /\ waJob'[j].cache[waJob[j].release] = v
         /\ \A r \in WaReleases \ {waJob[j].release} : waJob'[j].cache[r] = waJob[j].cache[r]
         /\ waJob'[j].at \in {"between", "base", "deploy"}
  <1> DEFINE x == waJob[j]
             at == CASE x.op = "preview" -> "between"
                     [] x.op = "rollback" -> "deploy"
                     [] OTHER -> IF x.steps[1] < 100 THEN "base" ELSE "deploy"
             cache == [x.cache EXCEPT ![x.release] = v]
             empty == << >>
  <1>1. at \in {"between", "base", "deploy"} /\ at \in WaAt
    BY DEF WaAt
  <1>2. x \in WaJob
    OBVIOUS
  <1>3. x.cache \in [WaReleases -> 0 .. WaMaxVersions] /\ x.release \in WaReleases
    BY <1>2 DEF WaJob
  <1>4. /\ cache \in [WaReleases -> 0 .. WaMaxVersions] /\ cache[x.release] = v
        /\ \A r \in WaReleases \ {x.release} : cache[r] = x.cache[r]
    BY <1>3
  <1>5. empty \in Seq(WaShare) /\ 1 \in Nat
    OBVIOUS
  <1>6. waJob' = [waJob EXCEPT ![j].version = v, ![j].step = 1, ![j].base = empty,
                               ![j].cache = cache, ![j].at = at]
    BY DEF WaAfterVersion
  <1> HIDE DEF at, cache, empty
  <1> DEFINE y == [x EXCEPT !.version = v, !.step = 1, !.base = empty, !.cache = cache, !.at = at]
  <1>7. y \in WaJob
    BY <1>1, <1>2, <1>4, <1>5 DEF WaJob
  <1>8. /\ y.cache = cache /\ y.at = at /\ y.base = empty /\ y.version = v /\ y.step = 1
        /\ y.op = x.op /\ y.release = x.release /\ y.steps = x.steps /\ y.result = x.result
    BY <1>2 DEF WaJob
  <1>9. waJob'[j] = y /\ \A k \in WaJobs \ {j} : waJob'[k] = waJob[k]
    BY <1>6
  <1>10. waJob' = [waJob EXCEPT ![j] = y]
    BY <1>6
  <1> HIDE DEF y
  <1>11. /\ waJob' \in [WaJobs -> WaJob] /\ waJob'[j].cache = cache
         /\ waJob'[j].at = at /\ waJob'[j].base = empty
         /\ \A k \in WaJobs \ {j} : waJob'[k] = waJob[k]
         /\ waJob'[j].op = waJob[j].op /\ waJob'[j].release = waJob[j].release
         /\ waJob'[j].steps = waJob[j].steps /\ waJob'[j].result = waJob[j].result
         /\ waJob'[j].version = v /\ waJob'[j].step = 1
    BY <1>7, <1>8, <1>9, <1>10
  <1>12. waJob'[j].base = << >>
    BY <1>11 DEF empty
  <1>13. /\ waJob'[j].cache[x.release] = v
         /\ \A r \in WaReleases \ {x.release} : waJob'[j].cache[r] = x.cache[r]
    BY <1>4, <1>11
  <1> QED
    BY <1>1, <1>11, <1>12, <1>13 DEF WaMoves

LEMMA SmallestOf ==
  ASSUME NEW T \in SUBSET Nat, T # {}
  PROVE  \E x \in T : \A y \in T : x <= y
  <1>1. \E x \in T : \A y \in T : <<y, x>> \notin OpToRel(<, Nat)
    BY NatLessThanWellFounded, WFMin
  <1>2. PICK x \in T : \A y \in T : <<y, x>> \notin OpToRel(<, Nat)
    BY <1>1
  <1>3. \A y \in T : ~ (y < x)
    BY <1>2 DEF OpToRel
  <1> QED
    BY <1>3

LEMMA LargestOf ==
  ASSUME NEW S, S # {}, NEW f \in [S -> 0 .. 100]
  PROVE  \E i \in S : \A k \in S : f[k] <= f[i]
  <1> DEFINE less == {100 - f[i] : i \in S}
  <1>1. \A i \in S : 100 - f[i] \in Nat /\ f[i] \in Nat
    OBVIOUS
  <1>2. less \in SUBSET Nat /\ less # {}
    BY <1>1
  <1>3. PICK m \in less : \A y \in less : m <= y
    BY <1>2, SmallestOf
  <1>4. PICK i \in S : m = 100 - f[i]
    BY <1>3
  <1>5. \A k \in S : 100 - f[i] <= 100 - f[k]
    BY <1>3, <1>4
  <1> QED
    BY <1>1, <1>4, <1>5

\* The version the rest of the traffic stays with is one of the others.
LEMMA WaPreviousIs ==
  ASSUME NEW j, waJob[j].base \in Seq(WaShare), WaOthers(j) # {}
  PROVE  \E i \in WaOthers(j) : WaPrevious(j) = waJob[j].base[i].version
  <1> DEFINE base == waJob[j].base
             others == WaOthers(j)
             share(i) == base[i].percentage
             most == {i \in others : \A k \in others : share(k) <= share(i)}
             first == CHOOSE i \in most : \A k \in most : i <= k
             f == [i \in others |-> base[i].percentage]
  <1>1. \A i \in others : i \in Nat /\ base[i] \in WaShare
    BY DEF WaOthers
  <1>2. \A i \in others : base[i].percentage \in 0 .. 100
    BY <1>1 DEF WaShare
  <1>3. f \in [others -> 0 .. 100]
    BY <1>2
  <1>4. PICK i \in others : \A k \in others : f[k] <= f[i]
    BY <1>3, LargestOf
  <1>5. i \in most
    BY <1>4
  <1>6. most \in SUBSET Nat
    BY <1>1
  <1>7. \E x \in most : \A y \in most : x <= y
    <2> HIDE DEF most
    <2> QED
      BY <1>5, <1>6, SmallestOf
  <1>8. first \in most
    <2> HIDE DEF most
    <2> QED
      BY <1>7
  <1> QED
    BY <1>8 DEF WaPrevious

-----------------------------------------------------------------------------
(* The provider's versions after an upload or a deletion *)

WaLater(versions, next) ==
  /\ next \in Seq(WaVersion) /\ Len(next) <= WaMaxVersions
  /\ Len(versions) <= Len(next)
  /\ \A v \in 1 .. Len(versions) :
       next[v].tag = versions[v].tag /\ next[v].content = versions[v].content

LEMMA WaKnown ==
  ASSUME WaInv
  PROVE  /\ waVersions \in Seq(WaVersion) /\ Len(waVersions) \in Nat
         /\ Len(waVersions) <= WaMaxVersions
         /\ waActive \in Seq(WaShare) /\ Len(waActive) \in Nat
         /\ waLedger \in [WaReleases -> 0 .. WaMaxVersions]
         /\ waJob \in [WaJobs -> WaJob] /\ waFaults \in WaCounts
         /\ WaSharesOwn(waVersions, waActive)
         /\ \A r \in WaReleases : waLedger[r] # 0 => WaOwn(waVersions, waLedger[r], r)
         /\ \A j \in WaJobs : WaJobSound(waVersions, waJob[j]) /\ waJob[j] \in WaJob
         /\ \A j \in WaJobs : waLast = {j} /\ WaHasAll(waJob[j]) => WaServes(waActive, waJob[j])
         /\ \A r \in WaReleases \ waTwice : WaOnce(waVersions, waJob, r)
  BY DEF WaInv, WaTypeOK

LEMMA WaFields ==
  ASSUME NEW x \in WaJob
  PROVE  /\ x.at \in WaAt /\ x.op \in {"preview", "apply", "rollback"}
         /\ x.release \in WaReleases /\ x.candidate \in WaReleases
         /\ x.cache \in [WaReleases -> 0 .. WaMaxVersions] /\ x.version \in 0 .. WaMaxVersions
         /\ x.base \in Seq(WaShare) /\ x.steps \in WaPolicies
         /\ x.result \in {"none", "succeeded", "failed", "indeterminate"}
  BY DEF WaJob

LEMMA WaSharesKept ==
  ASSUME NEW versions \in Seq(WaVersion), NEW next, WaLater(versions, next),
         NEW shares, WaSharesOwn(versions, shares)
  PROVE  WaSharesOwn(next, shares)
  <1>1. Len(versions) \in Nat /\ Len(next) \in Nat
    BY DEF WaLater
  <1>2. \A v, r : WaOwn(versions, v, r) => WaOwn(next, v, r)
    BY <1>1 DEF WaOwn, WaLater
  <1> QED
    BY <1>2 DEF WaSharesOwn

LEMMA WaSoundKept ==
  ASSUME NEW versions \in Seq(WaVersion), NEW next, WaLater(versions, next),
         NEW x, WaJobSound(versions, x)
  PROVE  WaJobSound(next, x)
  <1>1. Len(versions) \in Nat /\ Len(next) \in Nat
    BY DEF WaLater
  <1>2. WaSharesOwn(next, x.base)
    BY WaSharesKept DEF WaJobSound
  <1>3. \A v, r : WaOwn(versions, v, r) => WaOwn(next, v, r)
    BY <1>1 DEF WaOwn, WaLater
  <1>4. x.at = "read" => x.version \in 1 .. Len(next) /\ next[x.version].tag = x.release
    BY <1>1 DEF WaJobSound, WaLater
  <1> QED
    BY <1>2, <1>3, <1>4 DEF WaJobSound

LEMMA WaFaultIs ==
  ASSUME WaInv, WaFault \/ WaMeddle
  PROVE  waFaults' \in WaCounts
  <1>1. waFaults \in WaCounts /\ WaMaxFaults \in Nat /\ WaMaxMeddling \in Nat
    BY WaKnown, WaConstants
  <1>2. CASE WaFault
    <2> DEFINE n == waFaults.faults + 1
    <2>1. n \in 0 .. WaMaxFaults
      BY <1>1, <1>2 DEF WaFault, WaCounts
    <2>2. waFaults' = [waFaults EXCEPT !.faults = n]
      BY <1>2 DEF WaFault
    <2> HIDE DEF n
    <2> QED
      BY <1>1, <2>1, <2>2 DEF WaCounts
  <1>3. CASE WaMeddle
    <2> DEFINE n == waFaults.meddling + 1
    <2>1. n \in 0 .. WaMaxMeddling
      BY <1>1, <1>3 DEF WaMeddle, WaCounts
    <2>2. waFaults' = [waFaults EXCEPT !.meddling = n]
      BY <1>3 DEF WaMeddle
    <2> HIDE DEF n
    <2> QED
      BY <1>1, <2>1, <2>2 DEF WaCounts
  <1> QED
    BY <1>2, <1>3

\* One execution moves and the provider does not.
LEMMA WaQuietMove ==
  ASSUME WaInv, NEW j \in WaJobs, WaMoves(j), WaJobSound(waVersions, waJob'[j]),
         UNCHANGED <<waVersions, waActive, waLast>>, waTwice \subseteq waTwice',
         waLedger' \in [WaReleases -> 0 .. WaMaxVersions],
         \A r \in WaReleases : waLedger'[r] # 0 => WaOwn(waVersions, waLedger'[r], r),
         waFaults' \in WaCounts,
         WaHasAll(waJob'[j]) => WaHasAll(waJob[j]) /\ waJob'[j].version = waJob[j].version,
         \/ waJob'[j].at # "upload"
         \/ waJob'[j].release \in waTwice'
         \/ /\ \A v \in 1 .. Len(waVersions) : ~ WaOwn(waVersions, v, waJob'[j].release)
            /\ \A k \in WaJobs \ {j} :
                 waJob[k].at = "upload" => waJob[k].release # waJob'[j].release
  PROVE  WaInv'
  <1>1. WaTypeOK'
    BY WaKnown DEF WaTypeOK, WaMoves, WaCounts
  <1>2. \A k \in WaJobs : WaJobSound(waVersions, waJob'[k])
    BY WaKnown DEF WaMoves
  <1>3. \A k \in WaJobs : waLast = {k} /\ WaHasAll(waJob'[k]) => WaServes(waActive, waJob'[k])
    BY WaKnown DEF WaMoves, WaServes
  <1>4. ASSUME NEW r \in WaReleases \ waTwice' PROVE WaOnce(waVersions, waJob', r)
    <2>1. WaOnce(waVersions, waJob, r) /\ r \notin waTwice
      BY <1>4, WaKnown
    <2>2. \A k \in WaJobs \ {j} : waJob'[k] = waJob[k]
      BY DEF WaMoves
    <2>3. ASSUME NEW k \in WaJobs, waJob'[k].at = "upload", waJob'[k].release = r,
                 NEW l \in WaJobs, waJob'[l].at = "upload", waJob'[l].release = r
          PROVE  l = k /\ \A v \in 1 .. Len(waVersions) : ~ WaOwn(waVersions, v, r)
      <3>1. CASE k # j /\ l # j
        BY <2>1, <2>2, <2>3, <3>1 DEF WaOnce
      <3>2. CASE k = j \/ l = j
        BY <1>4, <2>2, <2>3, <3>2
      <3> QED
        BY <3>1, <3>2
    <2> QED
      BY <2>1, <2>3 DEF WaOnce
  <1> QED
    BY <1>1, <1>2, <1>3, <1>4, WaKnown DEF WaInv

\* The version was found, checked and maybe recorded: the operation goes on.
LEMMA WaFoundIs ==
  ASSUME WaInv, NEW j \in WaJobs, NEW v, WaOwn(waVersions, v, waJob[j].release),
         waJob[j].at \notin {"between", "observe", "save"}, WaAfterVersion(j, v)
  PROVE  /\ WaMoves(j) /\ WaJobSound(waVersions, waJob'[j])
         /\ ~ WaHasAll(waJob'[j]) /\ waJob'[j].at # "upload"
  <1>1. waJob[j] \in WaJob /\ WaJobSound(waVersions, waJob[j]) /\ Len(waVersions) \in Nat
    BY WaKnown
  <1>2. v \in 0 .. WaMaxVersions
    BY <1>1, WaKnown, WaConstants DEF WaOwn
  <1> DEFINE x == waJob'[j]
  <1>3. /\ WaMoves(j) /\ x.release = waJob[j].release /\ x.steps = waJob[j].steps
        /\ x.result = waJob[j].result /\ x.version = v /\ x.step = 1 /\ x.base = << >>
        /\ x.cache[waJob[j].release] = v
        /\ \A r \in WaReleases \ {waJob[j].release} : x.cache[r] = waJob[j].cache[r]
        /\ x.at \in {"between", "base", "deploy"}
    <2>1. waJob \in [WaJobs -> WaJob]
      BY WaKnown
    <2> QED
      BY <1>2, <2>1, WaAfterVersionIs
  <1>4. waJob[j].result # "succeeded"
    BY <1>1 DEF WaJobSound
  <1>5. x.step \in 1 .. Len(x.steps)
    BY <1>1, <1>3, WaFields, WaConstants
  <1>6. WaSharesOwn(waVersions, x.base)
    BY <1>3 DEF WaSharesOwn
  <1>7. \A r \in WaReleases : x.cache[r] # 0 => WaOwn(waVersions, x.cache[r], r)
    BY <1>1, <1>3 DEF WaJobSound
  <1> HIDE DEF x
  <1>8. WaJobSound(waVersions, x) /\ ~ WaHasAll(x) /\ x.at # "upload"
    BY <1>3, <1>4, <1>5, <1>6, <1>7 DEF WaJobSound, WaHasAll
  <1> QED
    BY <1>3, <1>8 DEF x

\* An operation ends, or goes on to a step for which nothing more must be known.
LEMMA WaQuietSound ==
  ASSUME NEW versions, NEW x, NEW y, WaJobSound(versions, y), WaKept(x, y),
         x.result = "succeeded" => x.at = "between",
         x.at \in {"lookup", "list", "upload", "done"}
  PROVE  WaJobSound(versions, x) /\ ~ WaHasAll(x)
  BY DEF WaJobSound, WaKept, WaHasAll

LEMMA WaEndMove ==
  ASSUME WaInv, NEW j \in WaJobs, NEW result \in {"none", "failed", "indeterminate"},
         WaEnds(j, result), UNCHANGED <<waVersions, waActive, waLast>>,
         waTwice \subseteq waTwice', waLedger' = waLedger, waFaults' \in WaCounts
  PROVE  WaInv'
  <1>1. /\ WaMoves(j) /\ WaKept(waJob'[j], waJob[j]) /\ waJob'[j].at = "done"
        /\ waJob'[j].result = result
    BY WaKnown, WaEndsIs
  <1>2. WaJobSound(waVersions, waJob'[j]) /\ ~ WaHasAll(waJob'[j])
    BY <1>1, WaKnown, WaQuietSound
  <1> QED
    BY <1>1, <1>2, WaKnown, WaQuietMove

LEMMA WaAppendIs ==
  ASSUME WaInv, NEW r \in WaReleases, NEW content \in WaReleases \cup {WaForeign}, WaAppend(r, content)
  PROVE  /\ WaLater(waVersions, waVersions') /\ Len(waVersions') = Len(waVersions) + 1
         /\ Len(waVersions) + 1 \in 0 .. WaMaxVersions
         /\ waVersions'[Len(waVersions) + 1].tag = r
         /\ waVersions'[Len(waVersions) + 1].content = content
         /\ ~ waVersions'[Len(waVersions) + 1].gone
         /\ \A v \in 1 .. Len(waVersions) : waVersions'[v] = waVersions[v]
         /\ content = r => WaOwn(waVersions', Len(waVersions) + 1, r)
  <1> DEFINE x == [tag |-> r, content |-> content, gone |-> FALSE]
  <1>1. x \in WaVersion /\ x.tag = r /\ x.content = content /\ ~ x.gone
    BY DEF WaVersion
  <1>2. waVersions' = Append(waVersions, x) /\ Len(waVersions) < WaMaxVersions
    BY DEF WaAppend
  <1>3. waVersions \in Seq(WaVersion) /\ Len(waVersions) \in Nat /\ WaMaxVersions \in Nat
    BY WaKnown, WaConstants
  <1> HIDE DEF x
  <1>4. /\ waVersions' \in Seq(WaVersion) /\ Len(waVersions') = Len(waVersions) + 1
        /\ waVersions'[Len(waVersions) + 1] = x
        /\ \A v \in 1 .. Len(waVersions) : waVersions'[v] = waVersions[v]
    BY <1>1, <1>2, <1>3
  <1> QED
    BY <1>1, <1>2, <1>3, <1>4 DEF WaLater, WaOwn

\* The provider has another version or one less, and its traffic is unchanged.
LEMMA WaGrown ==
  ASSUME WaInv, WaLater(waVersions, waVersions'), UNCHANGED <<waActive, waLedger, waLast>>,
         waFaults' \in WaCounts, waJob' \in [WaJobs -> WaJob],
         \A k \in WaJobs :
           \/ waJob'[k] = waJob[k]
           \/ WaJobSound(waVersions', waJob'[k]) /\ ~ WaHasAll(waJob'[k]),
         \A r \in WaReleases \ waTwice' : WaOnce(waVersions', waJob', r)
  PROVE  WaInv'
  <1>1. WaTypeOK'
    BY WaKnown DEF WaTypeOK, WaLater, WaCounts
  <1>2. WaSharesOwn(waVersions', waActive)
    BY WaKnown, WaSharesKept
  <1>3. \A v, r : WaOwn(waVersions, v, r) => WaOwn(waVersions', v, r)
    <2>1. Len(waVersions) \in Nat /\ Len(waVersions') \in Nat
      BY WaKnown DEF WaLater
    <2> QED
      BY <2>1 DEF WaOwn, WaLater
  <1>4. \A k \in WaJobs : WaJobSound(waVersions', waJob'[k])
    BY WaKnown, WaSoundKept
  <1>5. \A k \in WaJobs : waLast = {k} /\ WaHasAll(waJob'[k]) => WaServes(waActive, waJob'[k])
    BY WaKnown
  <1> QED
    BY <1>1, <1>2, <1>3, <1>4, <1>5, WaKnown DEF WaInv

\* A deployment gives traffic to the version of the operation and, before the
\* last step of a rollout, to one that had traffic before.
LEMMA WaSplitIs ==
  ASSUME WaInv, NEW j \in WaJobs, waJob[j].at = "deploy",
         ~ (WaPercentage(j) < 100 /\ WaOthers(j) = {})
  PROVE  /\ WaSplit(j) \in Seq(WaShare) /\ WaSharesOwn(waVersions, WaSplit(j))
         /\ WaPercentage(j) = 100 => WaServes(WaSplit(j), waJob[j])
  <1> DEFINE x == waJob[j]
             p == WaPercentage(j)
             a == [version |-> x.version, percentage |-> p]
             b == [version |-> WaPrevious(j), percentage |-> 100 - p]
  <1>1. x \in WaJob /\ WaJobSound(waVersions, x) /\ Len(waVersions) \in Nat
        /\ Len(waVersions) <= WaMaxVersions
    BY WaKnown
  <1>2. /\ x.release \in WaReleases /\ WaOwn(waVersions, x.version, x.release)
        /\ x.base \in Seq(WaShare) /\ WaSharesOwn(waVersions, x.base)
        /\ x.steps \in WaPolicies /\ x.step \in 1 .. Len(x.steps)
    BY <1>1, WaFields DEF WaJobSound
  <1>3. p \in 1 .. 100
    <2>1. x.steps[x.step] \in 1 .. 100
      BY <1>2, WaConstants
    <2> QED
      BY <2>1 DEF WaPercentage
  <1>4. x.version \in WaVersionIds
    BY <1>1, <1>2, WaConstants DEF WaOwn, WaVersionIds
  <1>5. a \in WaShare /\ a.version = x.version /\ a.percentage = p
    BY <1>3, <1>4 DEF WaShare
  <1>6. CASE p = 100
    <2>1. WaSplit(j) = <<a>>
      BY <1>6 DEF WaSplit
    <2> HIDE DEF a, p, x
    <2>2. <<a>> \in Seq(WaShare) /\ Len(<<a>>) = 1 /\ <<a>>[1] = a
      BY <1>5
    <2>3. WaSharesOwn(waVersions, <<a>>) /\ WaServes(<<a>>, x)
      BY <1>2, <1>5, <1>6, <2>2 DEF WaSharesOwn, WaServes
    <2> QED
      BY <2>1, <2>2, <2>3 DEF x
  <1>7. CASE p # 100
    <2>1. PICK i \in WaOthers(j) : WaPrevious(j) = x.base[i].version
      <3>1. p < 100
        BY <1>3, <1>7
      <3>2. WaOthers(j) # {}
        BY <3>1
      <3> QED
        BY <1>2, <3>2, WaPreviousIs
    <2>2. PICK r \in WaReleases : WaOwn(waVersions, WaPrevious(j), r)
      BY <1>2, <2>1 DEF WaSharesOwn, WaOthers
    <2>3. WaPrevious(j) \in WaVersionIds /\ 100 - p \in 1 .. 100
      <3>1. WaPrevious(j) \in 1 .. Len(waVersions)
        BY <2>2 DEF WaOwn
      <3>2. WaPrevious(j) \in WaVersionIds
        BY <1>1, <3>1, WaConstants DEF WaVersionIds
      <3>3. 100 - p \in 1 .. 100
        <4> HIDE DEF p
        <4> QED
          BY <1>3, <1>7
      <3> QED
        BY <3>2, <3>3
    <2>4. b \in WaShare /\ b.version = WaPrevious(j)
      BY <2>3 DEF WaShare
    <2>5. WaSplit(j) = <<a>> \o <<b>>
      BY <1>7 DEF WaSplit
    <2> HIDE DEF a, b, p, x
    <2>6. /\ <<a>> \o <<b>> \in Seq(WaShare) /\ Len(<<a>> \o <<b>>) = 2
          /\ (<<a>> \o <<b>>)[1] = a /\ (<<a>> \o <<b>>)[2] = b
      BY <1>5, <2>4
    <2>7. WaSharesOwn(waVersions, <<a>> \o <<b>>)
      BY <1>2, <1>5, <2>2, <2>4, <2>6 DEF WaSharesOwn
    <2> QED
      BY <1>7, <2>5, <2>6, <2>7 DEF p
  <1> QED
    BY <1>6, <1>7

LEMMA WaInvStep ==
  ASSUME WaInv, [WaNext]_waVars
  PROVE  WaInv'
  <1> USE DEF WaProvider, WaHistory
  <1>1. ASSUME NEW j \in WaJobs, NEW r \in WaReleases, NEW steps \in WaPolicies, WaStart(j, r, steps)
        PROVE  WaInv'
    <2> DEFINE x == waJob[j]
               y == waJob'[j]
    <2>1. x \in WaJob /\ WaJobSound(waVersions, x) /\ x.at = "idle" /\ waJob \in [WaJobs -> WaJob]
      BY <1>1, WaKnown DEF WaStart
    <2>2. "lookup" \in WaAt
      BY DEF WaAt
    <2>3. /\ WaMoves(j) /\ y.at = "lookup" /\ y.steps = steps /\ y.cache = x.cache
          /\ y.base = x.base /\ y.step = x.step /\ y.result = x.result
      BY <1>1, <2>1, <2>2 DEF WaStart, WaMoves, WaJob
    <2>4. y.step \in 1 .. Len(y.steps)
      BY <2>1, <2>3, WaConstants DEF WaJobSound
    <2>5. WaJobSound(waVersions, y) /\ ~ WaHasAll(y)
      BY <2>1, <2>3, <2>4 DEF WaJobSound, WaHasAll
    <2> QED
      BY <1>1, <2>3, <2>5, WaKnown, WaQuietMove DEF WaStart
  <1>2. ASSUME NEW j \in WaJobs, NEW op \in {"apply", "rollback"}, NEW r \in WaReleases,
               WaContinue(j, op, r)
        PROVE  WaInv'
    <2> DEFINE x == waJob[j]
               y == waJob'[j]
    <2>1. x \in WaJob /\ WaJobSound(waVersions, x) /\ waJob \in [WaJobs -> WaJob]
      BY <1>2, WaKnown
    <2>2. "lookup" \in WaAt /\ 0 \in 0 .. WaMaxVersions
      BY WaConstants DEF WaAt
    <2>3. /\ WaMoves(j) /\ y.at = "lookup" /\ y.steps = x.steps /\ y.cache = x.cache
          /\ y.base = x.base /\ y.step = x.step /\ y.result = "none"
      BY <1>2, <2>1, <2>2 DEF WaContinue, WaMoves, WaJob
    <2>4. WaJobSound(waVersions, y) /\ ~ WaHasAll(y)
      BY <2>1, <2>3 DEF WaJobSound, WaHasAll
    <2> QED
      BY <1>2, <2>3, <2>4, WaKnown, WaQuietMove DEF WaContinue
  <1>3. ASSUME NEW j \in WaJobs, WaLookup(j) PROVE WaInv'
    <2> DEFINE x == waJob[j]
               v == waLedger[x.release]
    <2>1. x \in WaJob /\ WaJobSound(waVersions, x) /\ x.at = "lookup" /\ waJob \in [WaJobs -> WaJob]
      BY <1>3, WaKnown DEF WaLookup
    <2>2. x.release \in WaReleases /\ x.result # "succeeded"
      BY <2>1, WaFields DEF WaJobSound
    <2>3. CASE \E w : WaOwn(waVersions, w, x.release) /\ WaAfterVersion(j, w)
      <3>1. PICK w : WaOwn(waVersions, w, x.release) /\ WaAfterVersion(j, w)
        BY <2>3
      <3>2. /\ WaMoves(j) /\ WaJobSound(waVersions, waJob'[j])
            /\ ~ WaHasAll(waJob'[j]) /\ waJob'[j].at # "upload"
        BY <2>1, <3>1, WaFoundIs
      <3> QED
        BY <1>3, <3>2, WaKnown, WaQuietMove DEF WaLookup
    <2>4. CASE WaEnds(j, "failed")
      BY <1>3, <2>4, WaKnown, WaEndMove DEF WaLookup
    <2>5. CASE WaGoes(j, "list")
      <3>1. "list" \in WaAt
        BY DEF WaAt
      <3>2. /\ WaMoves(j) /\ WaKept(waJob'[j], x) /\ waJob'[j].at = "list"
            /\ waJob'[j].result = x.result
        BY <2>1, <2>5, <3>1, WaGoesIs
      <3>3. WaJobSound(waVersions, waJob'[j]) /\ ~ WaHasAll(waJob'[j])
        BY <2>1, <2>2, <3>2, WaQuietSound
      <3> QED
        BY <1>3, <3>2, <3>3, WaKnown, WaQuietMove DEF WaLookup
    <2>6. x.cache[x.release] # 0 => WaOwn(waVersions, x.cache[x.release], x.release)
      BY <2>1, <2>2 DEF WaJobSound
    <2>7. v # 0 => WaOwn(waVersions, v, x.release)
      BY <2>2, WaKnown
    <2> QED
      BY <1>3, <2>3, <2>4, <2>5, <2>6, <2>7 DEF WaLookup
  <1>4. ASSUME NEW j \in WaJobs, WaList(j) PROVE WaInv'
    <2> DEFINE x == waJob[j]
               tagged == {v \in 1 .. Len(waVersions) : WaThere(v) /\ waVersions[v].tag = x.release}
    <2>1. x \in WaJob /\ WaJobSound(waVersions, x) /\ x.at = "list" /\ waJob \in [WaJobs -> WaJob]
      BY <1>4, WaKnown DEF WaList
    <2>2. x.release \in WaReleases /\ x.result # "succeeded"
      BY <2>1, WaFields DEF WaJobSound
    <2>3. ASSUME NEW v \in tagged, WaHas(j, "read", v), UNCHANGED waTwice PROVE WaInv'
      <3>1. "read" \in WaAt
        BY DEF WaAt
      <3>2. v \in 0 .. WaMaxVersions
        BY WaKnown, WaConstants
      <3>3. /\ WaMoves(j) /\ WaKept(waJob'[j], x) /\ waJob'[j].at = "read"
            /\ waJob'[j].version = v /\ waJob'[j].result = x.result
        BY <2>1, <2>3, <3>1, <3>2, WaHasIs
      <3>4. WaJobSound(waVersions, waJob'[j]) /\ ~ WaHasAll(waJob'[j])
        BY <2>1, <2>2, <3>3 DEF WaJobSound, WaHasAll, WaKept
      <3> QED
        BY <1>4, <2>3, <3>3, <3>4, WaKnown, WaQuietMove DEF WaList
    <2>4. CASE WaEnds(j, "failed") /\ waTwice \subseteq waTwice'
      BY <1>4, <2>4, WaKnown, WaEndMove DEF WaList
    <2>5. CASE /\ tagged = {} /\ WaGoes(j, "upload")
               /\ waTwice' = IF \E k \in WaJobs \ {j} :
                                  waJob[k].release = x.release /\ waJob[k].at = "upload"
                             THEN waTwice \cup {x.release} ELSE waTwice
      <3>1. "upload" \in WaAt
        BY DEF WaAt
      <3>2. /\ WaMoves(j) /\ WaKept(waJob'[j], x) /\ waJob'[j].at = "upload"
            /\ waJob'[j].result = x.result
        BY <2>1, <2>5, <3>1, WaGoesIs
      <3>3. WaJobSound(waVersions, waJob'[j]) /\ ~ WaHasAll(waJob'[j]) /\ waJob'[j].release = x.release
        BY <2>1, <2>2, <3>2, WaQuietSound DEF WaKept
      <3>4. ASSUME x.release \notin waTwice'
            PROVE  /\ \A v \in 1 .. Len(waVersions) : ~ WaOwn(waVersions, v, x.release)
                   /\ \A k \in WaJobs \ {j} :
                        waJob[k].at = "upload" => waJob[k].release # x.release
        <4>1. x.release \notin waTwice
              /\ \A k \in WaJobs \ {j} : waJob[k].at = "upload" => waJob[k].release # x.release
          BY <2>5, <3>4
        <4>2. WaOnce(waVersions, waJob, x.release)
          BY <2>2, <4>1, WaKnown
        <4>3. \A v \in 1 .. Len(waVersions) : waVersions[v].tag # x.release
          BY <2>5, <4>2 DEF WaOnce, WaThere
        <4> QED
          BY <4>1, <4>3 DEF WaOwn
      <3>5. waTwice \subseteq waTwice'
        BY <2>5
      <3> QED
        BY <1>4, <3>2, <3>3, <3>4, <3>5, WaKnown, WaQuietMove DEF WaList
    <2>6. waTwice \subseteq waTwice' \/ UNCHANGED waTwice
      BY <1>4 DEF WaList
    <2> QED
      BY <1>4, <2>3, <2>4, <2>5, <2>6 DEF WaList, WaNotFound
  <1>5. ASSUME NEW j \in WaJobs, WaRead(j) PROVE WaInv'
    <2> DEFINE x == waJob[j]
               v == x.version
    <2>1. x \in WaJob /\ WaJobSound(waVersions, x) /\ x.at = "read" /\ waJob \in [WaJobs -> WaJob]
      BY <1>5, WaKnown DEF WaRead
    <2>2. /\ x.release \in WaReleases /\ x.result # "succeeded"
          /\ v \in 1 .. Len(waVersions) /\ waVersions[v].tag = x.release
      BY <2>1, WaFields DEF WaJobSound
    <2>3. CASE WaEnds(j, "failed")
      BY <1>5, <2>3, WaKnown, WaEndMove DEF WaRead
    <2>4. CASE ~ WaThere(v) /\ WaGoes(j, "upload")
      <3>1. "upload" \in WaAt
        BY DEF WaAt
      <3>2. /\ WaMoves(j) /\ WaKept(waJob'[j], x) /\ waJob'[j].at = "upload"
            /\ waJob'[j].result = x.result
        BY <2>1, <2>4, <3>1, WaGoesIs
      <3>3. WaJobSound(waVersions, waJob'[j]) /\ ~ WaHasAll(waJob'[j]) /\ waJob'[j].release = x.release
        BY <2>1, <2>2, <3>2, WaQuietSound DEF WaKept
      <3>4. x.release \in waTwice
        BY <2>2, <2>4, WaKnown DEF WaOnce, WaThere
      <3> QED
        BY <1>5, <3>2, <3>3, <3>4, WaKnown, WaQuietMove DEF WaRead
    <2>5. CASE WaMatches(v, x.release) /\ WaGoes(j, "persist")
      <3>1. "persist" \in WaAt
        BY DEF WaAt
      <3>2. /\ WaMoves(j) /\ WaKept(waJob'[j], x) /\ waJob'[j].at = "persist"
            /\ waJob'[j].version = v /\ waJob'[j].result = x.result
        BY <2>1, <2>5, <3>1, WaGoesIs
      <3>3. WaOwn(waVersions, v, x.release)
        BY <2>2, <2>5 DEF WaOwn, WaMatches
      <3>4. WaJobSound(waVersions, waJob'[j]) /\ ~ WaHasAll(waJob'[j])
        BY <2>1, <2>2, <3>2, <3>3 DEF WaJobSound, WaHasAll, WaKept
      <3> QED
        BY <1>5, <3>2, <3>4, WaKnown, WaQuietMove DEF WaRead
    <2> QED
      BY <1>5, <2>3, <2>4, <2>5 DEF WaRead, WaNotFound
  <1>6. ASSUME NEW j \in WaJobs, WaPersist(j) PROVE WaInv'
    <2> DEFINE x == waJob[j]
    <2>1. x \in WaJob /\ WaJobSound(waVersions, x) /\ x.at = "persist"
      BY <1>6, WaKnown DEF WaPersist
    <2>2. WaOwn(waVersions, x.version, x.release) /\ x.release \in WaReleases
          /\ x.version \in 0 .. WaMaxVersions
      BY <2>1, WaFields DEF WaJobSound
    <2>3. /\ WaMoves(j) /\ WaJobSound(waVersions, waJob'[j])
          /\ ~ WaHasAll(waJob'[j]) /\ waJob'[j].at # "upload"
      BY <1>6, <2>1, <2>2, WaFoundIs DEF WaPersist
    <2>4. /\ waLedger' \in [WaReleases -> 0 .. WaMaxVersions]
          /\ \A r \in WaReleases : waLedger'[r] # 0 => WaOwn(waVersions, waLedger'[r], r)
      BY <1>6, <2>2, WaKnown DEF WaPersist
    <2> QED
      BY <1>6, <2>3, <2>4, WaKnown, WaQuietMove DEF WaPersist
  <1>7. ASSUME NEW j \in WaJobs, WaReadNew(j) PROVE WaInv'
    <2> DEFINE x == waJob[j]
    <2>1. x \in WaJob /\ WaJobSound(waVersions, x) /\ x.at = "readNew" /\ waJob \in [WaJobs -> WaJob]
      BY <1>7, WaKnown DEF WaReadNew
    <2>2. CASE WaEnds(j, "failed")
      BY <1>7, <2>2, WaKnown, WaEndMove DEF WaReadNew
    <2>3. CASE WaGoes(j, "persist")
      <3>1. "persist" \in WaAt
        BY DEF WaAt
      <3>2. /\ WaMoves(j) /\ WaKept(waJob'[j], x) /\ waJob'[j].at = "persist"
            /\ waJob'[j].version = x.version /\ waJob'[j].result = x.result
        BY <2>1, <2>3, <3>1, WaGoesIs
      <3>3. WaJobSound(waVersions, waJob'[j]) /\ ~ WaHasAll(waJob'[j])
        BY <2>1, <3>2 DEF WaJobSound, WaHasAll, WaKept
      <3> QED
        BY <1>7, <3>2, <3>3, WaKnown, WaQuietMove DEF WaReadNew
    <2> QED
      BY <1>7, <2>2, <2>3 DEF WaReadNew
  <1>8. ASSUME NEW j \in WaJobs, WaReadBase(j) PROVE WaInv'
    <2> DEFINE x == waJob[j]
               y == waJob'[j]
    <2>1. x \in WaJob /\ WaJobSound(waVersions, x) /\ x.at = "base" /\ waJob \in [WaJobs -> WaJob]
      BY <1>8, WaKnown DEF WaReadBase
    <2>2. CASE WaEnds(j, "indeterminate")
      BY <1>8, <2>2, WaKnown, WaEndMove DEF WaReadBase
    <2>3. CASE waJob' = [waJob EXCEPT ![j].at = "deploy", ![j].base = waActive]
      <3>1. "deploy" \in WaAt /\ waActive \in Seq(WaShare) /\ WaSharesOwn(waVersions, waActive)
        BY WaKnown DEF WaAt
      <3>2. /\ WaMoves(j) /\ y.at = "deploy" /\ y.base = waActive /\ y.steps = x.steps
            /\ y.cache = x.cache /\ y.step = x.step /\ y.result = x.result
            /\ y.version = x.version /\ y.release = x.release
        BY <2>1, <2>3, <3>1 DEF WaMoves, WaJob
      <3>3. WaJobSound(waVersions, y) /\ ~ WaHasAll(y)
        BY <2>1, <3>1, <3>2 DEF WaJobSound, WaHasAll
      <3> QED
        BY <1>8, <3>2, <3>3, WaKnown, WaQuietMove DEF WaReadBase
    <2> QED
      BY <1>8, <2>2, <2>3 DEF WaReadBase
  <1>9. ASSUME NEW j \in WaJobs, NEW ok \in BOOLEAN, WaObserve(j, ok) PROVE WaInv'
    <2> DEFINE x == waJob[j]
               y == waJob'[j]
               n == x.step + 1
    <2>1. x \in WaJob /\ WaJobSound(waVersions, x) /\ x.at = "observe" /\ waJob \in [WaJobs -> WaJob]
      BY <1>9, WaKnown DEF WaObserve
    <2>2. x.step \in 1 .. Len(x.steps) /\ x.steps \in WaPolicies
      BY <2>1, WaFields DEF WaJobSound
    <2>3. CASE WaEnds(j, "indeterminate")
      BY <1>9, <2>3, WaKnown, WaEndMove DEF WaObserve
    <2>4. CASE WaPercentage(j) < 100 /\ waJob' = [waJob EXCEPT ![j].at = "deploy", ![j].step = @ + 1]
      <3>1. n \in 1 .. Len(x.steps) /\ n \in Nat
        <4>1. x.steps[x.step] < 100
          BY <2>4 DEF WaPercentage
        <4>2. Len(x.steps) \in Nat /\ x.steps[Len(x.steps)] = 100
          BY <2>2, WaConstants
        <4>3. x.step # Len(x.steps)
          BY <4>1, <4>2
        <4> QED
          BY <2>2, <4>2, <4>3
      <3>2. "deploy" \in WaAt /\ waJob' = [waJob EXCEPT ![j].at = "deploy", ![j].step = n]
        BY <2>4 DEF WaAt
      <3> HIDE DEF n
      <3>3. /\ WaMoves(j) /\ y.at = "deploy" /\ y.base = x.base /\ y.steps = x.steps
            /\ y.cache = x.cache /\ y.step = n /\ y.result = x.result
            /\ y.version = x.version /\ y.release = x.release
        BY <2>1, <3>1, <3>2 DEF WaMoves, WaJob
      <3>4. WaJobSound(waVersions, y) /\ ~ WaHasAll(y)
        BY <2>1, <3>1, <3>3 DEF WaJobSound, WaHasAll
      <3> QED
        BY <1>9, <3>3, <3>4, WaKnown, WaQuietMove DEF WaObserve
    <2>5. CASE WaPercentage(j) = 100 /\ WaGoes(j, "save")
      <3>1. "save" \in WaAt
        BY DEF WaAt
      <3>2. /\ WaMoves(j) /\ WaKept(y, x) /\ y.at = "save"
            /\ y.version = x.version /\ y.result = x.result
        BY <2>1, <2>5, <3>1, WaGoesIs
      <3>3. WaJobSound(waVersions, y) /\ WaHasAll(x)
        BY <2>1, <2>5, <3>2 DEF WaJobSound, WaHasAll, WaKept, WaPercentage
      <3> QED
        BY <1>9, <3>2, <3>3, WaKnown, WaQuietMove DEF WaObserve
    <2> QED
      BY <1>9, <2>3, <2>4, <2>5 DEF WaObserve
  <1>10. ASSUME NEW j \in WaJobs, WaSave(j) PROVE WaInv'
    <2> DEFINE x == waJob[j]
               y == waJob'[j]
    <2>1. x \in WaJob /\ WaJobSound(waVersions, x) /\ x.at = "save" /\ waJob \in [WaJobs -> WaJob]
      BY <1>10, WaKnown DEF WaSave
    <2>2. /\ x.release \in WaReleases /\ x.version \in 0 .. WaMaxVersions
          /\ WaOwn(waVersions, x.version, x.release)
      BY <2>1, WaFields DEF WaJobSound
    <2>3. "between" \in WaAt
      BY DEF WaAt
    <2>4. /\ WaMoves(j) /\ WaKept(y, x) /\ y.at = "between"
          /\ y.version = x.version /\ y.result = "succeeded"
      BY <1>10, <2>1, <2>3 DEF WaSave, WaMoves, WaKept, WaJob
    <2>5. WaJobSound(waVersions, y) /\ WaHasAll(x)
      BY <2>1, <2>4 DEF WaJobSound, WaHasAll, WaKept
    <2>6. /\ waLedger' \in [WaReleases -> 0 .. WaMaxVersions]
          /\ \A r \in WaReleases : waLedger'[r] # 0 => WaOwn(waVersions, waLedger'[r], r)
      BY <1>10, <2>2, WaKnown DEF WaSave
    <2> QED
      BY <1>10, <2>4, <2>5, <2>6, WaKnown, WaQuietMove DEF WaSave
  <1>11. ASSUME NEW j \in WaJobs,
                WaDies(j) \/ \E result \in {"failed", "indeterminate"} : WaRefused(j, result)
         PROVE  WaInv'
    <2>1. /\ UNCHANGED <<waVersions, waActive, waLedger, waLast, waTwice>> /\ WaFault
          /\ \E result \in {"none", "failed", "indeterminate"} : WaEnds(j, result)
      BY <1>11 DEF WaDies, WaRefused
    <2> QED
      BY <2>1, WaFaultIs, WaEndMove
  <1>12. ASSUME NEW j \in WaJobs, WaUpload(j) PROVE WaInv'
    <2> DEFINE x == waJob[j]
               r == x.release
    <2>1. x \in WaJob /\ WaJobSound(waVersions, x) /\ x.at = "upload" /\ waJob \in [WaJobs -> WaJob]
      BY <1>12, WaKnown DEF WaUpload
    <2>2. r \in WaReleases /\ x.result # "succeeded"
      BY <2>1, WaFields DEF WaJobSound
    <2>3. WaAppend(r, r) /\ UNCHANGED <<waActive, waLedger, waLast, waTwice>>
      BY <1>12 DEF WaUpload
    <2>4. /\ WaLater(waVersions, waVersions') /\ Len(waVersions') = Len(waVersions) + 1
          /\ WaOwn(waVersions', Len(waVersions) + 1, r) /\ Len(waVersions) + 1 \in 0 .. WaMaxVersions
          /\ ~ waVersions'[Len(waVersions) + 1].gone
          /\ \A v \in 1 .. Len(waVersions) : waVersions'[v] = waVersions[v]
      BY <2>2, <2>3, WaAppendIs
    <2>5. waFaults' \in WaCounts
      BY <1>12, WaKnown, WaFaultIs DEF WaUpload
    <2>6. /\ WaMoves(j) /\ WaKept(waJob'[j], x) /\ waJob'[j].result # "succeeded"
          /\ \/ waJob'[j].at = "readNew" /\ waJob'[j].version = Len(waVersions) + 1
             \/ waJob'[j].at = "done"
      <3>1. CASE WaHas(j, "readNew", Len(waVersions) + 1)
        <4>1. "readNew" \in WaAt
          BY DEF WaAt
        <4> QED
          BY <2>1, <2>2, <2>4, <3>1, <4>1, WaHasIs
      <3>2. CASE WaEnds(j, "indeterminate")
        BY <2>1, <3>2, WaEndsIs
      <3> QED
        BY <1>12, <3>1, <3>2 DEF WaUpload
    <2>7. WaJobSound(waVersions', waJob'[j]) /\ ~ WaHasAll(waJob'[j]) /\ waJob'[j].at # "upload"
      <3>1. WaJobSound(waVersions', x)
        BY <2>1, <2>4, WaKnown, WaSoundKept
      <3> QED
        BY <2>4, <2>6, <3>1 DEF WaJobSound, WaHasAll, WaKept
    <2>8. ASSUME NEW s \in WaReleases \ waTwice PROVE WaOnce(waVersions', waJob', s)
      <3>1. WaOnce(waVersions, waJob, s)
        BY <2>8, WaKnown
      <3>2. s = r => \A v \in 1 .. Len(waVersions) : ~ WaOwn(waVersions, v, s)
        BY <2>1, <3>1 DEF WaOnce
      <3>3. \A v \in 1 .. Len(waVersions') : waVersions'[v].tag = s => ~ waVersions'[v].gone
        BY <2>4, <3>1, WaKnown DEF WaOnce
      <3>4. \A v \in 1 .. Len(waVersions') :
              WaOwn(waVersions', v, s) => WaOwn(waVersions, v, s) \/ (v = Len(waVersions) + 1 /\ s = r)
        BY <2>4, WaKnown DEF WaOwn
      <3>5. \A v, w \in 1 .. Len(waVersions') : WaOwn(waVersions', v, s) /\ WaOwn(waVersions', w, s) => v = w
        BY <3>1, <3>2, <3>4 DEF WaOnce, WaOwn
      <3>6. \A k \in WaJobs : waJob'[k].at = "upload" => waJob'[k] = waJob[k] /\ k # j
        BY <2>6, <2>7 DEF WaMoves
      <3>7. ASSUME NEW k \in WaJobs, waJob'[k].at = "upload", waJob'[k].release = s
            PROVE  /\ \A v \in 1 .. Len(waVersions') : ~ WaOwn(waVersions', v, s)
                   /\ \A l \in WaJobs : waJob'[l].at = "upload" /\ waJob'[l].release = s => l = k
        <4>1. /\ waJob[k].at = "upload" /\ waJob[k].release = s /\ k # j
              /\ \A v \in 1 .. Len(waVersions) : ~ WaOwn(waVersions, v, s)
          BY <3>1, <3>6, <3>7 DEF WaOnce
        <4>2. s # r
          BY <2>1, <3>1, <4>1 DEF WaOnce
        <4> QED
          BY <3>1, <3>4, <3>6, <3>7, <4>1, <4>2 DEF WaOnce, WaOwn
      <3> QED
        BY <3>3, <3>5, <3>7 DEF WaOnce
    <2> QED
      BY <2>3, <2>4, <2>5, <2>6, <2>7, <2>8, WaKnown, WaGrown DEF WaMoves
  <1>13. ASSUME NEW r \in WaReleases, WaForeignUpload(r) PROVE WaInv'
    <2>1. WaAppend(r, WaForeign) /\ UNCHANGED <<waActive, waLedger, waJob, waLast, waTwice>>
      BY <1>13 DEF WaForeignUpload
    <2>2. /\ WaLater(waVersions, waVersions') /\ Len(waVersions') = Len(waVersions) + 1
          /\ waVersions'[Len(waVersions) + 1].content = WaForeign
          /\ ~ waVersions'[Len(waVersions) + 1].gone
          /\ \A v \in 1 .. Len(waVersions) : waVersions'[v] = waVersions[v]
      BY <2>1, WaAppendIs
    <2>3. waFaults' \in WaCounts
      BY <1>13, WaFaultIs DEF WaForeignUpload
    <2>4. ASSUME NEW s \in WaReleases \ waTwice PROVE WaOnce(waVersions', waJob, s)
      <3>1. WaOnce(waVersions, waJob, s)
        BY <2>4, WaKnown
      <3>2. \A v \in 1 .. Len(waVersions') : waVersions'[v].tag = s => ~ waVersions'[v].gone
        BY <2>2, <3>1, WaKnown DEF WaOnce
      <3>3. \A v \in 1 .. Len(waVersions') :
              WaOwn(waVersions', v, s) => WaOwn(waVersions, v, s) /\ v \in 1 .. Len(waVersions)
        BY <2>2, WaKnown, WaConstants DEF WaOwn
      <3> QED
        BY <3>1, <3>2, <3>3 DEF WaOnce
    <2> QED
      BY <2>1, <2>2, <2>3, <2>4, WaKnown, WaGrown, WaSoundKept
  <1>14. ASSUME NEW v \in 1 .. Len(waVersions), WaDelete(v) PROVE WaInv'
    <2> DEFINE x == [waVersions[v] EXCEPT !.gone = TRUE]
    <2>1. /\ waVersions' = [waVersions EXCEPT ![v] = x]
          /\ waTwice' = waTwice \cup {waVersions[v].tag}
          /\ UNCHANGED <<waActive, waLedger, waJob, waLast>>
      BY <1>14 DEF WaDelete
    <2>2. x \in WaVersion /\ x.tag = waVersions[v].tag /\ x.content = waVersions[v].content
      <3> DEFINE y == waVersions[v]
      <3>1. y \in WaVersion /\ TRUE \in BOOLEAN
        BY WaKnown
      <3> HIDE DEF y
      <3>2. [y EXCEPT !.gone = TRUE] \in WaVersion
        BY <3>1 DEF WaVersion
      <3>3. [y EXCEPT !.gone = TRUE].tag = y.tag /\ [y EXCEPT !.gone = TRUE].content = y.content
        BY <3>1 DEF WaVersion
      <3> QED
        BY <3>2, <3>3 DEF y
    <2> HIDE DEF x
    <2>3. /\ WaLater(waVersions, waVersions') /\ Len(waVersions') = Len(waVersions)
          /\ \A w \in 1 .. Len(waVersions) : w # v => waVersions'[w] = waVersions[w]
      BY <2>1, <2>2, WaKnown DEF WaLater
    <2>4. waFaults' \in WaCounts
      BY <1>14, WaFaultIs DEF WaDelete
    <2>5. ASSUME NEW s \in WaReleases \ waTwice' PROVE WaOnce(waVersions', waJob, s)
      <3>1. WaOnce(waVersions, waJob, s) /\ s # waVersions[v].tag
        BY <2>1, <2>5, WaKnown
      <3>2. \A w \in 1 .. Len(waVersions') : waVersions'[w].tag = s => ~ waVersions'[w].gone
        BY <2>1, <2>2, <2>3, <3>1, WaKnown DEF WaOnce
      <3>3. \A w \in 1 .. Len(waVersions') :
              WaOwn(waVersions', w, s) => WaOwn(waVersions, w, s) /\ w \in 1 .. Len(waVersions)
        BY <2>3 DEF WaOwn, WaLater
      <3> QED
        BY <3>1, <3>2, <3>3 DEF WaOnce
    <2> QED
      BY <2>1, <2>3, <2>4, <2>5, WaKnown, WaGrown, WaSoundKept
  <1>15. ASSUME NEW j \in WaJobs, WaDeploy(j) PROVE WaInv'
    <2> DEFINE x == waJob[j]
               y == waJob'[j]
    <2>1. x \in WaJob /\ WaJobSound(waVersions, x) /\ x.at = "deploy" /\ waJob \in [WaJobs -> WaJob]
      BY <1>15, WaKnown DEF WaDeploy
    <2>2. CASE \E result \in {"failed", "indeterminate"} :
                 WaEnds(j, result) /\ UNCHANGED <<waActive, waFaults, waLast>>
      BY <1>15, <2>2, WaKnown, WaEndMove DEF WaDeploy
    <2>3. CASE /\ ~ (WaPercentage(j) < 100 /\ WaOthers(j) = {})
               /\ waActive' = WaSplit(j) /\ waLast' = {j}
               /\ \/ WaGoes(j, "observe") /\ UNCHANGED waFaults
                  \/ WaEnds(j, "indeterminate") /\ WaFault
      <3>1. /\ waActive' \in Seq(WaShare) /\ WaSharesOwn(waVersions, waActive')
            /\ WaPercentage(j) = 100 => WaServes(waActive', x)
        BY <2>1, <2>3, WaSplitIs
      <3>2. waFaults' \in WaCounts
        BY <2>3, WaKnown, WaFaultIs
      <3>3. UNCHANGED <<waVersions, waLedger, waTwice>>
        BY <1>15 DEF WaDeploy
      <3>4. /\ WaMoves(j) /\ WaKept(y, x) /\ y.version = x.version
            /\ \/ y.at = "observe" /\ y.result = x.result
               \/ y.at = "done" /\ y.result = "indeterminate"
        <4>1. "observe" \in WaAt
          BY DEF WaAt
        <4>2. CASE WaGoes(j, "observe")
          BY <2>1, <4>1, <4>2, WaGoesIs
        <4>3. CASE WaEnds(j, "indeterminate")
          BY <2>1, <4>3, WaEndsIs
        <4> QED
          BY <2>3, <4>2, <4>3
      <3>5. WaJobSound(waVersions, y)
        BY <2>1, <3>4 DEF WaJobSound, WaKept
      <3>6. WaHasAll(y) => WaServes(waActive', y)
        BY <2>1, <3>1, <3>4 DEF WaHasAll, WaJobSound, WaKept, WaServes, WaPercentage
      <3>7. WaTypeOK'
        BY <3>1, <3>2, <3>3, <3>4, WaKnown DEF WaTypeOK, WaMoves, WaCounts
      <3>8. \A k \in WaJobs : WaJobSound(waVersions, waJob'[k])
        BY <3>4, <3>5, WaKnown DEF WaMoves
      <3>9. \A k \in WaJobs : waLast' = {k} /\ WaHasAll(waJob'[k]) => WaServes(waActive', waJob'[k])
        BY <2>3, <3>6
      <3>10. ASSUME NEW r \in WaReleases \ waTwice PROVE WaOnce(waVersions, waJob', r)
        <4>1. WaOnce(waVersions, waJob, r)
          BY <3>10, WaKnown
        <4>2. \A k \in WaJobs : waJob'[k].at = "upload" => waJob'[k] = waJob[k]
          BY <3>4 DEF WaMoves
        <4> QED
          BY <4>1, <4>2 DEF WaOnce
      <3> QED
        BY <3>1, <3>2, <3>3, <3>7, <3>8, <3>9, <3>10, WaKnown DEF WaInv
    <2> QED
      BY <1>15, <2>2, <2>3 DEF WaDeploy
  <1>16. CASE UNCHANGED waVars
    <2>1. UNCHANGED <<waVersions, waActive, waLedger, waJob, waFaults, waLast, waTwice>>
      BY <1>16 DEF waVars
    <2> QED
      BY <2>1, WaKnown, WaGrown DEF WaLater
  <1> HIDE DEF WaProvider, WaHistory
  <1> QED
    BY <1>1, <1>2, <1>3, <1>4, <1>5, <1>6, <1>7, <1>8, <1>9, <1>10, <1>11, <1>12, <1>13,
       <1>14, <1>15, <1>16 DEF WaNext

LEMMA WaInvStart ==
  ASSUME WaInit
  PROVE  WaInv
  <1> DEFINE r == CHOOSE x \in WaReleases : TRUE
             steps == CHOOSE x \in WaPolicies : TRUE
             cache == [x \in WaReleases |-> 0]
             empty == << >>
             job == [at |-> "idle", op |-> "preview", release |-> r, candidate |-> r,
                     cache |-> cache, version |-> 0, base |-> empty,
                     steps |-> steps, step |-> 1, result |-> "none"]
  <1>1. r \in WaReleases /\ steps \in WaPolicies
    BY WaAssumption
  <1>2. /\ cache \in [WaReleases -> 0 .. WaMaxVersions] /\ 0 \in 0 .. WaMaxVersions
        /\ \A x \in WaReleases : cache[x] = 0
    BY WaConstants
  <1>3. empty \in Seq(WaShare) /\ Len(empty) = 0
    OBVIOUS
  <1>4. "idle" \in WaAt /\ 1 \in 1 .. Len(steps)
    BY <1>1, WaConstants DEF WaAt
  <1>5. /\ waVersions = empty /\ waActive = empty /\ waLedger = cache
        /\ waJob = [j \in WaJobs |-> job] /\ waLast = {}
        /\ waFaults = [faults |-> 0, meddling |-> 0]
    BY DEF WaInit
  <1> HIDE DEF r, steps, cache, empty
  <1>6. job \in WaJob
    BY <1>1, <1>2, <1>3, <1>4 DEF WaJob
  <1>7. WaJobSound(waVersions, job)
    BY <1>2, <1>3, <1>4 DEF WaJobSound, WaSharesOwn
  <1>8. job.at = "idle"
    OBVIOUS
  <1> HIDE DEF job
  <1>9. waFaults \in WaCounts
    BY <1>5, WaConstants DEF WaCounts
  <1>10. waVersions \in Seq(WaVersion) /\ Len(waVersions) = 0
    BY <1>5 DEF empty
  <1>11. WaTypeOK
    BY <1>2, <1>3, <1>5, <1>6, <1>9, <1>10, WaConstants DEF WaTypeOK, WaCounts
  <1>12. \A s \in WaReleases : WaOnce(waVersions, waJob, s)
    BY <1>5, <1>8, <1>10 DEF WaOnce
  <1>13. WaSharesOwn(waVersions, waActive)
    BY <1>3, <1>5 DEF WaSharesOwn
  <1>14. \A j \in WaJobs : WaJobSound(waVersions, waJob[j]) /\ waLast # {j}
    BY <1>5, <1>7
  <1> QED
    BY <1>2, <1>5, <1>9, <1>11, <1>12, <1>13, <1>14 DEF WaInv

LEMMA WaInvHolds == WaSpec => []WaInv
  BY WaInvStart, WaInvStep, PTL DEF WaSpec

\* The records of the adapter keep their types.
THEOREM WaTypeCorrect == WaSpec => []WaTypeOK
  <1>1. WaInv => WaTypeOK
    BY DEF WaInv
  <1> QED
    BY <1>1, WaInvHolds, PTL

\* Whoever else uploads under the tags, and whatever is refused, lost, deleted
\* or dies, traffic goes only to versions that hold the Release they are tagged
\* with, a Release is uploaded again only in the cases named, and an apply or
\* rollback that succeeded has all of the traffic.
THEOREM WaDeploysVerifiedCorrect == WaSpec => []WaDeploysVerified
  <1>1. ASSUME WaInv PROVE WaTrafficIsVerified
    <2>1. ASSUME NEW i \in 1 .. Len(waActive)
          PROVE  waVersions[waActive[i].version].content = waVersions[waActive[i].version].tag
      BY <1>1, WaKnown DEF WaSharesOwn, WaOwn
    <2>2. \A r \in WaReleases : waLedger[r] # 0 => waVersions[waLedger[r]].content = r
      BY <1>1, WaKnown DEF WaOwn
    <2>3. \A j \in WaJobs, r \in WaReleases :
            waJob[j].cache[r] # 0 => waVersions[waJob[j].cache[r]].content = r
      BY <1>1, WaKnown DEF WaJobSound, WaOwn
    <2> QED
      BY <2>1, <2>2, <2>3 DEF WaTrafficIsVerified
  <1>2. ASSUME WaInv, NEW r \in WaReleases \ waTwice
        PROVE  Cardinality({v \in 1 .. Len(waVersions) :
                              waVersions[v].tag = r /\ waVersions[v].content = r}) <= 1
    <2> DEFINE own == {v \in 1 .. Len(waVersions) :
                         waVersions[v].tag = r /\ waVersions[v].content = r}
    <2>1. \A v, w \in own : v = w
      BY <1>2, WaKnown DEF WaOnce, WaOwn
    <2> HIDE DEF own
    <2>2. own = {} \/ \E v : own = {v}
      BY <2>1
    <2>3. Cardinality(own) <= 1
      <3>1. CASE own = {}
        BY <3>1, FS_EmptySet
      <3>2. CASE \E v : own = {v}
        BY <3>2, FS_Singleton
      <3> QED
        BY <2>2, <3>1, <3>2
    <2> QED
      BY <2>3 DEF own
  <1>3. ASSUME WaInv, NEW j \in WaJobs, waJob[j].result = "succeeded", waLast = {j}
        PROVE  waActive = <<[version |-> waJob[j].version, percentage |-> 100]>>
    <2>1. WaServes(waActive, waJob[j]) /\ waActive \in Seq(WaShare)
      BY <1>3, WaKnown DEF WaHasAll
    <2>2. waActive[1] = [version |-> waJob[j].version, percentage |-> 100]
      <3> DEFINE x == waActive[1]
      <3>1. x \in WaShare /\ x.version = waJob[j].version /\ x.percentage = 100
        <4>1. Len(waActive) = 1 /\ x.version = waJob[j].version /\ x.percentage = 100
          BY <2>1 DEF WaServes
        <4>2. x \in WaShare
          BY <2>1, <4>1
        <4> QED
          BY <4>1, <4>2
      <3> HIDE DEF x
      <3> QED
        BY <3>1 DEF WaShare, x
    <2> QED
      BY <2>1, <2>2 DEF WaServes
  <1>4. WaInv => WaDeploysVerified
    BY <1>1, <1>2, <1>3 DEF WaDeploysVerified, WaUploadedOnce, WaSucceededServes
  <1> QED
    BY <1>4, WaInvHolds, PTL

-----------------------------------------------------------------------------
(* The services side by side *)

\* A step of the composition is a step of every service, or leaves it alone.
LEMMA ServiceSteps ==
  ASSUME [MCNext]_<<service, runnerVars, execVars, wpVars, rpVars, waVars>>
  PROVE  /\ [RunnerNext]_runnerVars /\ [ExecNext]_execVars /\ [WpNext]_wpVars
         /\ [RpNext]_rpVars /\ [WaNext]_waVars
  BY DEF MCNext, OthersKeep

\* Whatever each service goes through (expiry and loss of Runners, cached
\* results, lost answers of providers, rollbacks, deaths of executions), their
\* records keep their types and agree with each other and with the provider,
\* while nobody edits the directory of a Release that runs.
THEOREM DeliveryServicesAreConsistent ==
  ASSUME ~ EditsDuringRun
  PROVE  MCSpec => []DeliveryServicesConsistent
  <1>1. MCSpec => RunnerSpec /\ ExecSpec /\ WpSpec /\ RpSpec /\ WaSpec
    <2>1. MCInit => RunnerInit /\ ExecInit /\ WpInit /\ RpInit /\ WaInit
      BY DEF MCInit
    <2> QED
      BY <2>1, ServiceSteps, PTL DEF MCSpec, RunnerSpec, ExecSpec, WpSpec, RpSpec, WaSpec
  <1>2. /\ RunnerTypeOK /\ ExecTypeOK /\ WpTypeOK /\ RpTypeOK /\ WaTypeOK
        /\ RunnerLeaseIsCurrent /\ RunnerJobAgrees /\ WpHealthyIsServed /\ WaDeploysVerified
        => DeliveryServicesConsistent
    BY DEF DeliveryServicesConsistent
  <1> QED
    BY <1>1, <1>2, RunnerTypeCorrect, ExecTypeCorrect, WpTypeCorrect, RpTypeCorrect, WaTypeCorrect,
       RunnerLeaseIsCurrentCorrect, RunnerJobAgreesCorrect, WpHealthyIsServedCorrect,
       WaDeploysVerifiedCorrect, PTL
=============================================================================
