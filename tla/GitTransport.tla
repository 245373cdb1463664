---------------------------- MODULE GitTransport ----------------------------
(* The Smart HTTP transport of one operation class: a request is admitted by *)
(* a lease of the durable budget coordinator, its timer starts when the      *)
(* lease has come back, and the slot is held until the response body has     *)
(* ended.  Isolates die, leases and releases are lost.  Bytes, headers, the  *)
(* credential's contents and the upstream provider are left out.             *)
EXTENDS Integers, FiniteSets

CONSTANTS
  GtTransfers,  \* requests
  GtLimit,      \* maxConcurrentRequests
  GtDuration,   \* maxDurationMs, which is also the lease's lifetime
  GtDelay,      \* bound: time between the coordinator's answer and the start of the timer
  GtMaxTime     \* bound: the clock

ASSUME GtAssumption ==
  /\ IsFiniteSet(GtTransfers) /\ GtLimit \in Nat \ {0} /\ GtDuration \in Nat \ {0}
  /\ GtDelay \in Nat /\ GtMaxTime \in Nat

VARIABLES
  gtTime,
  gtLease,     \* transfer -> when its lease expires; 0 when the coordinator has none
  gtTransfer,  \* transfer -> where it is, when it was admitted, when it is cut off
  gtReleases   \* releases that have been sent

gtVars == <<gtTime, gtLease, gtTransfer, gtReleases>>

GtTransfer == [pc : {"idle", "asking", "granted", "open", "streaming", "closed"},
               admitted : 0 .. GtMaxTime, deadline : 0 .. GtMaxTime + GtDuration]

GtTypeOK ==
  /\ gtTime \in 0 .. GtMaxTime /\ gtReleases \subseteq GtTransfers
  /\ gtLease \in [GtTransfers -> 0 .. GtMaxTime + GtDuration]
  /\ gtTransfer \in [GtTransfers -> GtTransfer]

GtInit ==
  /\ gtTime = 0 /\ gtReleases = {}
  /\ gtLease = [t \in GtTransfers |-> 0]
  /\ gtTransfer = [t \in GtTransfers |-> [pc |-> "idle", admitted |-> 0, deadline |-> 0]]

-----------------------------------------------------------------------------
(* Admission *)

\* The route, the credential and the budget's policy are accepted.
GtAsk(t) ==
  /\ gtTransfer[t].pc = "idle"
  /\ gtTransfer' = [gtTransfer EXCEPT ![t].pc = "asking"]
  /\ UNCHANGED <<gtTime, gtLease, gtReleases>>

\* One of them is not: 401, 403, 405 or a policy without a receipt.
GtRefuse(t) ==
  /\ gtTransfer[t].pc = "idle"
  /\ gtTransfer' = [gtTransfer EXCEPT ![t].pc = "closed"]
  /\ UNCHANGED <<gtTime, gtLease, gtReleases>>

\* The public route refuses writes and unknown paths before the transport sees them.
GtRefusePublic(t) == GtRefuse(t)

\* Expired leases are deleted before anything else.
GtPurged == [t \in GtTransfers |-> IF gtLease[t] <= gtTime THEN 0 ELSE gtLease[t]]

GtActive(leases) == Cardinality({t \in GtTransfers : leases[t] # 0})

\* /acquire, and its answer; a lost answer closes the request and leaves the lease.
GtAcquire(t, answered) ==
  /\ gtTransfer[t].pc = "asking"
  /\ IF GtActive(GtPurged) < GtLimit
       THEN /\ gtLease' = [GtPurged EXCEPT ![t] = gtTime + GtDuration]
            /\ gtTransfer' = [gtTransfer EXCEPT ![t].pc = IF answered THEN "granted" ELSE "closed",
                                                ![t].admitted = gtTime]
       ELSE /\ gtLease' = GtPurged
            /\ gtTransfer' = [gtTransfer EXCEPT ![t].pc = "closed"]
  /\ UNCHANGED <<gtTime, gtReleases>>

\* /release
GtRelease(t) ==
  /\ t \in gtReleases /\ gtReleases' = gtReleases \ {t}
  /\ gtLease' = [GtPurged EXCEPT ![t] = 0]
  /\ UNCHANGED <<gtTime, gtTransfer>>

\* A release is fire and forget.
GtLoseRelease(t) ==
  /\ t \in gtReleases /\ gtReleases' = gtReleases \ {t}
  /\ UNCHANGED <<gtTime, gtLease, gtTransfer>>

-----------------------------------------------------------------------------
(* The transfer *)

\* finishLifecycle, once
GtFinish(t) ==
  /\ gtTransfer' = [gtTransfer EXCEPT ![t].pc = "closed"]
  /\ gtReleases' = gtReleases \cup {t}
  /\ UNCHANGED <<gtTime, gtLease>>

\* The declared length is over the budget or there is no upstream.
GtReject(t) == gtTransfer[t].pc = "granted" /\ GtFinish(t)

GtOpen(t) ==
  /\ gtTransfer[t].pc = "granted"
  /\ gtTransfer' = [gtTransfer EXCEPT ![t].pc = "open", ![t].deadline = gtTime + GtDuration]
  /\ UNCHANGED <<gtTime, gtLease, gtReleases>>

\* No response, too late a response, too large a response or an error.
GtFail(t) == gtTransfer[t].pc = "open" /\ GtFinish(t)

GtHeadersEndTimer(t) ==   \* mutant: the timer covers the headers only
  /\ gtTransfer[t].pc = "open"
  /\ gtTransfer' = [gtTransfer EXCEPT ![t].pc = "streaming", ![t].deadline = GtMaxTime + GtDuration]
  /\ UNCHANGED <<gtTime, gtLease, gtReleases>>

\* The response body owns the timer and the slot from here on.
GtHeaders(t) ==
  /\ gtTransfer[t].pc = "open"
  /\ gtTransfer' = [gtTransfer EXCEPT ![t].pc = "streaming"]
  /\ UNCHANGED <<gtTime, gtLease, gtReleases>>

\* The body ends, is cancelled, fails or is over its budget.
GtBodyEnds(t) == gtTransfer[t].pc = "streaming" /\ GtFinish(t)

GtAborts(t) ==
  /\ gtTransfer[t].pc \in {"open", "streaming"} /\ gtTime >= gtTransfer[t].deadline
  /\ GtFinish(t)

\* The isolate dies with the transfer.
GtDie(t) ==
  /\ gtTransfer[t].pc \in {"granted", "open", "streaming"}
  /\ gtTransfer' = [gtTransfer EXCEPT ![t].pc = "closed"]
  /\ UNCHANGED <<gtTime, gtLease, gtReleases>>

\* Timers fire on time, and an answer takes at most GtDelay.
GtTick ==
  /\ gtTime < GtMaxTime
  /\ \A t \in GtTransfers :
       /\ gtTransfer[t].pc \in {"open", "streaming"} => gtTime < gtTransfer[t].deadline
       /\ gtTransfer[t].pc = "granted" => gtTime < gtTransfer[t].admitted + GtDelay
  /\ gtTime' = gtTime + 1 /\ UNCHANGED <<gtLease, gtTransfer, gtReleases>>

GtNext ==
  \/ \E t \in GtTransfers :
       \/ GtAsk(t) \/ GtRefuse(t) \/ GtRefusePublic(t) \/ \E answered \in BOOLEAN : GtAcquire(t, answered)
       \/ GtRelease(t) \/ GtLoseRelease(t)
       \/ GtReject(t) \/ GtOpen(t) \/ GtFail(t) \/ GtHeaders(t) \/ GtBodyEnds(t)
       \/ GtAborts(t) \/ GtDie(t)
  \/ GtTick

GtSpec == GtInit /\ [][GtNext]_gtVars

-----------------------------------------------------------------------------
(* Properties *)

GtRunning == {t \in GtTransfers : gtTransfer[t].pc \in {"granted", "open", "streaming"}}

\* Across isolates at most GtLimit transfers run, except that one whose lease
\* has just expired may go on for the time its answer was under way: a transfer
\* keeps its slot for the whole of its lease, whatever is released or lost, and
\* is cut off at most GtDelay after it (smart-http.ts 494-515, 542, 576-582;
\* smart-http-budget-coordinator.ts 63-84).
GtSlotsAreHeld ==
  /\ Cardinality({t \in GtRunning : gtTime < gtTransfer[t].admitted + GtDuration}) <= GtLimit
  /\ \A t \in GtRunning :
       /\ gtTime < gtTransfer[t].admitted + GtDuration => gtLease[t] > gtTime
       /\ gtTime <= gtTransfer[t].admitted + GtDelay + GtDuration
=============================================================================
