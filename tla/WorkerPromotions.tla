--------------------------- MODULE WorkerPromotions ---------------------------
(* The coordinator of Promotions to one Worker Target                         *)
(* (WorkerPromotionCoordinator in delivery/promotion.ts).  A Promotion runs   *)
(* through preview, apply and health check and, when health fails, rollback   *)
(* and its health check; every one of these is an await on the provider, and  *)
(* other calls of the coordinator may come in between.  The record of a       *)
(* Promotion is shared by the execution and by those calls.                   *)
EXTENDS Integers, Sequences

CONSTANTS
  WpReleases,      \* Releases that were sealed and registered
  WpMaxPromotions, \* bound on Promotions; their ids are given in order
  WpMaxKeys,       \* bound on idempotency keys, numbered as they are first used
  WpReversible,    \* Releases whose migration plan allows automatic rollback
  WpNone

ASSUME WpAssumption ==
  /\ WpReversible \subseteq WpReleases
  /\ WpNone \notin WpReleases
  /\ WpMaxPromotions \in Nat /\ WpMaxKeys \in Nat

WpPromotions == 1 .. WpMaxPromotions
WpCapabilities == {"profile", "preview", "promote", "rollback", "healthCheck"}

VARIABLES
  wpTarget,      \* state, current Release, history, capabilities, and whether
                 \* its callers wait for one call to end before the next
  wpPromotion,   \* Promotion -> its record
  wpKey,         \* idempotency key -> Promotion
  wpRun,         \* Promotion -> the await its execution is at
  wpServed       \* the Release the provider serves

wpVars == <<wpTarget, wpPromotion, wpKey, wpRun, wpServed>>

WpOrNone == WpReleases \cup {WpNone}
WpStages == {"none", "preview", "apply", "health", "rollback", "rollbackHealth"}
WpStates == {"absent", "proposed", "applying", "validating", "healthy", "failed",
             "blocked", "degraded", "rolled-back"}
WpRetryable == {"failed", "blocked", "degraded", "rolled-back"}

WpTypeOK ==
  /\ wpTarget \in [state : {"absent", "configured", "healthy", "degraded"},
                   current : WpOrNone, history : Seq(WpReleases),
                   can : SUBSET WpCapabilities, serial : BOOLEAN]
  /\ wpPromotion \in [WpPromotions ->
       [state : WpStates, release : WpOrNone, previous : WpOrNone,
        kind : {"promotion", "rollback"}]]
  /\ wpKey \in Seq(WpPromotions)
  /\ wpRun \in [WpPromotions -> [at : WpStages, previous : WpOrNone]]
  /\ wpServed \in WpOrNone

WpNotRunning == [at |-> "none", previous |-> WpNone]

WpInit ==
  /\ wpTarget = [state |-> "absent", current |-> WpNone, history |-> << >>,
                 can |-> {}, serial |-> TRUE]
  /\ wpPromotion = [p \in WpPromotions |->
       [state |-> "absent", release |-> WpNone, previous |-> WpNone, kind |-> "promotion"]]
  /\ wpKey = << >>
  /\ wpRun = [p \in WpPromotions |-> WpNotRunning]
  /\ wpServed = WpNone

\* createWorkerTarget: a Target that has run nothing yet.
WpConfigure(can, serial) ==
  /\ wpTarget.state = "absent"
  /\ wpTarget' = [wpTarget EXCEPT !.state = "configured", !.can = can,
                                  !.serial = serial]
  /\ UNCHANGED <<wpPromotion, wpKey, wpRun, wpServed>>

WpMayCall == wpTarget.serial => \A q \in WpPromotions : wpRun[q].at = "none"

-----------------------------------------------------------------------------
(* promote, retryPromotion, rollbackToPrevious *)

\* The record becomes rec and its execution starts.  Without a profile or the
\* preview capability execute calls fail, whose transition from proposed to
\* blocked is refused: the call throws and the record stays proposed.
WpExecute(p, rec) ==
  IF {"profile", "preview"} \subseteq wpTarget.can
    THEN /\ wpPromotion' = [wpPromotion EXCEPT ![p] = [rec EXCEPT !.state = "validating"]]
         /\ wpRun' = [wpRun EXCEPT ![p] = [at |-> "preview", previous |-> WpNone]]
    ELSE /\ wpPromotion' = [wpPromotion EXCEPT ![p] = rec]
         /\ UNCHANGED wpRun

WpRequested(p, r, kind) ==
  /\ wpTarget.state # "absent"
  /\ Len(wpKey) < WpMaxKeys
  /\ wpPromotion[p].state = "absent"
  /\ \A q \in 1 .. p - 1 : wpPromotion[q].state # "absent"
  /\ WpMayCall
  /\ wpKey' = Append(wpKey, p)
  /\ WpExecute(p, [state |-> "proposed", release |-> r,
                   previous |-> wpTarget.current, kind |-> kind])
  /\ UNCHANGED <<wpTarget, wpServed>>

WpPromote(p, r) == WpRequested(p, r, "promotion")

\* promote with a key that is taken runs a record that is still proposed.
WpPromoteAgain(p, k) ==
  /\ k <= Len(wpKey) /\ wpKey[k] = p
  /\ wpPromotion[p].state = "proposed"
  /\ wpRun[p].at = "none"
  /\ WpMayCall
  /\ WpExecute(p, wpPromotion[p])
  /\ UNCHANGED <<wpTarget, wpKey, wpServed>>

\* The record is proposed again, against the Target as it is now.  An execution
\* that has not ended is returned in the place of a new one.
WpRetryPromotion(p) ==
  /\ Len(wpKey) < WpMaxKeys
  /\ wpPromotion[p].state \in WpRetryable
  /\ WpMayCall
  /\ wpKey' = Append(wpKey, p)
  /\ LET rec == [wpPromotion[p] EXCEPT !.state = "proposed",
                                       !.previous = wpTarget.current]
     IN IF wpRun[p].at = "none"
          THEN WpExecute(p, rec)
          ELSE wpPromotion' = [wpPromotion EXCEPT ![p] = rec] /\ UNCHANGED wpRun
  /\ UNCHANGED <<wpTarget, wpServed>>

\* The Release before the last occurrence of the current one.
WpPreviousReleases ==
  {wpTarget.history[i] : i \in {n \in 1 .. Len(wpTarget.history) - 1 :
     /\ wpTarget.history[n + 1] = wpTarget.current
     /\ \A m \in n + 2 .. Len(wpTarget.history) : wpTarget.history[m] # wpTarget.current}}

WpRollbackToPrevious(p) ==
  \E r \in WpPreviousReleases : WpRequested(p, r, "rollback")

-----------------------------------------------------------------------------
(* execute, from one await to the next *)

WpMoves(p, state, at, previous) ==
  /\ wpPromotion' = [wpPromotion EXCEPT ![p].state = state]
  /\ wpRun' = [wpRun EXCEPT ![p] = [at |-> at, previous |-> previous]]

WpEnds(p, state) == WpMoves(p, state, "none", WpNone)

\* Preview answers, or fails before anything changed.
WpPreview(p, answer) ==
  /\ wpRun[p].at = "preview"
  /\ IF answer # "ok" THEN WpEnds(p, answer)
     ELSE IF \/ "promote" \notin wpTarget.can
             \/ wpPromotion[p].kind = "rollback" /\ "rollback" \notin wpTarget.can
       THEN WpEnds(p, "blocked")
       ELSE WpMoves(p, "applying", "apply", WpNone)
  /\ UNCHANGED <<wpTarget, wpKey, wpServed>>

\* failFromAdapter, degrade: an indeterminate answer may or may not have moved
\* the provider; it degrades the Target when the operation was apply, and only
\* fails the Promotion when it was an operator's rollback.
WpApply(p, answer) ==
  LET r == wpPromotion[p].release IN
  /\ wpRun[p].at = "apply"
  /\ wpServed' \in CASE answer = "ok" -> {r}
                     [] answer \in {"mismatch", "indeterminate"} -> {r, wpServed}
                     [] OTHER -> {wpServed}
  /\ IF answer = "ok" /\ "healthCheck" \in wpTarget.can
       THEN WpMoves(p, "applying", "health", WpNone) /\ UNCHANGED wpTarget
       ELSE IF \/ answer \in {"ok", "mismatch"}
               \/ answer = "indeterminate" /\ wpPromotion[p].kind = "promotion"
         THEN WpEnds(p, "degraded") /\ wpTarget' = [wpTarget EXCEPT !.state = "degraded"]
         ELSE /\ WpEnds(p, IF answer = "indeterminate" THEN "failed" ELSE answer)
              /\ UNCHANGED wpTarget
  /\ UNCHANGED wpKey

WpHealthyKeepsHistory(p) ==   \* mutant: the history is not extended
  /\ wpRun[p].at = "health"
  /\ wpServed = wpPromotion[p].release
  /\ wpTarget' = [wpTarget EXCEPT !.state = "healthy", !.current = wpPromotion[p].release]
  /\ WpEnds(p, "healthy")
  /\ UNCHANGED <<wpKey, wpServed>>

\* completeHealthy
WpHealthy(p) ==
  LET r == wpPromotion[p].release IN
  /\ wpRun[p].at = "health"
  /\ wpServed = r
  /\ wpTarget' = [wpTarget EXCEPT
       !.state = "healthy", !.current = r,
       !.history = IF @ # << >> /\ @[Len(@)] = r THEN @ ELSE Append(@, r)]
  /\ WpEnds(p, "healthy")
  /\ UNCHANGED <<wpKey, wpServed>>

\* recoverAfterHealthFailure, up to the call of rollback.
WpUnhealthy(p) ==
  LET rec == wpPromotion[p] IN
  /\ wpRun[p].at = "health"
  /\ wpTarget' = [wpTarget EXCEPT !.state = "degraded"]
  /\ IF /\ rec.release \in WpReversible
        /\ rec.previous # WpNone
        /\ "rollback" \in wpTarget.can
       THEN WpMoves(p, "degraded", "rollback", rec.previous)
       ELSE WpEnds(p, "degraded")
  /\ UNCHANGED <<wpKey, wpServed>>

\* A failed rollback leaves the Target degraded, whatever the provider did.
WpRollback(p, ok) ==
  /\ wpRun[p].at = "rollback"
  /\ IF ok
       THEN /\ wpServed' = wpRun[p].previous
            /\ wpRun' = [wpRun EXCEPT ![p].at = "rollbackHealth"]
       ELSE /\ wpServed' \in {wpServed, wpRun[p].previous}
            /\ wpRun' = [wpRun EXCEPT ![p] = WpNotRunning]
  /\ UNCHANGED <<wpTarget, wpPromotion, wpKey>>

\* The Target is healthy again before the record is moved, and a record that
\* was proposed again in the meantime cannot be: the execution throws.
WpRollbackHealth(p, ok) ==
  /\ wpRun[p].at = "rollbackHealth"
  /\ ok => wpServed = wpRun[p].previous
  /\ wpTarget' = IF ok THEN [wpTarget EXCEPT !.state = "healthy"] ELSE wpTarget
  /\ IF ok /\ wpPromotion[p].state = "degraded" THEN WpEnds(p, "rolled-back")
     ELSE WpEnds(p, wpPromotion[p].state)
  /\ UNCHANGED <<wpKey, wpServed>>

WpNext ==
  \/ \E lacks \in {{}} \cup {{c} : c \in WpCapabilities}, serial \in BOOLEAN :
       WpConfigure(WpCapabilities \ lacks, serial)
  \/ \E p \in WpPromotions :
       \/ \E r \in WpReleases : WpPromote(p, r)
       \/ \E k \in 1 .. WpMaxKeys : WpPromoteAgain(p, k)
       \/ WpRetryPromotion(p)
       \/ WpRollbackToPrevious(p)
       \/ \E answer \in {"ok", "failed", "blocked"} : WpPreview(p, answer)
       \/ \E answer \in {"ok", "mismatch", "indeterminate", "failed", "blocked"} :
            WpApply(p, answer)
       \/ WpHealthy(p)
       \/ WpUnhealthy(p)
       \/ \E ok \in BOOLEAN : WpRollback(p, ok) \/ WpRollbackHealth(p, ok)

WpSpec == WpInit /\ [][WpNext]_wpVars

-----------------------------------------------------------------------------

Pointer == INSTANCE TargetPointer WITH
  Releases <- WpReleases, None <- WpNone,
  current <- wpTarget.current, history <- wpTarget.history,
  state <- IF wpTarget.state = "absent" THEN "configured" ELSE wpTarget.state

\* Whatever the provider answers, in whatever order, and however calls and
\* executions interleave, the Target of the coordinator is a TargetPointer
\* (completeHealthy, degrade, recoverAfterHealthFailure).
WpIsTargetPointer == Pointer!Spec

\* Between calls that are made one at a time a Target said to be healthy serves
\* the Release it names; the exception is an operator's rollback that failed,
\* since its indeterminate answer is not told from a refusal (failFromAdapter).
WpHealthyIsServed ==
  ( /\ wpTarget.serial
    /\ wpTarget.state = "healthy"
    /\ \A p \in WpPromotions :
         /\ wpRun[p].at = "none"
         /\ wpPromotion[p].kind = "rollback" =>
              wpPromotion[p].state \notin {"proposed", "failed", "blocked"} )
  => wpServed = wpTarget.current

\* ADR 0033: "`blocked` means a declared capability, contract, or policy
\* precondition is unavailable".  A Promotion that nothing runs was decided:
\* it is not left proposed by the call that was to run it (execute).
WpRefusedIsBlocked ==
  \A p \in WpPromotions : wpPromotion[p].state = "proposed" => wpRun[p].at # "none"
=============================================================================
