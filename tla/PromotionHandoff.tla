-------------------------- MODULE PromotionHandoff --------------------------
(* Promotion of Releases to one Target.  The Realm's Durable Object holds    *)
(* the authoritative Target and Promotions (authority-plane.ts) and hands an *)
(* execution to the customer's executor (promotion-executor.ts), which drives *)
(* the Cloudflare adapter (worker-target.ts) through one coordinator         *)
(* (delivery/promotion.ts): preview, apply, health check and, if that fails, *)
(* rollback.  The Realm waits inside blockConcurrencyWhile, so it takes one  *)
(* operation at a time; the executor and the provider do not stop when the   *)
(* Realm does.                                                               *)
EXTENDS Integers, Sequences

CONSTANTS
  Releases,        \* immutable Releases, each with its complete lineage
  Promotions,      \* Promotion ids
  ExecutionKeys,   \* executionIdempotencyKey values of promotion.execute
  ReconcileKeys,   \* reconciliationIdempotencyKey values
  Reversible,      \* Releases whose migration plan allows automatic rollback
  MaxRuns,         \* bound on hand-offs
  MaxLosses,       \* bound on lost replies and Realm resets
  None

ASSUME ReversibleAssumption == Reversible \subseteq Releases
ASSUME BoundsAssumption == MaxRuns \in Nat /\ MaxLosses \in Nat

VARIABLES
  target,      \* the Authority's Target: state, current Release, history
  promotion,   \* Promotion id -> the Authority's record of it
  ledger,      \* Authority idempotency key -> the Promotion it was used for
  realm,       \* the operation the Realm is waiting for, or None
  runs,        \* the executor's runs, one per hand-off
  deployed,    \* what the provider serves
  losses

vars == <<target, promotion, ledger, realm, runs, deployed, losses>>

ReleaseOrNone == Releases \cup {None}
RunIds == 1 .. Len(runs)

\* The map f with k set to v.
Set(f, k, v) == [x \in DOMAIN f \cup {k} |-> IF x = k THEN v ELSE f[x]]

Stages == {"preview", "apply", "health", "rollback", "rollbackHealth",
           "healthy", "rolled-back", "error"}
Replied == {"healthy", "rolled-back", "error"}
Recoverable == {"blocked", "degraded"}
Terminal == {"healthy", "rolled-back"}

ExecuteKey(k) == <<"promotion.execute", k>>
ReconcileKey(k) == <<"promotion.reconcile", k>>
LedgerKeys == {ExecuteKey(k) : k \in ExecutionKeys}
                \cup {ReconcileKey(k) : k \in ReconcileKeys}

PromotionRecords ==
  [release : Releases, expected : ReleaseOrNone,
   state : Recoverable \cup Terminal, key : ExecutionKeys \cup {None}]

\* The context of a run is the Target as the Authority knew it at hand-off.
Runs ==
  [promotion : Promotions, key : ExecutionKeys, release : Releases,
   current : ReleaseOrNone, history : Seq(Releases), stage : Stages]

Operations ==
  [promotion : Promotions, ledgerKey : LedgerKeys, run : Nat]

ASSUME NoneAssumption == /\ None \notin Releases \cup ExecutionKeys
                         /\ None \notin Operations

TypeOK ==
  /\ target \in [state : {"configured", "healthy", "degraded"},
                 current : ReleaseOrNone, history : Seq(Releases)]
  /\ DOMAIN promotion \subseteq Promotions
  /\ \A p \in DOMAIN promotion : promotion[p] \in PromotionRecords
  /\ DOMAIN ledger \subseteq LedgerKeys
  /\ \A k \in DOMAIN ledger : ledger[k] \in DOMAIN promotion
  /\ realm # None => realm \in Operations /\ realm.run \in RunIds
  /\ runs \in Seq(Runs)
  /\ deployed \in ReleaseOrNone
  /\ losses \in 0 .. MaxLosses

Init ==
  /\ target = [state |-> "configured", current |-> None, history |-> <<>>]
  /\ promotion = <<>>
  /\ ledger = <<>>
  /\ realm = None
  /\ runs = <<>>
  /\ deployed = None
  /\ losses = 0

-----------------------------------------------------------------------------
(* The Authority.                                                            *)

\* promotion.request: the expected Release is the Target's current one.
RequestPromotion(p, r) ==
  /\ realm = None
  /\ p \notin DOMAIN promotion
  /\ promotion' = Set(promotion, p,
       [release |-> r, expected |-> target.current, state |-> "blocked",
        key |-> None])
  /\ UNCHANGED <<target, ledger, realm, runs, deployed, losses>>

\* createPromotionExecutionContext refuses a Target that has moved.
InContext(p) == promotion[p].expected = target.current

HandOff(p, ledgerKey, key) ==
  /\ InContext(p)
  /\ Len(runs) < MaxRuns
  /\ runs' = Append(runs,
       [promotion |-> p, key |-> key, release |-> promotion[p].release,
        current |-> target.current, history |-> target.history,
        stage |-> "preview"])
  /\ realm' = [promotion |-> p, ledgerKey |-> ledgerKey, run |-> Len(runs) + 1]
  /\ UNCHANGED <<target, promotion, ledger, deployed, losses>>

\* A key that is in the ledger is a replay (or a conflict): nothing happens.
\* So does a healthy or rolled-back Promotion: the Authority answers, but the
\* answer it adds to the ledger does not raise the version and is not stored.
ExecuteUnderAnyKey(p, k) ==   \* mutant: the recorded identity is not compared
  /\ realm = None
  /\ ExecuteKey(k) \notin DOMAIN ledger
  /\ promotion[p].state \in Recoverable
  /\ HandOff(p, ExecuteKey(k), k)

ExecutePromotion(p, k) ==
  /\ realm = None
  /\ ExecuteKey(k) \notin DOMAIN ledger
  /\ promotion[p].key \in {None, k}
  /\ promotion[p].state \in Recoverable
  /\ HandOff(p, ExecuteKey(k), k)

\* The provider identity comes from the record, never from the caller.
ReconcilePromotion(p, k) ==
  /\ realm = None
  /\ promotion[p].key # None
  /\ ReconcileKey(k) \notin DOMAIN ledger
  /\ promotion[p].state \in Recoverable
  /\ HandOff(p, ReconcileKey(k), promotion[p].key)

-----------------------------------------------------------------------------
(* What the executor answers and what the Authority makes of it.  Anything   *)
(* but a success comes with a status that the Realm's fetch turns into an    *)
(* exception.                                                                *)

Includes(h, r) == \E i \in 1 .. Len(h) : h[i] = r

\* completeHealthy compares with the last entry of the history only.
ReportedHistory(run) ==
  IF run.history # <<>> /\ run.history[Len(run.history)] = run.release
  THEN run.history ELSE Append(run.history, run.release)

\* validateResultState expects a Release it has seen anywhere to stay there.
ExpectedHistory(run) ==
  IF Includes(run.history, run.release)
  THEN run.history ELSE Append(run.history, run.release)

AcceptableUnverified(run) == run.stage # "preview"   \* mutant: health is not required

Acceptable(run) ==
  \/ /\ run.stage = "healthy"
     /\ ReportedHistory(run) = ExpectedHistory(run)
  \/ /\ run.stage = "rolled-back"
     /\ run.current = run.release
     /\ run.history = ExpectedHistory(run)

\* runPromotionExecution writes the Promotion, the Target and the ledger in
\* one commit.
RecordSuccess(run) ==
  /\ target' = [state |-> "healthy", current |-> run.release,
                history |-> ExpectedHistory(run)]
  /\ promotion' = [promotion EXCEPT ![run.promotion].state = run.stage,
                                    ![run.promotion].key = run.key]

RecordPresumed(run) ==   \* mutant: the outcome in doubt moves the pointer
  /\ target' = [target EXCEPT !.state = "degraded", !.current = run.release]
  /\ promotion' = [promotion EXCEPT ![run.promotion].state = "degraded",
                                    ![run.promotion].key = run.key]

\* indeterminatePromotionExecution keeps the pointer and the history.
RecordIndeterminate(run) ==
  /\ target' = [target EXCEPT !.state = "degraded"]
  /\ promotion' = [promotion EXCEPT ![run.promotion].state = "degraded",
                                    ![run.promotion].key = run.key]

Settle ==
  /\ ledger' = Set(ledger, realm.ledgerKey, realm.promotion)
  /\ realm' = None

RecordResult ==
  /\ realm # None
  /\ LET run == runs[realm.run] IN
       /\ run.stage \in Replied
       /\ \/ Acceptable(run) /\ RecordSuccess(run)
          \/ ~Acceptable(run) /\ RecordIndeterminate(run)
  /\ Settle
  /\ UNCHANGED <<runs, deployed, losses>>

\* The fetch fails; the executor's run goes on.
LoseReply ==
  /\ realm # None
  /\ losses < MaxLosses
  /\ losses' = losses + 1
  /\ RecordIndeterminate(runs[realm.run])
  /\ Settle
  /\ UNCHANGED <<runs, deployed>>

\* The Durable Object is reset while it waits: nothing has been stored.
ResetRealm ==
  /\ realm # None
  /\ losses < MaxLosses
  /\ losses' = losses + 1
  /\ realm' = None
  /\ UNCHANGED <<target, promotion, ledger, runs, deployed>>

-----------------------------------------------------------------------------
(* The executor's run i, one step per adapter call.                          *)

Moves(i, from, to) ==
  /\ runs[i].stage = from
  /\ runs' = [runs EXCEPT ![i].stage = to]
  /\ UNCHANGED <<target, promotion, ledger, realm, losses>>

\* The preview has a URL of its own: the live deployment is not touched.
Preview(i) ==
  /\ \/ Moves(i, "preview", "apply")
     \/ Moves(i, "preview", "error")
  /\ UNCHANGED deployed

\* The provider deploys and says so, deploys and the answer is lost, or not.
Apply(i) ==
  \/ Moves(i, "apply", "health") /\ deployed' = runs[i].release
  \/ Moves(i, "apply", "error") /\ deployed' \in {deployed, runs[i].release}

\* workerHealthValidator wants the live body to name the Release.
Observes(r) == deployed = r

CanRollBack(run) == run.current # None /\ run.release \in Reversible

CheckHealth(i) ==
  /\ \/ Observes(runs[i].release) /\ Moves(i, "health", "healthy")
     \/ CanRollBack(runs[i]) /\ Moves(i, "health", "rollback")
     \/ ~CanRollBack(runs[i]) /\ Moves(i, "health", "error")
  /\ UNCHANGED deployed

Rollback(i) ==
  \/ Moves(i, "rollback", "rollbackHealth") /\ deployed' = runs[i].current
  \/ Moves(i, "rollback", "error") /\ deployed' \in {deployed, runs[i].current}

CheckRollback(i) ==
  /\ \/ Observes(runs[i].current) /\ Moves(i, "rollbackHealth", "rolled-back")
     \/ Moves(i, "rollbackHealth", "error")
  /\ UNCHANGED deployed

ExecutorStep(i) ==
  Preview(i) \/ Apply(i) \/ CheckHealth(i) \/ Rollback(i) \/ CheckRollback(i)

Next ==
  \/ \E p \in Promotions, r \in Releases : RequestPromotion(p, r)
  \/ \E p \in DOMAIN promotion, k \in ExecutionKeys : ExecutePromotion(p, k)
  \/ \E p \in DOMAIN promotion, k \in ReconcileKeys : ReconcilePromotion(p, k)
  \/ RecordResult
  \/ LoseReply
  \/ ResetRealm
  \/ \E i \in RunIds : ExecutorStep(i)

Spec == Init /\ [][Next]_vars

-----------------------------------------------------------------------------
(* Safety.                                                                   *)

\* Every Release in the Target's known-good history, and the current one among
\* them, has been seen live and healthy by a run that promoted it (ADR 0056).
KnownGood ==
  /\ target.current # None => Includes(target.history, target.current)
  /\ \A h \in 1 .. Len(target.history) :
       \E i \in RunIds : /\ runs[i].release = target.history[h]
                         /\ runs[i].stage = "healthy"

\* The pointer moves by compare-and-swap, from the Release that the Promotion
\* expected to the one that it promotes, and the Promotion then is final.
PointerIsSwapped ==
  [][target'.current # target.current =>
       \E p \in DOMAIN promotion :
         /\ promotion[p].state \in Recoverable
         /\ promotion[p].expected = target.current
         /\ promotion[p].release = target'.current
         /\ promotion'[p].state = "healthy"]_vars

\* A Promotion that is healthy or rolled back is never handed off again and
\* its record, its execution identity included, is final; a recorded identity
\* is never replaced in any state.
IdentityIsFinal ==
  [][\A p \in DOMAIN promotion :
       /\ promotion[p].key # None => promotion'[p].key = promotion[p].key
       /\ promotion[p].state \in Terminal =>
            /\ promotion'[p] = promotion[p]
            /\ \A i \in 1 .. Len(runs') :
                 runs'[i].promotion = p => i \in RunIds]_vars

\* As long as no answer was lost, a Target that the Authority calls healthy
\* serves the Release that the Authority calls current.
HealthyIsServed ==
  losses = 0 /\ realm = None /\ target.state = "healthy" =>
    deployed = target.current

\* The records have their types, the known-good history was verified live, and a
\* Target called healthy serves its current Release.
HandoffSound == TypeOK /\ KnownGood /\ HealthyIsServed

\* The pointer moves only by a compare-and-swap of a recoverable Promotion, and
\* neither an execution identity nor a final Promotion is ever rewritten.
PromotionsAreFinal == PointerIsSwapped /\ IdentityIsFinal

-----------------------------------------------------------------------------
(* Refinement.                                                               *)

Pointer == INSTANCE TargetPointer WITH
  current <- target.current, history <- target.history, state <- target.state

\* Over lost replies, resets and late runs the Authority's Target is a
\* TargetPointer: it advances to a Release found healthy and extends the
\* history, degrades, or recovers where it was (runPromotionExecution).
IsTargetPointer == Pointer!Spec

-----------------------------------------------------------------------------
(* What the documents say and the code does not do.                          *)

\* A Promotion is handed to the provider under one execution identity, over
\* restarts of the Durable Object too (ADR 0056).
IdentitySurvivesRestart ==
  \A i, j \in RunIds : runs[i].promotion = runs[j].promotion =>
                         runs[i].key = runs[j].key

\* A run whose outcome is health-verified is recorded with that outcome.
VerifiedOutcomeRecorded ==
  [][realm # None /\ realm' = None /\ losses' = losses =>
       LET run == runs[realm.run] IN
         run.stage \in Terminal =>
           promotion'[realm.promotion].state = run.stage]_vars
=============================================================================
