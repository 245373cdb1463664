----------------------- MODULE PromotionHandoffProofs -----------------------
(* PromotionHandoff for every set of Releases, Promotions and keys and for   *)
(* every bound.  What makes the Authority safe is that, while it waits, the  *)
(* Target it handed off is the Target it holds (InFlight): nothing else may  *)
(* change the pointer or the history, however long the executor takes.       *)
EXTENDS PromotionHandoff, TLAPS

\* The operation that the Realm waits for is a Promotion that it may still
\* record, and the context of its run is the Authority's state.
InFlight ==
  realm # None =>
    LET run == runs[realm.run]
        record == promotion[realm.promotion]
    IN  /\ run.promotion = realm.promotion
        /\ realm.promotion \in DOMAIN promotion
        /\ run.current = target.current
        /\ run.history = target.history
        /\ run.release = record.release
        /\ record.expected = target.current
        /\ record.state \in Recoverable
        /\ record.key \in {None, run.key}

\* As long as no answer was lost, no run is under way but the Realm's own, and
\* what that run has verified is still served.
Undisturbed ==
  losses = 0 =>
    /\ \A i \in RunIds :
         runs[i].stage \notin Replied => realm # None /\ i = realm.run
    /\ realm # None =>
         LET run == runs[realm.run] IN
           /\ run.stage = "healthy" => deployed = run.release
           /\ run.stage = "rolled-back" => deployed = run.current

IInv == TypeOK /\ InFlight /\ KnownGood /\ Undisturbed /\ HealthyIsServed

\* The Target starts without a Release and the executor without a run.
LEMMA InitIInv == Init => IInv
  <1> SUFFICES ASSUME Init PROVE IInv
    OBVIOUS
  <1>1. TypeOK
    BY BoundsAssumption DEF Init, TypeOK, ReleaseOrNone, Runs, RunIds
  <1>2. InFlight /\ HealthyIsServed /\ KnownGood /\ Undisturbed
    BY DEF Init, InFlight, HealthyIsServed, KnownGood, Undisturbed, RunIds
  <1> QED
    BY <1>1, <1>2 DEF IInv

\* promotion.request adds a record and touches nothing else.
LEMMA RequestStep ==
  ASSUME IInv, NEW p \in Promotions, NEW r \in Releases, RequestPromotion(p, r)
  PROVE  IInv'
  <1> USE DEF RequestPromotion, Set
  <1>1. TypeOK'
    BY DEF IInv, TypeOK, PromotionRecords, ReleaseOrNone, Recoverable, RunIds
  <1>2. InFlight'
    BY DEF IInv, InFlight
  <1>3. KnownGood'
    BY DEF IInv, KnownGood, Includes, RunIds
  <1>4. Undisturbed' /\ HealthyIsServed'
    BY DEF IInv, Undisturbed, HealthyIsServed, RunIds
  <1> QED
    BY <1>1, <1>2, <1>3, <1>4 DEF IInv

\* A hand-off gives the run the Authority's Target and waits for it.
LEMMA HandOffStep ==
  ASSUME IInv, NEW p \in DOMAIN promotion, NEW k \in LedgerKeys,
         NEW key \in ExecutionKeys,
         realm = None, promotion[p].state \in Recoverable,
         promotion[p].key \in {None, key}, HandOff(p, k, key)
  PROVE  IInv'
  <1> DEFINE new == [promotion |-> p, key |-> key,
                     release |-> promotion[p].release,
                     current |-> target.current, history |-> target.history,
                     stage |-> "preview"]
  <1>1. new \in Runs
    BY DEF IInv, TypeOK, Runs, Stages, PromotionRecords
  <1>2. /\ runs' = Append(runs, new)
        /\ realm' = [promotion |-> p, ledgerKey |-> k, run |-> Len(runs) + 1]
        /\ UNCHANGED <<target, promotion, ledger, deployed, losses>>
        /\ promotion[p].expected = target.current
    BY DEF HandOff, InContext
  <1>3. /\ new.promotion = p /\ new.current = target.current /\ new.key = key
        /\ new.history = target.history /\ new.stage = "preview"
        /\ new.release = promotion[p].release
    OBVIOUS
  <1> HIDE DEF new
  <1>4. runs \in Seq(Runs)
    BY DEF IInv, TypeOK
  <1>5. /\ runs' \in Seq(Runs) /\ Len(runs') = Len(runs) + 1
        /\ runs'[Len(runs) + 1] = new
        /\ \A i \in RunIds : runs'[i] = runs[i]
    BY <1>1, <1>2, <1>4 DEF RunIds
  <1>6. realm'.run = Len(runs) + 1 /\ realm'.promotion = p
    BY <1>2
  <1>7. TypeOK'
    <2>1. realm' \in Operations /\ realm'.run \in 1 .. Len(runs')
      BY <1>2, <1>4, <1>5 DEF IInv, TypeOK, Operations
    <2> QED
      BY <2>1, <1>2, <1>5 DEF IInv, TypeOK, RunIds
  <1>8. InFlight'
    BY <1>2, <1>3, <1>5, <1>6 DEF InFlight
  <1>9. KnownGood'
    <2>1. \A i \in RunIds : i \in 1 .. Len(runs')
      BY <1>4, <1>5 DEF RunIds
    <2> QED
      BY <1>2, <1>5, <2>1 DEF IInv, KnownGood, Includes, RunIds
  <1>10. Undisturbed' /\ HealthyIsServed'
    <2>1. realm' # None
      <3>1. realm' \in Operations
        BY <1>2, <1>4 DEF IInv, TypeOK, Operations
      <3> QED
        BY <3>1, NoneAssumption
    <2>2. losses = 0 => \A i \in RunIds : runs[i].stage \in Replied
      BY DEF IInv, Undisturbed
    <2>3. \A i \in 1 .. Len(runs') : i \in RunIds \/ i = Len(runs) + 1
      BY <1>4, <1>5 DEF RunIds
    <2> QED
      BY <1>2, <1>3, <1>5, <1>6, <2>1, <2>2, <2>3
         DEF IInv, Undisturbed, HealthyIsServed, RunIds
  <1> QED
    BY <1>7, <1>8, <1>9, <1>10 DEF IInv

\* The Authority records the answer of the run it waits for.
LEMMA RecordStep ==
  ASSUME IInv, RecordResult
  PROVE  IInv'
  <1> DEFINE run == runs[realm.run]
             p == realm.promotion
  <1>1. /\ realm # None /\ realm \in Operations /\ realm.run \in RunIds
        /\ run \in Runs /\ p \in DOMAIN promotion /\ run.promotion = p
        /\ promotion[p] \in PromotionRecords
        /\ promotion[p].state \in Recoverable
        /\ run.current = target.current /\ run.history = target.history
    BY DEF IInv, TypeOK, InFlight, RecordResult, RunIds
  <1>2. /\ run.stage \in Replied
        /\ ledger' = Set(ledger, realm.ledgerKey, p) /\ realm' = None
        /\ UNCHANGED <<runs, deployed, losses>>
        /\ \/ Acceptable(run) /\ RecordSuccess(run)
           \/ ~Acceptable(run) /\ RecordIndeterminate(run)
    BY DEF RecordResult, Settle
  <1>3. /\ run.promotion \in Promotions /\ run.key \in ExecutionKeys
        /\ run.release \in Releases /\ run.current \in ReleaseOrNone
        /\ run.history \in Seq(Releases)
    BY <1>1 DEF Runs
  <1>4. realm.ledgerKey \in LedgerKeys
    BY <1>1 DEF Operations
  <1>5. InFlight'
    BY <1>2 DEF InFlight
  <1>6. losses = 0 => \A i \in RunIds : runs[i].stage \in Replied
    BY <1>1, <1>2 DEF IInv, Undisturbed
  <1>7. Undisturbed'
    BY <1>2, <1>6 DEF Undisturbed, RunIds
  <1>8. CASE Acceptable(run) /\ RecordSuccess(run)
    <2> DEFINE h == ExpectedHistory(run)
    <2>1. run.stage \in Terminal
      BY <1>8 DEF Acceptable, Terminal
    <2>2. h \in Seq(Releases)
      BY <1>3 DEF ExpectedHistory
    <2>3. h = run.history \/ h = Append(run.history, run.release)
      BY DEF ExpectedHistory
    <2>4. Includes(h, run.release)
      <3>1. CASE Includes(run.history, run.release)
        BY <3>1 DEF ExpectedHistory
      <3>2. CASE ~Includes(run.history, run.release)
        BY <3>2, <1>3 DEF ExpectedHistory, Includes
      <3> QED
        BY <3>1, <3>2
    <2>5. /\ target' = [state |-> "healthy", current |-> run.release,
                        history |-> h]
          /\ promotion' = [promotion EXCEPT ![p].state = run.stage,
                                            ![p].key = run.key]
      BY <1>1, <1>8 DEF RecordSuccess
    <2>6. \/ run.stage = "healthy"
          \/ h = run.history /\ run.current = run.release
      BY <1>8 DEF Acceptable
    <2>7. losses = 0 => deployed = run.release
      BY <1>1, <2>1, <2>6, <1>8
         DEF IInv, Undisturbed, Acceptable, Terminal
    <2> HIDE DEF run, p, h
    <2>8. TypeOK'
      BY <1>1, <1>2, <1>3, <1>4, <2>1, <2>2, <2>5
         DEF IInv, TypeOK, PromotionRecords, ReleaseOrNone, Set, RunIds
    <2>9. HealthyIsServed'
      BY <1>2, <2>5, <2>7 DEF HealthyIsServed
    <2>10. KnownGood'
      <3>1. Includes(target'.history, target'.current)
        BY <2>4, <2>5
      <3>2. ASSUME NEW j \in 1 .. Len(h)
            PROVE  \E i \in RunIds : runs[i].release = h[j]
                                     /\ runs[i].stage = "healthy"
        <4>1. CASE j \in 1 .. Len(run.history) /\ h[j] = run.history[j]
          BY <4>1, <1>1 DEF IInv, KnownGood
        <4>2. CASE h[j] = run.release /\ run.stage = "healthy"
          BY <4>2, <1>1 DEF run
        <4> QED
          BY <4>1, <4>2, <2>3, <2>6, <1>3
      <3> QED
        BY <3>1, <3>2, <2>5, <1>2 DEF KnownGood, RunIds
    <2> QED
      BY <1>5, <1>7, <2>8, <2>9, <2>10 DEF IInv
  <1>9. CASE RecordIndeterminate(run)
    <2>1. /\ target' = [target EXCEPT !.state = "degraded"]
          /\ promotion' = [promotion EXCEPT ![p].state = "degraded",
                                            ![p].key = run.key]
      BY <1>1, <1>9 DEF RecordIndeterminate
    <2> HIDE DEF run, p
    <2>2. TypeOK'
      BY <1>1, <1>2, <1>3, <1>4, <2>1
         DEF IInv, TypeOK, PromotionRecords, Recoverable, Set, RunIds
    <2>3. HealthyIsServed'
      BY <2>1 DEF IInv, TypeOK, HealthyIsServed
    <2>4. KnownGood'
      BY <1>2, <2>1 DEF IInv, TypeOK, KnownGood, Includes, RunIds
    <2> QED
      BY <1>5, <1>7, <2>2, <2>3, <2>4 DEF IInv
  <1> QED
    BY <1>2, <1>8, <1>9

\* A lost answer is recorded as degraded: the pointer and the history stay.
LEMMA LoseStep ==
  ASSUME IInv, LoseReply
  PROVE  IInv'
  <1> DEFINE run == runs[realm.run]
             p == realm.promotion
  <1>1. /\ realm # None /\ realm \in Operations /\ realm.run \in RunIds
        /\ run \in Runs /\ p \in DOMAIN promotion /\ run.promotion = p
        /\ promotion[p] \in PromotionRecords
    BY DEF IInv, TypeOK, InFlight, LoseReply, RunIds
  <1>2. /\ losses < MaxLosses /\ losses' = losses + 1
        /\ ledger' = Set(ledger, realm.ledgerKey, p) /\ realm' = None
        /\ UNCHANGED <<runs, deployed>>
        /\ target' = [target EXCEPT !.state = "degraded"]
        /\ promotion' = [promotion EXCEPT ![p].state = "degraded",
                                          ![p].key = run.key]
    BY <1>1 DEF LoseReply, Settle, RecordIndeterminate
  <1>3. run.key \in ExecutionKeys /\ realm.ledgerKey \in LedgerKeys
    BY <1>1 DEF Runs, Operations
  <1>4. losses \in Nat /\ losses' \in 0 .. MaxLosses /\ losses' # 0
    BY <1>2, BoundsAssumption DEF IInv, TypeOK
  <1> HIDE DEF run, p
  <1>5. TypeOK'
    BY <1>1, <1>2, <1>3, <1>4
       DEF IInv, TypeOK, PromotionRecords, Recoverable, Set, RunIds
  <1>6. KnownGood'
    BY <1>2 DEF IInv, TypeOK, KnownGood, Includes, RunIds
  <1>7. InFlight' /\ Undisturbed' /\ HealthyIsServed'
    BY <1>2, <1>4 DEF InFlight, Undisturbed, HealthyIsServed
  <1> QED
    BY <1>5, <1>6, <1>7 DEF IInv

\* A reset forgets the operation; the records are as they were.
LEMMA ResetStep ==
  ASSUME IInv, ResetRealm
  PROVE  IInv'
  <1>1. losses' # 0 /\ losses' \in 0 .. MaxLosses
    BY BoundsAssumption DEF IInv, TypeOK, ResetRealm
  <1>2. TypeOK'
    BY <1>1 DEF IInv, TypeOK, ResetRealm, RunIds
  <1>3. KnownGood'
    BY DEF IInv, KnownGood, ResetRealm, Includes, RunIds
  <1>4. InFlight' /\ Undisturbed' /\ HealthyIsServed'
    BY <1>1 DEF ResetRealm, InFlight, Undisturbed, HealthyIsServed
  <1> QED
    BY <1>2, <1>3, <1>4 DEF IInv

\* A run moves under the Authority's feet, the run of a lost operation too.
LEMMA MoveStep ==
  ASSUME IInv, NEW i \in RunIds, NEW from \in Stages \ Replied,
         NEW to \in Stages, Moves(i, from, to), deployed' \in ReleaseOrNone,
         to = "healthy" => deployed' = runs[i].release,
         to = "rolled-back" => deployed' = runs[i].current
  PROVE  IInv'
  <1>1. /\ runs \in Seq(Runs) /\ runs[i] \in Runs
        /\ runs[i].stage = from
        /\ runs' = [runs EXCEPT ![i].stage = to]
        /\ UNCHANGED <<target, promotion, ledger, realm, losses>>
    BY DEF IInv, TypeOK, Moves, RunIds
  <1>2. /\ runs' \in Seq(Runs) /\ Len(runs') = Len(runs)
        /\ \A j \in RunIds : j # i => runs'[j] = runs[j]
        /\ runs'[i] = [runs[i] EXCEPT !.stage = to]
    <2> DEFINE moved == [runs[i] EXCEPT !.stage = to]
    <2>1. moved \in Runs
      BY <1>1 DEF Runs
    <2>2. runs' = [runs EXCEPT ![i] = moved]
      BY <1>1
    <2> HIDE DEF moved
    <2>3. /\ runs' \in Seq(Runs) /\ Len(runs') = Len(runs)
          /\ \A j \in RunIds : j # i => runs'[j] = runs[j]
          /\ runs'[i] = moved
      BY <2>1, <2>2, <1>1 DEF RunIds
    <2> QED
      BY <2>3 DEF moved
  <1>3. /\ runs'[i].promotion = runs[i].promotion
        /\ runs'[i].key = runs[i].key
        /\ runs'[i].release = runs[i].release
        /\ runs'[i].current = runs[i].current
        /\ runs'[i].history = runs[i].history
        /\ runs'[i].stage = to
    BY <1>1, <1>2 DEF Runs
  <1>4. RunIds' = RunIds
    BY <1>2 DEF RunIds
  <1>5. TypeOK'
    BY <1>1, <1>2, <1>4 DEF IInv, TypeOK
  <1>6. InFlight'
    <2>1. CASE realm = None
      BY <2>1, <1>1 DEF InFlight
    <2>2. CASE realm # None /\ realm.run = i
      BY <2>2, <1>1, <1>3 DEF IInv, InFlight
    <2>3. CASE realm # None /\ realm.run # i
      <3>1. realm.run \in RunIds
        BY <2>3 DEF IInv, TypeOK
      <3> QED
        BY <2>3, <3>1, <1>1, <1>2 DEF IInv, InFlight
    <2> QED
      BY <2>1, <2>2, <2>3
  <1>7. KnownGood'
    <2>1. from # "healthy"
      BY DEF Replied
    <2>2. \A j \in RunIds : runs[j].stage = "healthy" =>
            runs'[j].stage = "healthy" /\ runs'[j].release = runs[j].release
      BY <2>1, <1>1, <1>2
    <2> QED
      BY <2>2, <1>1, <1>4 DEF IInv, KnownGood, Includes
  <1>8. Undisturbed' /\ HealthyIsServed'
    <2>1. CASE losses # 0
      BY <2>1, <1>1 DEF Undisturbed, HealthyIsServed
    <2>2. CASE losses = 0
      <3>1. realm # None /\ i = realm.run
        BY <2>2, <1>1 DEF IInv, Undisturbed
      <3>2. \A j \in RunIds : runs'[j].stage \notin Replied => j = i
        BY <2>2, <3>1, <1>2 DEF IInv, Undisturbed
      <3>3. Undisturbed'
        BY <3>1, <3>2, <1>1, <1>3, <1>4 DEF Undisturbed
      <3> QED
        BY <3>1, <3>3, <1>1 DEF HealthyIsServed
    <2> QED
      BY <2>1, <2>2
  <1> QED
    BY <1>5, <1>6, <1>7, <1>8 DEF IInv

\* Every step of the executor is such a move.
LEMMA ExecutorKeepsIInv ==
  ASSUME IInv, NEW i \in RunIds, ExecutorStep(i)
  PROVE  IInv'
  <1>1. /\ runs[i].release \in ReleaseOrNone /\ runs[i].current \in ReleaseOrNone
        /\ deployed \in ReleaseOrNone
    <2>1. runs[i] \in Runs /\ deployed \in ReleaseOrNone
      BY DEF IInv, TypeOK, RunIds
    <2> QED
      BY <2>1 DEF Runs, ReleaseOrNone
  <1> DEFINE Live == Stages \ Replied
  <1>2. /\ {"preview", "apply", "health", "rollback", "rollbackHealth"}
             \subseteq Live
        /\ Live \subseteq Stages
        /\ {"healthy", "rolled-back", "error"} \subseteq Stages
    BY DEF Stages, Replied
  <1>3. CASE Preview(i)
    <2>1. \E to \in {"apply", "error"} : Moves(i, "preview", to)
      BY <1>3 DEF Preview
    <2> QED
      BY <2>1, <1>1, <1>2, <1>3, MoveStep DEF Preview
  <1>4. CASE Apply(i)
    <2>1. \E to \in {"health", "error"} : Moves(i, "apply", to)
      BY <1>4 DEF Apply
    <2>2. deployed' \in ReleaseOrNone
      BY <1>1, <1>4 DEF Apply
    <2> QED
      BY <2>1, <2>2, <1>2, MoveStep
  <1>5. CASE CheckHealth(i)
    <2>1. \E to \in {"healthy", "rollback", "error"} :
            /\ Moves(i, "health", to)
            /\ to = "healthy" => deployed' = runs[i].release
      BY <1>5 DEF CheckHealth, Observes
    <2> QED
      BY <2>1, <1>1, <1>2, <1>5, MoveStep DEF CheckHealth
  <1>6. CASE Rollback(i)
    <2>1. \E to \in {"rollbackHealth", "error"} : Moves(i, "rollback", to)
      BY <1>6 DEF Rollback
    <2>2. deployed' \in ReleaseOrNone
      BY <1>1, <1>6 DEF Rollback
    <2> QED
      BY <2>1, <2>2, <1>2, MoveStep
  <1>7. CASE CheckRollback(i)
    <2>1. \E to \in {"rolled-back", "error"} :
            /\ Moves(i, "rollbackHealth", to)
            /\ to = "rolled-back" => deployed' = runs[i].current
      BY <1>7 DEF CheckRollback, Observes
    <2> QED
      BY <2>1, <1>1, <1>2, <1>7, MoveStep DEF CheckRollback
  <1> QED
    BY <1>3, <1>4, <1>5, <1>6, <1>7 DEF ExecutorStep

\* One case for each action of the Authority and of the executor.
LEMMA NextKeepsIInv == IInv /\ [Next]_vars => IInv'
  <1> SUFFICES ASSUME IInv, [Next]_vars PROVE IInv'
    OBVIOUS
  <1>1. ASSUME NEW p \in Promotions, NEW r \in Releases, RequestPromotion(p, r)
        PROVE  IInv'
    BY <1>1, RequestStep
  <1>2. ASSUME NEW p \in DOMAIN promotion, NEW k \in ExecutionKeys,
               ExecutePromotion(p, k)
        PROVE  IInv'
    <2>1. ExecuteKey(k) \in LedgerKeys
      BY DEF LedgerKeys
    <2> QED
      BY <1>2, <2>1, HandOffStep DEF ExecutePromotion
  <1>3. ASSUME NEW p \in DOMAIN promotion, NEW k \in ReconcileKeys,
               ReconcilePromotion(p, k)
        PROVE  IInv'
    <2>1. ReconcileKey(k) \in LedgerKeys
      BY DEF LedgerKeys
    <2>2. promotion[p].key \in ExecutionKeys
      BY <1>3 DEF ReconcilePromotion, IInv, TypeOK, PromotionRecords
    <2> QED
      BY <1>3, <2>1, <2>2, HandOffStep DEF ReconcilePromotion
  <1>4. CASE UNCHANGED vars
    <2>1. TypeOK' /\ InFlight' /\ HealthyIsServed'
      BY <1>4 DEF vars, IInv, TypeOK, InFlight, HealthyIsServed, RunIds
    <2>2. KnownGood' /\ Undisturbed'
      BY <1>4 DEF vars, IInv, KnownGood, Undisturbed, Includes, RunIds
    <2> QED
      BY <2>1, <2>2 DEF IInv
  <1> QED
    BY <1>1, <1>2, <1>3, <1>4, RecordStep, LoseStep, ResetStep,
       ExecutorKeepsIInv DEF Next

\* The inductive invariant holds in every state.
LEMMA IInvHolds == Spec => []IInv
  BY InitIInv, NextKeepsIInv, PTL DEF Spec

\* Every variable has its type, for all Releases, keys and bounds.
THEOREM TypeCorrect == Spec => []TypeOK
  <1>1. IInv => TypeOK
    BY DEF IInv
  <1> QED
    BY <1>1, IInvHolds, PTL

\* What the Authority calls known-good was seen live and healthy, whatever
\* answers and restarts are lost on the way.
THEOREM KnownGoodCorrect == Spec => []KnownGood
  <1>1. IInv => KnownGood
    BY DEF IInv
  <1> QED
    BY <1>1, IInvHolds, PTL

\* Without losses, a Target called healthy serves the Release called current.
THEOREM HealthyIsServedCorrect == Spec => []HealthyIsServed
  <1>1. IInv => HealthyIsServed
    BY DEF IInv
  <1> QED
    BY <1>1, IInvHolds, PTL

\* Only an answer, or its loss, touches the Target and the existing records.
LEMMA RecordsUntouched ==
  ASSUME IInv, Next, ~RecordResult, ~LoseReply
  PROVE  /\ target' = target
         /\ \A p \in DOMAIN promotion : promotion'[p] = promotion[p]
  <1>1. ASSUME NEW i \in RunIds, ExecutorStep(i)
        PROVE  UNCHANGED <<target, promotion>>
    BY <1>1 DEF ExecutorStep, Preview, Apply, CheckHealth, Rollback,
                CheckRollback, Moves
  <1>2. ASSUME NEW p \in Promotions, NEW r \in Releases, RequestPromotion(p, r)
        PROVE  /\ target' = target
               /\ \A q \in DOMAIN promotion : promotion'[q] = promotion[q]
    BY <1>2 DEF RequestPromotion, Set
  <1> QED
    BY <1>1, <1>2 DEF Next, ExecutePromotion, ReconcilePromotion, HandOff,
                      ResetRealm

\* The Authority's pointer moves by compare-and-swap only.
THEOREM PointerIsSwappedCorrect == Spec => PointerIsSwapped
  <1> DEFINE Swap == target'.current # target.current =>
       \E p \in DOMAIN promotion :
         /\ promotion[p].state \in Recoverable
         /\ promotion[p].expected = target.current
         /\ promotion[p].release = target'.current
         /\ promotion'[p].state = "healthy"
  <1>1. ASSUME IInv, [Next]_vars PROVE [Swap]_vars
    <2>1. CASE RecordResult
      <3> DEFINE run == runs[realm.run]
                 p == realm.promotion
      <3>1. /\ p \in DOMAIN promotion /\ run.promotion = p
            /\ promotion[p] \in PromotionRecords
            /\ promotion[p].state \in Recoverable
            /\ promotion[p].expected = target.current
            /\ promotion[p].release = run.release
            /\ run.current = target.current
        BY <1>1, <2>1 DEF IInv, TypeOK, InFlight, RecordResult
      <3>2. CASE Acceptable(run) /\ RecordSuccess(run)
        <4>1. /\ target'.current = run.release
              /\ promotion'[p].state = run.stage
          BY <3>1, <3>2 DEF RecordSuccess, PromotionRecords
        <4>2. target'.current # target.current => run.stage = "healthy"
          BY <3>1, <3>2, <4>1 DEF Acceptable
        <4> QED
          BY <3>1, <4>1, <4>2
      <3>3. CASE RecordIndeterminate(run)
        BY <3>3, <1>1 DEF RecordIndeterminate, IInv, TypeOK
      <3> QED
        BY <2>1, <3>2, <3>3 DEF RecordResult
    <2>2. CASE LoseReply
      BY <2>2, <1>1 DEF LoseReply, RecordIndeterminate, IInv, TypeOK
    <2> QED
      BY <1>1, <2>1, <2>2, RecordsUntouched DEF vars
  <1> QED
    BY <1>1, IInvHolds, PTL DEF Spec, PointerIsSwapped

\* A recorded execution identity is never replaced, and a final Promotion is
\* neither changed nor handed off again.
THEOREM IdentityIsFinalCorrect == Spec => IdentityIsFinal
  <1> DEFINE Kept(p) ==
       /\ promotion[p].key # None => promotion'[p].key = promotion[p].key
       /\ promotion[p].state \in Terminal =>
            /\ promotion'[p] = promotion[p]
            /\ \A i \in 1 .. Len(runs') :
                 runs'[i].promotion = p => i \in RunIds
  <1>1. ASSUME IInv, Next, NEW p \in DOMAIN promotion
        PROVE  Kept(p)
    <2>1. runs \in Seq(Runs)
      BY <1>1 DEF IInv, TypeOK
    <2>2. ASSUME NEW q \in DOMAIN promotion, NEW k, NEW key,
                 promotion[q].state \in Recoverable, HandOff(q, k, key)
          PROVE  Kept(p)
      <3>1. /\ Len(runs') = Len(runs) + 1
            /\ runs'[Len(runs) + 1].promotion = q
        BY <2>1, <2>2 DEF HandOff
      <3>2. promotion[p].state \in Terminal => p # q
        BY <2>2 DEF Terminal, Recoverable
      <3> QED
        BY <3>1, <3>2, <2>1, <2>2 DEF HandOff, RunIds
    <2>3. ASSUME Len(runs') = Len(runs), promotion'[p] = promotion[p]
          PROVE  Kept(p)
      BY <2>3 DEF RunIds
    <2>4. ASSUME NEW i \in RunIds, ExecutorStep(i)
          PROVE  Len(runs') = Len(runs)
      <3>1. \E to : runs' = [runs EXCEPT ![i].stage = to]
        BY <2>4 DEF ExecutorStep, Preview, Apply, CheckHealth, Rollback,
                    CheckRollback, Moves
      <3> QED
        BY <3>1, <2>1 DEF RunIds
    <2>5. ASSUME realm # None, UNCHANGED runs,
                 RecordSuccess(runs[realm.run])
                   \/ RecordIndeterminate(runs[realm.run])
          PROVE  Kept(p)
      <3> DEFINE run == runs[realm.run]
                 q == realm.promotion
      <3>1. /\ q \in DOMAIN promotion /\ run.promotion = q
            /\ promotion[q] \in PromotionRecords
            /\ promotion[q].state \in Recoverable
            /\ promotion[q].key \in {None, run.key}
        BY <1>1, <2>5 DEF IInv, TypeOK, InFlight
      <3>2. /\ \A x \in DOMAIN promotion : x # q => promotion'[x] = promotion[x]
            /\ promotion'[q].key = run.key
        BY <2>5, <3>1 DEF RecordSuccess, RecordIndeterminate, PromotionRecords
      <3>3. CASE p = q
        BY <3>3, <3>1, <3>2 DEF Terminal, Recoverable
      <3>4. CASE p # q
        BY <3>4, <3>2, <2>3, <2>5
      <3> QED
        BY <3>3, <3>4
    <2>6. CASE RecordResult \/ LoseReply
      BY <2>5, <2>6 DEF RecordResult, LoseReply
    <2>7. ASSUME NEW q \in Promotions, NEW r \in Releases,
                 RequestPromotion(q, r)
          PROVE  Kept(p)
      BY <2>7, <2>3 DEF RequestPromotion, Set
    <2>8. ASSUME ResetRealm PROVE Kept(p)
      BY <2>8, <2>3 DEF ResetRealm
    <2>9. ASSUME NEW i \in RunIds, ExecutorStep(i) PROVE Kept(p)
      <3>1. promotion' = promotion
        BY <2>9 DEF ExecutorStep, Preview, Apply, CheckHealth, Rollback,
                    CheckRollback, Moves
      <3> QED
        BY <3>1, <2>3, <2>4, <2>9
    <2> HIDE DEF Kept
    <2> QED
      BY <1>1, <2>2, <2>6, <2>7, <2>8, <2>9
         DEF Next, ExecutePromotion, ReconcilePromotion
  <1>2. ASSUME IInv, [Next]_vars
        PROVE  [\A p \in DOMAIN promotion : Kept(p)]_vars
    BY <1>1, <1>2
  <1> QED
    BY <1>2, IInvHolds, PTL DEF Spec, IdentityIsFinal
\* The Authority's Target implements the abstract one: only RecordResult and
\* LoseReply touch it, and each of their outcomes is a step of TargetPointer.
THEOREM RefinesTargetPointer == Spec => IsTargetPointer
  <1>1. Init => Pointer!Init
    BY DEF Init, Pointer!Init
  <1>2. ASSUME IInv, [Next]_vars
        PROVE  [Pointer!Next]_(Pointer!pointerVars)
    <2> USE <1>2
    <2>1. CASE RecordResult
      <3> DEFINE run == runs[realm.run]
      <3>1. /\ run \in Runs
            /\ run.current = target.current
            /\ run.history = target.history
            /\ target \in [state : {"configured", "healthy", "degraded"},
                           current : ReleaseOrNone, history : Seq(Releases)]
        BY <2>1 DEF RecordResult, IInv, TypeOK, InFlight, RunIds
      <3>2. CASE Acceptable(run) /\ RecordSuccess(run) /\ run.stage = "healthy"
        <4>1. target'.history = ReportedHistory(run)
          BY <3>2, <3>1 DEF Acceptable, RecordSuccess
        <4>2. Pointer!Advance(run.release)
          BY <4>1, <3>1, <3>2 DEF RecordSuccess, ReportedHistory, Pointer!Advance
        <4> QED
          BY <4>2, <3>1 DEF Pointer!Next, Runs
      <3>3. CASE Acceptable(run) /\ RecordSuccess(run) /\ run.stage # "healthy"
        <4>1. /\ run.current = run.release
              /\ target'.history = target.history
              /\ target'.current = target.current
              /\ target'.state = "healthy"
          BY <3>3, <3>1 DEF Acceptable, RecordSuccess
        <4>2. target.current # None
          BY <4>1, <3>1, NoneAssumption DEF Runs
        <4> QED
          BY <4>1, <4>2 DEF Pointer!Next, Pointer!Recover
      <3>4. CASE RecordIndeterminate(run)
        BY <3>4, <3>1 DEF RecordIndeterminate, Pointer!Next, Pointer!Degrade
      <3> QED
        BY <2>1, <3>2, <3>3, <3>4 DEF RecordResult
    <2>2. CASE LoseReply
      BY <2>2 DEF LoseReply, RecordIndeterminate, IInv, TypeOK,
                  Pointer!Next, Pointer!Degrade
    <2>3. CASE UNCHANGED vars
      BY <2>3 DEF vars, Pointer!pointerVars
    <2>4. CASE Next /\ ~RecordResult /\ ~LoseReply
      BY <2>4, RecordsUntouched DEF Pointer!pointerVars
    <2> QED
      BY <2>1, <2>2, <2>3, <2>4
  <1> QED
    BY <1>1, <1>2, IInvHolds, PTL DEF Spec, IsTargetPointer, Pointer!Spec

\* What the Authority says of a Target, together.
THEOREM HandoffSoundCorrect == Spec => []HandoffSound
  BY TypeCorrect, KnownGoodCorrect, HealthyIsServedCorrect, PTL DEF HandoffSound

\* Swaps and identities, together.
THEOREM PromotionsAreFinalCorrect == Spec => PromotionsAreFinal
  BY PointerIsSwappedCorrect, IdentityIsFinalCorrect DEF PromotionsAreFinal
=============================================================================
