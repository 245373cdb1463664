------------------------ MODULE EdgeServicesProofs --------------------------
(* Proofs about the services that face another system: Git transport, the    *)
(* Mirror and its ingress, provider operations, the Actions bridge,          *)
(* installation and the transfer of Projects, and about the local agent and  *)
(* the mounts of a Workspace.  Each part finds the inductive invariant of    *)
(* one service; the last one puts them side by side.                         *)
EXTENDS
  MCEdgeServices, TLAPS, FiniteSetTheorems, SequenceTheorems, WellFoundedInduction

-----------------------------------------------------------------------------
(* Smart HTTP transport and its budget *)

\* The leases that have not expired.
GtHeld == {t \in GtTransfers : gtLease[t] > gtTime}

\* A transfer under way has the lease it was admitted with while that lasts, is
\* started at most GtDelay after it was admitted, and is cut off GtDuration
\* after that; a release is only sent for one that is over.
GtTransferSound(t) ==
  LET x == gtTransfer[t] IN
  /\ x.pc \in {"granted", "open", "streaming"} /\ gtTime < x.admitted + GtDuration =>
       gtLease[t] = x.admitted + GtDuration
  /\ x.pc = "granted" => gtTime <= x.admitted + GtDelay
  /\ x.pc \in {"open", "streaming"} =>
       gtTime <= x.deadline /\ x.deadline <= x.admitted + GtDelay + GtDuration
  /\ t \in gtReleases => x.pc = "closed"

GtInv ==
  /\ GtTypeOK /\ Cardinality(GtHeld) <= GtLimit
  /\ \A t \in GtTransfers : GtTransferSound(t)

LEMMA GtTimes ==
  ASSUME GtTypeOK, NEW t \in GtTransfers
  PROVE  /\ gtTime \in Nat /\ gtTime <= GtMaxTime /\ gtLease[t] \in Nat
         /\ gtTransfer[t] \in GtTransfer
         /\ gtTransfer[t].admitted \in Nat /\ gtTransfer[t].deadline \in Nat
         /\ gtTransfer[t].pc \in {"idle", "asking", "granted", "open", "streaming", "closed"}
         /\ IsFiniteSet(GtHeld)
  <1>1. gtTransfer[t] \in GtTransfer
    BY DEF GtTypeOK
  <1>2. gtLease[t] \in 0 .. GtMaxTime + GtDuration /\ gtTime \in 0 .. GtMaxTime
    BY DEF GtTypeOK
  <1>3. IsFiniteSet(GtHeld)
    BY GtAssumption, FS_Subset DEF GtHeld
  <1> QED
    BY <1>1, <1>2, <1>3, GtAssumption DEF GtTransfer

\* A step of one transfer that moves neither the clock nor a lease.
LEMMA GtOneMoves ==
  ASSUME GtInv, NEW t \in GtTransfers, NEW x \in GtTransfer,
         gtTransfer' = [gtTransfer EXCEPT ![t] = x],
         UNCHANGED <<gtTime, gtLease>>, gtReleases' \subseteq GtTransfers,
         gtReleases' \ {t} \subseteq gtReleases, GtTransferSound(t)'
  PROVE  GtInv'
  <1>1. GtTypeOK'
    BY DEF GtInv, GtTypeOK
  <1>2. Cardinality(GtHeld') <= GtLimit
    BY DEF GtInv, GtHeld
  <1>3. ASSUME NEW u \in GtTransfers PROVE GtTransferSound(u)'
    <2>1. CASE u = t
      BY <2>1
    <2>2. CASE u # t
      <3>1. gtTransfer'[u] = gtTransfer[u] /\ GtTransferSound(u)
        BY <2>2 DEF GtInv, GtTypeOK
      <3> QED
        BY <2>2, <3>1 DEF GtTransferSound
    <2> QED
      BY <2>1, <2>2
  <1> QED
    BY <1>1, <1>2, <1>3 DEF GtInv

\* A transfer that is over, whether its slot is given back or not.
LEMMA GtCloses ==
  ASSUME GtInv, NEW t \in GtTransfers,
         gtTransfer' = [gtTransfer EXCEPT ![t].pc = "closed"],
         UNCHANGED <<gtTime, gtLease>>, gtReleases' \subseteq GtTransfers,
         gtReleases' \ {t} \subseteq gtReleases
  PROVE  GtInv'
  <1> DEFINE x == [gtTransfer[t] EXCEPT !.pc = "closed"]
  <1>1. gtTransfer[t] \in GtTransfer
    BY DEF GtInv, GtTypeOK
  <1>2. x \in GtTransfer /\ x.pc = "closed"
    BY <1>1 DEF GtTransfer
  <1>3. gtTransfer' = [gtTransfer EXCEPT ![t] = x]
    OBVIOUS
  <1> HIDE DEF x
  <1>4. gtTransfer'[t] = x
    BY <1>3 DEF GtInv, GtTypeOK
  <1>5. GtTransferSound(t)'
    BY <1>2, <1>4 DEF GtTransferSound
  <1> QED
    BY <1>2, <1>3, <1>5, GtOneMoves

LEMMA GtAskInv ==
  ASSUME GtInv, NEW t \in GtTransfers, GtAsk(t)
  PROVE  GtInv'
  <1> DEFINE x == [gtTransfer[t] EXCEPT !.pc = "asking"]
  <1>1. gtTransfer[t] \in GtTransfer
    BY DEF GtInv, GtTypeOK
  <1>2. x \in GtTransfer /\ x.pc = "asking"
    BY <1>1 DEF GtTransfer
  <1>3. gtTransfer' = [gtTransfer EXCEPT ![t] = x] /\ UNCHANGED <<gtTime, gtLease, gtReleases>>
        /\ gtTransfer[t].pc = "idle"
    BY DEF GtAsk
  <1> HIDE DEF x
  <1>4. gtTransfer'[t] = x
    BY <1>3 DEF GtInv, GtTypeOK
  <1>5. t \notin gtReleases /\ gtReleases \subseteq GtTransfers
    BY <1>3 DEF GtInv, GtTransferSound, GtTypeOK
  <1>6. GtTransferSound(t)'
    BY <1>2, <1>3, <1>4, <1>5 DEF GtTransferSound
  <1> QED
    BY <1>2, <1>3, <1>5, <1>6, GtOneMoves

LEMMA GtOpenInv ==
  ASSUME GtInv, NEW t \in GtTransfers, GtOpen(t)
  PROVE  GtInv'
  <1> DEFINE n == gtTime + GtDuration
             x == [gtTransfer[t] EXCEPT !.pc = "open", !.deadline = n]
  <1>1. gtTransfer[t] \in GtTransfer /\ gtTransfer[t].pc = "granted" /\ gtTransfer[t].admitted \in Nat
        /\ gtTime \in Nat
    BY GtTimes DEF GtInv, GtOpen
  <1>2. n \in 0 .. GtMaxTime + GtDuration /\ gtTime <= n
    BY GtTimes, GtAssumption DEF GtInv
  <1>3. n <= gtTransfer[t].admitted + GtDelay + GtDuration
    BY <1>1, GtAssumption DEF GtInv, GtTransferSound
  <1>4. gtTransfer' = [gtTransfer EXCEPT ![t] = x] /\ UNCHANGED <<gtTime, gtLease, gtReleases>>
    BY DEF GtOpen
  <1> HIDE DEF n
  <1>5. x \in GtTransfer /\ x.pc = "open" /\ x.deadline = n /\ x.admitted = gtTransfer[t].admitted
    BY <1>1, <1>2 DEF GtTransfer
  <1> HIDE DEF x
  <1>6. gtTransfer'[t] = x
    BY <1>4 DEF GtInv, GtTypeOK
  <1>7. t \notin gtReleases /\ gtReleases \subseteq GtTransfers
    BY <1>1 DEF GtInv, GtTransferSound, GtTypeOK
  <1>8. GtTransferSound(t)'
    BY <1>1, <1>2, <1>3, <1>4, <1>5, <1>6, <1>7 DEF GtTransferSound, GtInv
  <1> QED
    BY <1>4, <1>5, <1>7, <1>8, GtOneMoves

LEMMA GtHeadersInv ==
  ASSUME GtInv, NEW t \in GtTransfers, GtHeaders(t)
  PROVE  GtInv'
  <1> DEFINE x == [gtTransfer[t] EXCEPT !.pc = "streaming"]
  <1>1. gtTransfer[t] \in GtTransfer /\ gtTransfer[t].pc = "open"
    BY GtTimes DEF GtInv, GtHeaders
  <1>2. x \in GtTransfer /\ x.pc = "streaming" /\ x.deadline = gtTransfer[t].deadline
        /\ x.admitted = gtTransfer[t].admitted
    BY <1>1 DEF GtTransfer
  <1>3. gtTransfer' = [gtTransfer EXCEPT ![t] = x] /\ UNCHANGED <<gtTime, gtLease, gtReleases>>
    BY DEF GtHeaders
  <1> HIDE DEF x
  <1>4. gtTransfer'[t] = x
    BY <1>3 DEF GtInv, GtTypeOK
  <1>5. t \notin gtReleases /\ gtReleases \subseteq GtTransfers
    BY <1>1 DEF GtInv, GtTransferSound, GtTypeOK
  <1>6. GtTransferSound(t)'
    BY <1>1, <1>2, <1>3, <1>4, <1>5 DEF GtTransferSound, GtInv
  <1> QED
    BY <1>2, <1>3, <1>5, <1>6, GtOneMoves

\* The coordinator gives a lease only while fewer than GtLimit are held.
LEMMA GtAcquireInv ==
  ASSUME GtInv, NEW t \in GtTransfers, NEW answered \in BOOLEAN, GtAcquire(t, answered)
  PROVE  GtInv'
  <1> DEFINE n == gtTime + GtDuration
             granted == GtActive(GtPurged) < GtLimit
             pc == IF granted /\ answered THEN "granted" ELSE "closed"
             adm == IF granted THEN gtTime ELSE gtTransfer[t].admitted
             x == [gtTransfer[t] EXCEPT !.pc = pc, !.admitted = adm]
  <1>1. gtTransfer[t] \in GtTransfer /\ gtTransfer[t].pc = "asking" /\ gtTransfer[t].admitted \in 0 .. GtMaxTime
        /\ gtTime \in 0 .. GtMaxTime /\ UNCHANGED <<gtTime, gtReleases>>
    BY GtTimes DEF GtInv, GtAcquire, GtTypeOK, GtTransfer
  <1>2. n \in 0 .. GtMaxTime + GtDuration /\ n > gtTime /\ n \in Nat /\ gtTime \in Nat
    BY <1>1, GtAssumption
  <1>3. gtTransfer' = [gtTransfer EXCEPT ![t] = x]
    BY <1>1 DEF GtAcquire, GtTransfer
  <1>4. gtLease' = IF granted THEN [GtPurged EXCEPT ![t] = n] ELSE GtPurged
    BY DEF GtAcquire
  <1>5. adm \in 0 .. GtMaxTime /\ pc \in {"granted", "closed"}
    BY <1>1
  <1>6. granted <=> Cardinality(GtHeld) < GtLimit
    <2>1. {u \in GtTransfers : GtPurged[u] # 0} = GtHeld
      BY GtTimes DEF GtPurged, GtHeld, GtInv
    <2> QED
      BY <2>1 DEF GtActive
  <1>7. (pc = "granted" => granted) /\ (granted => adm = gtTime)
    OBVIOUS
  <1> HIDE DEF n, granted, pc, adm
  <1>8. x \in GtTransfer /\ x.pc = pc /\ x.admitted = adm
    BY <1>1, <1>5 DEF GtTransfer
  <1> HIDE DEF x
  <1>9. gtTransfer'[t] = x /\ \A u \in GtTransfers \ {t} : gtTransfer'[u] = gtTransfer[u]
    BY <1>3 DEF GtInv, GtTypeOK
  <1>10. GtPurged \in [GtTransfers -> 0 .. GtMaxTime + GtDuration]
         /\ \A u \in GtTransfers : GtPurged[u] = IF gtLease[u] <= gtTime THEN 0 ELSE gtLease[u]
    BY GtAssumption DEF GtPurged, GtInv, GtTypeOK
  <1>11. gtLease' \in [GtTransfers -> 0 .. GtMaxTime + GtDuration]
         /\ (\A u \in GtTransfers \ {t} : gtLease'[u] = IF gtLease[u] <= gtTime THEN 0 ELSE gtLease[u])
         /\ (granted => gtLease'[t] = n)
         /\ (~ granted => gtLease'[t] = IF gtLease[t] <= gtTime THEN 0 ELSE gtLease[t])
    BY <1>2, <1>4, <1>10
  <1>12. GtTypeOK'
    BY <1>1, <1>3, <1>8, <1>11 DEF GtInv, GtTypeOK
  <1>13. Cardinality(GtHeld') <= GtLimit
    <2>1. GtHeld' \subseteq IF granted THEN GtHeld \cup {t} ELSE GtHeld
      BY <1>1, <1>2, <1>11 DEF GtHeld
    <2>2. IsFiniteSet(GtHeld) /\ Cardinality(GtHeld) \in Nat /\ Cardinality(GtHeld) <= GtLimit
      BY GtTimes, FS_CardinalityType DEF GtInv
    <2>3. CASE granted
      <3>1. IsFiniteSet(GtHeld \cup {t}) /\ Cardinality(GtHeld \cup {t}) <= Cardinality(GtHeld) + 1
            /\ Cardinality(GtHeld \cup {t}) \in Nat
        <4>1. IsFiniteSet(GtHeld \cup {t})
              /\ Cardinality(GtHeld \cup {t}) \in {Cardinality(GtHeld), Cardinality(GtHeld) + 1}
          BY <2>2, FS_AddElement
        <4> QED
          BY <2>2, <4>1
      <3>2. Cardinality(GtHeld') <= Cardinality(GtHeld \cup {t}) /\ Cardinality(GtHeld') \in Nat
        BY <2>1, <2>3, <3>1, FS_Subset, FS_CardinalityType
      <3> QED
        BY <1>6, <2>2, <2>3, <3>1, <3>2, GtAssumption
    <2>4. CASE ~ granted
      <3>1. Cardinality(GtHeld') <= Cardinality(GtHeld) /\ Cardinality(GtHeld') \in Nat
        BY <2>1, <2>2, <2>4, FS_Subset, FS_CardinalityType
      <3> QED
        BY <2>2, <3>1, GtAssumption
    <2> QED
      BY <2>3, <2>4
  <1>14. ASSUME NEW u \in GtTransfers PROVE GtTransferSound(u)'
    <2>1. CASE u = t
      <3>1. t \notin gtReleases
        BY <1>1 DEF GtInv, GtTransferSound
      <3>2. CASE pc = "granted"
        <4>1. gtLease'[t] = n /\ x.admitted = gtTime /\ x.pc = "granted"
          BY <1>7, <1>8, <1>11, <3>2
        <4> QED
          BY <1>1, <1>2, <1>9, <2>1, <3>1, <4>1, GtAssumption DEF GtTransferSound, n
      <3>3. CASE pc = "closed"
        BY <1>1, <1>8, <1>9, <2>1, <3>1, <3>3 DEF GtTransferSound
      <3> QED
        BY <1>5, <3>2, <3>3
    <2>2. CASE u # t
      <3>1. gtTransfer'[u] = gtTransfer[u] /\ GtTransferSound(u)
            /\ gtLease'[u] = IF gtLease[u] <= gtTime THEN 0 ELSE gtLease[u]
        BY <1>9, <1>11, <2>2 DEF GtInv
      <3>2. gtTransfer[u].admitted \in Nat /\ gtLease[u] \in Nat
        BY GtTimes DEF GtInv
      <3>3. gtTime < gtTransfer[u].admitted + GtDuration /\ gtLease[u] = gtTransfer[u].admitted + GtDuration
            => gtLease'[u] = gtTransfer[u].admitted + GtDuration
        BY <1>2, <3>1, <3>2, GtAssumption
      <3> QED
        BY <1>1, <3>1, <3>3 DEF GtTransferSound
    <2> QED
      BY <2>1, <2>2
  <1> QED
    BY <1>12, <1>13, <1>14 DEF GtInv

LEMMA GtReleaseInv ==
  ASSUME GtInv, NEW t \in GtTransfers, GtRelease(t)
  PROVE  GtInv'
  <1>1. t \in gtReleases /\ gtReleases' = gtReleases \ {t} /\ UNCHANGED <<gtTime, gtTransfer>>
        /\ gtLease' = [GtPurged EXCEPT ![t] = 0]
    BY DEF GtRelease
  <1>2. gtTransfer[t].pc = "closed"
    BY <1>1 DEF GtInv, GtTransferSound
  <1>3. 0 \in 0 .. GtMaxTime + GtDuration
    BY GtAssumption
  <1>4. GtPurged \in [GtTransfers -> 0 .. GtMaxTime + GtDuration]
        /\ \A u \in GtTransfers : GtPurged[u] = IF gtLease[u] <= gtTime THEN 0 ELSE gtLease[u]
    BY <1>3 DEF GtPurged, GtInv, GtTypeOK
  <1>5. gtLease' \in [GtTransfers -> 0 .. GtMaxTime + GtDuration] /\ gtLease'[t] = 0
        /\ (\A u \in GtTransfers \ {t} : gtLease'[u] = IF gtLease[u] <= gtTime THEN 0 ELSE gtLease[u])
    BY <1>1, <1>3, <1>4
  <1>6. GtTypeOK'
    BY <1>1, <1>5 DEF GtInv, GtTypeOK
  <1>7. Cardinality(GtHeld') <= GtLimit
    <2>1. IsFiniteSet(GtHeld) /\ Cardinality(GtHeld) \in Nat /\ Cardinality(GtHeld) <= GtLimit /\ gtTime \in Nat
      BY GtTimes, FS_CardinalityType DEF GtInv
    <2>2. GtHeld' \subseteq GtHeld
      BY <1>1, <1>5, <2>1 DEF GtHeld
    <2>3. Cardinality(GtHeld') <= Cardinality(GtHeld) /\ Cardinality(GtHeld') \in Nat
      BY <2>1, <2>2, FS_Subset, FS_CardinalityType
    <2> QED
      BY <2>1, <2>3, GtAssumption
  <1>8. ASSUME NEW u \in GtTransfers PROVE GtTransferSound(u)'
    <2>1. CASE u = t
      BY <1>1, <1>2, <2>1 DEF GtTransferSound
    <2>2. CASE u # t
      <3>1. GtTransferSound(u) /\ gtLease'[u] = IF gtLease[u] <= gtTime THEN 0 ELSE gtLease[u]
        BY <1>5, <2>2 DEF GtInv
      <3>2. gtTransfer[u].admitted \in Nat /\ gtLease[u] \in Nat /\ gtTime \in Nat
        BY GtTimes DEF GtInv
      <3>3. gtTime < gtTransfer[u].admitted + GtDuration /\ gtLease[u] = gtTransfer[u].admitted + GtDuration
            => gtLease'[u] = gtTransfer[u].admitted + GtDuration
        BY <3>1, <3>2, GtAssumption
      <3> QED
        BY <1>1, <3>1, <3>3 DEF GtTransferSound
    <2> QED
      BY <2>1, <2>2
  <1> QED
    BY <1>6, <1>7, <1>8 DEF GtInv

LEMMA GtTickInv ==
  ASSUME GtInv, GtTick
  PROVE  GtInv'
  <1>1. gtTime < GtMaxTime /\ gtTime' = gtTime + 1 /\ UNCHANGED <<gtLease, gtTransfer, gtReleases>>
    BY DEF GtTick
  <1>2. gtTime \in 0 .. GtMaxTime /\ gtTime \in Nat
    BY DEF GtInv, GtTypeOK
  <1>3. gtTime' \in 0 .. GtMaxTime
    BY <1>1, <1>2, GtAssumption
  <1>4. GtTypeOK'
    BY <1>1, <1>3 DEF GtInv, GtTypeOK
  <1>5. Cardinality(GtHeld') <= GtLimit
    <2>1. IsFiniteSet(GtHeld)
      BY GtAssumption, FS_Subset DEF GtHeld
    <2>2. GtHeld' \subseteq GtHeld
      BY <1>1, <1>2, GtTimes DEF GtHeld, GtInv
    <2>3. Cardinality(GtHeld') <= Cardinality(GtHeld) /\ Cardinality(GtHeld') \in Nat
          /\ Cardinality(GtHeld) \in Nat /\ Cardinality(GtHeld) <= GtLimit
      BY <2>1, <2>2, FS_Subset, FS_CardinalityType DEF GtInv
    <2> QED
      BY <2>3, GtAssumption
  <1>6. ASSUME NEW t \in GtTransfers PROVE GtTransferSound(t)'
    <2>1. gtTransfer[t].admitted \in Nat /\ gtTransfer[t].deadline \in Nat /\ GtTransferSound(t)
      BY GtTimes DEF GtInv
    <2>2. /\ gtTransfer[t].pc \in {"open", "streaming"} => gtTime < gtTransfer[t].deadline
          /\ gtTransfer[t].pc = "granted" => gtTime < gtTransfer[t].admitted + GtDelay
      BY DEF GtTick
    <2> QED
      BY <1>1, <1>2, <2>1, <2>2, GtAssumption DEF GtTransferSound
  <1> QED
    BY <1>4, <1>5, <1>6 DEF GtInv

LEMMA GtStepInv ==
  ASSUME GtInv, [GtNext]_gtVars
  PROVE  GtInv'
  <1> gtReleases \subseteq GtTransfers
    BY DEF GtInv, GtTypeOK
  <1>1. ASSUME NEW t \in GtTransfers, GtAsk(t) PROVE GtInv'
    BY <1>1, GtAskInv
  <1>2. ASSUME NEW t \in GtTransfers, GtRefuse(t) \/ GtRefusePublic(t) PROVE GtInv'
    BY <1>2, GtCloses DEF GtRefuse, GtRefusePublic
  <1>3. ASSUME NEW t \in GtTransfers, NEW answered \in BOOLEAN, GtAcquire(t, answered) PROVE GtInv'
    BY <1>3, GtAcquireInv
  <1>4. ASSUME NEW t \in GtTransfers, GtRelease(t) PROVE GtInv'
    BY <1>4, GtReleaseInv
  <1>5. ASSUME NEW t \in GtTransfers, GtLoseRelease(t) PROVE GtInv'
    <2>1. gtReleases' \subseteq gtReleases /\ UNCHANGED <<gtTime, gtLease, gtTransfer>>
      BY <1>5 DEF GtLoseRelease
    <2> QED
      BY <2>1 DEF GtInv, GtTypeOK, GtHeld, GtTransferSound
  <1>6. ASSUME NEW t \in GtTransfers, GtReject(t) \/ GtFail(t) \/ GtBodyEnds(t) \/ GtAborts(t) PROVE GtInv'
    BY <1>6, GtCloses DEF GtReject, GtFail, GtBodyEnds, GtAborts, GtFinish
  <1>7. ASSUME NEW t \in GtTransfers, GtOpen(t) PROVE GtInv'
    BY <1>7, GtOpenInv
  <1>8. ASSUME NEW t \in GtTransfers, GtHeaders(t) PROVE GtInv'
    BY <1>8, GtHeadersInv
  <1>9. ASSUME NEW t \in GtTransfers, GtDie(t) PROVE GtInv'
    BY <1>9, GtCloses DEF GtDie
  <1>10. CASE GtTick
    BY <1>10, GtTickInv
  <1>11. CASE UNCHANGED gtVars
    BY <1>11 DEF gtVars, GtInv, GtTypeOK, GtHeld, GtTransferSound
  <1> QED
    BY <1>1, <1>2, <1>3, <1>4, <1>5, <1>6, <1>7, <1>8, <1>9, <1>10, <1>11 DEF GtNext

LEMMA GtInitInv == GtInit => GtInv
  <1> SUFFICES ASSUME GtInit PROVE GtInv
    OBVIOUS
  <1>1. 0 \in 0 .. GtMaxTime + GtDuration /\ 0 \in 0 .. GtMaxTime
    BY GtAssumption
  <1>2. [pc |-> "idle", admitted |-> 0, deadline |-> 0] \in GtTransfer
    BY <1>1 DEF GtTransfer
  <1>3. GtTypeOK
    BY <1>1, <1>2 DEF GtInit, GtTypeOK
  <1>4. GtHeld = {}
    BY DEF GtInit, GtHeld
  <1>5. Cardinality(GtHeld) <= GtLimit
    BY <1>4, FS_EmptySet, GtAssumption
  <1> QED
    BY <1>3, <1>5 DEF GtInv, GtInit, GtTransferSound

LEMMA GtAlwaysInv == GtSpec => []GtInv
  BY GtInitInv, GtStepInv, PTL DEF GtSpec

\* The clock, leases and transfers keep their types.
THEOREM GtTypeCorrect == GtSpec => []GtTypeOK
  <1>1. GtInv => GtTypeOK
    BY DEF GtInv
  <1> QED
    BY <1>1, GtAlwaysInv, PTL

\* Across isolates at most GtLimit transfers run inside their leases, each holds
\* its slot while its lease lasts, and it is cut off at most GtDelay after its
\* lease, for any limit, duration and number of requests (smart-http.ts,
\* smart-http-budget-coordinator.ts).
THEOREM GtSlotsAreHeldCorrect == GtSpec => []GtSlotsAreHeld
  <1>1. GtInv => GtSlotsAreHeld
    <2> SUFFICES ASSUME GtInv PROVE GtSlotsAreHeld
      OBVIOUS
    <2> DEFINE R == {t \in GtRunning : gtTime < gtTransfer[t].admitted + GtDuration}
    <2>1. ASSUME NEW t \in GtRunning
          PROVE  /\ gtTime < gtTransfer[t].admitted + GtDuration => gtLease[t] > gtTime
                 /\ gtTime <= gtTransfer[t].admitted + GtDelay + GtDuration
      <3>1. t \in GtTransfers /\ gtTransfer[t].pc \in {"granted", "open", "streaming"}
        BY DEF GtRunning
      <3>2. gtTime \in Nat /\ gtTransfer[t].admitted \in Nat /\ gtTransfer[t].deadline \in Nat
            /\ GtTransferSound(t)
        BY <3>1, GtTimes DEF GtInv
      <3> QED
        BY <3>1, <3>2, GtAssumption DEF GtTransferSound
    <2>2. R \subseteq GtHeld
      BY <2>1 DEF GtHeld, GtRunning
    <2>3. IsFiniteSet(GtHeld)
      BY GtAssumption, FS_Subset DEF GtHeld
    <2>4. Cardinality(R) <= Cardinality(GtHeld) /\ Cardinality(R) \in Nat /\ Cardinality(GtHeld) \in Nat
          /\ Cardinality(GtHeld) <= GtLimit
      BY <2>2, <2>3, FS_Subset, FS_CardinalityType DEF GtInv
    <2>5. Cardinality(R) <= GtLimit
      BY <2>4, GtAssumption
    <2> QED
      BY <2>1, <2>5 DEF GtSlotsAreHeld
  <1> QED
    BY <1>1, GtAlwaysInv, PTL

-----------------------------------------------------------------------------
(* The Repository Mirror coordinator *)

\* Refs that hold nothing that only the remote has: each commit has an inbound
\* Change or has landed.
MsKnown(refs, proposed, landed) ==
  \A r \in MsRefs : refs[r] = MsNone \/ <<r, refs[r]>> \in proposed \cup landed
MsWasCanonical(refs, landed) == \A r \in MsRefs : <<r, refs[r]>> \in landed

\* What a synchronization knows: its canonical refs have landed and the refs it
\* began from were accepted; the refs that it proposes are the new ones, and it
\* pushes over known refs unless it was told that the canonical side wins.
MsCallSound(c, proposed, landed) ==
  /\ MsWasCanonical(c.canonical, landed) /\ MsKnown(c.known, proposed, landed)
  /\ c.pc = "propose" =>
       /\ \A r \in MsRefs : c.seen[r] = MsNone \/ <<r, c.seen[r]>> \in proposed \cup landed \/ r \in c.todo
       /\ \A r \in c.todo : c.seen[r] \in MsOids
  /\ c.pc = "push" /\ c.choice # "canonical-wins" => MsKnown(c.seen, proposed, landed)

MsInv ==
  /\ MsTypeOK /\ MsWasCanonical(msCanonical.refs, msLanded) /\ MsKnown(msMirror.refs, msProposed, msLanded)
  /\ MsWasCanonical(MsBaseRefs, msLanded)
  /\ \A s \in MsSyncs : MsCallSound(msSync[s], msProposed, msLanded)

-----------------------------------------------------------------------------

LEMMA MsTypes ==
  ASSUME MsInv
  PROVE  /\ msSync \in [MsSyncs -> MsCall] /\ msMirror \in MsMirror /\ msRemote \in MsRefState
         /\ msMirror.refs \in MsRefState /\ msMirror.generation \in MsRefState
         /\ \A s \in MsSyncs : /\ msSync[s] \in MsCall /\ msSync[s].seen \in MsRefState
                               /\ msSync[s].canonical \in MsRefState /\ msSync[s].known \in MsRefState
                               /\ msSync[s].revision \in 0 .. MsMaxLandings
                               /\ MsCallSound(msSync[s], msProposed, msLanded)
  <1>1. msMirror \in MsMirror /\ \A s \in MsSyncs : msSync[s] \in MsCall
    BY DEF MsInv, MsTypeOK
  <1> QED
    BY <1>1 DEF MsInv, MsTypeOK, MsMirror, MsCall

LEMMA MsIdleIs ==
  /\ MsBaseRefs \in MsRefState
  /\ MsIdle \in MsCall /\ MsIdle.canonical = MsBaseRefs /\ MsIdle.known = MsBaseRefs /\ MsIdle.pc = "idle"
  <1>1. MsBaseRefs \in MsRefState
    BY MsAssumption DEF MsBaseRefs, MsRefState
  <1>2. 0 \in 0 .. MsMaxLandings
    BY MsAssumption
  <1> QED
    BY <1>1, <1>2 DEF MsIdle, MsCall, MsChoices

\* Refs that have landed are known, and what is known stays so.
LEMMA MsKnownGrows ==
  ASSUME NEW p, NEW l, NEW p1, NEW l1, p \subseteq p1, l \subseteq l1
  PROVE  /\ \A refs : MsWasCanonical(refs, l) => MsWasCanonical(refs, l1) /\ MsKnown(refs, p, l)
         /\ \A refs : MsKnown(refs, p, l) => MsKnown(refs, p1, l1)
         /\ \A c : MsCallSound(c, p, l) => MsCallSound(c, p1, l1)
  <1>1. ASSUME NEW refs PROVE (MsWasCanonical(refs, l) => MsWasCanonical(refs, l1) /\ MsKnown(refs, p, l))
    BY DEF MsWasCanonical, MsKnown
  <1>2. ASSUME NEW refs PROVE MsKnown(refs, p, l) => MsKnown(refs, p1, l1)
    BY DEF MsKnown
  <1>3. ASSUME NEW c PROVE MsCallSound(c, p, l) => MsCallSound(c, p1, l1)
    BY <1>1, <1>2 DEF MsCallSound
  <1> QED
    BY <1>1, <1>2, <1>3

\* A call that is over.
LEMMA MsDoneSound ==
  ASSUME MsInv
  PROVE  /\ [MsIdle EXCEPT !.pc = "done"] \in MsCall
         /\ MsCallSound([MsIdle EXCEPT !.pc = "done"], msProposed, msLanded)
  <1> DEFINE x == [MsIdle EXCEPT !.pc = "done"]
  <1>1. x \in MsCall /\ x.pc = "done" /\ x.canonical = MsBaseRefs /\ x.known = MsBaseRefs
    BY MsIdleIs DEF MsCall
  <1> HIDE DEF x
  <1>2. MsWasCanonical(MsBaseRefs, msLanded) /\ MsKnown(MsBaseRefs, msProposed, msLanded)
    BY MsKnownGrows DEF MsInv
  <1> QED
    BY <1>1, <1>2 DEF MsCallSound, x

\* A step of one synchronization; the record of the Mirror may change with it.
LEMMA MsOneMoves ==
  ASSUME MsInv, NEW s \in MsSyncs, NEW x \in MsCall, msSync' = [msSync EXCEPT ![s] = x],
         MsCallSound(x, msProposed', msLanded), msMirror' \in MsMirror,
         MsKnown(msMirror'.refs, msProposed', msLanded),
         msRemote' \in MsRefState, msProposed' \subseteq MsRefs \X MsOids, msProposed \subseteq msProposed',
         UNCHANGED <<msCanonical, msMoves, msLanded>>
  PROVE  MsInv'
  <1>1. MsTypeOK'
    BY DEF MsInv, MsTypeOK
  <1>2. ASSUME NEW t \in MsSyncs PROVE MsCallSound(msSync'[t], msProposed', msLanded)
    BY MsTypes, MsKnownGrows
  <1> QED
    BY <1>1, <1>2 DEF MsInv

\* fail
LEMMA MsFailInv ==
  ASSUME MsInv, NEW s \in MsSyncs, NEW state \in MsMirrorStates, NEW generation \in MsRefState,
         MsFail(s, state, generation), UNCHANGED <<msRemote, msCanonical, msProposed, msMoves, msLanded>>
  PROVE  MsInv'
  <1> DEFINE m == [msMirror EXCEPT !.state = state, !.generation = generation]
  <1>1. msMirror' = m /\ msSync' = [msSync EXCEPT ![s] = [MsIdle EXCEPT !.pc = "done"]]
    BY DEF MsFail
  <1>2. m \in MsMirror /\ m.refs = msMirror.refs
    BY MsTypes DEF MsMirror
  <1> HIDE DEF m
  <1>3. msProposed' \subseteq MsRefs \X MsOids /\ msRemote' \in MsRefState /\ MsKnown(m.refs, msProposed, msLanded)
    BY <1>2 DEF MsInv, MsTypeOK
  <1> QED
    BY <1>1, <1>2, <1>3, MsDoneSound, MsOneMoves

LEMMA MsFailsInv ==
  ASSUME MsInv, NEW s \in MsSyncs,
         \/ MsInvalid(s) \/ MsRefused(s)
         \/ \E state \in MsFailures : MsInspectFails(s, state) \/ MsPushFails(s, state)
         \/ \E state \in MsFailures, r \in MsRefs : MsProposeFails(s, r, state)
         \/ MsBeginInbound(s) /\ MsUpdates(s) = {}
  PROVE  MsInv'
  <1>1. MsFailures \subseteq MsMirrorStates
    BY MsAssumption DEF MsMirrorStates
  <1>2. MsRefusal(s) \in {"blocked", "force-pushed", "divergent", "equal", "none"}
    BY DEF MsRefusal
  <1>3. \E state \in MsMirrorStates, generation \in {msMirror.generation, msSync[s].seen} : MsFail(s, state, generation)
    BY <1>1, <1>2 DEF MsInvalid, MsRefused, MsInspectFails, MsPushFails, MsProposeFails, MsBeginInbound, MsMirrorStates
  <1>4. UNCHANGED <<msRemote, msCanonical, msProposed, msMoves, msLanded>>
    BY DEF MsInvalid, MsRefused, MsInspectFails, MsPushFails, MsProposeFails, MsBeginInbound
  <1> QED
    BY <1>3, <1>4, MsFailInv, MsTypes

\* succeed
LEMMA MsSucceedInv ==
  ASSUME MsInv, NEW s \in MsSyncs, NEW state \in MsMirrorStates, NEW revision \in 0 .. MsMaxLandings,
         NEW canonical \in MsRefState, NEW refs \in MsRefState, NEW pending \in SUBSET (MsRefs \X MsOids),
         MsSucceed(s, state, revision, canonical, refs, pending), MsKnown(refs, msProposed, msLanded),
         UNCHANGED <<msRemote, msCanonical, msProposed, msMoves, msLanded>>
  PROVE  MsInv'
  <1> DEFINE m == [state |-> state, revision |-> revision, canonical |-> canonical,
                   generation |-> refs, refs |-> refs, pending |-> pending]
  <1>1. msMirror' = m /\ msSync' = [msSync EXCEPT ![s] = [MsIdle EXCEPT !.pc = "done"]]
    BY DEF MsSucceed
  <1>2. m \in MsMirror /\ m.refs = refs
    BY DEF MsMirror
  <1> HIDE DEF m
  <1>3. msProposed' \subseteq MsRefs \X MsOids /\ msRemote' \in MsRefState
    BY DEF MsInv, MsTypeOK
  <1> QED
    BY <1>1, <1>2, <1>3, MsDoneSound, MsOneMoves

LEMMA MsAgreeInv ==
  ASSUME MsInv, NEW s \in MsSyncs, MsAgree(s)
  PROVE  MsInv'
  <1>1. msSync[s].canonical = msSync[s].seen
    BY DEF MsAgree, MsRefusal, MsEqual
  <1>2. MsKnown(msSync[s].seen, msProposed, msLanded)
    BY <1>1, MsTypes, MsKnownGrows DEF MsCallSound
  <1>3. {} \in SUBSET (MsRefs \X MsOids) /\ "healthy" \in MsMirrorStates
    BY DEF MsMirrorStates
  <1> QED
    BY <1>2, <1>3, MsTypes, MsSucceedInv DEF MsAgree

LEMMA MsQuietInv ==
  ASSUME MsInv, NEW s \in MsSyncs, MsQuiet(s)
  PROVE  MsInv'
  <1>1. msSync[s].canonical = msSync[s].seen \/ msSync[s].seen = msMirror.refs
    BY DEF MsQuiet, MsInbound, MsOutbound, MsEqual, MsRemoteChanged
  <1>2. MsKnown(msSync[s].seen, msProposed, msLanded)
    BY <1>1, MsTypes, MsKnownGrows DEF MsCallSound, MsInv
  <1>3. msMirror.pending \in SUBSET (MsRefs \X MsOids) /\ "healthy" \in MsMirrorStates
    BY MsTypes DEF MsMirrorStates, MsMirror
  <1> QED
    BY <1>2, <1>3, MsTypes, MsSucceedInv DEF MsQuiet

LEMMA MsEndInboundInv ==
  ASSUME MsInv, NEW s \in MsSyncs, MsEndInbound(s)
  PROVE  MsInv'
  <1> DEFINE new == {<<r, msSync[s].seen[r]>> : r \in MsUpdates(s)}
             pending == msMirror.pending \cup new
  <1>1. /\ msSync[s].pc = "propose" /\ msSync[s].todo = {}
        /\ MsSucceed(s, "lagging", msMirror.revision, msMirror.canonical, msSync[s].seen, pending)
        /\ UNCHANGED <<msRemote, msCanonical, msProposed, msMoves, msLanded>>
    BY DEF MsEndInbound
  <1>2. MsKnown(msSync[s].seen, msProposed, msLanded)
    BY <1>1, MsTypes DEF MsCallSound, MsKnown
  <1>3. new \subseteq MsRefs \X MsOids
    BY MsTypes DEF MsUpdates, MsRefState
  <1> HIDE DEF new
  <1>4. pending \in SUBSET (MsRefs \X MsOids)
    BY <1>3, MsTypes DEF MsMirror
  <1> HIDE DEF pending
  <1>5. msMirror.revision \in 0 .. MsMaxLandings /\ msMirror.canonical \in MsRefState /\ "lagging" \in MsMirrorStates
    BY MsTypes DEF MsMirror, MsMirrorStates
  <1> QED
    BY <1>1, <1>2, <1>4, <1>5, MsTypes, MsSucceedInv

LEMMA MsPushedInv ==
  ASSUME MsInv, NEW s \in MsSyncs, MsPushed(s)
  PROVE  MsInv'
  <1>1. MsKnown(msSync[s].canonical, msProposed, msLanded)
    BY MsTypes, MsKnownGrows DEF MsCallSound
  <1>2. {} \in SUBSET (MsRefs \X MsOids) /\ "healthy" \in MsMirrorStates
    BY DEF MsMirrorStates
  <1> QED
    BY <1>1, <1>2, MsTypes, MsSucceedInv DEF MsPushed

\* The Mirror as it is, when only a call moves.
LEMMA MsCallMoves ==
  ASSUME MsInv, NEW s \in MsSyncs, NEW x \in MsCall, msSync' = [msSync EXCEPT ![s] = x],
         MsCallSound(x, msProposed, msLanded), msRemote' \in MsRefState,
         UNCHANGED <<msMirror, msCanonical, msProposed, msMoves, msLanded>>
  PROVE  MsInv'
  <1>1. /\ msMirror' \in MsMirror /\ MsKnown(msMirror'.refs, msProposed', msLanded)
        /\ msProposed' \subseteq MsRefs \X MsOids /\ msProposed \subseteq msProposed'
        /\ MsCallSound(x, msProposed', msLanded)
    BY DEF MsInv, MsTypeOK
  <1> QED
    BY <1>1, MsOneMoves

LEMMA MsStartInv ==
  ASSUME MsInv, NEW s \in MsSyncs, NEW choice \in MsChoices, MsStart(s, choice)
  PROVE  MsInv'
  <1> DEFINE x == [MsIdle EXCEPT !.pc = "inspect", !.choice = choice, !.revision = msCanonical.revision,
                                 !.canonical = msCanonical.refs, !.known = msMirror.refs]
  <1>1. /\ msSync' = [msSync EXCEPT ![s] = x]
        /\ UNCHANGED <<msRemote, msMirror, msCanonical, msProposed, msMoves, msLanded>>
    BY DEF MsStart
  <1>2. msCanonical.revision \in 0 .. MsMaxLandings /\ msCanonical.refs \in MsRefState
    BY DEF MsInv, MsTypeOK
  <1>3. x \in MsCall /\ x.pc = "inspect" /\ x.canonical = msCanonical.refs /\ x.known = msMirror.refs
    BY <1>2, MsIdleIs, MsTypes DEF MsCall
  <1> HIDE DEF x
  <1>4. MsCallSound(x, msProposed, msLanded)
    BY <1>3 DEF MsCallSound, MsInv
  <1> QED
    BY <1>1, <1>3, <1>4, MsTypes, MsCallMoves

LEMMA MsInspectInv ==
  ASSUME MsInv, NEW s \in MsSyncs, NEW rewritten \in BOOLEAN, MsInspect(s, rewritten)
  PROVE  MsInv'
  <1> DEFINE c == msSync[s]
             x == [c EXCEPT !.pc = "inspected", !.seen = msRemote, !.rewritten = rewritten]
  <1>1. UNCHANGED <<msRemote, msMirror, msCanonical, msProposed, msMoves, msLanded>>
    BY DEF MsInspect
  <1>2. msSync' = [msSync EXCEPT ![s] = x]
    BY MsTypes DEF MsInspect
  <1>3. c \in MsCall /\ msRemote \in MsRefState
    BY MsTypes
  <1>4. x \in MsCall /\ x.pc = "inspected" /\ x.canonical = c.canonical /\ x.known = c.known
    BY <1>3 DEF MsCall
  <1> HIDE DEF x
  <1>5. MsCallSound(x, msProposed, msLanded)
    BY <1>4, MsTypes DEF MsCallSound
  <1> QED
    BY <1>1, <1>2, <1>3, <1>4, <1>5, MsCallMoves

LEMMA MsBeginInboundInv ==
  ASSUME MsInv, NEW s \in MsSyncs, MsBeginInbound(s), MsUpdates(s) # {}
  PROVE  MsInv'
  <1> DEFINE c == msSync[s]
             u == MsUpdates(s)
             x == [c EXCEPT !.pc = "propose", !.todo = u]
  <1>1. UNCHANGED <<msRemote, msMirror, msCanonical, msProposed, msMoves, msLanded>>
    BY DEF MsBeginInbound
  <1>2. msSync' = [msSync EXCEPT ![s] = x]
    BY MsTypes DEF MsBeginInbound
  <1>3. c \in MsCall /\ c.seen \in MsRefState /\ MsKnown(c.known, msProposed, msLanded)
        /\ MsWasCanonical(c.canonical, msLanded)
    BY MsTypes DEF MsCallSound
  <1>4. u = {r \in MsRefs : c.seen[r] # c.known[r] /\ c.seen[r] # MsNone}
    BY DEF MsUpdates
  <1> HIDE DEF c, u
  <1>5. u \subseteq MsRefs
    BY <1>4
  <1>6. x \in MsCall /\ x.pc = "propose" /\ x.canonical = c.canonical /\ x.known = c.known /\ x.seen = c.seen /\ x.todo = u
    BY <1>3, <1>5 DEF MsCall
  <1> HIDE DEF x
  <1>7. /\ \A r \in MsRefs : c.seen[r] = MsNone \/ <<r, c.seen[r]>> \in msProposed \cup msLanded \/ r \in u
        /\ \A r \in u : c.seen[r] \in MsOids
    BY <1>3, <1>4 DEF MsKnown, MsRefState
  <1>8. MsCallSound(x, msProposed, msLanded)
    BY <1>3, <1>6, <1>7 DEF MsCallSound
  <1> QED
    BY <1>1, <1>2, <1>6, <1>8, MsTypes, MsCallMoves

LEMMA MsProposeInv ==
  ASSUME MsInv, NEW s \in MsSyncs, NEW r \in MsRefs, MsPropose(s, r)
  PROVE  MsInv'
  <1> DEFINE c == msSync[s]
             x == [c EXCEPT !.todo = c.todo \ {r}]
  <1>1. /\ c.pc = "propose" /\ r \in c.todo /\ msProposed' = msProposed \cup {<<r, c.seen[r]>>}
        /\ UNCHANGED <<msRemote, msMirror, msCanonical, msMoves, msLanded>>
    BY DEF MsPropose
  <1>2. msSync' = [msSync EXCEPT ![s] = x]
    BY MsTypes DEF MsPropose
  <1>3. c \in MsCall /\ MsCallSound(c, msProposed, msLanded)
    BY MsTypes
  <1> HIDE DEF c
  <1>4. /\ x \in MsCall /\ x.pc = "propose" /\ x.canonical = c.canonical /\ x.known = c.known /\ x.seen = c.seen
        /\ x.todo = c.todo \ {r}
    BY <1>1, <1>3 DEF MsCall
  <1> HIDE DEF x
  <1>5. MsCallSound(c, msProposed', msLanded)
    BY <1>1, <1>3, MsKnownGrows
  <1>6. MsCallSound(x, msProposed', msLanded)
    BY <1>1, <1>4, <1>5 DEF MsCallSound
  <1>7. c.seen[r] \in MsOids
    BY <1>1, <1>3 DEF MsCallSound
  <1>8. msProposed' \subseteq MsRefs \X MsOids /\ msProposed \subseteq msProposed'
    BY <1>1, <1>7 DEF MsInv, MsTypeOK
  <1>9. MsKnown(msMirror'.refs, msProposed', msLanded)
    BY <1>1, <1>8, MsKnownGrows DEF MsInv
  <1> QED
    BY <1>1, <1>2, <1>4, <1>6, <1>8, <1>9, MsTypes, MsOneMoves

LEMMA MsBeginOutboundInv ==
  ASSUME MsInv, NEW s \in MsSyncs, MsBeginOutbound(s)
  PROVE  MsInv'
  <1> DEFINE c == msSync[s]
             x == [c EXCEPT !.pc = "push"]
  <1>1. UNCHANGED <<msRemote, msMirror, msCanonical, msProposed, msMoves, msLanded>>
    BY DEF MsBeginOutbound
  <1>2. msSync' = [msSync EXCEPT ![s] = x]
    BY MsTypes DEF MsBeginOutbound
  <1>3. c.choice # "canonical-wins" => c.seen = msMirror.refs
    BY DEF MsBeginOutbound, MsOutbound, MsInbound, MsRemoteChanged
  <1>4. c \in MsCall /\ MsCallSound(c, msProposed, msLanded)
    BY MsTypes
  <1> HIDE DEF c
  <1>5. /\ x \in MsCall /\ x.pc = "push" /\ x.canonical = c.canonical /\ x.known = c.known /\ x.seen = c.seen
        /\ x.choice = c.choice
    BY <1>4 DEF MsCall
  <1> HIDE DEF x
  <1>6. MsCallSound(x, msProposed, msLanded)
    BY <1>3, <1>4, <1>5 DEF MsCallSound, MsInv
  <1> QED
    BY <1>1, <1>2, <1>5, <1>6, MsTypes, MsCallMoves

LEMMA MsPushInv ==
  ASSUME MsInv, NEW s \in MsSyncs, MsPush(s)
  PROVE  MsInv'
  <1> DEFINE c == msSync[s]
             x == [c EXCEPT !.pc = "reinspect"]
  <1>1. msRemote' = c.canonical /\ UNCHANGED <<msMirror, msCanonical, msProposed, msMoves, msLanded>>
    BY DEF MsPush
  <1>2. msSync' = [msSync EXCEPT ![s] = x]
    BY MsTypes DEF MsPush
  <1>3. c \in MsCall /\ MsCallSound(c, msProposed, msLanded) /\ c.canonical \in MsRefState
    BY MsTypes
  <1> HIDE DEF c
  <1>4. x \in MsCall /\ x.pc = "reinspect" /\ x.canonical = c.canonical /\ x.known = c.known
    BY <1>3 DEF MsCall
  <1> HIDE DEF x
  <1>5. MsCallSound(x, msProposed, msLanded)
    BY <1>3, <1>4 DEF MsCallSound
  <1> QED
    BY <1>1, <1>2, <1>3, <1>4, <1>5, MsCallMoves

LEMMA MsRemoteMovesInv ==
  ASSUME MsInv, NEW r \in MsRefs, NEW oid \in MsOids \cup {MsNone}, MsRemoteMoves(r, oid)
  PROVE  MsInv'
  <1>1. msMoves' \in 0 .. MsMaxMoves
    BY MsAssumption DEF MsRemoteMoves, MsInv, MsTypeOK
  <1>2. msRemote' \in MsRefState
    BY MsTypes DEF MsRemoteMoves, MsRefState
  <1> QED
    BY <1>1, <1>2 DEF MsRemoteMoves, MsInv, MsTypeOK

LEMMA MsLandInv ==
  ASSUME MsInv, NEW r \in MsRefs, NEW oid \in MsOids, MsLand(r, oid)
  PROVE  MsInv'
  <1> DEFINE v == msCanonical.revision + 1
             f == [msCanonical.refs EXCEPT ![r] = oid]
             n == [revision |-> v, refs |-> f]
  <1>1. /\ msCanonical' = n /\ msLanded' = msLanded \cup {<<r, oid>>} /\ msCanonical.revision < MsMaxLandings
        /\ UNCHANGED <<msRemote, msMirror, msSync, msProposed, msMoves>>
    BY DEF MsLand
  <1>2. msCanonical.revision \in 0 .. MsMaxLandings /\ msCanonical.refs \in MsRefState
    BY DEF MsInv, MsTypeOK
  <1>3. v \in 0 .. MsMaxLandings
    BY <1>1, <1>2, MsAssumption
  <1>4. f \in MsRefState /\ f[r] = oid /\ \A q \in MsRefs : q # r => f[q] = msCanonical.refs[q]
    BY <1>2 DEF MsRefState
  <1> HIDE DEF v, f
  <1>5. n \in [revision : 0 .. MsMaxLandings, refs : MsRefState] /\ n.refs = f
    BY <1>3, <1>4
  <1> HIDE DEF n
  <1>6. MsTypeOK'
    BY <1>1, <1>5 DEF MsInv, MsTypeOK
  <1>7. MsWasCanonical(f, msLanded')
    BY <1>1, <1>4 DEF MsInv, MsWasCanonical
  <1>8. /\ MsKnown(msMirror.refs, msProposed, msLanded') /\ MsWasCanonical(MsBaseRefs, msLanded')
        /\ \A s \in MsSyncs : MsCallSound(msSync[s], msProposed, msLanded')
    <2>1. msProposed \subseteq msProposed /\ msLanded \subseteq msLanded'
      BY <1>1
    <2>2. /\ MsKnown(msMirror.refs, msProposed, msLanded) /\ MsWasCanonical(MsBaseRefs, msLanded)
          /\ \A s \in MsSyncs : MsCallSound(msSync[s], msProposed, msLanded)
      BY DEF MsInv
    <2> QED
      BY <2>1, <2>2, MsKnownGrows
  <1> QED
    BY <1>1, <1>5, <1>6, <1>7, <1>8 DEF MsInv

LEMMA MsStepInv == ASSUME MsInv, [MsNext]_msVars PROVE MsInv'
  <1>1. CASE UNCHANGED msVars
    BY <1>1 DEF msVars, MsInv, MsTypeOK
  <1>2. ASSUME NEW r \in MsRefs,
               (\E oid \in MsOids \cup {MsNone} : MsRemoteMoves(r, oid)) \/ \E oid \in MsOids : MsLand(r, oid)
        PROVE  MsInv'
    BY <1>2, MsRemoteMovesInv, MsLandInv
  <1>3. ASSUME NEW s \in MsSyncs,
               \/ \E choice \in MsChoices : MsStart(s, choice)
               \/ MsInvalid(s)
               \/ \E rewritten \in BOOLEAN : MsInspect(s, rewritten)
               \/ MsRefused(s) \/ MsAgree(s) \/ MsQuiet(s)
               \/ MsBeginInbound(s) \/ MsEndInbound(s)
        PROVE  MsInv'
    BY <1>3, MsStartInv, MsFailsInv, MsInspectInv, MsAgreeInv, MsQuietInv, MsBeginInboundInv, MsEndInboundInv
  <1>4. ASSUME NEW s \in MsSyncs,
               \/ \E r \in MsRefs : MsPropose(s, r) \/ \E state \in MsFailures : MsProposeFails(s, r, state)
               \/ MsBeginOutbound(s) \/ MsPush(s) \/ MsPushed(s)
               \/ \E state \in MsFailures : MsInspectFails(s, state) \/ MsPushFails(s, state)
        PROVE  MsInv'
    BY <1>4, MsFailsInv, MsProposeInv, MsBeginOutboundInv, MsPushInv, MsPushedInv
  <1> QED
    BY <1>1, <1>2, <1>3, <1>4 DEF MsNext

LEMMA MsInitInv == MsInit => MsInv
  <1> SUFFICES ASSUME MsInit PROVE MsInv
    OBVIOUS
  <1>1. 0 \in 0 .. MsMaxLandings /\ 0 \in 0 .. MsMaxMoves
    BY MsAssumption
  <1>2. MsTypeOK
    BY <1>1, MsIdleIs, MsAssumption DEF MsInit, MsTypeOK, MsMirror, MsMirrorStates
  <1>3. MsWasCanonical(MsBaseRefs, msLanded)
    BY DEF MsInit, MsWasCanonical, MsBaseRefs
  <1>4. MsKnown(MsBaseRefs, msProposed, msLanded)
    BY <1>3, MsKnownGrows
  <1>5. msCanonical.refs = MsBaseRefs /\ msMirror.refs = MsBaseRefs
    BY DEF MsInit
  <1>6. \A s \in MsSyncs : MsCallSound(msSync[s], msProposed, msLanded)
    BY <1>3, <1>4, MsIdleIs DEF MsInit, MsCallSound
  <1> QED
    BY <1>2, <1>3, <1>4, <1>5, <1>6 DEF MsInv

LEMMA MsAlwaysInv == MsSpec => []MsInv
  BY MsInitInv, MsStepInv, PTL DEF MsSpec

\* The remote, the record of the Mirror and the synchronizations keep their types.
THEOREM MsTypeCorrect == MsSpec => []MsTypeOK
  BY MsAlwaysInv, PTL DEF MsInv

\* Only the push itself takes a synchronization from its push to what follows.
LEMMA MsOnlyPush ==
  ASSUME MsInv, [MsNext]_msVars, NEW s \in MsSyncs, msSync[s].pc = "push", msSync'[s].pc = "reinspect"
  PROVE  MsPush(s)
  <1> DEFINE done == [MsIdle EXCEPT !.pc = "done"]
  <1>1. msSync \in [MsSyncs -> MsCall] /\ msSync[s] \in MsCall /\ done.pc = "done"
    BY MsTypes, MsIdleIs DEF MsCall
  <1> HIDE DEF done
  <1>2. ASSUME NEW t \in MsSyncs, NEW x, msSync' = [msSync EXCEPT ![t] = x] PROVE t = s /\ x.pc = "reinspect"
    BY <1>1, <1>2
  <1>3. msSync' # msSync
    BY <1>1
  <1>4. ASSUME NEW t \in MsSyncs, NEW state, NEW generation, MsFail(t, state, generation) PROVE FALSE
    BY <1>1, <1>2, <1>4 DEF MsFail, done
  <1>5. ASSUME NEW t \in MsSyncs, NEW state, NEW v, NEW canonical, NEW refs, NEW pending,
               MsSucceed(t, state, v, canonical, refs, pending)
        PROVE FALSE
    BY <1>1, <1>2, <1>5 DEF MsSucceed, done
  <1>6. ASSUME NEW t \in MsSyncs,
               \/ MsInvalid(t) \/ MsRefused(t) \/ MsAgree(t) \/ MsQuiet(t) \/ MsEndInbound(t) \/ MsPushed(t)
               \/ \E state \in MsFailures : MsInspectFails(t, state) \/ MsPushFails(t, state)
               \/ \E r \in MsRefs, state \in MsFailures : MsProposeFails(t, r, state)
        PROVE  FALSE
    BY <1>4, <1>5, <1>6 DEF MsInvalid, MsRefused, MsAgree, MsQuiet, MsEndInbound, MsPushed, MsInspectFails,
       MsPushFails, MsProposeFails
  <1>7. ASSUME NEW t \in MsSyncs, MsPush(t) PROVE t = s
    <2> DEFINE x == [msSync[t] EXCEPT !.pc = "reinspect"]
    <2>1. msSync' = [msSync EXCEPT ![t] = x]
      BY <1>1, <1>7 DEF MsPush
    <2> HIDE DEF x
    <2> QED
      BY <1>2, <2>1
  <1>8. ASSUME NEW t \in MsSyncs,
               \/ \E choice \in MsChoices : MsStart(t, choice)
               \/ \E rewritten \in BOOLEAN : MsInspect(t, rewritten)
               \/ MsBeginInbound(t) \/ MsBeginOutbound(t) \/ \E r \in MsRefs : MsPropose(t, r)
        PROVE  FALSE
    <2>1. msSync[t].pc # "push" /\ t # s
      BY <1>8 DEF MsStart, MsInspect, MsBeginInbound, MsBeginOutbound, MsPropose
    <2>2. msSync'[s] = msSync[s]
      BY <1>1, <1>4, <1>8, <2>1 DEF MsStart, MsInspect, MsBeginInbound, MsBeginOutbound, MsPropose
    <2> QED
      BY <2>2
  <1>9. ASSUME NEW r \in MsRefs,
               (\E oid \in MsOids \cup {MsNone} : MsRemoteMoves(r, oid)) \/ \E oid \in MsOids : MsLand(r, oid)
        PROVE  FALSE
    BY <1>3, <1>9 DEF MsRemoteMoves, MsLand
  <1> QED
    BY <1>3, <1>6, <1>7, <1>8, <1>9 DEF MsNext, msVars

\* A push that was not told that the canonical side wins only replaces commits
\* that have an inbound Change or were canonical, for any refs, commits and
\* number of interleaving synchronizations (sync, processOutbound).
THEOREM MsNothingOverwrittenCorrect == MsSpec => MsNothingOverwritten
  <1> DEFINE Safe == \A s \in MsSyncs, r \in MsRefs :
       (/\ msSync[s].pc = "push" /\ msSync'[s].pc = "reinspect"
        /\ msSync[s].choice # "canonical-wins"
        /\ msRemote[r] \notin {MsNone, msRemote'[r]})
       => <<r, msRemote[r]>> \in msProposed \cup msLanded
  <1>1. MsInv /\ [MsNext]_msVars => [Safe]_msVars
    <2> SUFFICES ASSUME MsInv, [MsNext]_msVars PROVE Safe
      OBVIOUS
    <2>1. ASSUME NEW s \in MsSyncs, NEW r \in MsRefs, msSync[s].pc = "push", msSync'[s].pc = "reinspect",
                 msSync[s].choice # "canonical-wins", msRemote[r] # MsNone
          PROVE  <<r, msRemote[r]>> \in msProposed \cup msLanded
      <3>1. msRemote = msSync[s].seen
        BY <2>1, MsOnlyPush DEF MsPush
      <3>2. MsKnown(msSync[s].seen, msProposed, msLanded)
        BY <2>1, MsTypes DEF MsCallSound
      <3> QED
        BY <2>1, <3>1, <3>2 DEF MsKnown
    <2> QED
      BY <2>1
  <1> QED
    BY <1>1, MsAlwaysInv, PTL DEF MsSpec, MsNothingOverwritten

-----------------------------------------------------------------------------
(* GitHub webhook ingress and the mirror producer *)

\* What a call of the producer knows of the remote, which only moves forward:
\* the generation it expects is not after the refs it read, and those are not
\* after the remote.
MiCallSound(x, remote) ==
  /\ x.pc # "idle" => x.delivery \in MiDeliveries
  /\ x.pc = "refs" => x.generation <= remote
  /\ x.pc \in {"head", "ingest"} => x.generation <= x.refs /\ x.refs <= remote

MiInv ==
  /\ MiTypeOK /\ miRemote + miPull = Cardinality(miSent)
  /\ miMirror.generation <= miRemote
  /\ \A c \in MiConsumers : MiCallSound(miCall[c], miRemote)

LEMMA MiPositionsNat ==
  /\ Cardinality(MiDeliveries) \in Nat /\ 0 \in MiPositions
  /\ \A n \in MiPositions : n \in Nat /\ n <= Cardinality(MiDeliveries)
  /\ \A n \in Nat : n <= Cardinality(MiDeliveries) => n \in MiPositions
  <1>1. Cardinality(MiDeliveries) \in Nat
    BY MiAssumption, FS_CardinalityType DEF MiDeliveries
  <1> QED
    BY <1>1 DEF MiPositions

LEMMA MiIdleSound ==
  MiIdle \in MiCallRecord /\ \A remote : MiCallSound(MiIdle, remote)
  <1>1. <<"push", 0>> \in MiHead /\ 0 \in MiPositions /\ 0 \in 0 .. MiMaxLandings
    BY MiPositionsNat, MiAssumption DEF MiHead
  <1>2. MiIdle \in MiCallRecord
    BY <1>1 DEF MiIdle, MiCallRecord
  <1>3. MiIdle.pc = "idle"
    BY DEF MiIdle
  <1> QED
    BY <1>2, <1>3 DEF MiCallSound

LEMMA MiCallTypes ==
  ASSUME MiInv, NEW c \in MiConsumers
  PROVE  /\ miCall[c] \in MiCallRecord /\ MiCallSound(miCall[c], miRemote)
         /\ miCall[c].generation \in MiPositions /\ miCall[c].refs \in MiPositions
         /\ miCall[c].head \in MiHead
  <1>1. miCall[c] \in MiCallRecord
    BY DEF MiInv, MiTypeOK
  <1> QED
    BY <1>1 DEF MiInv, MiCallRecord

\* A step of one consumer that leaves GitHub and the canonical Project alone.
LEMMA MiOneMoves ==
  ASSUME MiInv, NEW c \in MiConsumers, NEW x \in MiCallRecord, MiCallSound(x, miRemote),
         miCall' = [miCall EXCEPT ![c] = x],
         UNCHANGED <<miRemote, miPull, miSent, miCanonical>>,
         miQueue' \in [MiDeliveries -> 0 .. MiMaxMessages],
         miMirror' \in MiMirrorRecord, miMirror'.generation <= miRemote,
         miNonces' \subseteq MiDeliveries, miAcked' \subseteq MiDeliveries,
         miLedger' \in [MiDeliveries -> {"none", "taken", "blocked"}], miHeads' \subseteq MiHead
  PROVE  MiInv'
  <1>1. MiTypeOK'
    BY DEF MiInv, MiTypeOK
  <1>2. ASSUME NEW d \in MiConsumers PROVE MiCallSound(miCall'[d], miRemote)
    BY DEF MiInv, MiTypeOK
  <1>3. (miRemote + miPull = Cardinality(miSent))' /\ (miMirror.generation <= miRemote)'
    BY DEF MiInv
  <1>4. ASSUME NEW d \in MiConsumers PROVE MiCallSound(miCall[d], miRemote)'
    BY <1>2 DEF MiCallSound
  <1> QED
    BY <1>1, <1>3, <1>4 DEF MiInv

\* The parts that a step of a call often leaves as they are.
LEMMA MiRest ==
  ASSUME MiInv
  PROVE  /\ miQueue \in [MiDeliveries -> 0 .. MiMaxMessages]
         /\ miMirror \in MiMirrorRecord /\ miMirror.generation <= miRemote
         /\ miMirror.generation \in MiPositions
         /\ miNonces \subseteq MiDeliveries /\ miAcked \subseteq MiDeliveries
         /\ miLedger \in [MiDeliveries -> {"none", "taken", "blocked"}] /\ miHeads \subseteq MiHead
         /\ miRemote \in MiPositions /\ miPull \in MiPositions /\ miCanonical \in 0 .. MiMaxLandings
  <1>1. miMirror \in MiMirrorRecord
    BY DEF MiInv, MiTypeOK
  <1> QED
    BY <1>1 DEF MiInv, MiTypeOK, MiMirrorRecord

\* GitHub moves forward by one for each delivery.
LEMMA MiPushInv ==
  ASSUME MiInv, NEW d \in MiDeliveries, MiPush(d)
  PROVE  MiInv'
  <1>1. d \notin miSent /\ miSent' = miSent \cup {d} /\ miSent \subseteq MiDeliveries
        /\ UNCHANGED <<miQueue, miCall, miCanonical, miMirror, miNonces, miLedger, miHeads, miAcked>>
    BY DEF MiPush, MiInv, MiTypeOK
  <1>2. IsFiniteSet(MiDeliveries) /\ IsFiniteSet(miSent) /\ IsFiniteSet(miSent')
    BY <1>1, MiAssumption, FS_Subset, FS_AddElement DEF MiDeliveries
  <1>3. Cardinality(miSent') = Cardinality(miSent) + 1 /\ Cardinality(miSent) \in Nat
    BY <1>1, <1>2, FS_AddElement, FS_CardinalityType
  <1>4. Cardinality(miSent') <= Cardinality(MiDeliveries)
    <2>1. miSent' \subseteq MiDeliveries
      BY <1>1
    <2> QED
      BY <1>2, <2>1, FS_Subset
  <1>5. miRemote \in Nat /\ miPull \in Nat /\ miRemote + miPull = Cardinality(miSent)
    BY MiPositionsNat DEF MiInv, MiTypeOK
  <1>6. \/ miRemote' = miRemote + 1 /\ miPull' = miPull
        \/ miPull' = miPull + 1 /\ miRemote' = miRemote
    BY DEF MiPush
  <1>7. /\ miRemote' \in Nat /\ miPull' \in Nat /\ miRemote' >= miRemote
        /\ miRemote' + miPull' = Cardinality(miSent')
        /\ miRemote' <= Cardinality(miSent') /\ miPull' <= Cardinality(miSent')
    BY <1>3, <1>5, <1>6
  <1>8. miRemote' \in MiPositions /\ miPull' \in MiPositions
    <2>1. miRemote' <= Cardinality(MiDeliveries) /\ miPull' <= Cardinality(MiDeliveries)
      BY <1>3, <1>4, <1>7, MiPositionsNat
    <2> QED
      BY <1>7, <2>1, MiPositionsNat
  <1>9. MiTypeOK'
    BY <1>1, <1>8 DEF MiInv, MiTypeOK
  <1>10. (miMirror.generation <= miRemote)'
    BY <1>1, <1>5, <1>7, MiRest, MiPositionsNat
  <1>11. ASSUME NEW c \in MiConsumers PROVE MiCallSound(miCall[c], miRemote)'
    <2>1. MiCallSound(miCall[c], miRemote) /\ miCall'[c] = miCall[c]
          /\ miCall[c].generation \in Nat /\ miCall[c].refs \in Nat
      BY <1>1, MiCallTypes, MiPositionsNat
    <2> QED
      BY <1>5, <1>7, <2>1 DEF MiCallSound
  <1> QED
    BY <1>7, <1>9, <1>10, <1>11 DEF MiInv

LEMMA MiLandInv ==
  ASSUME MiInv, MiLand
  PROVE  MiInv'
  <1>1. miCanonical' \in 0 .. MiMaxLandings
    BY MiAssumption DEF MiLand, MiInv, MiTypeOK
  <1> QED
    BY <1>1 DEF MiLand, MiInv, MiTypeOK, MiCallSound

LEMMA MiWebhookInv ==
  ASSUME MiInv, NEW d \in MiDeliveries, MiWebhook(d)
  PROVE  MiInv'
  <1> DEFINE n == miQueue[d] + 1
  <1>1. miQueue[d] \in 0 .. MiMaxMessages /\ miQueue[d] < MiMaxMessages /\ miQueue' = [miQueue EXCEPT ![d] = n]
        /\ UNCHANGED <<miRemote, miPull, miSent, miCall, miCanonical, miMirror, miNonces, miLedger, miHeads, miAcked>>
    BY MiRest DEF MiWebhook
  <1>2. n \in 0 .. MiMaxMessages
    BY <1>1, MiAssumption
  <1> HIDE DEF n
  <1>3. miQueue' \in [MiDeliveries -> 0 .. MiMaxMessages]
    BY <1>1, <1>2, MiRest
  <1> QED
    BY <1>1, <1>3 DEF MiInv, MiTypeOK, MiCallSound

LEMMA MiNonceInv ==
  ASSUME MiInv, NEW d \in MiDeliveries, MiNonceExpires(d)
  PROVE  MiInv'
  BY DEF MiInv, MiTypeOK, MiCallSound, MiNonceExpires

LEMMA MiTakeInv ==
  ASSUME MiInv, NEW c \in MiConsumers, NEW d \in MiDeliveries, MiTake(c, d)
  PROVE  MiInv'
  <1> DEFINE n == miQueue[d] - 1
             x == [miCall[c] EXCEPT !.pc = "context", !.delivery = d]
  <1>1. miQueue[d] \in 0 .. MiMaxMessages /\ miQueue[d] > 0 /\ miQueue' = [miQueue EXCEPT ![d] = n]
        /\ miCall' = [miCall EXCEPT ![c] = x]
        /\ UNCHANGED <<miRemote, miPull, miSent, miCanonical, miMirror, miNonces, miLedger, miHeads, miAcked>>
    BY MiRest DEF MiTake
  <1>2. n \in 0 .. MiMaxMessages
    BY <1>1, MiAssumption
  <1> HIDE DEF n
  <1>3. miQueue' \in [MiDeliveries -> 0 .. MiMaxMessages]
    BY <1>1, <1>2, MiRest
  <1>4. x \in MiCallRecord /\ x.pc = "context" /\ x.delivery = d
    BY MiCallTypes DEF MiCallRecord
  <1> HIDE DEF x
  <1>5. MiCallSound(x, miRemote)
    BY <1>4 DEF MiCallSound
  <1> QED
    BY <1>1, <1>3, <1>4, <1>5, MiRest, MiOneMoves

\* The producer reads the Mirror, then the refs, then the head.
LEMMA MiReadInv ==
  ASSUME MiInv, NEW c \in MiConsumers,
         MiContext(c) \/ MiReadRefs(c) \/ MiReadPush(c) \/ MiReadPullRequest(c)
  PROVE  MiInv'
  <1>1. UNCHANGED <<miRemote, miPull, miSent, miQueue, miCanonical, miMirror, miNonces, miLedger, miHeads, miAcked>>
    BY DEF MiContext, MiReadRefs, MiReadPush, MiReadPullRequest
  <1>2. /\ miCall[c] \in MiCallRecord /\ MiCallSound(miCall[c], miRemote)
        /\ miCall[c].generation \in MiPositions /\ miCall[c].refs \in MiPositions
    BY MiCallTypes
  <1>3. ASSUME NEW x \in MiCallRecord, MiCallSound(x, miRemote), miCall' = [miCall EXCEPT ![c] = x]
        PROVE  MiInv'
    BY <1>1, <1>3, MiRest, MiOneMoves
  <1>4. CASE MiContext(c)
    <2> DEFINE g == miMirror.generation
               x == [miCall[c] EXCEPT !.pc = "refs", !.canonical = miCanonical, !.generation = g]
    <2>1. g \in MiPositions /\ g <= miRemote /\ miCanonical \in 0 .. MiMaxLandings
          /\ miCall' = [miCall EXCEPT ![c] = x] /\ miCall[c].pc = "context"
      BY <1>4, MiRest DEF MiContext
    <2> HIDE DEF g
    <2>2. x \in MiCallRecord /\ x.pc = "refs" /\ x.delivery = miCall[c].delivery /\ x.generation = g
      BY <1>2, <2>1 DEF MiCallRecord
    <2> HIDE DEF x
    <2>3. MiCallSound(x, miRemote)
      BY <1>2, <2>1, <2>2 DEF MiCallSound
    <2> QED
      BY <1>3, <2>1, <2>2, <2>3
  <1>5. CASE MiReadRefs(c)
    <2> DEFINE x == [miCall[c] EXCEPT !.pc = "head", !.refs = miRemote]
    <2>1. miRemote \in MiPositions /\ miRemote \in Nat
          /\ miCall' = [miCall EXCEPT ![c] = x] /\ miCall[c].pc = "refs"
      BY <1>5, MiRest, MiPositionsNat DEF MiReadRefs
    <2>2. x \in MiCallRecord /\ x.pc = "head" /\ x.delivery = miCall[c].delivery /\ x.refs = miRemote
          /\ x.generation = miCall[c].generation
      BY <1>2, <2>1 DEF MiCallRecord
    <2> HIDE DEF x
    <2>3. MiCallSound(x, miRemote)
      BY <1>2, <2>1, <2>2 DEF MiCallSound
    <2> QED
      BY <1>3, <2>1, <2>2, <2>3
  <1>6. ASSUME NEW h \in MiHead, miCall[c].pc = "head",
               miCall' = [miCall EXCEPT ![c].pc = "ingest", ![c].head = h]
        PROVE  MiInv'
    <2> DEFINE x == [miCall[c] EXCEPT !.pc = "ingest", !.head = h]
    <2>1. x \in MiCallRecord /\ x.pc = "ingest" /\ x.delivery = miCall[c].delivery
          /\ x.refs = miCall[c].refs /\ x.generation = miCall[c].generation
      BY <1>2, <1>6 DEF MiCallRecord
    <2>2. miCall' = [miCall EXCEPT ![c] = x]
      BY <1>6
    <2> HIDE DEF x
    <2>3. MiCallSound(x, miRemote)
      BY <1>2, <1>6, <2>1 DEF MiCallSound
    <2> QED
      BY <1>3, <2>1, <2>2, <2>3
  <1>7. CASE MiReadPush(c)
    <2>1. <<"push", miCall[c].refs>> \in MiHead
      BY <1>2 DEF MiHead
    <2> QED
      BY <1>6, <1>7, <2>1 DEF MiReadPush
  <1>8. CASE MiReadPullRequest(c)
    <2>1. <<"pull", miPull>> \in MiHead
      BY MiRest DEF MiHead
    <2> QED
      BY <1>6, <1>8, <2>1 DEF MiReadPullRequest
  <1> QED
    BY <1>4, <1>5, <1>7, <1>8

\* What acknowledging and retrying do to the queue.
LEMMA MiAnswered ==
  ASSUME MiInv, NEW c \in MiConsumers, miCall[c].pc # "idle", MiAck(c) \/ MiRetry(c)
  PROVE  /\ miCall' = [miCall EXCEPT ![c] = MiIdle]
         /\ miQueue' \in [MiDeliveries -> 0 .. MiMaxMessages] /\ miAcked' \subseteq MiDeliveries
  <1> DEFINE d == miCall[c].delivery
             n == miQueue[d] + 1
  <1>1. d \in MiDeliveries
    BY MiCallTypes DEF MiCallSound
  <1>2. CASE MiAck(c)
    BY <1>1, <1>2, MiRest DEF MiAck
  <1>3. CASE MiRetry(c)
    <2>1. miQueue[d] < MiMaxMessages /\ miQueue' = [miQueue EXCEPT ![d] = n] /\ UNCHANGED miAcked
          /\ miCall' = [miCall EXCEPT ![c] = MiIdle]
      BY <1>3 DEF MiRetry
    <2>2. miQueue[d] \in 0 .. MiMaxMessages
      BY <1>1, MiRest
    <2>3. n \in 0 .. MiMaxMessages
      BY <2>1, <2>2, MiAssumption
    <2> HIDE DEF n, d
    <2> QED
      BY <1>1, <2>1, <2>3, MiRest
  <1> QED
    BY <1>2, <1>3

\* A call that ends without the remote's state being taken.
LEMMA MiEndsInv ==
  ASSUME MiInv, NEW c \in MiConsumers,
         MiFails(c) \/ MiReplayed(c) \/ MiIngestRefused(c) \/ MiSaveFails(c)
  PROVE  MiInv'
  <1>1. miCall[c].pc # "idle" /\ (MiAck(c) \/ MiRetry(c))
    BY DEF MiFails, MiReplayed, MiIngestRefused, MiSaveFails, MiClaimNonce, MiVerified
  <1>2. UNCHANGED <<miRemote, miPull, miSent, miCanonical, miMirror, miLedger, miHeads>>
    BY DEF MiFails, MiReplayed, MiIngestRefused, MiSaveFails
  <1>3. miNonces' \subseteq MiDeliveries
    <2>1. miCall[c].delivery \in MiDeliveries
      BY <1>1, MiCallTypes DEF MiCallSound
    <2>2. miNonces' \in {miNonces, miNonces \cup {miCall[c].delivery}}
      BY DEF MiFails, MiReplayed, MiIngestRefused, MiSaveFails, MiClaimNonce
    <2> QED
      BY <2>1, <2>2, MiRest
  <1> QED
    BY <1>1, <1>2, <1>3, MiAnswered, MiIdleSound, MiRest, MiOneMoves

LEMMA MiBlockedInv ==
  ASSUME MiInv, NEW c \in MiConsumers, MiIngestBlocked(c)
  PROVE  MiInv'
  <1> DEFINE d == miCall[c].delivery
  <1>1. miCall[c].pc # "idle" /\ MiRetry(c) /\ miNonces' = miNonces \cup {d}
        /\ miLedger' = [miLedger EXCEPT ![d] = "blocked"] /\ miMirror' = [miMirror EXCEPT !.state = "blocked"]
        /\ UNCHANGED <<miRemote, miPull, miSent, miCanonical, miHeads>>
    BY DEF MiIngestBlocked, MiClaimNonce, MiVerified
  <1>2. d \in MiDeliveries
    BY <1>1, MiCallTypes DEF MiCallSound
  <1>3. miMirror' \in MiMirrorRecord /\ miMirror'.generation = miMirror.generation
    BY <1>1, MiRest DEF MiMirrorRecord
  <1>4. miNonces' \subseteq MiDeliveries /\ miLedger' \in [MiDeliveries -> {"none", "taken", "blocked"}]
    BY <1>1, <1>2, MiRest
  <1> HIDE DEF d
  <1> QED
    BY <1>1, <1>3, <1>4, MiAnswered, MiIdleSound, MiRest, MiOneMoves

LEMMA MiIngestInv ==
  ASSUME MiInv, NEW c \in MiConsumers, NEW answered \in BOOLEAN, MiIngest(c, answered)
  PROVE  MiInv'
  <1> DEFINE d == miCall[c].delivery
             g == miCall[c].refs
  <1>1. miCall[c].pc = "ingest" /\ (MiAck(c) \/ MiRetry(c)) /\ miNonces' = miNonces \cup {d}
        /\ miLedger' = [miLedger EXCEPT ![d] = "taken"] /\ miMirror' = [generation |-> g, state |-> "lagging"]
        /\ miHeads' = miHeads \cup {miCall[c].head}
        /\ UNCHANGED <<miRemote, miPull, miSent, miCanonical>>
    BY DEF MiIngest, MiClaimNonce, MiVerified, MiObserved
  <1>2. d \in MiDeliveries /\ g \in MiPositions /\ g <= miRemote /\ miCall[c].head \in MiHead
    BY <1>1, MiCallTypes DEF MiCallSound
  <1> HIDE DEF d, g
  <1>3. miMirror' \in MiMirrorRecord /\ miMirror'.generation <= miRemote
    BY <1>1, <1>2 DEF MiMirrorRecord
  <1>4. miNonces' \subseteq MiDeliveries /\ miLedger' \in [MiDeliveries -> {"none", "taken", "blocked"}]
        /\ miHeads' \subseteq MiHead
    BY <1>1, <1>2, MiRest
  <1> QED
    BY <1>1, <1>3, <1>4, MiAnswered, MiIdleSound, MiRest, MiOneMoves

LEMMA MiStepInv ==
  ASSUME MiInv, [MiNext]_miVars
  PROVE  MiInv'
  <1>1. ASSUME NEW d \in MiDeliveries, MiPush(d) \/ MiWebhook(d) \/ MiNonceExpires(d) PROVE MiInv'
    BY <1>1, MiPushInv, MiWebhookInv, MiNonceInv
  <1>2. CASE MiLand
    BY <1>2, MiLandInv
  <1>3. ASSUME NEW c \in MiConsumers, NEW d \in MiDeliveries, MiTake(c, d) PROVE MiInv'
    BY <1>3, MiTakeInv
  <1>4. ASSUME NEW c \in MiConsumers,
               MiContext(c) \/ MiReadRefs(c) \/ MiReadPush(c) \/ MiReadPullRequest(c)
        PROVE  MiInv'
    BY <1>4, MiReadInv
  <1>5. ASSUME NEW c \in MiConsumers,
               MiFails(c) \/ MiReplayed(c) \/ MiIngestRefused(c) \/ MiSaveFails(c)
        PROVE  MiInv'
    BY <1>5, MiEndsInv
  <1>6. ASSUME NEW c \in MiConsumers, MiIngestBlocked(c) PROVE MiInv'
    BY <1>6, MiBlockedInv
  <1>7. ASSUME NEW c \in MiConsumers, NEW answered \in BOOLEAN, MiIngest(c, answered) PROVE MiInv'
    BY <1>7, MiIngestInv
  <1>8. CASE UNCHANGED miVars
    BY <1>8 DEF miVars, MiInv, MiTypeOK, MiCallSound
  <1> QED
    BY <1>1, <1>2, <1>3, <1>4, <1>5, <1>6, <1>7, <1>8 DEF MiNext

LEMMA MiInitInv == MiInit => MiInv
  <1> SUFFICES ASSUME MiInit PROVE MiInv
    OBVIOUS
  <1>1. 0 \in MiPositions /\ 0 \in 0 .. MiMaxLandings /\ 0 \in 0 .. MiMaxMessages
    BY MiPositionsNat, MiAssumption
  <1>2. miMirror \in MiMirrorRecord /\ miMirror.generation = 0
    BY <1>1 DEF MiInit, MiMirrorRecord
  <1>3. miCall \in [MiConsumers -> MiCallRecord] /\ \A c \in MiConsumers : MiCallSound(miCall[c], miRemote)
    BY MiIdleSound DEF MiInit
  <1>4. MiTypeOK
    BY <1>1, <1>2, <1>3 DEF MiInit, MiTypeOK
  <1>5. Cardinality(miSent) = 0
    BY FS_EmptySet DEF MiInit
  <1> QED
    BY <1>2, <1>3, <1>4, <1>5 DEF MiInit, MiInv

LEMMA MiAlwaysInv == MiSpec => []MiInv
  BY MiInitInv, MiStepInv, PTL DEF MiSpec

\* The queue, the calls, the Mirror and the ledger keep their types.
THEOREM MiTypeCorrect == MiSpec => []MiTypeOK
  <1>1. MiInv => MiTypeOK
    BY DEF MiInv
  <1> QED
    BY <1>1, MiAlwaysInv, PTL

LEMMA MiStepAdvances ==
  ASSUME MiInv, [MiNext]_miVars
  PROVE  miMirror'.generation >= miMirror.generation
  <1>1. miMirror.generation \in Nat
    BY MiRest, MiPositionsNat
  <1>2. ASSUME NEW c \in MiConsumers, NEW answered \in BOOLEAN, MiIngest(c, answered)
        PROVE  miMirror'.generation >= miMirror.generation
    <2>1. miCall[c].pc = "ingest" /\ miCall[c].generation = miMirror.generation
          /\ miMirror' = [generation |-> miCall[c].refs, state |-> "lagging"]
      BY <1>2 DEF MiIngest, MiSameGeneration, MiClaimNonce, MiVerified
    <2>2. miCall[c].generation <= miCall[c].refs /\ miCall[c].refs \in Nat
      BY <2>1, MiCallTypes, MiPositionsNat DEF MiCallSound
    <2>3. miMirror'.generation = miCall[c].refs
      BY <2>1
    <2> QED
      BY <1>1, <2>1, <2>2, <2>3
  <1>3. ASSUME NEW c \in MiConsumers, MiIngestBlocked(c)
        PROVE  miMirror'.generation = miMirror.generation
    <2>1. miMirror' = [miMirror EXCEPT !.state = "blocked"] /\ miMirror \in MiMirrorRecord
      BY <1>3, MiRest DEF MiIngestBlocked
    <2> QED
      BY <2>1 DEF MiMirrorRecord
  <1>4. ASSUME NEW d \in MiDeliveries, MiPush(d) \/ MiWebhook(d) \/ MiNonceExpires(d)
        PROVE  miMirror' = miMirror
    BY <1>4 DEF MiPush, MiWebhook, MiNonceExpires
  <1>5. CASE MiLand \/ UNCHANGED miVars
    BY <1>1, <1>5 DEF MiLand, miVars
  <1>6. ASSUME NEW c \in MiConsumers,
               \/ \E d \in MiDeliveries : MiTake(c, d)
               \/ MiContext(c) \/ MiReadRefs(c) \/ MiReadPush(c) \/ MiReadPullRequest(c)
               \/ MiFails(c) \/ MiReplayed(c) \/ MiIngestRefused(c) \/ MiSaveFails(c)
        PROVE  miMirror' = miMirror
    BY <1>6 DEF MiTake, MiContext, MiReadRefs, MiReadPush, MiReadPullRequest, MiFails, MiReplayed,
       MiIngestRefused, MiSaveFails
  <1> QED
    BY <1>1, <1>2, <1>3, <1>4, <1>5, <1>6 DEF MiNext

\* However deliveries, redeliveries and retries overtake each other, the remote
\* boundary the Authority accepted never goes back (expectedRemoteGeneration,
\* acceptsRemoteBoundary).
THEOREM MiBoundaryOnlyAdvancesCorrect == MiSpec => MiBoundaryOnlyAdvances
  BY MiAlwaysInv, MiStepAdvances, PTL DEF MiSpec, MiBoundaryOnlyAdvances

-----------------------------------------------------------------------------
(* Customer provider operations *)

\* A call executes on a pending record and reopens one that failed; what it is
\* about to write keeps the success of the record it has read.
PoCallSound(x) ==
  /\ x.pc \in {"execute", "readback"} => x.base.state = "pending"
  /\ x.pc = "reopen" => x.base.state # "succeeded"
  /\ x.pc = "put" /\ x.base.state = "succeeded" => x.next.state = "succeeded"

PoInv == PoTypeOK /\ \A c \in PoCalls : PoCallSound(poCall[c])

LEMMA PoTypes ==
  ASSUME PoInv
  PROVE  /\ poCall \in [PoCalls -> PoCallRecord]
         /\ \A c \in PoCalls : /\ poCall[c] \in PoCallRecord /\ PoCallSound(poCall[c])
                               /\ poCall[c].base \in PoRecord /\ poCall[c].next \in PoRecord
         /\ poVersion \in 0 .. PoMaxVersions
         /\ poRecord # PoNone => poRecord \in PoRecord
         /\ poMessages \subseteq 1 .. PoMaxVersions
  <1>1. poCall \in [PoCalls -> PoCallRecord]
    BY DEF PoInv, PoTypeOK
  <1>2. ASSUME NEW c \in PoCalls
        PROVE  /\ poCall[c] \in PoCallRecord /\ PoCallSound(poCall[c])
               /\ poCall[c].base \in PoRecord /\ poCall[c].next \in PoRecord
    <2>1. poCall[c] \in PoCallRecord
      BY <1>1
    <2> QED
      BY <2>1 DEF PoInv, PoCallRecord
  <1> QED
    BY <1>1, <1>2 DEF PoInv, PoTypeOK

LEMMA PoIdleType ==
  PoBlank \in PoRecord /\ PoIdle \in PoCallRecord /\ PoCallSound(PoIdle)
  <1>1. 1 \in 1 .. PoMaxVersions /\ 0 \in 0 .. PoMaxVersions
    BY PoAssumption
  <1>2. PoBlank \in PoRecord
    BY <1>1 DEF PoBlank, PoRecord, PoStates
  <1>3. PoIdle \in PoCallRecord
    BY <1>2 DEF PoIdle, PoCallRecord
  <1>4. PoCallSound(PoIdle)
    BY DEF PoCallSound, PoIdle
  <1> QED
    BY <1>2, <1>3, <1>4

\* A step of one call; the record, the messages and the bundle have their types.
LEMMA PoMoves ==
  ASSUME PoInv, NEW c \in PoCalls, NEW x \in PoCallRecord, PoCallSound(x),
         poCall' = [poCall EXCEPT ![c] = x], poRecord' \in PoRecord \cup {PoNone},
         poResource' \in BOOLEAN, poMessages' \subseteq 1 .. PoMaxVersions,
         poVersion' \in 0 .. PoMaxVersions, UNCHANGED <<poBundle, poLosses>>
  PROVE  PoInv'
  <1>1. PoTypeOK'
    BY DEF PoInv, PoTypeOK
  <1>2. ASSUME NEW d \in PoCalls PROVE PoCallSound(poCall'[d])
    BY DEF PoInv, PoTypeOK
  <1>3. ASSUME NEW d \in PoCalls PROVE PoCallSound(poCall[d])'
    BY <1>2 DEF PoCallSound
  <1> QED
    BY <1>1, <1>3 DEF PoInv

\* A call goes to another step and may read the record.
LEMMA PoGoes ==
  ASSUME PoInv, NEW c \in PoCalls, NEW base \in PoRecord, NEW next \in PoRecord,
         NEW pc \in {"idle", "create", "reopen", "execute", "readback", "callback", "cleanup", "put"},
         poCall' = [poCall EXCEPT ![c].pc = pc, ![c].base = base, ![c].next = next],
         pc \in {"execute", "readback"} => base.state = "pending",
         pc = "reopen" => base.state # "succeeded",
         pc = "put" /\ base.state = "succeeded" => next.state = "succeeded",
         poRecord' \in PoRecord \cup {PoNone}, poResource' \in BOOLEAN,
         poMessages' \subseteq 1 .. PoMaxVersions, poVersion' \in 0 .. PoMaxVersions,
         UNCHANGED <<poBundle, poLosses>>
  PROVE  PoInv'
  <1> DEFINE x == [poCall[c] EXCEPT !.pc = pc, !.base = base, !.next = next]
  <1>1. poCall[c] \in PoCallRecord
    BY PoTypes
  <1>2. x \in PoCallRecord /\ x.pc = pc /\ x.base = base /\ x.next = next
    BY <1>1 DEF PoCallRecord
  <1>3. poCall' = [poCall EXCEPT ![c] = x]
    OBVIOUS
  <1> HIDE DEF x
  <1>4. PoCallSound(x)
    BY <1>2 DEF PoCallSound
  <1> QED
    BY <1>2, <1>3, <1>4, PoMoves

LEMMA PoStops ==
  ASSUME PoInv, NEW c \in PoCalls, poCall' = [poCall EXCEPT ![c] = PoIdle],
         poRecord' \in PoRecord \cup {PoNone}, poResource' \in BOOLEAN,
         poMessages' \subseteq 1 .. PoMaxVersions, poVersion' \in 0 .. PoMaxVersions,
         UNCHANGED <<poBundle, poLosses>>
  PROVE  PoInv'
  BY PoIdleType, PoMoves

\* A number of a new checkpoint.
LEMMA PoNextVersion ==
  ASSUME PoInv, poVersion < PoMaxVersions
  PROVE  poVersion + 1 \in 1 .. PoMaxVersions /\ poVersion + 1 \in 0 .. PoMaxVersions
  BY PoTypes, PoAssumption

\* A record with a new number, or with another state, is a record.
LEMMA PoStamped ==
  ASSUME NEW r \in PoRecord, NEW v \in 1 .. PoMaxVersions
  PROVE  [r EXCEPT !.version = v] \in PoRecord /\ [r EXCEPT !.version = v].state = r.state
  BY DEF PoRecord

LEMMA PoStated ==
  ASSUME NEW r \in PoRecord, NEW st \in PoStates
  PROVE  [r EXCEPT !.state = st] \in PoRecord /\ [r EXCEPT !.state = st].state = st
  BY DEF PoRecord

LEMMA PoReopened ==
  ASSUME NEW r \in PoRecord, NEW v \in 1 .. PoMaxVersions, NEW st \in PoStates
  PROVE  /\ [r EXCEPT !.state = st, !.version = v] \in PoRecord
         /\ [r EXCEPT !.state = st, !.version = v].state = st
  BY DEF PoRecord

LEMMA PoAwaits ==
  ASSUME NEW r \in PoRecord, NEW v \in 1 .. PoMaxVersions, NEW st \in PoStates
  PROVE  [r EXCEPT !.state = st, !.callback = v] \in PoRecord
  <1>1. v \in 0 .. PoMaxVersions
    BY PoAssumption
  <1> QED
    BY <1>1 DEF PoRecord

LEMMA PoWillPutInv ==
  ASSUME PoInv, NEW c \in PoCalls, NEW next \in PoRecord, PoWillPut(c, next),
         poCall[c].base.state = "succeeded" => next.state = "succeeded",
         UNCHANGED <<poRecord, poVersion, poBundle, poLosses>>,
         poResource' \in BOOLEAN, poMessages' \subseteq 1 .. PoMaxVersions
  PROVE  PoInv'
  <1> DEFINE base == poCall[c].base
  <1>1. base \in PoRecord /\ poCall[c] \in PoCallRecord
    BY PoTypes
  <1>2. poCall' = [poCall EXCEPT ![c].pc = "put", ![c].base = base, ![c].next = next]
    BY <1>1 DEF PoWillPut, PoCallRecord
  <1>3. poRecord' \in PoRecord \cup {PoNone} /\ poVersion' \in 0 .. PoMaxVersions
    BY DEF PoInv, PoTypeOK
  <1>4. base.state = "succeeded" => next.state = "succeeded"
    OBVIOUS
  <1> HIDE DEF base
  <1> QED
    BY <1>1, <1>2, <1>3, <1>4, PoGoes

\* A call that only moves, and may have read the record.
LEMMA PoReads ==
  ASSUME PoInv, NEW c \in PoCalls, NEW base \in PoRecord,
         NEW pc \in {"create", "reopen", "execute", "readback", "callback", "cleanup"},
         poCall' = [poCall EXCEPT ![c].pc = pc, ![c].base = base],
         pc \in {"execute", "readback"} => base.state = "pending",
         pc = "reopen" => base.state # "succeeded",
         poRecord' \in PoRecord \cup {PoNone}, poResource' \in BOOLEAN,
         UNCHANGED <<poMessages, poBundle, poLosses>>, poVersion' \in 0 .. PoMaxVersions
  PROVE  PoInv'
  <1> DEFINE x == [poCall[c] EXCEPT !.pc = pc, !.base = base]
  <1>1. poCall[c] \in PoCallRecord
    BY PoTypes
  <1>2. x \in PoCallRecord /\ x.pc = pc /\ x.base = base
    BY <1>1 DEF PoCallRecord
  <1>3. poCall' = [poCall EXCEPT ![c] = x]
    OBVIOUS
  <1>4. poMessages' \subseteq 1 .. PoMaxVersions
    BY PoTypes
  <1> HIDE DEF x
  <1>5. PoCallSound(x)
    BY <1>2 DEF PoCallSound
  <1> QED
    BY <1>2, <1>3, <1>4, <1>5, PoMoves

LEMMA PoCreateInv ==
  ASSUME PoInv, NEW c \in PoCalls, PoCreate(c)
  PROVE  PoInv'
  <1> DEFINE v == poVersion + 1
             r == [PoBlank EXCEPT !.version = v]
  <1>1. v \in 1 .. PoMaxVersions /\ v \in 0 .. PoMaxVersions
    BY PoNextVersion DEF PoCreate
  <1>2. r \in PoRecord /\ r.state = "pending"
    <2> HIDE DEF v
    <2> QED
      BY <1>1, PoIdleType, PoStamped DEF PoBlank, PoStates
  <1>3. poResource' \in BOOLEAN /\ poMessages' \subseteq 1 .. PoMaxVersions
        /\ UNCHANGED <<poMessages, poBundle, poLosses>>
        /\ poRecord \in PoRecord \cup {PoNone} /\ poVersion \in 0 .. PoMaxVersions
    BY DEF PoCreate, PoInv, PoTypeOK
  <1>4. CASE poRecord = PoNone
    <2>1. poRecord' = r /\ poVersion' = v /\ poCall' = [poCall EXCEPT ![c].pc = "execute", ![c].base = r]
      BY <1>4 DEF PoCreate
    <2> HIDE DEF r, v
    <2> QED
      BY <1>1, <1>2, <1>3, <2>1, PoReads
  <1>5. CASE poRecord # PoNone
    <2>1. UNCHANGED <<poRecord, poVersion>> /\ poCall' = [poCall EXCEPT ![c] = PoIdle]
      BY <1>5 DEF PoCreate
    <2> QED
      BY <1>3, <2>1, PoStops
  <1> QED
    BY <1>4, <1>5

LEMMA PoReopenInv ==
  ASSUME PoInv, NEW c \in PoCalls, PoReopen(c)
  PROVE  PoInv'
  <1> DEFINE v == poVersion + 1
             base == poCall[c].base
             r == [base EXCEPT !.state = "pending", !.version = v]
  <1>1. v \in 1 .. PoMaxVersions /\ v \in 0 .. PoMaxVersions
    BY PoNextVersion DEF PoReopen
  <1>2. r \in PoRecord /\ r.state = "pending"
    <2>1. base \in PoRecord /\ "pending" \in PoStates
      BY PoTypes DEF PoStates
    <2> HIDE DEF v, base
    <2> QED
      BY <1>1, <2>1, PoReopened
  <1>3. poResource' \in BOOLEAN /\ poMessages' \subseteq 1 .. PoMaxVersions
        /\ UNCHANGED <<poMessages, poBundle, poLosses>>
        /\ poRecord \in PoRecord \cup {PoNone} /\ poVersion \in 0 .. PoMaxVersions
    BY DEF PoReopen, PoInv, PoTypeOK
  <1>4. CASE poRecord = poCall[c].base
    <2>1. poRecord' = r /\ poVersion' = v /\ poCall' = [poCall EXCEPT ![c].pc = "execute", ![c].base = r]
      BY <1>4 DEF PoReopen
    <2> HIDE DEF r, v
    <2> QED
      BY <1>1, <1>2, <1>3, <2>1, PoReads
  <1>5. CASE poRecord # poCall[c].base
    <2>1. UNCHANGED <<poRecord, poVersion>> /\ poCall' = [poCall EXCEPT ![c] = PoIdle]
      BY <1>5 DEF PoReopen
    <2> QED
      BY <1>3, <2>1, PoStops
  <1> QED
    BY <1>4, <1>5

LEMMA PoEndPutInv ==
  ASSUME PoInv, NEW c \in PoCalls, PoEndPut(c)
  PROVE  PoInv'
  <1> DEFINE v == poVersion + 1
             r == [poCall[c].next EXCEPT !.version = v]
  <1>1. v \in 1 .. PoMaxVersions /\ v \in 0 .. PoMaxVersions
    BY PoNextVersion DEF PoEndPut, PoPut
  <1>2. r \in PoRecord
    <2>1. poCall[c].next \in PoRecord /\ "pending" \in PoStates
      BY PoTypes DEF PoStates
    <2> HIDE DEF v
    <2> QED
      BY <1>1, <2>1, PoStamped
  <1>3. poResource' \in BOOLEAN /\ poMessages' \subseteq 1 .. PoMaxVersions
        /\ UNCHANGED <<poBundle, poLosses>> /\ poCall' = [poCall EXCEPT ![c] = PoIdle]
        /\ poRecord \in PoRecord \cup {PoNone} /\ poVersion \in 0 .. PoMaxVersions
    BY DEF PoEndPut, PoInv, PoTypeOK
  <1>4. poRecord' \in {r, poRecord} /\ poVersion' \in {v, poVersion}
    BY DEF PoEndPut, PoPut
  <1> HIDE DEF r, v
  <1>5. poRecord' \in PoRecord \cup {PoNone} /\ poVersion' \in 0 .. PoMaxVersions
    BY <1>1, <1>2, <1>3, <1>4
  <1> QED
    BY <1>3, <1>5, PoStops

\* run, resume, the start of a callback and of a cleanup, and an accepted call.
LEMMA PoBeginInv ==
  ASSUME PoInv, NEW c \in PoCalls,
         PoRun(c) \/ PoResume(c) \/ PoCleanup(c) \/ PoAccepted(c) \/ \E v \in poMessages : PoCallback(c, v)
  PROVE  PoInv'
  <1>1. poCall[c].base \in PoRecord /\ poCall[c] \in PoCallRecord /\ poCall \in [PoCalls -> PoCallRecord]
        /\ PoCallSound(poCall[c])
    BY PoTypes
  <1>2. UNCHANGED <<poRecord, poMessages, poVersion, poBundle, poLosses>> /\ poResource' \in BOOLEAN
    BY DEF PoRun, PoResume, PoCleanup, PoAccepted, PoCallback, PoInv, PoTypeOK
  <1>3. poRecord' \in PoRecord \cup {PoNone} /\ poVersion' \in 0 .. PoMaxVersions
    BY <1>2 DEF PoInv, PoTypeOK
  <1>4. CASE PoRun(c)
    <2>1. poCall' = [poCall EXCEPT ![c].pc = "create", ![c].base = poCall[c].base]
      BY <1>1, <1>4 DEF PoRun, PoCallRecord
    <2> QED
      BY <1>1, <1>2, <1>3, <2>1, PoReads
  <1>5. CASE PoAccepted(c)
    <2>1. poCall' = [poCall EXCEPT ![c].pc = "readback", ![c].base = poCall[c].base]
          /\ poCall[c].pc = "execute"
      BY <1>1, <1>5 DEF PoAccepted, PoCallRecord
    <2>2. poCall[c].base.state = "pending"
      BY <1>1, <2>1 DEF PoCallSound
    <2> QED
      BY <1>1, <1>2, <1>3, <2>1, <2>2, PoReads
  <1>6. CASE PoResume(c)
    <2> DEFINE pc == IF poRecord.state = "pending" THEN "execute" ELSE "reopen"
    <2>1. poRecord \in PoRecord /\ poCall' = [poCall EXCEPT ![c].pc = pc, ![c].base = poRecord]
      BY <1>6, PoTypes DEF PoResume
    <2>2. /\ pc \in {"execute", "reopen"}
          /\ pc \in {"execute", "readback"} => poRecord.state = "pending"
          /\ pc = "reopen" => poRecord.state # "succeeded"
      BY <1>6 DEF PoResume, PoResumable
    <2> HIDE DEF pc
    <2> QED
      BY <1>2, <1>3, <2>1, <2>2, PoReads
  <1>7. CASE PoCleanup(c)
    <2>1. poRecord \in PoRecord /\ poCall' = [poCall EXCEPT ![c].pc = "cleanup", ![c].base = poRecord]
      BY <1>7, PoTypes DEF PoCleanup
    <2> QED
      BY <1>2, <1>3, <2>1, PoReads
  <1>8. CASE \E v \in poMessages : PoCallback(c, v)
    <2>1. poRecord \in PoRecord /\ poCall' = [poCall EXCEPT ![c].pc = "callback", ![c].base = poRecord]
      BY <1>8, PoTypes DEF PoCallback
    <2> QED
      BY <1>2, <1>3, <2>1, PoReads
  <1> QED
    BY <1>4, <1>5, <1>6, <1>7, <1>8

\* The outcomes that a call is about to write.
LEMMA PoOutcomeInv ==
  ASSUME PoInv, NEW c \in PoCalls,
         \/ PoDeferred(c) \/ PoAcceptCallback(c)
         \/ \E state \in PoStates, made \in BOOLEAN : PoFailed(c, state, made)
         \/ \E b \in BOOLEAN : PoReadBack(c, b) \/ PoCleaned(c, b)
  PROVE  PoInv'
  <1> DEFINE base == poCall[c].base
  <1>1. base \in PoRecord /\ PoCallSound(poCall[c])
        /\ {"pending", "succeeded", "degraded", "blocked", "revoked", "indeterminate"} = PoStates
    BY PoTypes, PoAssumption DEF PoStates
  <1>2. /\ UNCHANGED <<poRecord, poVersion, poBundle, poLosses>> /\ poResource' \in BOOLEAN
        /\ poMessages' = poMessages \/ PoDeferred(c)
        /\ poMessages \subseteq 1 .. PoMaxVersions
    BY DEF PoDeferred, PoAcceptCallback, PoFailed, PoReadBack, PoCleaned, PoInv, PoTypeOK
  <1>3. ASSUME NEW state \in PoStates, NEW made \in BOOLEAN, PoFailed(c, state, made) PROVE PoInv'
    <2>1. base.state = "pending" /\ PoWillPut(c, [base EXCEPT !.state = state]) /\ UNCHANGED poMessages
      BY <1>1, <1>3 DEF PoFailed, PoCallSound
    <2>2. [base EXCEPT !.state = state] \in PoRecord
      BY <1>1, PoStated
    <2> QED
      BY <1>2, <2>1, <2>2, PoWillPutInv
  <1>4. CASE PoDeferred(c)
    <2> DEFINE v == base.version
    <2>1. base.state = "pending" /\ PoWillPut(c, [base EXCEPT !.state = "indeterminate", !.callback = v])
          /\ poMessages' = poMessages \cup {v}
      BY <1>1, <1>4 DEF PoDeferred, PoCallSound
    <2>2. v \in 1 .. PoMaxVersions
      BY <1>1 DEF PoRecord
    <2> HIDE DEF v
    <2>3. [base EXCEPT !.state = "indeterminate", !.callback = v] \in PoRecord
      BY <1>1, <2>2, PoAwaits
    <2> QED
      BY <1>2, <2>1, <2>2, <2>3, PoWillPutInv
  <1>5. ASSUME NEW b \in BOOLEAN, PoReadBack(c, b) PROVE PoInv'
    <2> DEFINE state == IF poResource /\ b THEN "succeeded" ELSE "indeterminate"
    <2>1. base.state = "pending" /\ PoWillPut(c, [base EXCEPT !.state = state]) /\ UNCHANGED poMessages
      BY <1>1, <1>5 DEF PoReadBack, PoCallSound
    <2>2. state \in PoStates
      BY <1>1
    <2> HIDE DEF state
    <2>3. [base EXCEPT !.state = state] \in PoRecord
      BY <1>1, <2>2, PoStated
    <2> QED
      BY <1>2, <2>1, <2>3, PoWillPutInv
  <1>6. CASE PoAcceptCallback(c)
    <2>1. UNCHANGED poMessages
      BY <1>6 DEF PoAcceptCallback
    <2>2. [base EXCEPT !.state = "succeeded"] \in PoRecord /\ [base EXCEPT !.state = "succeeded"].state = "succeeded"
      BY <1>1, PoStated
    <2>3. CASE poResource
      BY <1>2, <1>6, <2>1, <2>2, <2>3, PoWillPutInv DEF PoAcceptCallback
    <2>4. CASE ~ poResource
      <3>1. poCall' = [poCall EXCEPT ![c] = PoIdle]
        BY <1>6, <2>4 DEF PoAcceptCallback
      <3>2. poRecord' \in PoRecord \cup {PoNone} /\ poVersion' \in 0 .. PoMaxVersions
        BY <1>2 DEF PoInv, PoTypeOK
      <3> QED
        BY <1>2, <2>1, <3>1, <3>2, PoStops
    <2> QED
      BY <2>3, <2>4
  <1>7. ASSUME NEW b \in BOOLEAN, PoCleaned(c, b) PROVE PoInv'
    <2>1. PoWillPut(c, [base EXCEPT !.cleaned = b]) /\ UNCHANGED poMessages
      BY <1>7 DEF PoCleaned
    <2>2. [base EXCEPT !.cleaned = b] \in PoRecord /\ [base EXCEPT !.cleaned = b].state = base.state
      BY <1>1 DEF PoRecord
    <2> QED
      BY <1>2, <2>1, <2>2, PoWillPutInv
  <1> QED
    BY <1>3, <1>4, <1>5, <1>6, <1>7

LEMMA PoStepInv ==
  ASSUME PoInv, [PoNext]_poVars
  PROVE  PoInv'
  <1>1. ASSUME NEW c \in PoCalls,
               \/ PoRun(c) \/ PoResume(c) \/ PoCleanup(c) \/ PoAccepted(c)
               \/ \E v \in poMessages : PoCallback(c, v)
        PROVE  PoInv'
    BY <1>1, PoBeginInv
  <1>2. ASSUME NEW c \in PoCalls, PoCreate(c) \/ PoReopen(c) \/ PoEndPut(c) PROVE PoInv'
    BY <1>2, PoCreateInv, PoReopenInv, PoEndPutInv
  <1>3. ASSUME NEW c \in PoCalls,
               \/ PoDeferred(c) \/ PoAcceptCallback(c)
               \/ \E state \in PoStates, made \in BOOLEAN : PoFailed(c, state, made)
               \/ \E b \in BOOLEAN : PoReadBack(c, b) \/ PoCleaned(c, b)
        PROVE  PoInv'
    BY <1>3, PoOutcomeInv
  <1>4. CASE PoExport
    <2>1. poBundle' = poRecord /\ UNCHANGED <<poRecord, poResource, poCall, poMessages, poVersion, poLosses>>
      BY <1>4 DEF PoExport
    <2> QED
      BY <2>1 DEF PoInv, PoTypeOK, PoCallSound
  <1>5. CASE PoLose
    <2>1. poRecord' = PoNone /\ poCall' = [c \in PoCalls |-> PoIdle] /\ poLosses' = poLosses + 1
          /\ poLosses < PoMaxLosses /\ UNCHANGED <<poResource, poMessages, poVersion, poBundle>>
      BY <1>5 DEF PoLose
    <2>2. poLosses' \in 0 .. PoMaxLosses
      BY <2>1, PoAssumption DEF PoInv, PoTypeOK
    <2>3. PoTypeOK'
      BY <2>1, <2>2, PoIdleType DEF PoInv, PoTypeOK
    <2>4. \A c \in PoCalls : PoCallSound(poCall'[c])
      BY <2>1, PoIdleType
    <2> QED
      BY <2>3, <2>4 DEF PoInv, PoCallSound
  <1>6. CASE PoRestore
    <2>1. poRecord' = poBundle /\ UNCHANGED <<poResource, poCall, poMessages, poVersion, poBundle, poLosses>>
      BY <1>6 DEF PoRestore
    <2> QED
      BY <2>1 DEF PoInv, PoTypeOK, PoCallSound
  <1>7. CASE UNCHANGED poVars
    BY <1>7 DEF poVars, PoInv, PoTypeOK, PoCallSound
  <1> QED
    BY <1>1, <1>2, <1>3, <1>4, <1>5, <1>6, <1>7 DEF PoNext

LEMMA PoInitInv == PoInit => PoInv
  <1>1. 0 \in 0 .. PoMaxVersions /\ 0 \in 0 .. PoMaxLosses
    BY PoAssumption
  <1> QED
    BY <1>1, PoIdleType DEF PoInit, PoInv, PoTypeOK

LEMMA PoAlwaysInv == PoSpec => []PoInv
  BY PoInitInv, PoStepInv, PTL DEF PoSpec

\* The record, the calls and the bundle keep their types.
THEOREM PoTypeCorrect == PoSpec => []PoTypeOK
  <1>1. PoInv => PoTypeOK
    BY DEF PoInv
  <1> QED
    BY <1>1, PoAlwaysInv, PTL

\* The success of the record survives every step that does not lose the store.
LEMMA PoStepKeepsSuccess ==
  ASSUME PoInv, [PoNext]_poVars, poRecord # PoNone, poRecord.state = "succeeded", poLosses' = poLosses
  PROVE  poRecord' # PoNone /\ poRecord'.state = "succeeded"
  <1>1. ASSUME NEW c \in PoCalls, PoEndPut(c) PROVE poRecord' # PoNone /\ poRecord'.state = "succeeded"
    <2>1. poCall[c].next \in PoRecord /\ PoCallSound(poCall[c]) /\ poCall[c].pc = "put"
      BY <1>1, PoTypes DEF PoEndPut
    <2>2. CASE poRecord = poCall[c].base
      <3> DEFINE v == poVersion + 1
      <3>1. poRecord' = [poCall[c].next EXCEPT !.version = v]
        BY <1>1, <2>2 DEF PoEndPut, PoPut
      <3>2. poCall[c].next.state = "succeeded"
        BY <2>1, <2>2 DEF PoCallSound
      <3>3. v \in 1 .. PoMaxVersions /\ "pending" \in PoStates
        BY <1>1, PoNextVersion DEF PoEndPut, PoPut, PoStates
      <3> HIDE DEF v
      <3>4. poRecord' \in PoRecord /\ poRecord'.state = "succeeded"
        BY <2>1, <3>1, <3>2, <3>3, PoStamped
      <3> QED
        BY <3>4, PoNoneAssumption
    <2>3. CASE poRecord # poCall[c].base
      BY <1>1, <2>3 DEF PoEndPut, PoPut
    <2> QED
      BY <2>2, <2>3
  <1>2. ASSUME NEW c \in PoCalls, PoCreate(c) PROVE poRecord' # PoNone /\ poRecord'.state = "succeeded"
    BY <1>2 DEF PoCreate
  <1>3. ASSUME NEW c \in PoCalls, PoReopen(c) PROVE poRecord' # PoNone /\ poRecord'.state = "succeeded"
    <2>1. poCall[c].pc = "reopen" /\ PoCallSound(poCall[c])
      BY <1>3, PoTypes DEF PoReopen
    <2>2. poRecord # poCall[c].base
      BY <2>1 DEF PoCallSound
    <2> QED
      BY <1>3, <2>2 DEF PoReopen
  <1>4. ASSUME NEW c \in PoCalls,
               \/ PoRun(c) \/ PoResume(c) \/ PoCleanup(c) \/ PoAccepted(c)
               \/ \E v \in poMessages : PoCallback(c, v)
        PROVE  poRecord' = poRecord
    BY <1>4 DEF PoRun, PoResume, PoCleanup, PoAccepted, PoCallback
  <1>5. ASSUME NEW c \in PoCalls,
               \/ PoDeferred(c) \/ PoAcceptCallback(c)
               \/ \E state \in PoStates, made \in BOOLEAN : PoFailed(c, state, made)
               \/ \E b \in BOOLEAN : PoReadBack(c, b) \/ PoCleaned(c, b)
        PROVE  poRecord' = poRecord
    BY <1>5 DEF PoDeferred, PoAcceptCallback, PoFailed, PoReadBack, PoCleaned
  <1>6. CASE PoExport \/ UNCHANGED poVars
    BY <1>6 DEF PoExport, poVars
  <1>7. CASE PoLose
    <2>1. poLosses \in Nat
      BY PoAssumption DEF PoInv, PoTypeOK
    <2> QED
      BY <1>7, <2>1 DEF PoLose
  <1>8. CASE PoRestore
    BY <1>8 DEF PoRestore
  <1> QED
    BY <1>1, <1>2, <1>3, <1>4, <1>5, <1>6, <1>7, <1>8 DEF PoNext

\* A succeeded operation stays succeeded, whatever other attempts, callbacks,
\* cleanups and restores write late, while the store is not lost
\* (CustomerProviderQualificationCoordinator).
THEOREM PoSucceededStaysCorrect == PoSpec => PoSucceededStays
  BY PoAlwaysInv, PoStepKeepsSuccess, PTL DEF PoSpec, PoSucceededStays

-----------------------------------------------------------------------------
(* The GitHub Actions bridge *)

\* A capability's token is claimed; a claim may be left out of a snapshot once
\* its token has expired, and then no exchange is left that has read it.
BrClaimSound ==
  \A k \in brCapabilities :
    \/ k.token \in brClaims
    \/ k.token \in brExpired /\ \A e \in BrExchanges : brExchange[e].pc = "digest" => brExchange[e].token # k.token

BrOncePerToken(capabilities) == \A k, l \in capabilities : k.token = l.token => k = l

\* The snapshots can be started from.
BrSavedSound ==
  /\ BrOncePerToken(brSaved.capabilities)
  /\ \A k \in brSaved.capabilities : k.token \in brSaved.claims \cup brExpired
  /\ brAcked \subseteq brSaved.completed

\* An exchange that has read the connection has a token.
BrExchangeSound(x) == x.pc = "digest" => x.token \in BrTokens

\* A job under way has an operation; what it imports it alone has claimed and
\* nobody completed, and what it has done is completed.
BrJobSound(j) ==
  /\ brJob[j].pc # "idle" => brJob[j].op \in BrOperations
  /\ brJob[j].pc = "imported" =>
       /\ BrEntry(j) \in brInFlight /\ BrEntry(j) \notin brCompleted /\ brJob[j].kind # "outbound"
       /\ \A i \in BrJobs : i # j /\ brJob[i].pc = "imported" => BrEntry(i) # BrEntry(j)
  /\ brJob[j].done = TRUE => BrEntry(j) \in brCompleted

BrInv ==
  /\ BrTypeOK /\ BrOncePerToken(brCapabilities) /\ BrClaimSound /\ BrSavedSound
  /\ brAcked \subseteq brCompleted
  /\ \A e \in BrExchanges : BrExchangeSound(brExchange[e])
  /\ \A j \in BrJobs : BrJobSound(j)

-----------------------------------------------------------------------------

LEMMA BrTypes ==
  ASSUME BrInv
  PROVE  /\ brConnection \in BrConnection /\ brSaved \in BrSnapshot
         /\ brExchange \in [BrExchanges -> BrExchangeRecord] /\ brJob \in [BrJobs -> BrJobRecord]
         /\ \A e \in BrExchanges : brExchange[e] \in BrExchangeRecord /\ BrExchangeSound(brExchange[e])
         /\ \A j \in BrJobs : brJob[j] \in BrJobRecord /\ BrJobSound(j)
  BY DEF BrInv, BrTypeOK

LEMMA BrIdles ==
  /\ BrIdleExchange \in BrExchangeRecord /\ BrIdleJob \in BrJobRecord
  /\ BrNoConnection \in BrConnection
  /\ BrIdleExchange.pc = "idle" /\ BrIdleJob.pc = "idle" /\ BrIdleJob.done = FALSE
  <1>1. BrNoConnection \in BrConnection
    BY DEF BrNoConnection, BrConnection
  <1> QED
    BY <1>1 DEF BrIdleExchange, BrIdleJob, BrExchangeRecord, BrJobRecord, BrKinds

\* The entry of a job under way is one of a ledger.
LEMMA BrEntryIs ==
  ASSUME BrInv, NEW j \in BrJobs, brJob[j].pc # "idle"
  PROVE  BrEntry(j) \in BrEntries
  <1>1. brJob[j].op \in BrOperations
    BY BrTypes DEF BrJobSound
  <1>2. BrLedger(brJob[j].kind) \in {"import", "outbound"}
    BY DEF BrLedger
  <1> QED
    BY <1>1, <1>2 DEF BrEntry, BrEntries

\* A step on the connection, an exchange or the clock leaves the jobs alone.
BrJobsKeep == UNCHANGED <<brJob, brInFlight, brCompleted, brAcked>>
BrExchangesKeep == UNCHANGED <<brConnection, brClaims, brCapabilities, brExchange, brExpired>>

LEMMA BrJobsStaySound ==
  ASSUME BrInv, BrJobsKeep
  PROVE  /\ (\A j \in BrJobs : BrJobSound(j))' /\ (brAcked \subseteq brCompleted)'
         /\ brJob' \in [BrJobs -> BrJobRecord] /\ brInFlight' \subseteq BrEntries /\ brCompleted' \subseteq BrEntries
         /\ brAcked' \subseteq BrEntries
  BY DEF BrInv, BrTypeOK, BrJobsKeep, BrJobSound, BrEntry

\* snapshot and put of sound claims and capabilities.
LEMMA BrPersistSound ==
  ASSUME BrInv, NEW connection \in BrConnection, BrPersist(connection, brClaims, brCapabilities),
         UNCHANGED <<brExpired, brAcked>>
  PROVE  brSaved' \in BrSnapshot /\ BrSavedSound'
  <1>1. brSaved \in BrSnapshot /\ brClaims \subseteq BrTokens /\ brCapabilities \subseteq BrCapability
    BY DEF BrInv, BrTypeOK
  <1> DEFINE q == [brSaved EXCEPT !.connection = connection, !.capabilities = brCapabilities,
                                  !.claims = brClaims \ brExpired]
  <1>2. brSaved' = q
    BY DEF BrPersist
  <1>3. /\ q \in BrSnapshot /\ q.capabilities = brCapabilities /\ q.claims = brClaims \ brExpired
        /\ q.completed = brSaved.completed
    BY <1>1 DEF BrSnapshot
  <1> HIDE DEF q
  <1>4. \A k \in brCapabilities : k.token \in brClaims \cup brExpired
    BY DEF BrInv, BrClaimSound
  <1> QED
    BY <1>2, <1>3, <1>4 DEF BrInv, BrSavedSound

\* One exchange moves, but not to read the connection.
LEMMA BrExchangeMoves ==
  ASSUME BrInv, NEW e \in BrExchanges, NEW pc \in {"persist", "done"},
         brExchange' = [brExchange EXCEPT ![e].pc = pc]
  PROVE  /\ brExchange' \in [BrExchanges -> BrExchangeRecord]
         /\ \A d \in BrExchanges : BrExchangeSound(brExchange'[d])
         /\ \A d \in BrExchanges : brExchange'[d].pc = "digest" =>
              d # e /\ brExchange[d].pc = "digest" /\ brExchange'[d].token = brExchange[d].token
  <1> DEFINE x == [brExchange[e] EXCEPT !.pc = pc]
  <1>1. brExchange[e] \in BrExchangeRecord /\ brExchange' = [brExchange EXCEPT ![e] = x]
    BY BrTypes
  <1>2. x \in BrExchangeRecord /\ x.pc = pc
    BY <1>1 DEF BrExchangeRecord
  <1> HIDE DEF x
  <1> QED
    BY <1>1, <1>2, BrTypes DEF BrExchangeSound

-----------------------------------------------------------------------------

LEMMA BrConnectionInv ==
  ASSUME BrInv, BrCreateConnection \/ BrRevokeConnection
  PROVE  BrInv'
  <1>1. /\ BrPersist(brConnection', brClaims, brCapabilities) /\ BrJobsKeep
        /\ UNCHANGED <<brClaims, brCapabilities, brExchange, brExpired, brAcked, brRestarts>>
    BY DEF BrCreateConnection, BrRevokeConnection, BrJobsKeep
  <1>2. brConnection' \in BrConnection
    BY BrTypes DEF BrCreateConnection, BrRevokeConnection, BrConnection
  <1>3. brSaved' \in BrSnapshot /\ BrSavedSound'
    BY <1>1, <1>2, BrPersistSound
  <1>4. BrTypeOK'
    BY <1>1, <1>2, <1>3, BrJobsStaySound DEF BrInv, BrTypeOK
  <1>5. BrClaimSound'
    BY <1>1 DEF BrInv, BrClaimSound
  <1>6. (BrOncePerToken(brCapabilities) /\ \A e \in BrExchanges : BrExchangeSound(brExchange[e]))'
    BY <1>1 DEF BrInv
  <1> QED
    BY <1>1, <1>3, <1>4, <1>5, <1>6, BrJobsStaySound DEF BrInv

\* An exchange that ends in the connection alone.
LEMMA BrCloseInv ==
  ASSUME BrInv, NEW e \in BrExchanges, brConnection' \in BrConnection,
         brExchange' = [brExchange EXCEPT ![e].pc = "persist"], BrJobsKeep,
         UNCHANGED <<brClaims, brCapabilities, brSaved, brExpired, brRestarts>>
  PROVE  BrInv'
  <1>1. BrTypeOK'
    BY BrExchangeMoves, BrJobsStaySound DEF BrInv, BrTypeOK
  <1>2. BrClaimSound'
    BY BrExchangeMoves DEF BrInv, BrClaimSound
  <1>3. BrSavedSound'
    BY DEF BrInv, BrSavedSound, BrJobsKeep
  <1>4. (BrOncePerToken(brCapabilities) /\ \A d \in BrExchanges : BrExchangeSound(brExchange[d]))'
    BY BrExchangeMoves DEF BrInv
  <1> QED
    BY <1>1, <1>2, <1>3, <1>4, BrJobsStaySound DEF BrInv

LEMMA BrFindExpiredInv ==
  ASSUME BrInv, NEW e \in BrExchanges, BrFindExpired(e)
  PROVE  BrInv'
  <1>1. brConnection' \in BrConnection
    BY BrTypes DEF BrFindExpired, BrConnection
  <1> QED
    BY <1>1, BrCloseInv DEF BrFindExpired, BrJobsKeep

LEMMA BrWorkflowChangedInv ==
  ASSUME BrInv, NEW e \in BrExchanges, NEW c, BrWorkflowChanged(e, c)
  PROVE  BrInv'
  <1>1. brConnection' \in BrConnection
    BY BrTypes DEF BrWorkflowChanged, BrConnection
  <1> QED
    BY <1>1, BrCloseInv DEF BrWorkflowChanged, BrJobsKeep

LEMMA BrReplayedInv ==
  ASSUME BrInv, NEW e \in BrExchanges, BrReplayed(e)
  PROVE  BrInv'
  <1>1. brConnection' \in BrConnection
    BY BrTypes DEF BrReplayed, brMemory
  <1> QED
    BY <1>1, BrCloseInv DEF BrReplayed, BrJobsKeep, brMemory

LEMMA BrReadConnectionInv ==
  ASSUME BrInv, NEW e \in BrExchanges, NEW c \in BrClaimed, NEW kind \in BrKinds, BrReadConnection(e, c, kind)
  PROVE  BrInv'
  <1> DEFINE x == [pc |-> "digest", read |-> brConnection, token |-> c.token, kind |-> kind]
  <1>1. /\ brExchange' = [brExchange EXCEPT ![e] = x] /\ BrJobsKeep /\ c.token \notin brExpired
        /\ UNCHANGED <<brConnection, brClaims, brCapabilities, brSaved, brExpired, brRestarts>>
    BY DEF BrReadConnection, BrClaimsHold, BrJobsKeep, brMemory
  <1>2. c.token \in BrTokens
    BY DEF BrClaimed
  <1>3. x \in BrExchangeRecord /\ x.token = c.token /\ BrExchangeSound(x)
    BY <1>2, BrTypes DEF BrExchangeRecord, BrExchangeSound
  <1> HIDE DEF x
  <1>4. BrTypeOK'
    BY <1>1, <1>3, BrJobsStaySound DEF BrInv, BrTypeOK
  <1>5. \A d \in BrExchanges : brExchange'[d] = IF d = e THEN x ELSE brExchange[d]
    BY <1>1, BrTypes
  <1>6. BrClaimSound'
    BY <1>1, <1>3, <1>5 DEF BrInv, BrClaimSound
  <1>7. BrSavedSound'
    BY <1>1 DEF BrInv, BrSavedSound, BrJobsKeep
  <1>8. (BrOncePerToken(brCapabilities) /\ \A d \in BrExchanges : BrExchangeSound(brExchange[d]))'
    BY <1>1, <1>3, <1>5, BrTypes DEF BrInv
  <1> QED
    BY <1>1, <1>4, <1>6, <1>7, <1>8, BrJobsStaySound DEF BrInv

LEMMA BrGrantInv ==
  ASSUME BrInv, NEW e \in BrExchanges, BrGrant(e)
  PROVE  BrInv'
  <1> DEFINE x == brExchange[e]
             k == [id |-> e, token |-> x.token, kind |-> x.kind]
  <1>1. /\ x.pc = "digest" /\ x.token \notin brClaims /\ brClaims' = brClaims \cup {x.token}
        /\ brCapabilities' = brCapabilities \cup {k}
        /\ brExchange' = [brExchange EXCEPT ![e].pc = "persist"] /\ BrJobsKeep
        /\ UNCHANGED <<brSaved, brExpired, brRestarts>>
    BY DEF BrGrant, BrJobsKeep
  <1>2. x \in BrExchangeRecord /\ x.token \in BrTokens
    BY <1>1, BrTypes DEF BrExchangeSound
  <1>3. k \in BrCapability /\ k.token = x.token
    BY <1>2 DEF BrCapability, BrExchangeRecord
  <1> HIDE DEF k
  <1>4. brConnection' \in BrConnection
    <2>1. x.read \in BrConnection
      BY <1>2 DEF BrExchangeRecord
    <2>2. [status |-> "active", sha |-> BrShaOf[x.token]] \in BrConnection
      BY <1>2 DEF BrConnection, BrShas
    <2> QED
      BY <2>1, <2>2 DEF BrGrant
  <1>5. BrTypeOK'
    BY <1>1, <1>2, <1>3, <1>4, BrExchangeMoves, BrJobsStaySound DEF BrInv, BrTypeOK
  <1>6. \A l \in brCapabilities : l.token # x.token
    BY <1>1 DEF BrInv, BrClaimSound
  <1>7. BrOncePerToken(brCapabilities)'
    BY <1>1, <1>3, <1>6 DEF BrInv, BrOncePerToken
  <1>8. BrClaimSound'
    BY <1>1, <1>3, BrExchangeMoves DEF BrInv, BrClaimSound
  <1>9. BrSavedSound'
    BY <1>1 DEF BrInv, BrSavedSound, BrJobsKeep
  <1> QED
    BY <1>1, <1>5, <1>7, <1>8, <1>9, BrExchangeMoves, BrJobsStaySound DEF BrInv

LEMMA BrPersistExchangeInv ==
  ASSUME BrInv, NEW e \in BrExchanges, BrPersistExchange(e)
  PROVE  BrInv'
  <1>1. /\ BrPersist(brConnection, brClaims, brCapabilities) /\ BrJobsKeep
        /\ brExchange' = [brExchange EXCEPT ![e].pc = "done"]
        /\ UNCHANGED <<brConnection, brClaims, brCapabilities, brExpired, brAcked, brRestarts>>
    BY DEF BrPersistExchange, brMemory, BrJobsKeep
  <1>2. brSaved' \in BrSnapshot /\ BrSavedSound'
    BY <1>1, BrTypes, BrPersistSound
  <1>3. BrTypeOK'
    BY <1>1, <1>2, BrExchangeMoves, BrJobsStaySound DEF BrInv, BrTypeOK
  <1>4. BrClaimSound'
    BY <1>1, BrExchangeMoves DEF BrInv, BrClaimSound
  <1>5. (BrOncePerToken(brCapabilities) /\ \A d \in BrExchanges : BrExchangeSound(brExchange[d]))'
    BY <1>1, BrExchangeMoves DEF BrInv
  <1> QED
    BY <1>1, <1>2, <1>3, <1>4, <1>5, BrJobsStaySound DEF BrInv

LEMMA BrExpireInv ==
  ASSUME BrInv, NEW t \in BrTokens, BrExpire(t)
  PROVE  BrInv'
  <1>1. /\ brExpired' = brExpired \cup {t} /\ BrJobsKeep
        /\ UNCHANGED <<brConnection, brClaims, brCapabilities, brExchange, brSaved, brRestarts>>
    BY DEF BrExpire, brMemory, BrJobsKeep
  <1>2. BrTypeOK'
    BY <1>1, BrJobsStaySound DEF BrInv, BrTypeOK
  <1>3. BrClaimSound' /\ BrSavedSound'
    BY <1>1 DEF BrInv, BrClaimSound, BrSavedSound, BrJobsKeep
  <1> QED
    BY <1>1, <1>2, <1>3, BrJobsStaySound DEF BrInv

-----------------------------------------------------------------------------

\* A step of one job.
LEMMA BrJobMoves ==
  ASSUME BrInv, NEW j \in BrJobs, NEW x \in BrJobRecord, brJob' = [brJob EXCEPT ![j] = x], BrExchangesKeep,
         UNCHANGED brRestarts, brSaved' \in BrSnapshot, BrSavedSound',
         brInFlight' \subseteq BrEntries, brCompleted' \subseteq BrEntries, brAcked' \subseteq brCompleted',
         \A i \in BrJobs : i # j /\ brJob[i].pc = "imported" =>
           (BrEntry(i) \in brInFlight' /\ BrEntry(i) \notin brCompleted'),
         brCompleted \subseteq brCompleted',
         x.pc # "idle" => x.op \in BrOperations,
         x.done = TRUE => <<BrLedger(x.kind), x.op>> \in brCompleted',
         x.pc = "imported" =>
           /\ <<BrLedger(x.kind), x.op>> \in brInFlight' /\ <<BrLedger(x.kind), x.op>> \notin brCompleted'
           /\ x.kind # "outbound"
           /\ \A i \in BrJobs : i # j /\ brJob[i].pc = "imported" => BrEntry(i) # <<BrLedger(x.kind), x.op>>
  PROVE  BrInv'
  <1>1. brJob'[j] = x /\ BrEntry(j)' = <<BrLedger(x.kind), x.op>>
        /\ \A i \in BrJobs : i # j => brJob'[i] = brJob[i] /\ BrEntry(i)' = BrEntry(i)
    BY BrTypes DEF BrEntry
  <1>2. BrTypeOK'
    BY DEF BrInv, BrTypeOK, BrExchangesKeep
  <1>3. BrJobSound(j)'
    BY <1>1 DEF BrJobSound
  <1>4. ASSUME NEW i \in BrJobs, i # j PROVE BrJobSound(i)'
    <2>1. brJob'[i] = brJob[i] /\ BrEntry(i)' = BrEntry(i) /\ BrJobSound(i)
      BY <1>1, <1>4, BrTypes
    <2>2. brJob'[i].pc = "imported" => BrEntry(i)' \in brInFlight' /\ BrEntry(i)' \notin brCompleted'
      BY <1>4, <2>1
    <2>3. ASSUME NEW h \in BrJobs, h # i, brJob'[h].pc = "imported", brJob'[i].pc = "imported"
          PROVE  BrEntry(h)' # BrEntry(i)'
      <3>1. CASE h = j
        BY <1>1, <1>4, <2>1, <2>3, <3>1
      <3>2. CASE h # j
        BY <1>1, <2>1, <2>3, <3>2 DEF BrJobSound
      <3> QED
        BY <3>1, <3>2
    <2> QED
      BY <2>1, <2>2, <2>3 DEF BrJobSound
  <1>5. (BrOncePerToken(brCapabilities) /\ BrClaimSound /\ \A d \in BrExchanges : BrExchangeSound(brExchange[d]))'
    BY DEF BrInv, BrExchangesKeep, BrClaimSound
  <1> QED
    BY <1>2, <1>3, <1>4, <1>5 DEF BrInv

LEMMA BrSavedStays ==
  ASSUME BrInv, UNCHANGED <<brSaved, brExpired, brAcked>>
  PROVE  BrSavedSound' /\ brSaved' \in BrSnapshot
  BY BrTypes DEF BrInv, BrSavedSound

LEMMA BrPrepareInv ==
  ASSUME BrInv, NEW j \in BrJobs, NEW kind \in BrKinds, NEW op \in BrOperations, BrPrepare(j, kind, op)
  PROVE  BrInv'
  <1> DEFINE x == [pc |-> "prepared", kind |-> kind, op |-> op, done |-> FALSE]
  <1>1. /\ brJob' = [brJob EXCEPT ![j] = x] /\ BrExchangesKeep
        /\ UNCHANGED <<brInFlight, brCompleted, brSaved, brExpired, brAcked, brRestarts>>
    BY DEF BrPrepare, brMemory, BrExchangesKeep
  <1>2. x \in BrJobRecord /\ x.pc = "prepared" /\ x.op = op /\ x.done = FALSE
    BY DEF BrJobRecord
  <1> HIDE DEF x
  <1>3. brInFlight \subseteq BrEntries /\ brCompleted \subseteq BrEntries /\ brAcked \subseteq brCompleted
    BY DEF BrInv, BrTypeOK
  <1>4. \A i \in BrJobs : brJob[i].pc = "imported" => BrEntry(i) \in brInFlight /\ BrEntry(i) \notin brCompleted
    BY BrTypes DEF BrJobSound
  <1> QED
    BY <1>1, <1>2, <1>3, <1>4, BrSavedStays, BrJobMoves

\* One job goes on to "persist" with its operation, done or not.
LEMMA BrJobEnds ==
  ASSUME BrInv, NEW j \in BrJobs, brJob[j].pc # "idle", NEW x, x \in BrJobRecord,
         x.kind = brJob[j].kind, x.op = brJob[j].op, x.pc = "persist",
         brJob' = [brJob EXCEPT ![j] = x], BrExchangesKeep, UNCHANGED <<brSaved, brExpired, brAcked, brRestarts>>,
         \A i \in BrJobs : i # j /\ brJob[i].pc = "imported" =>
           (BrEntry(i) \in brInFlight' /\ BrEntry(i) \notin brCompleted'),
         brInFlight' \subseteq brInFlight, brCompleted' \in {brCompleted, brCompleted \cup {BrEntry(j)}},
         x.done = TRUE => BrEntry(j) \in brCompleted'
  PROVE  BrInv'
  <1>1. BrEntry(j) \in BrEntries /\ BrEntry(j) = <<BrLedger(x.kind), x.op>>
    BY BrEntryIs DEF BrEntry
  <1>2. brJob[j].op \in BrOperations
    BY BrTypes DEF BrJobSound
  <1>3. brInFlight' \subseteq BrEntries /\ brCompleted' \subseteq BrEntries /\ brAcked' \subseteq brCompleted'
    BY <1>1 DEF BrInv, BrTypeOK
  <1>4. x.pc # "idle" => x.op \in BrOperations
    BY <1>2
  <1>5. x.done = TRUE => <<BrLedger(x.kind), x.op>> \in brCompleted'
    BY <1>1
  <1>6. brCompleted \subseteq brCompleted'
    OBVIOUS
  <1> QED
    BY <1>3, <1>4, <1>5, <1>6, BrSavedStays, BrJobMoves

\* What the others import is untouched by what is done about this entry.
LEMMA BrOthersImport ==
  ASSUME BrInv, NEW i \in BrJobs, brJob[i].pc = "imported"
  PROVE  /\ BrEntry(i) \in brInFlight /\ BrEntry(i) \notin brCompleted
         /\ \A j \in BrJobs : i # j /\ brJob[j].pc = "imported" => BrEntry(i) # BrEntry(j)
         /\ \A j \in BrJobs : BrFree(j) => BrEntry(i) # BrEntry(j)
  BY BrTypes DEF BrJobSound, BrFree

LEMMA BrReplayedJobInv ==
  ASSUME BrInv, NEW j \in BrJobs, BrReplayedJob(j)
  PROVE  BrInv'
  <1> DEFINE x == [brJob[j] EXCEPT !.pc = "persist"]
  <1>1. /\ brJob[j].pc = "prepared" /\ brJob' = [brJob EXCEPT ![j] = x] /\ BrExchangesKeep
        /\ UNCHANGED <<brInFlight, brCompleted, brSaved, brExpired, brAcked, brRestarts>>
    BY BrTypes DEF BrReplayedJob, brMemory, BrExchangesKeep
  <1>2. brJob[j] \in BrJobRecord
    BY BrTypes
  <1>3. x \in BrJobRecord /\ x.kind = brJob[j].kind /\ x.op = brJob[j].op /\ x.pc = "persist" /\ x.done = brJob[j].done
    BY <1>2 DEF BrJobRecord
  <1> HIDE DEF x
  <1>4. x.done = TRUE => BrEntry(j) \in brCompleted
    BY <1>3, BrTypes DEF BrJobSound
  <1> QED
    BY <1>1, <1>3, <1>4, BrJobEnds, BrOthersImport

LEMMA BrClaimInv ==
  ASSUME BrInv, NEW j \in BrJobs, BrClaim(j)
  PROVE  BrInv'
  <1> DEFINE x == [brJob[j] EXCEPT !.pc = "imported"]
  <1>1. /\ brJob[j].pc = "prepared" /\ brJob' = [brJob EXCEPT ![j] = x] /\ BrExchangesKeep
        /\ brJob[j].kind # "outbound" /\ BrFree(j) /\ brInFlight' = brInFlight \cup {BrEntry(j)}
        /\ UNCHANGED <<brCompleted, brSaved, brExpired, brAcked, brRestarts>>
    BY BrTypes DEF BrClaim, BrExchangesKeep
  <1>2. brJob[j] \in BrJobRecord
    BY BrTypes
  <1>3. x \in BrJobRecord /\ x.kind = brJob[j].kind /\ x.op = brJob[j].op /\ x.pc = "imported" /\ x.done = brJob[j].done
    BY <1>2 DEF BrJobRecord
  <1> HIDE DEF x
  <1>4. BrEntry(j) \in BrEntries /\ BrEntry(j) = <<BrLedger(x.kind), x.op>>
    BY <1>1, <1>3, BrEntryIs DEF BrEntry
  <1>5. x.op \in BrOperations /\ (x.done = TRUE => BrEntry(j) \in brCompleted)
    BY <1>1, <1>3, BrTypes DEF BrJobSound
  <1>6. brInFlight' \subseteq BrEntries /\ brCompleted' \subseteq BrEntries /\ brAcked' \subseteq brCompleted'
    BY <1>1, <1>4 DEF BrInv, BrTypeOK
  <1>7. BrEntry(j) \notin brCompleted
    BY <1>1 DEF BrFree
  <1>8. \A i \in BrJobs : i # j /\ brJob[i].pc = "imported" =>
          BrEntry(i) \in brInFlight' /\ BrEntry(i) \notin brCompleted' /\ BrEntry(i) # BrEntry(j)
    BY <1>1, BrOthersImport
  <1> QED
    BY <1>1, <1>3, <1>4, <1>5, <1>6, <1>7, <1>8, BrSavedStays, BrJobMoves

LEMMA BrCompleteInv ==
  ASSUME BrInv, NEW j \in BrJobs, BrComplete(j)
  PROVE  BrInv'
  <1> DEFINE x == [brJob[j] EXCEPT !.pc = "persist", !.done = TRUE]
  <1>1. /\ brJob[j].pc = "imported" /\ brJob' = [brJob EXCEPT ![j] = x] /\ BrExchangesKeep
        /\ brInFlight' = brInFlight \ {BrEntry(j)} /\ brCompleted' = brCompleted \cup {BrEntry(j)}
        /\ UNCHANGED <<brSaved, brExpired, brAcked, brRestarts>>
    BY BrTypes DEF BrComplete, BrExchangesKeep
  <1>2. brJob[j] \in BrJobRecord
    BY BrTypes
  <1>3. x \in BrJobRecord /\ x.kind = brJob[j].kind /\ x.op = brJob[j].op /\ x.pc = "persist"
    BY <1>2 DEF BrJobRecord
  <1> HIDE DEF x
  <1>4. \A i \in BrJobs : i # j /\ brJob[i].pc = "imported" =>
          BrEntry(i) \in brInFlight' /\ BrEntry(i) \notin brCompleted'
    BY <1>1, BrOthersImport
  <1> QED
    BY <1>1, <1>3, <1>4, BrJobEnds

LEMMA BrReleaseInv ==
  ASSUME BrInv, NEW j \in BrJobs, BrRelease(j)
  PROVE  BrInv'
  <1> DEFINE x == [brJob[j] EXCEPT !.pc = "persist"]
  <1>1. /\ brJob[j].pc = "imported" /\ brJob' = [brJob EXCEPT ![j] = x] /\ BrExchangesKeep
        /\ brInFlight' = brInFlight \ {BrEntry(j)}
        /\ UNCHANGED <<brCompleted, brSaved, brExpired, brAcked, brRestarts>>
    BY BrTypes DEF BrRelease, BrExchangesKeep
  <1>2. brJob[j] \in BrJobRecord
    BY BrTypes
  <1>3. x \in BrJobRecord /\ x.kind = brJob[j].kind /\ x.op = brJob[j].op /\ x.pc = "persist" /\ x.done = brJob[j].done
    BY <1>2 DEF BrJobRecord
  <1> HIDE DEF x
  <1>4. \A i \in BrJobs : i # j /\ brJob[i].pc = "imported" =>
          BrEntry(i) \in brInFlight' /\ BrEntry(i) \notin brCompleted'
    BY <1>1, BrOthersImport
  <1>5. x.done = TRUE => BrEntry(j) \in brCompleted
    BY <1>3, BrTypes DEF BrJobSound
  <1> QED
    BY <1>1, <1>3, <1>4, <1>5, BrJobEnds

LEMMA BrCompleteOutboundInv ==
  ASSUME BrInv, NEW j \in BrJobs, NEW matches \in BOOLEAN, BrCompleteOutbound(j, matches)
  PROVE  BrInv'
  <1> DEFINE x == [brJob[j] EXCEPT !.pc = "persist", !.done = matches]
  <1>1. /\ brJob[j].pc = "prepared" /\ brJob' = [brJob EXCEPT ![j] = x] /\ BrExchangesKeep /\ BrFree(j)
        /\ brCompleted' = IF matches THEN brCompleted \cup {BrEntry(j)} ELSE brCompleted
        /\ UNCHANGED <<brInFlight, brSaved, brExpired, brAcked, brRestarts>>
    BY BrTypes DEF BrCompleteOutbound, BrExchangesKeep
  <1>2. brJob[j] \in BrJobRecord
    BY BrTypes
  <1>3. x \in BrJobRecord /\ x.kind = brJob[j].kind /\ x.op = brJob[j].op /\ x.pc = "persist" /\ x.done = matches
    BY <1>2 DEF BrJobRecord
  <1> HIDE DEF x
  <1>4. \A i \in BrJobs : i # j /\ brJob[i].pc = "imported" =>
          BrEntry(i) \in brInFlight' /\ BrEntry(i) \notin brCompleted'
    BY <1>1, BrOthersImport
  <1>5. x.done = TRUE => BrEntry(j) \in brCompleted'
    BY <1>1, <1>3
  <1>6. brCompleted' \in {brCompleted, brCompleted \cup {BrEntry(j)}} /\ brInFlight' \subseteq brInFlight
    BY <1>1
  <1> QED
    BY <1>1, <1>3, <1>4, <1>5, <1>6, BrJobEnds

\* A job that is over, whatever it leaves in flight.
LEMMA BrJobIdles ==
  ASSUME BrInv, NEW j \in BrJobs, brJob[j].pc # "idle", brJob' = [brJob EXCEPT ![j] = BrIdleJob], BrExchangesKeep,
         UNCHANGED <<brCompleted, brRestarts>>, brInFlight' \in {brInFlight, brInFlight \cup {BrEntry(j)}},
         brSaved' \in BrSnapshot, BrSavedSound', brAcked' \subseteq brCompleted
  PROVE  BrInv'
  <1>1. brInFlight' \subseteq BrEntries /\ brCompleted' \subseteq BrEntries
    BY BrEntryIs DEF BrInv, BrTypeOK
  <1>2. \A i \in BrJobs : i # j /\ brJob[i].pc = "imported" =>
          BrEntry(i) \in brInFlight' /\ BrEntry(i) \notin brCompleted'
    BY BrOthersImport
  <1> QED
    BY <1>1, <1>2, BrIdles, BrJobMoves

LEMMA BrOutboundThrowsInv ==
  ASSUME BrInv, NEW j \in BrJobs, BrOutboundThrows(j)
  PROVE  BrInv'
  <1>1. brAcked' \subseteq brCompleted
    BY DEF BrInv, BrOutboundThrows
  <1> QED
    BY <1>1, BrSavedStays, BrJobIdles DEF BrOutboundThrows, BrExchangesKeep

LEMMA BrPersistJobInv ==
  ASSUME BrInv, NEW j \in BrJobs, BrPersistJob(j)
  PROVE  BrInv'
  <1> DEFINE q == [brSaved EXCEPT !.completed = brCompleted]
  <1>1. /\ brJob[j].pc = "persist" /\ brSaved' = q /\ brJob' = [brJob EXCEPT ![j] = BrIdleJob] /\ BrExchangesKeep
        /\ UNCHANGED <<brInFlight, brCompleted, brExpired, brRestarts>>
    BY DEF BrPersistJob, BrPersistLedger, brMemory, BrExchangesKeep
  <1>2. brJob[j] \in BrJobRecord
    BY BrTypes
  <1>3. brJob[j].done \in BOOLEAN
    BY <1>2 DEF BrJobRecord
  <1>4. brAcked' \subseteq brCompleted
    BY <1>3, BrTypes DEF BrInv, BrJobSound, BrPersistJob
  <1>5. brCompleted \subseteq BrEntries
    BY DEF BrInv, BrTypeOK
  <1>6. /\ q \in BrSnapshot /\ q.claims = brSaved.claims /\ q.capabilities = brSaved.capabilities
        /\ q.completed = brCompleted
    BY <1>5, BrTypes DEF BrSnapshot
  <1> HIDE DEF q
  <1>7. BrSavedSound'
    BY <1>1, <1>4, <1>6 DEF BrInv, BrSavedSound
  <1> QED
    BY <1>1, <1>4, <1>6, <1>7, BrJobIdles

LEMMA BrRestartInv ==
  ASSUME BrInv, BrRestart
  PROVE  BrInv'
  <1>1. /\ brConnection' = brSaved.connection /\ brClaims' = brSaved.claims
        /\ brCapabilities' = brSaved.capabilities /\ brCompleted' = brSaved.completed /\ brInFlight' = {}
        /\ brJob' = [j \in BrJobs |-> BrIdleJob] /\ UNCHANGED <<brSaved, brExpired, brAcked>>
    BY DEF BrRestart
  <1>2. /\ brSaved.connection \in BrConnection /\ brSaved.claims \subseteq BrTokens
        /\ brSaved.capabilities \subseteq BrCapability /\ brSaved.completed \subseteq BrEntries
    BY BrTypes DEF BrSnapshot
  <1>3. brRestarts' \in 0 .. BrMaxRestarts
    BY BrAssumption DEF BrInv, BrTypeOK, BrRestart
  <1> DEFINE x == [BrIdleExchange EXCEPT !.pc = "done"]
  <1>4. x \in BrExchangeRecord /\ x.pc = "done"
    BY BrIdles DEF BrExchangeRecord
  <1>5. brExchange' = [e \in BrExchanges |-> IF brExchange[e].pc = "idle" THEN BrIdleExchange ELSE x]
    BY DEF BrRestart
  <1> HIDE DEF x
  <1>6. /\ brExchange' \in [BrExchanges -> BrExchangeRecord]
        /\ \A e \in BrExchanges : brExchange'[e].pc # "digest"
    BY <1>4, <1>5, BrIdles
  <1>7. BrTypeOK'
    BY <1>1, <1>2, <1>3, <1>6, BrIdles DEF BrInv, BrTypeOK
  <1>8. BrOncePerToken(brCapabilities)' /\ BrSavedSound' /\ BrClaimSound' /\ (brAcked \subseteq brCompleted)'
    BY <1>1, <1>6 DEF BrInv, BrSavedSound, BrClaimSound
  <1>9. \A j \in BrJobs : BrJobSound(j)'
    BY <1>1, BrIdles DEF BrJobSound
  <1> QED
    BY <1>6, <1>7, <1>8, <1>9 DEF BrInv, BrExchangeSound

LEMMA BrStepInv == ASSUME BrInv, [BrNext]_brVars PROVE BrInv'
  <1>1. CASE UNCHANGED brVars
    BY <1>1 DEF brVars, BrInv, BrTypeOK, BrClaimSound, BrSavedSound, BrJobSound, BrEntry
  <1>2. ASSUME NEW e \in BrExchanges,
               BrFindExpired(e) \/ BrReplayed(e) \/ BrGrant(e) \/ BrPersistExchange(e)
        PROVE  BrInv'
    BY <1>2, BrFindExpiredInv, BrReplayedInv, BrGrantInv, BrPersistExchangeInv
  <1>3. ASSUME NEW e \in BrExchanges, NEW c \in BrClaimed,
               BrWorkflowChanged(e, c) \/ \E kind \in BrKinds : BrReadConnection(e, c, kind)
        PROVE  BrInv'
    BY <1>3, BrWorkflowChangedInv, BrReadConnectionInv
  <1>4. ASSUME NEW j \in BrJobs,
               \/ \E kind \in BrKinds, op \in BrOperations : BrPrepare(j, kind, op)
               \/ BrReplayedJob(j) \/ BrClaim(j) \/ BrComplete(j) \/ BrRelease(j)
               \/ \E b \in BOOLEAN : BrCompleteOutbound(j, b)
               \/ BrOutboundThrows(j) \/ BrPersistJob(j)
        PROVE  BrInv'
    BY <1>4, BrPrepareInv, BrReplayedJobInv, BrClaimInv, BrCompleteInv, BrReleaseInv, BrCompleteOutboundInv,
       BrOutboundThrowsInv, BrPersistJobInv
  <1> QED
    BY <1>1, <1>2, <1>3, <1>4, BrConnectionInv, BrRestartInv, BrExpireInv DEF BrNext

LEMMA BrInitInv == BrInit => BrInv
  <1> SUFFICES ASSUME BrInit PROVE BrInv
    OBVIOUS
  <1> DEFINE q == [connection |-> BrNoConnection, claims |-> {}, capabilities |-> {}, completed |-> {}]
  <1>1. brSaved = q
    BY DEF BrInit
  <1>2. q \in BrSnapshot /\ q.capabilities = {} /\ q.completed = {}
    BY BrIdles DEF BrSnapshot
  <1> HIDE DEF q
  <1>3. BrTypeOK
    BY <1>1, <1>2, BrIdles, BrAssumption DEF BrInit, BrTypeOK
  <1>4. BrOncePerToken(brCapabilities) /\ BrClaimSound /\ BrSavedSound /\ brAcked \subseteq brCompleted
    BY <1>1, <1>2 DEF BrInit, BrOncePerToken, BrClaimSound, BrSavedSound
  <1>5. \A j \in BrJobs : BrJobSound(j)
    BY BrIdles DEF BrInit, BrJobSound
  <1>6. \A e \in BrExchanges : BrExchangeSound(brExchange[e])
    BY BrIdles DEF BrInit, BrExchangeSound
  <1> QED
    BY <1>3, <1>4, <1>5, <1>6 DEF BrInv

LEMMA BrAlwaysInv == BrSpec => []BrInv
  BY BrInitInv, BrStepInv, PTL DEF BrSpec

\* The connection, the exchanges, the jobs and the snapshots keep their types.
THEOREM BrTypeCorrect == BrSpec => []BrTypeOK
  BY BrAlwaysInv, PTL DEF BrInv

\* One OIDC token gives at most one capability and no service is called again
\* for an operation that was acknowledged, over any number of concurrent
\* exchanges, jobs, expiries and restarts (exchangeVerified, the replay ledgers).
THEOREM BrNothingTwiceCorrect == BrSpec => []BrNothingTwice
  <1>1. BrInv => BrNothingTwice
    <2> SUFFICES ASSUME BrInv PROVE BrNothingTwice
      OBVIOUS
    <2>1. \A k, l \in brCapabilities : k.token = l.token => k = l
      BY DEF BrInv, BrOncePerToken
    <2>2. \A j \in BrJobs : brJob[j].pc = "imported" => BrEntry(j) \notin brAcked
      BY BrOthersImport DEF BrInv
    <2> QED
      BY <2>1, <2>2 DEF BrNothingTwice
  <1> QED
    BY <1>1, BrAlwaysInv, PTL

-----------------------------------------------------------------------------
(* Installation of a customer Realm *)

InDone == {"imported", "active"}
InStopped == {"degraded", "blocked"}
InSetUp == {"account.inspect", "realm.provision"}

\* What a record says of the owner: one that is on record is enrolled in the
\* Realm, and the phases from owner-ready on, also the one to resume, have one.
InOwnerSound(r) ==
  /\ r.owner = InNone => r.enrolled = {}
  /\ r.owner # InNone => r.owner \in r.enrolled /\ r.realm = TRUE
  /\ r.realm = TRUE => r.account = TRUE
  /\ r.phase \in InOwned \/ r.resume \in InOwned => r.owner # InNone
  /\ r.phase \in {"new", "account-verifying"} => r.owner = InNone
  /\ r.phase = "new" => r.account = FALSE
  /\ r.resume \notin {"new", "account-verifying", "blocked", "recovery-pending"}

\* What it says of the import: it is verified, and once imported is the phase
\* to resume, nothing starts another one.
InImportSound(r, imported) ==
  /\ r.project = "imported" => imported = TRUE
  /\ r.phase \in InDone => r.project = "imported"
  /\ r.resume \in InDone =>
       /\ r.project = "imported"
       /\ r.phase \in InDone \cup InStopped \cup {"recovery-pending"}

\* What may still be retried: setting up only without an owner, an import
\* only with one, and while no finished import is the phase to resume.
InFailureSound(r) ==
  r.failed # InNone =>
    /\ r.failed.op \in InSetUp => r.owner = InNone /\ r.phase \in InStopped \cup {"account-ready"}
    /\ r.failed.op = "project.import" =>
         r.owner # InNone /\ r.resume \notin InDone /\ r.phase \in InStopped \cup {"importing"}

InSound(r, imported) == InOwnerSound(r) /\ InImportSound(r, imported) /\ InFailureSound(r)

\* What a request at a step knows.
InStepSound(pc, s, imported) ==
  /\ pc \in {"inspect", "account-ready", "provision", "provisioned"} => s.owner = InNone
  /\ pc = "inspect" => s.failed = InNone \/ s.failed.op # "project.import"
  /\ pc \in {"import", "imported"} => s.phase = "importing"
  /\ pc = "imported" => imported = TRUE
  /\ pc = "reinspect" => s.owner # InNone

\* A request works on a sound record, which is the saved one when its number is.
InCallSound(x, state, imported) ==
  x.pc # "idle" =>
    /\ InSound(x.state, imported) /\ InStepSound(x.pc, x.state, imported)
    /\ x.state.version <= state.version
    /\ x.state.version = state.version => x.state = state

InInv ==
  /\ InTypeOK /\ InSound(inState, inImported)
  /\ inBundle # InNone => InSound(inBundle, inImported)
  /\ \A c \in InCalls : InCallSound(inCall[c], inState, inImported)

InPcs == {"idle", "open", "inspect", "account-ready", "provision", "provisioned",
          "import", "imported", "reinspect"}

LEMMA InTypes ==
  ASSUME InInv, NEW c \in InCalls
  PROVE  /\ inState \in InRecord /\ inCall \in [InCalls -> InCallRecord]
         /\ inCall[c] \in InCallRecord /\ inCall[c].state \in InRecord /\ inCall[c].pc \in InPcs
         /\ inImported \in BOOLEAN /\ inResources \in BOOLEAN
         /\ InCallSound(inCall[c], inState, inImported) /\ InSound(inState, inImported)
         /\ inBundle # InNone => inBundle \in InRecord
  <1>1. inCall[c] \in InCallRecord
    BY DEF InInv, InTypeOK
  <1> QED
    BY <1>1 DEF InInv, InTypeOK, InCallRecord, InPcs

LEMMA InVersionNat == \A r \in InRecord : r.version \in Nat /\ r.version <= InMaxVersions
  BY InAssumption DEF InRecord

LEMMA InBlankSound ==
  /\ InBlank \in InRecord /\ InIdle \in InCallRecord /\ InIdle.pc = "idle"
  /\ \A imported \in BOOLEAN : InSound(InBlank, imported)
  <1>1. 0 \in 0 .. InMaxVersions
    BY InAssumption
  <1>2. InBlank \in InRecord
    BY <1>1 DEF InBlank, InRecord, InPhases
  <1>3. InIdle \in InCallRecord /\ InIdle.pc = "idle"
    BY <1>2 DEF InIdle, InCallRecord
  <1>4. /\ InBlank.owner = InNone /\ InBlank.enrolled = {} /\ InBlank.realm = FALSE /\ InBlank.account = FALSE
        /\ InBlank.phase = "new" /\ InBlank.resume = InNone /\ InBlank.failed = InNone /\ InBlank.project = "none"
    BY DEF InBlank
  <1>5. InNone \notin InOwned /\ InNone \notin InPhases
    BY InNoneAssumption DEF InOwned, InPhases
  <1>6. ASSUME NEW imported \in BOOLEAN PROVE InSound(InBlank, imported)
    BY <1>4, <1>5 DEF InSound, InOwnerSound, InImportSound, InFailureSound, InOwned, InDone, InPhases
  <1> QED
    BY <1>2, <1>3, <1>6

\* The number of a record does not matter to what it says.
LEMMA InStampSound ==
  ASSUME NEW r \in InRecord, NEW v \in 0 .. InMaxVersions, NEW imported, InSound(r, imported)
  PROVE  /\ [r EXCEPT !.version = v] \in InRecord /\ InSound([r EXCEPT !.version = v], imported)
         /\ [r EXCEPT !.version = v].version = v
         /\ \A pc : InStepSound(pc, r, imported) => InStepSound(pc, [r EXCEPT !.version = v], imported)
  <1> DEFINE q == [r EXCEPT !.version = v]
  <1>1. q \in InRecord /\ q.version = v
    BY DEF InRecord
  <1>2. /\ q.phase = r.phase /\ q.account = r.account /\ q.realm = r.realm /\ q.owner = r.owner
        /\ q.enrolled = r.enrolled /\ q.project = r.project /\ q.resume = r.resume /\ q.failed = r.failed
    BY DEF InRecord
  <1> HIDE DEF q
  <1>3. InSound(q, imported)
    BY <1>2 DEF InSound, InOwnerSound, InImportSound, InFailureSound
  <1>4. \A pc : InStepSound(pc, r, imported) => InStepSound(pc, q, imported)
    BY <1>2 DEF InStepSound
  <1> QED
    BY <1>1, <1>3, <1>4 DEF q

\* What no step may undo: who is enrolled, and that the account is verified.
InKept ==
  /\ inState.enrolled \subseteq inState'.enrolled
  /\ inState.account = TRUE => inState'.account = TRUE

\* A step of one request that saves nothing.
LEMMA InOneMoves ==
  ASSUME InInv, NEW c \in InCalls, NEW x \in InCallRecord, inCall' = [inCall EXCEPT ![c] = x],
         UNCHANGED <<inState, inBundle, inLosses>>, inResources' \in BOOLEAN, inImported' \in BOOLEAN,
         inImported = TRUE => inImported' = TRUE, InCallSound(x, inState, inImported')
  PROVE  InInv' /\ InKept
  <1>1. InTypeOK'
    BY DEF InInv, InTypeOK
  <1>2. \A r : InSound(r, inImported) => InSound(r, inImported')
    BY DEF InSound, InImportSound
  <1>3. ASSUME NEW d \in InCalls PROVE InCallSound(inCall'[d], inState, inImported')
    <2>1. CASE d = c
      BY <2>1, InTypes
    <2>2. CASE d # c
      <3>1. inCall'[d] = inCall[d] /\ InCallSound(inCall[d], inState, inImported)
        BY <2>2, InTypes
      <3> QED
        BY <1>2, <3>1 DEF InCallSound, InStepSound
    <2> QED
      BY <2>1, <2>2
  <1>4. InSound(inState', inImported') /\ (inBundle' # InNone => InSound(inBundle', inImported'))
    BY <1>2 DEF InInv
  <1>5. \A d \in InCalls : InCallSound(inCall'[d], inState', inImported')
    BY <1>3
  <1> QED
    BY <1>1, <1>4, <1>5 DEF InInv, InKept

\* saveIfCurrent of a sound record, and the end of a stale request.
LEMMA InSaveInv ==
  ASSUME InInv, NEW c \in InCalls, inCall[c].pc # "idle",
         NEW next \in InRecord, NEW pc \in InPcs, InSave(c, next, pc),
         InCurrent(c) => InSound(next, inImported) /\ InStepSound(pc, next, inImported),
         inCall[c].state.enrolled \subseteq next.enrolled,
         inCall[c].state.account = TRUE => next.account = TRUE,
         UNCHANGED <<inResources, inImported, inLosses>>,
         inBundle' \in {inBundle, inState'}
  PROVE  InInv' /\ InKept
  <1>1. inState \in InRecord /\ inState.version \in Nat /\ inImported \in BOOLEAN
    BY InTypes, InVersionNat
  <1>2. CASE InCurrent(c)
    <2> DEFINE v == inState.version + 1
               r == [next EXCEPT !.version = v]
               x == IF pc = "idle" THEN InIdle ELSE [pc |-> pc, state |-> r]
    <2>1. inState' = r /\ inCall' = [inCall EXCEPT ![c] = x] /\ inState.version < InMaxVersions
      BY <1>2 DEF InSave
    <2>2. v \in 0 .. InMaxVersions /\ inState.version < v
      BY <1>1, <2>1, InAssumption
    <2> HIDE DEF v
    <2>3. r \in InRecord /\ InSound(r, inImported) /\ r.version = v /\ InStepSound(pc, r, inImported)
      BY <1>2, <2>2, InStampSound
    <2>a. r.enrolled = next.enrolled /\ r.account = next.account
      BY DEF InRecord
    <2>b. inCall[c].state = inState
      BY <1>2, InTypes DEF InCallSound, InCurrent
    <2> HIDE DEF r
    <2>4. x \in InCallRecord /\ (x.pc # "idle" => x.pc = pc /\ x.state = r)
      BY <2>3, InBlankSound DEF InCallRecord, InPcs
    <2> HIDE DEF x
    <2>5. InTypeOK'
      BY <2>1, <2>3, <2>4 DEF InInv, InTypeOK
    <2>6. ASSUME NEW d \in InCalls PROVE InCallSound(inCall'[d], r, inImported)
      <3>1. CASE d = c
        <4>1. inCall'[d] = x
          BY <2>1, <3>1, InTypes
        <4>2. v \in Nat
          BY <2>2, InAssumption
        <4> QED
          BY <2>3, <2>4, <4>1, <4>2 DEF InCallSound
      <3>2. CASE d # c
        <4>1. inCall'[d] = inCall[d] /\ InCallSound(inCall[d], inState, inImported)
              /\ inCall[d].state.version \in Nat
          BY <2>1, <3>2, InTypes, InVersionNat
        <4>2. v \in Nat
          BY <2>2, InAssumption
        <4> QED
          BY <1>1, <2>2, <2>3, <4>1, <4>2 DEF InCallSound
      <3> QED
        BY <3>1, <3>2
    <2>7. inBundle' # InNone => InSound(inBundle', inImported)
      BY <2>1, <2>3 DEF InInv
    <2>8. InSound(inState', inImported') /\ \A d \in InCalls : InCallSound(inCall'[d], inState', inImported')
      BY <2>1, <2>3, <2>6
    <2> QED
      BY <2>1, <2>a, <2>b, <2>5, <2>7, <2>8 DEF InInv, InKept
  <1>3. CASE ~ InCurrent(c)
    <2>1. inState' = inState /\ inCall' = [inCall EXCEPT ![c] = InIdle]
      BY <1>3 DEF InSave
    <2>2. InTypeOK'
      BY <2>1, InBlankSound DEF InInv, InTypeOK
    <2>3. ASSUME NEW d \in InCalls PROVE InCallSound(inCall'[d], inState, inImported)
      <3>1. inCall'[d] \in {inCall[d], InIdle}
        BY <2>1, InTypes
      <3> QED
        BY <3>1, InTypes, InBlankSound DEF InCallSound
    <2>4. inBundle' # InNone => InSound(inBundle', inImported)
      BY <2>1 DEF InInv
    <2>5. InSound(inState', inImported') /\ \A d \in InCalls : InCallSound(inCall'[d], inState', inImported')
      BY <2>1, <2>3 DEF InInv
    <2> QED
      BY <2>1, <2>2, <2>4, <2>5 DEF InInv, InKept
  <1> QED
    BY <1>2, <1>3

\* A failure is not the absence of one.
LEMMA InFailureIs ==
  /\ \A op \in InOperations : [op |-> op, retryable |-> TRUE].op = op
  /\ \A op \in InOperations : [op |-> op, retryable |-> TRUE] # InNone
  <1>1. \A op \in InOperations : [op |-> op, retryable |-> TRUE] \in InFailure
    BY DEF InFailure
  <1> QED
    BY <1>1, InNoneAssumption

LEMMA InWorksOn ==
  ASSUME InInv, NEW c \in InCalls, inCall[c].pc # "idle"
  PROVE  /\ inCall[c].state \in InRecord /\ InSound(inCall[c].state, inImported)
         /\ InStepSound(inCall[c].pc, inCall[c].state, inImported)
  BY InTypes DEF InCallSound

LEMMA InInstallInv ==
  ASSUME InInv, NEW c \in InCalls, InInstall(c)
  PROVE  InInv' /\ InKept
  <1> DEFINE s == inCall[c].state
             n == [s EXCEPT !.phase = "account-verifying", !.resources = "provisioning"]
  <1>1. /\ inCall[c].pc = "open" /\ s.phase = "new"
        /\ InSave(c, n, "inspect") /\ UNCHANGED InEffects
    BY DEF InInstall, InAt
  <1>2. s \in InRecord /\ InSound(s, inImported) /\ InStepSound(inCall[c].pc, s, inImported)
    BY <1>1, InWorksOn
  <1> HIDE DEF s
  <1>3. /\ n \in InRecord
        /\ n.phase = "account-verifying" /\ n.account = s.account /\ n.realm = s.realm /\ n.resources = "provisioning" /\ n.owner = s.owner
        /\ n.enrolled = s.enrolled /\ n.project = s.project /\ n.resume = s.resume /\ n.failed = s.failed
    BY <1>2 DEF InRecord, InPhases, InFailure, InOperations
  <1> HIDE DEF n
  <1>4. InSound(n, inImported)
    BY <1>1, <1>2, <1>3, InNoneAssumption
       DEF InSound, InOwnerSound, InImportSound, InFailureSound, InStepSound, InOwned, InDone, InStopped, InSetUp,
           InFailure
  <1>5. InStepSound("inspect", n, inImported) /\ "inspect" \in InPcs
    BY <1>1, <1>2, <1>3 DEF InStepSound, InPcs, InSound, InOwnerSound, InFailureSound, InStopped
  <1>6. inCall[c].state.enrolled \subseteq n.enrolled /\ (inCall[c].state.account = TRUE => n.account = TRUE)
    BY <1>1, <1>2, <1>3 DEF s, InStepSound, InSound, InOwnerSound
  <1> QED
    BY <1>1, <1>3, <1>4, <1>5, <1>6, InSaveInv DEF InEffects

LEMMA InAccountReadyInv ==
  ASSUME InInv, NEW c \in InCalls, InAccountReady(c)
  PROVE  InInv' /\ InKept
  <1> DEFINE s == inCall[c].state
             n == [s EXCEPT !.phase = "account-ready", !.account = TRUE]
  <1>1. /\ inCall[c].pc = "inspect"
        /\ InSave(c, n, "account-ready") /\ UNCHANGED InEffects
    BY DEF InAccountReady
  <1>2. s \in InRecord /\ InSound(s, inImported) /\ InStepSound(inCall[c].pc, s, inImported)
    BY <1>1, InWorksOn
  <1> HIDE DEF s
  <1>3. /\ n \in InRecord
        /\ n.phase = "account-ready" /\ n.account = TRUE /\ n.realm = s.realm /\ n.resources = s.resources /\ n.owner = s.owner
        /\ n.enrolled = s.enrolled /\ n.project = s.project /\ n.resume = s.resume /\ n.failed = s.failed
    BY <1>2 DEF InRecord, InPhases, InFailure, InOperations
  <1> HIDE DEF n
  <1>4. InSound(n, inImported)
    BY <1>1, <1>2, <1>3, InNoneAssumption
       DEF InSound, InOwnerSound, InImportSound, InFailureSound, InStepSound, InOwned, InDone, InStopped, InSetUp,
           InFailure
  <1>5. InStepSound("account-ready", n, inImported) /\ "account-ready" \in InPcs
    BY <1>1, <1>2, <1>3 DEF InStepSound, InPcs, InSound, InOwnerSound, InFailureSound, InStopped
  <1>6. inCall[c].state.enrolled \subseteq n.enrolled /\ (inCall[c].state.account = TRUE => n.account = TRUE)
    BY <1>1, <1>2, <1>3 DEF s, InStepSound, InSound, InOwnerSound
  <1> QED
    BY <1>1, <1>3, <1>4, <1>5, <1>6, InSaveInv DEF InEffects

LEMMA InProvisioningInv ==
  ASSUME InInv, NEW c \in InCalls, InProvisioning(c)
  PROVE  InInv' /\ InKept
  <1> DEFINE s == inCall[c].state
             n == [s EXCEPT !.phase = "provisioning", !.failed = InNone]
  <1>1. /\ inCall[c].pc = "account-ready"
        /\ InSave(c, n, "provision") /\ UNCHANGED InEffects
    BY DEF InProvisioning
  <1>2. s \in InRecord /\ InSound(s, inImported) /\ InStepSound(inCall[c].pc, s, inImported)
    BY <1>1, InWorksOn
  <1> HIDE DEF s
  <1>3. /\ n \in InRecord
        /\ n.phase = "provisioning" /\ n.account = s.account /\ n.realm = s.realm /\ n.resources = s.resources /\ n.owner = s.owner
        /\ n.enrolled = s.enrolled /\ n.project = s.project /\ n.resume = s.resume /\ n.failed = InNone
    BY <1>2 DEF InRecord, InPhases, InFailure, InOperations
  <1> HIDE DEF n
  <1>4. InSound(n, inImported)
    BY <1>1, <1>2, <1>3, InNoneAssumption
       DEF InSound, InOwnerSound, InImportSound, InFailureSound, InStepSound, InOwned, InDone, InStopped, InSetUp,
           InFailure
  <1>5. InStepSound("provision", n, inImported) /\ "provision" \in InPcs
    BY <1>1, <1>2, <1>3 DEF InStepSound, InPcs, InSound, InOwnerSound, InFailureSound, InStopped
  <1>6. inCall[c].state.enrolled \subseteq n.enrolled /\ (inCall[c].state.account = TRUE => n.account = TRUE)
    BY <1>1, <1>2, <1>3 DEF s, InStepSound, InSound, InOwnerSound
  <1> QED
    BY <1>1, <1>3, <1>4, <1>5, <1>6, InSaveInv DEF InEffects

LEMMA InFinishProvisioningInv ==
  ASSUME InInv, NEW c \in InCalls, InFinishProvisioning(c)
  PROVE  InInv' /\ InKept
  <1> DEFINE s == inCall[c].state
             n == [s EXCEPT !.phase = "realm-ready", !.resources = "verified", !.account = TRUE, !.realm = TRUE, !.enrolled = {}, !.failed = InNone]
  <1>1. /\ inCall[c].pc = "provisioned"
        /\ InSave(c, n, "idle") /\ UNCHANGED InEffects
    BY DEF InFinishProvisioning
  <1>2. s \in InRecord /\ InSound(s, inImported) /\ InStepSound(inCall[c].pc, s, inImported)
    BY <1>1, InWorksOn
  <1> HIDE DEF s
  <1>3. /\ n \in InRecord
        /\ n.phase = "realm-ready" /\ n.account = TRUE /\ n.realm = TRUE /\ n.resources = "verified" /\ n.owner = s.owner
        /\ n.enrolled = {} /\ n.project = s.project /\ n.resume = s.resume /\ n.failed = InNone
    BY <1>2 DEF InRecord, InPhases, InFailure, InOperations
  <1> HIDE DEF n
  <1>4. InSound(n, inImported)
    BY <1>1, <1>2, <1>3, InNoneAssumption
       DEF InSound, InOwnerSound, InImportSound, InFailureSound, InStepSound, InOwned, InDone, InStopped, InSetUp,
           InFailure
  <1>5. InStepSound("idle", n, inImported) /\ "idle" \in InPcs
    BY <1>1, <1>2, <1>3 DEF InStepSound, InPcs, InSound, InOwnerSound, InFailureSound, InStopped
  <1>6. inCall[c].state.enrolled \subseteq n.enrolled /\ (inCall[c].state.account = TRUE => n.account = TRUE)
    BY <1>1, <1>2, <1>3 DEF s, InStepSound, InSound, InOwnerSound
  <1> QED
    BY <1>1, <1>3, <1>4, <1>5, <1>6, InSaveInv DEF InEffects

LEMMA InEnrollOwnerInv ==
  ASSUME InInv, NEW c \in InCalls, NEW o \in InOwners, InEnrollOwner(c, o)
  PROVE  InInv' /\ InKept
  <1> DEFINE s == inCall[c].state
             n == [s EXCEPT !.phase = "owner-ready", !.owner = o, !.enrolled = s.enrolled \cup {o}]
  <1>1. /\ inCall[c].pc = "open" /\ s.phase = "realm-ready" /\ s.realm = TRUE
        /\ InSave(c, n, "idle") /\ UNCHANGED InEffects
    BY DEF InEnrollOwner, InAt
  <1>2. s \in InRecord /\ InSound(s, inImported) /\ InStepSound(inCall[c].pc, s, inImported)
    BY <1>1, InWorksOn
  <1> HIDE DEF s
  <1>3. /\ n \in InRecord
        /\ n.phase = "owner-ready" /\ n.account = s.account /\ n.realm = s.realm /\ n.resources = s.resources /\ n.owner = o
        /\ n.enrolled = s.enrolled \cup {o} /\ n.project = s.project /\ n.resume = s.resume /\ n.failed = s.failed
    BY <1>2 DEF InRecord, InPhases, InFailure, InOperations
  <1> HIDE DEF n
  <1>4. InSound(n, inImported)
    BY <1>1, <1>2, <1>3, InNoneAssumption
       DEF InSound, InOwnerSound, InImportSound, InFailureSound, InStepSound, InOwned, InDone, InStopped, InSetUp,
           InFailure
  <1>5. InStepSound("idle", n, inImported) /\ "idle" \in InPcs
    BY <1>1, <1>2, <1>3 DEF InStepSound, InPcs, InSound, InOwnerSound, InFailureSound, InStopped
  <1>6. inCall[c].state.enrolled \subseteq n.enrolled /\ (inCall[c].state.account = TRUE => n.account = TRUE)
    BY <1>1, <1>2, <1>3 DEF s, InStepSound, InSound, InOwnerSound
  <1> QED
    BY <1>1, <1>3, <1>4, <1>5, <1>6, InSaveInv DEF InEffects

LEMMA InCreateProjectInv ==
  ASSUME InInv, NEW c \in InCalls, InCreateProject(c)
  PROVE  InInv' /\ InKept
  <1> DEFINE s == inCall[c].state
             n == [s EXCEPT !.phase = "project-ready", !.project = "ready"]
  <1>1. /\ inCall[c].pc = "open" /\ s.phase = "owner-ready"
        /\ InSave(c, n, "idle") /\ UNCHANGED InEffects
    BY DEF InCreateProject, InAt
  <1>2. s \in InRecord /\ InSound(s, inImported) /\ InStepSound(inCall[c].pc, s, inImported)
    BY <1>1, InWorksOn
  <1> HIDE DEF s
  <1>3. /\ n \in InRecord
        /\ n.phase = "project-ready" /\ n.account = s.account /\ n.realm = s.realm /\ n.resources = s.resources /\ n.owner = s.owner
        /\ n.enrolled = s.enrolled /\ n.project = "ready" /\ n.resume = s.resume /\ n.failed = s.failed
    BY <1>2 DEF InRecord, InPhases, InFailure, InOperations
  <1> HIDE DEF n
  <1>4. InSound(n, inImported)
    BY <1>1, <1>2, <1>3, InNoneAssumption
       DEF InSound, InOwnerSound, InImportSound, InFailureSound, InStepSound, InOwned, InDone, InStopped, InSetUp,
           InFailure
  <1>5. InStepSound("idle", n, inImported) /\ "idle" \in InPcs
    BY <1>1, <1>2, <1>3 DEF InStepSound, InPcs, InSound, InOwnerSound, InFailureSound, InStopped
  <1>6. inCall[c].state.enrolled \subseteq n.enrolled /\ (inCall[c].state.account = TRUE => n.account = TRUE)
    BY <1>1, <1>2, <1>3 DEF s, InStepSound, InSound, InOwnerSound
  <1> QED
    BY <1>1, <1>3, <1>4, <1>5, <1>6, InSaveInv DEF InEffects

LEMMA InImportProjectInv ==
  ASSUME InInv, NEW c \in InCalls, InImportProject(c)
  PROVE  InInv' /\ InKept
  <1> DEFINE s == inCall[c].state
             n == [s EXCEPT !.phase = "importing", !.project = "importing"]
  <1>1. /\ inCall[c].pc = "open" /\ s.phase = "project-ready"
        /\ InSave(c, n, "import") /\ UNCHANGED InEffects
    BY DEF InImportProject, InAt
  <1>2. s \in InRecord /\ InSound(s, inImported) /\ InStepSound(inCall[c].pc, s, inImported)
    BY <1>1, InWorksOn
  <1> HIDE DEF s
  <1>3. /\ n \in InRecord
        /\ n.phase = "importing" /\ n.account = s.account /\ n.realm = s.realm /\ n.resources = s.resources /\ n.owner = s.owner
        /\ n.enrolled = s.enrolled /\ n.project = "importing" /\ n.resume = s.resume /\ n.failed = s.failed
    BY <1>2 DEF InRecord, InPhases, InFailure, InOperations
  <1> HIDE DEF n
  <1>4. InSound(n, inImported)
    BY <1>1, <1>2, <1>3, InNoneAssumption
       DEF InSound, InOwnerSound, InImportSound, InFailureSound, InStepSound, InOwned, InDone, InStopped, InSetUp,
           InFailure
  <1>5. InStepSound("import", n, inImported) /\ "import" \in InPcs
    BY <1>1, <1>2, <1>3 DEF InStepSound, InPcs, InSound, InOwnerSound, InFailureSound, InStopped
  <1>6. inCall[c].state.enrolled \subseteq n.enrolled /\ (inCall[c].state.account = TRUE => n.account = TRUE)
    BY <1>1, <1>2, <1>3 DEF s, InStepSound, InSound, InOwnerSound
  <1> QED
    BY <1>1, <1>3, <1>4, <1>5, <1>6, InSaveInv DEF InEffects

LEMMA InFinishImportInv ==
  ASSUME InInv, NEW c \in InCalls, InFinishImport(c)
  PROVE  InInv' /\ InKept
  <1> DEFINE s == inCall[c].state
             n == [s EXCEPT !.phase = "imported", !.project = "imported", !.failed = InNone]
  <1>1. /\ inCall[c].pc = "imported"
        /\ InSave(c, n, "idle") /\ UNCHANGED InEffects
    BY DEF InFinishImport
  <1>2. s \in InRecord /\ InSound(s, inImported) /\ InStepSound(inCall[c].pc, s, inImported)
    BY <1>1, InWorksOn
  <1> HIDE DEF s
  <1>3. /\ n \in InRecord
        /\ n.phase = "imported" /\ n.account = s.account /\ n.realm = s.realm /\ n.resources = s.resources /\ n.owner = s.owner
        /\ n.enrolled = s.enrolled /\ n.project = "imported" /\ n.resume = s.resume /\ n.failed = InNone
    BY <1>2 DEF InRecord, InPhases, InFailure, InOperations
  <1> HIDE DEF n
  <1>4. InSound(n, inImported)
    BY <1>1, <1>2, <1>3, InNoneAssumption
       DEF InSound, InOwnerSound, InImportSound, InFailureSound, InStepSound, InOwned, InDone, InStopped, InSetUp,
           InFailure
  <1>5. InStepSound("idle", n, inImported) /\ "idle" \in InPcs
    BY <1>1, <1>2, <1>3 DEF InStepSound, InPcs, InSound, InOwnerSound, InFailureSound, InStopped
  <1>6. inCall[c].state.enrolled \subseteq n.enrolled /\ (inCall[c].state.account = TRUE => n.account = TRUE)
    BY <1>1, <1>2, <1>3 DEF s, InStepSound, InSound, InOwnerSound
  <1> QED
    BY <1>1, <1>3, <1>4, <1>5, <1>6, InSaveInv DEF InEffects

LEMMA InRecoverImportInv ==
  ASSUME InInv, NEW c \in InCalls, InRecoverImport(c)
  PROVE  InInv' /\ InKept
  <1> DEFINE s == inCall[c].state
             n == [s EXCEPT !.phase = "importing"]
  <1>1. /\ inCall[c].pc = "open" /\ s.failed = [op |-> "project.import", retryable |-> TRUE]
        /\ s.failed # InNone /\ s.failed.op = "project.import"
        /\ InSave(c, n, "import") /\ UNCHANGED InEffects
    BY InFailureIs DEF InRecoverImport, InRecoverable, InAt, InOperations
  <1>2. s \in InRecord /\ InSound(s, inImported) /\ InStepSound(inCall[c].pc, s, inImported)
    BY <1>1, InWorksOn
  <1> HIDE DEF s
  <1>3. /\ n \in InRecord
        /\ n.phase = "importing" /\ n.account = s.account /\ n.realm = s.realm /\ n.resources = s.resources /\ n.owner = s.owner
        /\ n.enrolled = s.enrolled /\ n.project = s.project /\ n.resume = s.resume /\ n.failed = s.failed
    BY <1>2 DEF InRecord, InPhases, InFailure, InOperations
  <1> HIDE DEF n
  <1>4. InSound(n, inImported)
    BY <1>1, <1>2, <1>3, InNoneAssumption
       DEF InSound, InOwnerSound, InImportSound, InFailureSound, InStepSound, InOwned, InDone, InStopped, InSetUp,
           InFailure
  <1>5. InStepSound("import", n, inImported) /\ "import" \in InPcs
    BY <1>1, <1>2, <1>3 DEF InStepSound, InPcs, InSound, InOwnerSound, InFailureSound, InStopped
  <1>6. inCall[c].state.enrolled \subseteq n.enrolled /\ (inCall[c].state.account = TRUE => n.account = TRUE)
    BY <1>1, <1>2, <1>3 DEF s
  <1> QED
    BY <1>1, <1>3, <1>4, <1>5, <1>6, InSaveInv DEF InEffects

\* recordProviderFailure of an operation that the record allows to fail.
LEMMA InFailInv ==
  ASSUME InInv, NEW c \in InCalls, inCall[c].pc # "idle", NEW op \in InOperations, NEW retryable \in BOOLEAN,
         InFail(c, op, retryable),
         op \in InSetUp => inCall[c].state.owner = InNone,
         op = "project.import" => inCall[c].state.owner # InNone /\ inCall[c].state.resume \notin InDone
  PROVE  InInv' /\ InKept
  <1> DEFINE s == inCall[c].state
             f == [op |-> op, retryable |-> retryable]
             p == IF retryable THEN "degraded" ELSE "blocked"
             n == [s EXCEPT !.phase = p, !.failed = f]
  <1>1. InSave(c, n, "idle") /\ UNCHANGED InEffects
    BY DEF InFail
  <1>2. s \in InRecord /\ InSound(s, inImported)
    BY InWorksOn
  <1>a. /\ op \in InSetUp => s.owner = InNone
        /\ op = "project.import" => s.owner # InNone /\ s.resume \notin InDone
    OBVIOUS
  <1> HIDE DEF s
  <1>3. f \in InFailure /\ f.op = op /\ p \in InStopped /\ p \in InPhases
    BY DEF InFailure, InStopped, InPhases
  <1> HIDE DEF f, p
  <1>4. /\ n \in InRecord
        /\ n.phase = p /\ n.account = s.account /\ n.realm = s.realm /\ n.resources = s.resources /\ n.owner = s.owner
        /\ n.enrolled = s.enrolled /\ n.project = s.project /\ n.resume = s.resume /\ n.failed = f
    BY <1>2, <1>3 DEF InRecord
  <1> HIDE DEF n
  <1>5. InSound(n, inImported)
    BY <1>2, <1>3, <1>4, <1>a
       DEF InSound, InOwnerSound, InImportSound, InFailureSound, InOwned, InDone, InStopped, InSetUp
  <1>6. InStepSound("idle", n, inImported) /\ "idle" \in InPcs
    BY DEF InStepSound, InPcs
  <1> QED
    BY <1>1, <1>4, <1>5, <1>6, InSaveInv DEF InEffects, s

LEMMA InAccountFailsInv ==
  ASSUME InInv, NEW c \in InCalls, NEW retryable \in BOOLEAN, InAccountFails(c, retryable)
  PROVE  InInv' /\ InKept
  <1> DEFINE s == inCall[c].state
  <1>1. inCall[c].pc \in {"inspect"} /\ InFail(c, "account.inspect", retryable)
    BY DEF InAccountFails
  <1>2. s \in InRecord /\ InSound(s, inImported) /\ InStepSound(inCall[c].pc, s, inImported)
    BY <1>1, InWorksOn
  <1>3. /\ "account.inspect" \in InSetUp => s.owner = InNone
        /\ "account.inspect" = "project.import" => s.owner # InNone /\ s.resume \notin InDone
    BY <1>1, <1>2 DEF InStepSound, InSound, InOwnerSound, InImportSound, InOwned, InDone, InSetUp, InStopped
  <1> QED
    BY <1>1, <1>3, InFailInv DEF InOperations

LEMMA InProvisionFailsInv ==
  ASSUME InInv, NEW c \in InCalls, NEW retryable \in BOOLEAN, InProvisionFails(c, retryable)
  PROVE  InInv' /\ InKept
  <1> DEFINE s == inCall[c].state
  <1>1. inCall[c].pc \in {"provision", "provisioned"} /\ InFail(c, "realm.provision", retryable)
    BY DEF InProvisionFails
  <1>2. s \in InRecord /\ InSound(s, inImported) /\ InStepSound(inCall[c].pc, s, inImported)
    BY <1>1, InWorksOn
  <1>3. /\ "realm.provision" \in InSetUp => s.owner = InNone
        /\ "realm.provision" = "project.import" => s.owner # InNone /\ s.resume \notin InDone
    BY <1>1, <1>2 DEF InStepSound, InSound, InOwnerSound, InImportSound, InOwned, InDone, InSetUp, InStopped
  <1> QED
    BY <1>1, <1>3, InFailInv DEF InOperations

LEMMA InImportFailsInv ==
  ASSUME InInv, NEW c \in InCalls, NEW retryable \in BOOLEAN, InImportFails(c, retryable)
  PROVE  InInv' /\ InKept
  <1> DEFINE s == inCall[c].state
  <1>1. inCall[c].pc \in {"import", "imported"} /\ InFail(c, "project.import", retryable)
    BY DEF InImportFails
  <1>2. s \in InRecord /\ InSound(s, inImported) /\ InStepSound(inCall[c].pc, s, inImported)
    BY <1>1, InWorksOn
  <1>3. /\ "project.import" \in InSetUp => s.owner = InNone
        /\ "project.import" = "project.import" => s.owner # InNone /\ s.resume \notin InDone
    BY <1>1, <1>2 DEF InStepSound, InSound, InOwnerSound, InImportSound, InOwned, InDone, InSetUp, InStopped
  <1> QED
    BY <1>1, <1>3, InFailInv DEF InOperations

LEMMA InActivationFailsInv ==
  ASSUME InInv, NEW c \in InCalls, NEW retryable \in BOOLEAN, InActivationFails(c, retryable)
  PROVE  InInv' /\ InKept
  <1> DEFINE s == inCall[c].state
  <1>1. inCall[c].pc \in {"reinspect"} /\ InFail(c, "realm.recover", retryable)
    BY DEF InActivationFails
  <1>2. s \in InRecord /\ InSound(s, inImported) /\ InStepSound(inCall[c].pc, s, inImported)
    BY <1>1, InWorksOn
  <1>3. /\ "realm.recover" \in InSetUp => s.owner = InNone
        /\ "realm.recover" = "project.import" => s.owner # InNone /\ s.resume \notin InDone
    BY <1>1, <1>2 DEF InStepSound, InSound, InOwnerSound, InImportSound, InOwned, InDone, InSetUp, InStopped
  <1> QED
    BY <1>1, <1>3, InFailInv DEF InOperations

\* The phase a readiness receipt resumes is one the record can stand in.
LEMMA InResumeSound ==
  ASSUME NEW s \in InRecord, NEW imported, InSound(s, imported), s.phase \in InReadinessPhases
  PROVE  /\ InResume(s) \in InPhases \cup {InNone}
         /\ InResume(s) \notin {"new", "account-verifying", "blocked", "recovery-pending"}
         /\ InResume(s) \in InOwned => s.owner # InNone
         /\ InResume(s) \in InDone => s.project = "imported"
  <1>1. /\ s.phase \in InPhases /\ s.resume \in InPhases \cup {InNone}
        /\ s.phase \notin {"new", "account-verifying", "blocked", "recovery-pending"}
    BY DEF InRecord, InReadinessPhases
  <1>2. InNone \notin InOwned /\ InNone \notin InDone /\ InNone \notin InPhases
        /\ InNone \notin {"new", "account-verifying", "blocked", "recovery-pending"}
    BY InNoneAssumption DEF InOwned, InDone, InPhases
  <1>3. InResume(s) \in {s.resume, s.phase, InNone}
    BY DEF InResume
  <1> QED
    BY <1>1, <1>2, <1>3 DEF InSound, InOwnerSound, InImportSound

LEMMA InReadyInv ==
  ASSUME InInv, NEW c \in InCalls, InReady(c)
  PROVE  InInv' /\ InKept
  <1> DEFINE s == inCall[c].state
             q == InResume(s)
             p == IF q # InNone THEN q ELSE "realm-ready"
             n == [s EXCEPT !.phase = p, !.resume = q, !.failed = InNone]
  <1>1. /\ inCall[c].pc = "open" /\ s.phase \in InReadinessPhases /\ s.account = TRUE
        /\ InSave(c, n, "idle") /\ UNCHANGED InEffects
    <2>1. inCall[c].state \in InRecord
      BY InTypes
    <2>2. inCall[c].state.account \in BOOLEAN
      BY <2>1 DEF InRecord
    <2> QED
      BY <2>2 DEF InReady, InAt
  <1>2. s \in InRecord /\ InSound(s, inImported)
    BY <1>1, InWorksOn
  <1> HIDE DEF s
  <1>3. /\ q \in InPhases \cup {InNone} /\ q \notin {"new", "account-verifying", "blocked", "recovery-pending"}
        /\ q \in InOwned => s.owner # InNone
        /\ q \in InDone => s.project = "imported"
    BY <1>1, <1>2, InResumeSound
  <1> HIDE DEF q
  <1>4. /\ p \in InPhases /\ p \in {q, "realm-ready"} /\ (q # InNone => p = q)
    BY <1>3 DEF InPhases
  <1> HIDE DEF p
  <1>5. /\ n \in InRecord
        /\ n.phase = p /\ n.account = s.account /\ n.realm = s.realm /\ n.resources = s.resources /\ n.owner = s.owner
        /\ n.enrolled = s.enrolled /\ n.project = s.project /\ n.resume = q /\ n.failed = InNone
    BY <1>2, <1>3, <1>4 DEF InRecord
  <1> HIDE DEF n
  <1>6. InOwnerSound(n) /\ InFailureSound(n)
    BY <1>1, <1>2, <1>3, <1>4, <1>5 DEF InSound, InOwnerSound, InFailureSound, InOwned
  <1>7. q \in InDone => q # InNone
    BY InNoneAssumption DEF InDone, InPhases
  <1>8. InImportSound(n, inImported)
    BY <1>2, <1>3, <1>4, <1>5, <1>7 DEF InSound, InImportSound, InDone
  <1>9. InStepSound("idle", n, inImported) /\ "idle" \in InPcs
    BY DEF InStepSound, InPcs
  <1> QED
    BY <1>1, <1>5, <1>6, <1>8, <1>9, InSaveInv DEF InEffects, InSound, s

LEMMA InNotReadyInv ==
  ASSUME InInv, NEW c \in InCalls, NEW retryable \in BOOLEAN, InNotReady(c, retryable)
  PROVE  InInv' /\ InKept
  <1> DEFINE s == inCall[c].state
             q == InResume(s)
             p == IF retryable THEN "degraded" ELSE "blocked"
             f == [op |-> "deployment.readiness", retryable |-> retryable]
             n == [s EXCEPT !.phase = p, !.resume = q, !.failed = f]
  <1>1. /\ inCall[c].pc = "open" /\ s.phase \in InReadinessPhases
        /\ InSave(c, n, "idle") /\ UNCHANGED InEffects
    BY DEF InNotReady, InAt
  <1>2. s \in InRecord /\ InSound(s, inImported)
    BY <1>1, InWorksOn
  <1> HIDE DEF s
  <1>3. /\ q \in InPhases \cup {InNone} /\ q \notin {"new", "account-verifying", "blocked", "recovery-pending"}
        /\ q \in InOwned => s.owner # InNone
        /\ q \in InDone => s.project = "imported"
    BY <1>1, <1>2, InResumeSound
  <1> HIDE DEF q
  <1>4. p \in InPhases /\ p \in InStopped /\ f \in InFailure /\ f.op = "deployment.readiness"
    BY DEF InPhases, InStopped, InFailure, InOperations
  <1> HIDE DEF p, f
  <1>5. /\ n \in InRecord
        /\ n.phase = p /\ n.account = s.account /\ n.realm = s.realm /\ n.resources = s.resources /\ n.owner = s.owner
        /\ n.enrolled = s.enrolled /\ n.project = s.project /\ n.resume = q /\ n.failed = f
    BY <1>2, <1>3, <1>4 DEF InRecord
  <1> HIDE DEF n
  <1>6. InOwnerSound(n) /\ InFailureSound(n)
    BY <1>2, <1>3, <1>4, <1>5 DEF InSound, InOwnerSound, InFailureSound, InOwned, InStopped, InSetUp
  <1>8. InImportSound(n, inImported)
    BY <1>2, <1>3, <1>4, <1>5 DEF InSound, InImportSound, InDone, InStopped
  <1>9. InStepSound("idle", n, inImported) /\ "idle" \in InPcs
    BY DEF InStepSound, InPcs
  <1> QED
    BY <1>1, <1>5, <1>6, <1>8, <1>9, InSaveInv DEF InEffects, InSound, s

LEMMA InExportInv ==
  ASSUME InInv, NEW c \in InCalls, InExport(c)
  PROVE  InInv' /\ InKept
  <1>1. /\ inCall[c].pc = "open" /\ InSave(c, inCall[c].state, "idle")
        /\ inBundle' \in {inBundle, inState'} /\ UNCHANGED <<inResources, inImported, inLosses>>
    BY DEF InExport, InKeepBundle
  <1>2. InStepSound("idle", inCall[c].state, inImported) /\ "idle" \in InPcs
    BY DEF InStepSound, InPcs
  <1> QED
    BY <1>1, <1>2, InWorksOn, InSaveInv

LEMMA InRestoreInv ==
  ASSUME InInv, NEW c \in InCalls, InRestore(c)
  PROVE  InInv' /\ InKept
  <1> DEFINE s == inBundle
             n == [s EXCEPT !.phase = "recovery-pending", !.resources = "recovery-pending", !.failed = InNone]
  <1>1. /\ inCall[c].pc = "open" /\ inBundle # InNone /\ inCall[c].state.phase = "new"
        /\ InSave(c, n, "idle") /\ UNCHANGED InEffects
    BY DEF InRestore, InAt
  <1>2. s \in InRecord /\ InSound(s, inImported)
    BY <1>1 DEF InInv, InTypeOK
  <1> HIDE DEF s
  <1>3. /\ n \in InRecord
        /\ n.phase = "recovery-pending" /\ n.account = s.account /\ n.realm = s.realm /\ n.owner = s.owner
        /\ n.enrolled = s.enrolled /\ n.project = s.project /\ n.resume = s.resume /\ n.failed = InNone
    BY <1>2 DEF InRecord, InPhases
  <1> HIDE DEF n
  <1>4. InSound(n, inImported)
    BY <1>2, <1>3 DEF InSound, InOwnerSound, InImportSound, InFailureSound, InOwned, InDone
  <1>5. InStepSound("idle", n, inImported) /\ "idle" \in InPcs
    BY DEF InStepSound, InPcs
  <1>6. inCall[c].state.enrolled \subseteq n.enrolled /\ (inCall[c].state.account = TRUE => n.account = TRUE)
    BY <1>1, InWorksOn DEF InSound, InOwnerSound
  <1> QED
    BY <1>1, <1>3, <1>4, <1>5, <1>6, InSaveInv DEF InEffects

LEMMA InActivatedInv ==
  ASSUME InInv, NEW c \in InCalls, InActivated(c)
  PROVE  InInv' /\ InKept
  <1> DEFINE s == inCall[c].state
             p == CASE s.project = "imported" -> "active"
                    [] s.project = "none" -> "owner-ready"
                    [] OTHER -> "project-ready"
             n == [s EXCEPT !.phase = p, !.resources = "verified", !.failed = InNone]
  <1>1. /\ inCall[c].pc = "reinspect"
        /\ InSave(c, n, "idle") /\ UNCHANGED InEffects
    BY DEF InActivated
  <1>2. s \in InRecord /\ InSound(s, inImported) /\ s.owner # InNone
    BY <1>1, InWorksOn DEF InStepSound
  <1> HIDE DEF s
  <1>3. p \in {"active", "owner-ready", "project-ready"} /\ (p = "active" <=> s.project = "imported")
    OBVIOUS
  <1> HIDE DEF p
  <1>4. /\ n \in InRecord
        /\ n.phase = p /\ n.account = s.account /\ n.realm = s.realm /\ n.owner = s.owner
        /\ n.enrolled = s.enrolled /\ n.project = s.project /\ n.resume = s.resume /\ n.failed = InNone
    BY <1>2, <1>3 DEF InRecord, InPhases
  <1> HIDE DEF n
  <1>5. InSound(n, inImported)
    BY <1>2, <1>3, <1>4 DEF InSound, InOwnerSound, InImportSound, InFailureSound, InOwned, InDone
  <1>6. InStepSound("idle", n, inImported) /\ "idle" \in InPcs
    BY DEF InStepSound, InPcs
  <1> QED
    BY <1>1, <1>4, <1>5, <1>6, InSaveInv DEF InEffects, s

\* The steps that save nothing.
LEMMA InMovesInv ==
  ASSUME InInv, NEW c \in InCalls, inCall[c].pc # "idle", NEW pc \in InPcs,
         inCall' = [inCall EXCEPT ![c].pc = pc],
         UNCHANGED <<inState, inBundle, inLosses>>, inResources' \in BOOLEAN, inImported' \in BOOLEAN,
         inImported = TRUE => inImported' = TRUE,
         InStepSound(pc, inCall[c].state, inImported')
  PROVE  InInv' /\ InKept
  <1> DEFINE s == inCall[c].state
             x == [inCall[c] EXCEPT !.pc = pc]
  <1>1. inCall[c] \in InCallRecord /\ inCall' = [inCall EXCEPT ![c] = x]
    BY InTypes
  <1>2. x \in InCallRecord /\ x.pc = pc /\ x.state = s
    BY <1>1 DEF InCallRecord, InPcs
  <1>3. InSound(s, inImported')
    BY InWorksOn DEF InSound, InImportSound
  <1>4. s.version <= inState.version /\ (s.version = inState.version => s = inState)
    BY InTypes DEF InCallSound
  <1>5. InCallSound(x, inState, inImported')
    BY <1>2, <1>3, <1>4 DEF InCallSound
  <1> QED
    BY <1>1, <1>2, <1>5, InOneMoves

LEMMA InOpenInv ==
  ASSUME InInv, NEW c \in InCalls, InOpen(c)
  PROVE  InInv' /\ InKept
  <1> DEFINE x == [pc |-> "open", state |-> inState]
  <1>1. inCall' = [inCall EXCEPT ![c] = x] /\ UNCHANGED <<inState, inResources, inImported, inBundle, inLosses>>
    BY DEF InOpen, InEffects
  <1>2. x \in InCallRecord /\ x.pc = "open" /\ x.state = inState
    BY InTypes DEF InCallRecord
  <1>3. inState.version \in Nat
    BY InTypes, InVersionNat
  <1> HIDE DEF x
  <1>4. InStepSound("open", inState, inImported)
    BY DEF InStepSound
  <1>5. InCallSound(x, inState, inImported)
    BY <1>2, <1>3, <1>4, InTypes DEF InCallSound
  <1> QED
    BY <1>1, <1>2, <1>5, InOneMoves, InTypes

LEMMA InStopInv ==
  ASSUME InInv, NEW c \in InCalls, InStop(c)
  PROVE  InInv' /\ InKept
  <1>1. inCall' = [inCall EXCEPT ![c] = InIdle] /\ UNCHANGED <<inState, inResources, inImported, inBundle, inLosses>>
    BY DEF InStop, InEffects
  <1>2. InCallSound(InIdle, inState, inImported)
    BY InBlankSound DEF InCallSound
  <1> QED
    BY <1>1, <1>2, InOneMoves, InTypes, InBlankSound

LEMMA InProvisionInv ==
  ASSUME InInv, NEW c \in InCalls, InProvision(c)
  PROVE  InInv' /\ InKept
  <1>1. /\ inCall[c].pc = "provision" /\ inCall' = [inCall EXCEPT ![c].pc = "provisioned"]
        /\ inResources' = TRUE /\ UNCHANGED <<inState, inImported, inBundle, inLosses>>
    BY DEF InProvision
  <1>2. InStepSound("provisioned", inCall[c].state, inImported) /\ "provisioned" \in InPcs
    BY <1>1, InWorksOn DEF InStepSound, InPcs
  <1> QED
    BY <1>1, <1>2, InMovesInv, InTypes

LEMMA InImportInv ==
  ASSUME InInv, NEW c \in InCalls, InImport(c)
  PROVE  InInv' /\ InKept
  <1>1. /\ inCall[c].pc = "import" /\ inCall' = [inCall EXCEPT ![c].pc = "imported"]
        /\ inImported' = TRUE /\ UNCHANGED <<inState, inResources, inBundle, inLosses>>
    BY DEF InImport
  <1>2. InStepSound("imported", inCall[c].state, inImported') /\ "imported" \in InPcs
    BY <1>1, InWorksOn DEF InStepSound, InPcs
  <1> QED
    BY <1>1, <1>2, InMovesInv, InTypes

LEMMA InRecoverProviderInv ==
  ASSUME InInv, NEW c \in InCalls, InRecoverProvider(c)
  PROVE  InInv' /\ InKept
  <1> DEFINE s == inCall[c].state
  <1>1. PICK op \in InSetUp :
          /\ InRecoverable(c, op)
          /\ inCall' = [inCall EXCEPT ![c].pc = IF op = "account.inspect" THEN "inspect" ELSE "provision"]
    BY DEF InRecoverProvider, InSetUp
  <1>2. UNCHANGED <<inState, inResources, inImported, inBundle, inLosses>>
    BY DEF InRecoverProvider, InEffects
  <1>3. /\ inCall[c].pc = "open" /\ s.failed = [op |-> op, retryable |-> TRUE]
    BY <1>1 DEF InRecoverable, InAt
  <1>4. s.failed # InNone /\ s.failed.op = op
    BY <1>1, <1>3, InFailureIs DEF InSetUp, InOperations
  <1>5. InSound(s, inImported)
    BY <1>3, InWorksOn
  <1>6. s.owner = InNone /\ s.failed.op # "project.import"
    BY <1>1, <1>4, <1>5 DEF InSound, InFailureSound, InSetUp
  <1> DEFINE pc == IF op = "account.inspect" THEN "inspect" ELSE "provision"
  <1>7. pc \in {"inspect", "provision"}
    OBVIOUS
  <1> HIDE DEF pc
  <1>8. InStepSound(pc, s, inImported) /\ pc \in InPcs
    BY <1>6, <1>7 DEF InStepSound, InPcs
  <1>9. inCall' = [inCall EXCEPT ![c].pc = pc]
    BY <1>1 DEF pc
  <1> QED
    BY <1>2, <1>3, <1>8, <1>9, InMovesInv, InTypes

LEMMA InActivateInv ==
  ASSUME InInv, NEW c \in InCalls, NEW o \in InOwners, InActivate(c, o)
  PROVE  InInv' /\ InKept
  <1>1. /\ inCall[c].pc = "open" /\ inCall' = [inCall EXCEPT ![c].pc = "reinspect"]
        /\ inCall[c].state.owner # InNone
        /\ UNCHANGED <<inState, inResources, inImported, inBundle, inLosses>>
    BY InNoneAssumption DEF InActivate, InAt, InEffects
  <1>2. InStepSound("reinspect", inCall[c].state, inImported) /\ "reinspect" \in InPcs
    BY <1>1 DEF InStepSound, InPcs
  <1> QED
    BY <1>1, <1>2, InMovesInv, InTypes

LEMMA InLoseInv ==
  ASSUME InInv, NEW all \in BOOLEAN, InLose(all)
  PROVE  InInv' /\ inLosses' # inLosses
  <1>1. /\ inState' = InBlank /\ inCall' = [c \in InCalls |-> InIdle]
        /\ inImported' = inImported /\ inBundle' = inBundle
    BY DEF InLose
  <1>2. inResources' \in BOOLEAN
    BY DEF InLose
  <1>3. inLosses' \in 0 .. InMaxLosses
    BY InAssumption DEF InLose, InInv, InTypeOK
  <1>4. InTypeOK' /\ InSound(inState', inImported')
    BY <1>1, <1>2, <1>3, InBlankSound DEF InInv, InTypeOK
  <1>5. \A c \in InCalls : InCallSound(inCall'[c], inState', inImported')
    BY <1>1, InBlankSound DEF InCallSound
  <1>6. inLosses' # inLosses
    BY InAssumption DEF InLose, InInv, InTypeOK
  <1> QED
    BY <1>1, <1>4, <1>5, <1>6 DEF InInv

LEMMA InStepInv == ASSUME InInv, [InNext]_inVars PROVE InInv' /\ (inLosses' = inLosses => InKept)
  <1>1. CASE UNCHANGED inVars
    BY <1>1 DEF inVars, InInv, InTypeOK, InKept
  <1>2. ASSUME NEW c \in InCalls,
               \/ InOpen(c) \/ InStop(c) \/ InInstall(c) \/ InAccountReady(c) \/ InProvisioning(c)
               \/ InProvision(c) \/ InFinishProvisioning(c)
               \/ InCreateProject(c) \/ InImportProject(c) \/ InImport(c) \/ InFinishImport(c)
               \/ InReady(c) \/ InRecoverProvider(c) \/ InRecoverImport(c)
               \/ InExport(c) \/ InRestore(c) \/ InActivated(c)
        PROVE  InInv' /\ InKept
    BY <1>2, InOpenInv, InStopInv, InInstallInv, InAccountReadyInv, InProvisioningInv, InProvisionInv,
       InFinishProvisioningInv, InCreateProjectInv, InImportProjectInv, InImportInv, InFinishImportInv, InReadyInv,
       InRecoverProviderInv, InRecoverImportInv, InExportInv, InRestoreInv, InActivatedInv
  <1>3. ASSUME NEW c \in InCalls, NEW o \in InOwners, InEnrollOwner(c, o) \/ InActivate(c, o) PROVE InInv' /\ InKept
    BY <1>3, InEnrollOwnerInv, InActivateInv
  <1>4. ASSUME NEW c \in InCalls, NEW retryable \in BOOLEAN,
               \/ InAccountFails(c, retryable) \/ InProvisionFails(c, retryable) \/ InImportFails(c, retryable)
               \/ InNotReady(c, retryable) \/ InActivationFails(c, retryable)
        PROVE  InInv' /\ InKept
    BY <1>4, InAccountFailsInv, InProvisionFailsInv, InImportFailsInv, InNotReadyInv, InActivationFailsInv
  <1> QED
    BY <1>1, <1>2, <1>3, <1>4, InLoseInv DEF InNext

LEMMA InInitInv == InInit => InInv
  <1> SUFFICES ASSUME InInit PROVE InInv
    OBVIOUS
  <1>1. 0 \in 0 .. InMaxLosses
    BY InAssumption
  <1>2. InTypeOK
    BY <1>1, InBlankSound DEF InInit, InTypeOK
  <1>3. inImported \in BOOLEAN /\ inState = InBlank
    BY DEF InInit
  <1>4. \A c \in InCalls : InCallSound(inCall[c], inState, inImported)
    BY InBlankSound DEF InInit, InCallSound
  <1> QED
    BY <1>2, <1>3, <1>4, InBlankSound DEF InInv, InInit

LEMMA InAlwaysInv == InSpec => []InInv
  BY InInitInv, InStepInv, PTL DEF InSpec

\* The record, the requests and the bundle keep their types.
THEOREM InTypeCorrect == InSpec => []InTypeOK
  BY InAlwaysInv, PTL DEF InInv

\* From owner-ready on the account is verified, the
\* Realm exists and its owner is enrolled; imported and active stand on a
\* verified import; and no request, however stale, unverifies the account or
\* forgets an owner (transition, recover, activateRecovery, saveIfCurrent).
THEOREM InHistoryKeptCorrect == InSpec => InHistoryKept
  <1> DEFINE Owned == inState.phase \in InOwned =>
                        inState.account /\ inState.realm /\ inState.owner \in inState.enrolled
             Done == inState.phase \in {"imported", "active"} => inState.project = "imported" /\ inImported
             Kept == inLosses' = inLosses => /\ inState.enrolled \subseteq inState'.enrolled
                                             /\ inState.account => inState'.account
  <1>1. InInv => Owned /\ Done
    <2> SUFFICES ASSUME InInv PROVE Owned /\ Done
      OBVIOUS
    <2>1. inState \in InRecord /\ InSound(inState, inImported)
      BY DEF InInv, InTypeOK
    <2> QED
      BY <2>1 DEF InSound, InOwnerSound, InImportSound, InDone
  <1>2. InInv /\ [InNext]_inVars => [Kept]_inVars
    <2> SUFFICES ASSUME InInv, [InNext]_inVars PROVE Kept
      OBVIOUS
    <2>1. inLosses' = inLosses => InKept
      BY InStepInv
    <2>2. inState \in InRecord /\ inState' \in InRecord
      BY InStepInv DEF InInv, InTypeOK
    <2>3. inState.account \in BOOLEAN /\ inState'.account \in BOOLEAN
      BY <2>2 DEF InRecord
    <2> QED
      BY <2>1, <2>3 DEF InKept
  <1> QED
    BY <1>1, <1>2, InAlwaysInv, PTL DEF InSpec, InHistoryKept

-----------------------------------------------------------------------------
(* The transfer of Projects *)

\* Every import has a destination of its own.
PtOwnDests == \A k, j \in PtAll : PtDestOf[k] = PtDestOf[j] => k = j

PtRunning == {"copying", "checking", "next", "restoring", "verifying"}

\* What an operation says it has restored is in the destination at the version
\* that the manifest names.
PtHolds(op, dest) ==
  /\ op.completed \subseteq DOMAIN op.digest
  /\ \A s \in op.completed : dest[s] \in PtRepos /\ dest[s].version = op.digest[s]

PtFileSound(f, dest) ==
  f \in PtOps => PtHolds(f, dest) /\ (f.state = "activated" => DOMAIN f.digest \subseteq f.completed)

\* The process of a key works under the digest that its file names; what it has
\* restored and not verified yet is a repository.
PtProcSound(x, f, dest) ==
  /\ x.pc \in PtRunning =>
       /\ x.op \in PtOps /\ PtHolds(x.op, dest) /\ x.op.state # "activated"
       /\ f \in PtOps => f.digest = x.op.digest
  /\ x.pc \in {"restoring", "verifying"} => x.space \in DOMAIN x.op.digest
  /\ x.pc = "verifying" => dest[x.space] \in PtRepos

\* Only the import of a Git repository clones; it bundles what it has cloned.
PtCloneSound(k) ==
  /\ ptProc[k].pc \in {"cloning", "bundling", "package"} => k \in PtGit
  /\ ptProc[k].pc = "bundling" => ptClone[k] # PtNone
  /\ ptProc[k].pc = "package" => ptPackage[k].bundle[PtGitSpace] \in PtVersions

PtKeySound(k) ==
  /\ PtFileSound(ptFile[k], ptDest[PtDestOf[k]])
  /\ PtProcSound(ptProc[k], ptFile[k], ptDest[PtDestOf[k]])
  /\ PtCloneSound(k)

PtInv == PtTypeOK /\ \A k \in PtAll : PtKeySound(k)

-----------------------------------------------------------------------------
(* Values *)

LEMMA PtManifestIs ==
  /\ \A m \in PtManifests : DOMAIN m \subseteq PtSpaces /\ \A s \in DOMAIN m : m[s] \in PtVersions
  /\ \A S \in SUBSET PtSpaces : \A m \in [S -> PtVersions] : m \in PtManifests
  BY DEF PtManifests

LEMMA PtOpIs ==
  ASSUME NEW op \in PtOps, NEW state \in PtStates
  PROVE  /\ op.digest \in PtManifests /\ op.completed \subseteq PtSpaces
         /\ [op EXCEPT !.state = state] \in PtOps
         /\ [op EXCEPT !.state = state].digest = op.digest
         /\ [op EXCEPT !.state = state].completed = op.completed
         /\ [op EXCEPT !.state = state].state = state
  BY DEF PtOps

LEMMA PtVersionIs == \A v \in PtVersions : v \in 0 .. PtMaxVersions /\ v \in Nat
  BY PtAssumption DEF PtVersions

LEMMA PtIdleIs == PtIdle \in PtProcs /\ PtIdle.pc = "idle"
  BY DEF PtIdle, PtProcs

LEMMA PtEmptyIs == PtEmpty \in PtPackageSet
  <1>1. 0 \in 0 .. PtMaxVersions
    BY PtAssumption
  <1> QED
    BY <1>1 DEF PtEmpty, PtPackageSet

\* A file of a package replaced.
LEMMA PtPackageIs ==
  ASSUME NEW p \in PtPackageSet
  PROVE  /\ \A s \in PtSpaces : p.bundle[s] \in 0 .. PtMaxVersions
         /\ \A m \in PtManifests \cup {PtNone, PtTorn} :
              /\ [p EXCEPT !.manifest = m] \in PtPackageSet
              /\ [p EXCEPT !.manifest = m].bundle = p.bundle
         /\ \A s \in PtSpaces, v \in 0 .. PtMaxVersions :
              /\ [p EXCEPT !.bundle[s] = v] \in PtPackageSet
              /\ [p EXCEPT !.bundle[s] = v].bundle = [p.bundle EXCEPT ![s] = v]
  <1>1. p.bundle \in [PtSpaces -> 0 .. PtMaxVersions]
    BY DEF PtPackageSet
  <1>2. ASSUME NEW m \in PtManifests \cup {PtNone, PtTorn}
        PROVE  [p EXCEPT !.manifest = m] \in PtPackageSet /\ [p EXCEPT !.manifest = m].bundle = p.bundle
    BY DEF PtPackageSet
  <1>3. ASSUME NEW s \in PtSpaces, NEW v \in 0 .. PtMaxVersions
        PROVE  /\ [p EXCEPT !.bundle[s] = v] \in PtPackageSet
               /\ [p EXCEPT !.bundle[s] = v].bundle = [p.bundle EXCEPT ![s] = v]
    <2> DEFINE b == [p.bundle EXCEPT ![s] = v]
    <2>1. b \in [PtSpaces -> 0 .. PtMaxVersions]
      BY <1>1
    <2> HIDE DEF b
    <2>2. [p EXCEPT !.bundle = b] \in PtPackageSet /\ [p EXCEPT !.bundle = b].bundle = b
      BY <2>1 DEF PtPackageSet
    <2> QED
      BY <2>2 DEF b
  <1> QED
    BY <1>1, <1>2, <1>3

LEMMA PtTypes ==
  ASSUME PtInv, NEW k \in PtAll
  PROVE  /\ ptSource \in [PtSpaces -> PtVersions] /\ ptExport \in PtManifests \cup {PtNone}
         /\ ptPackage \in [PtPackages -> PtPackageSet] /\ ptClone \in [PtGit -> PtVersions \cup {PtNone, PtTorn}]
         /\ ptFile \in [PtAll -> PtOps \cup {PtNone, PtTorn}] /\ ptQuar \in [PtAll -> PtPackageSet \cup {PtNone}]
         /\ ptProc \in [PtAll -> PtProcs]
         /\ ptDest \in [PtDests -> [PtSpaces -> PtRepos \cup {PtNone, PtTorn}]]
         /\ ptCrashes \in 0 .. PtMaxCrashes
         /\ PtDestOf[k] \in PtDests /\ PtPkg(k) \in PtPackages /\ PtKeySound(k)
         /\ ptProc[k] \in PtProcs /\ ptDest[PtDestOf[k]] \in [PtSpaces -> PtRepos \cup {PtNone, PtTorn}]
         /\ ptPackage[PtPkg(k)] \in PtPackageSet
  <1>1. PtDestOf[k] \in PtDests
    BY PtAssumption DEF PtAll
  <1>2. PtPkg(k) \in PtPackages
    BY DEF PtPkg, PtPackages
  <1> QED
    BY <1>1, <1>2 DEF PtInv, PtTypeOK

-----------------------------------------------------------------------------
(* Steps *)

\* A step of one key leaves the others sound.
LEMMA PtOthersSound ==
  ASSUME PtInv, PtOwnDests, NEW k \in PtAll, NEW j \in PtAll, j # k,
         ptProc'[j] = ptProc[j], ptFile'[j] = ptFile[j], ptDest'[PtDestOf[j]] = ptDest[PtDestOf[j]],
         j \in PtGit => ptClone'[j] = ptClone[j] /\ ptPackage'[j].bundle = ptPackage[j].bundle
  PROVE  PtKeySound(j)'
  <1>1. PtKeySound(j)
    BY DEF PtInv
  <1> QED
    BY <1>1 DEF PtKeySound, PtCloneSound

\* A step of the process alone.
LEMMA PtProcStep ==
  ASSUME PtInv, PtOwnDests, NEW k \in PtAll, NEW x \in PtProcs, ptProc' = [ptProc EXCEPT ![k] = x],
         UNCHANGED <<ptSource, ptExport, ptFile, ptDest, ptCrashes>>,
         ptQuar' \in [PtAll -> PtPackageSet \cup {PtNone}],
         ptPackage' \in [PtPackages -> PtPackageSet], ptClone' \in [PtGit -> PtVersions \cup {PtNone, PtTorn}],
         \A j \in PtGit : j # k => ptClone'[j] = ptClone[j] /\ ptPackage'[j].bundle = ptPackage[j].bundle,
         PtProcSound(x, ptFile[k], ptDest[PtDestOf[k]]),
         x.pc \in {"cloning", "bundling", "package"} => k \in PtGit,
         x.pc = "bundling" => ptClone'[k] # PtNone,
         x.pc = "package" => ptPackage'[k].bundle[PtGitSpace] \in PtVersions
  PROVE  PtInv'
  <1>1. PtTypeOK'
    BY DEF PtInv, PtTypeOK
  <1>2. ptProc'[k] = x /\ \A j \in PtAll : j # k => ptProc'[j] = ptProc[j]
    BY PtTypes
  <1>3. PtKeySound(k)'
    <2>1. PtFileSound(ptFile[k], ptDest[PtDestOf[k]])'
      BY PtTypes DEF PtKeySound
    <2>2. PtProcSound(ptProc[k], ptFile[k], ptDest[PtDestOf[k]])'
      BY <1>2
    <2>3. PtCloneSound(k)'
      BY <1>2 DEF PtCloneSound
    <2> QED
      BY <2>1, <2>2, <2>3 DEF PtKeySound
  <1>4. ASSUME NEW j \in PtAll, j # k PROVE PtKeySound(j)'
    BY <1>2, <1>4, PtOthersSound
  <1> QED
    BY <1>1, <1>3, <1>4 DEF PtInv

\* The same when the process goes to another place with what it holds.
LEMMA PtGoes ==
  ASSUME PtInv, NEW k \in PtAll, NEW pc, pc \in {"idle", "cloning", "bundling", "package", "import"}, PtGo(k, pc)
  PROVE  \E x \in PtProcs : /\ ptProc' = [ptProc EXCEPT ![k] = x] /\ x.pc = pc
                            /\ PtProcSound(x, ptFile[k], ptDest[PtDestOf[k]])
  <1> DEFINE x == [ptProc[k] EXCEPT !.pc = pc]
  <1>1. x \in PtProcs /\ x.pc = pc
    BY PtTypes DEF PtProcs
  <1>2. ptProc' = [ptProc EXCEPT ![k] = x]
    BY PtTypes DEF PtGo
  <1> HIDE DEF x
  <1>3. PtProcSound(x, ptFile[k], ptDest[PtDestOf[k]])
    BY <1>1 DEF PtProcSound, PtRunning
  <1> QED
    BY <1>1, <1>2, <1>3

\* A process ends.
LEMMA PtEnds ==
  ASSUME PtInv, NEW k \in PtAll, PtEnd(k)
  PROVE  \E x \in PtProcs : /\ ptProc' = [ptProc EXCEPT ![k] = x] /\ x.pc = "idle"
                            /\ PtProcSound(x, ptFile[k], ptDest[PtDestOf[k]])
  <1>1. PtProcSound(PtIdle, ptFile[k], ptDest[PtDestOf[k]])
    BY PtIdleIs DEF PtProcSound, PtRunning
  <1> QED
    BY <1>1, PtIdleIs DEF PtEnd

\* The repositories of the Project, the export and its crash.
LEMMA PtProjectInv ==
  ASSUME PtInv, ptSource' \in [PtSpaces -> PtVersions], ptExport' \in PtManifests \cup {PtNone},
         ptPackage' \in [PtPackages -> PtPackageSet], ptCrashes' \in 0 .. PtMaxCrashes,
         \A j \in PtGit : ptPackage[j].bundle[PtGitSpace] \in PtVersions
                            => ptPackage'[j].bundle[PtGitSpace] \in PtVersions,
         UNCHANGED <<ptClone, ptFile, ptQuar, ptProc, ptDest>>
  PROVE  PtInv'
  <1>1. PtTypeOK'
    BY DEF PtInv, PtTypeOK
  <1>2. ASSUME NEW k \in PtAll PROVE PtKeySound(k)'
    BY DEF PtInv, PtKeySound, PtCloneSound
  <1> QED
    BY <1>1, <1>2 DEF PtInv

LEMMA PtCommitInv ==
  ASSUME PtInv, NEW s \in PtSpaces,
         PtCommit(s) \/ \E v \in PtVersions : PtSwap(s, v)
  PROVE  PtInv'
  <1>1. ptSource[s] < PtMaxVersions /\ ptSource' = [ptSource EXCEPT ![s] = ptSource[s] + 1]
        /\ UNCHANGED <<ptExport, ptPackage, ptClone, ptFile, ptQuar, ptProc, ptDest, ptCrashes>>
    BY DEF PtCommit, PtSwap
  <1>2. ptSource[s] + 1 \in PtVersions
    BY <1>1, PtAssumption DEF PtInv, PtTypeOK, PtVersions
  <1>3. ptSource' \in [PtSpaces -> PtVersions]
    BY <1>1, <1>2 DEF PtInv, PtTypeOK
  <1>4. /\ ptPackage' \in [PtPackages -> PtPackageSet] /\ ptExport' \in PtManifests \cup {PtNone}
        /\ ptCrashes' \in 0 .. PtMaxCrashes
    BY <1>1 DEF PtInv, PtTypeOK
  <1> QED
    BY <1>1, <1>3, <1>4, PtProjectInv

\* A step of the export that leaves the bundles alone, or replaces one.
LEMMA PtPackageStep ==
  ASSUME PtInv, NEW p \in PtPackageSet, ptPackage' = [ptPackage EXCEPT !["export"] = p],
         ptPackage["export"].bundle[PtGitSpace] \in PtVersions => p.bundle[PtGitSpace] \in PtVersions
  PROVE  /\ ptPackage' \in [PtPackages -> PtPackageSet]
         /\ \A j \in PtGit : ptPackage[j].bundle[PtGitSpace] \in PtVersions
                               => ptPackage'[j].bundle[PtGitSpace] \in PtVersions
  <1>1. ptPackage \in [PtPackages -> PtPackageSet] /\ PtGit \subseteq PtPackages
    BY DEF PtInv, PtTypeOK, PtPackages
  <1> QED
    BY <1>1

LEMMA PtExportInv ==
  ASSUME PtInv,
         \/ PtExportStart \/ PtExportManifest
         \/ \E s \in PtSpaces : PtExportBundle(s)
         \/ \E torn \in BOOLEAN : PtExportDies(torn)
  PROVE  PtInv'
  <1> USE DEF PtInv, PtTypeOK
  <1>1. "export" \in PtPackages /\ ptPackage["export"] \in PtPackageSet
    BY DEF PtPackages
  <1>2. CASE PtExportStart
    <2>1. [s \in {} |-> 0] \in PtManifests
      <3>1. [s \in {} |-> 0] \in [{} -> PtVersions] /\ {} \in SUBSET PtSpaces
        OBVIOUS
      <3> QED
        BY <3>1, PtManifestIs
    <2>2. ptExport' \in PtManifests \cup {PtNone}
      BY <1>2, <2>1 DEF PtExportStart
    <2> HIDE DEF PtInv, PtTypeOK
    <2> QED
      BY <1>2, <2>2, PtProjectInv DEF PtExportStart, PtInv, PtTypeOK
  <1>3. CASE PtExportManifest
    <2> DEFINE p == [ptPackage["export"] EXCEPT !.manifest = ptExport]
    <2>1. ptPackage' = [ptPackage EXCEPT !["export"] = p]
      BY <1>3 DEF PtExportManifest
    <2>2. ptExport \in PtManifests
      BY <1>3 DEF PtExportManifest
    <2>3. p \in PtPackageSet /\ p.bundle = ptPackage["export"].bundle
      BY <1>1, <2>2, PtPackageIs
    <2> HIDE DEF p
    <2>4. /\ ptPackage' \in [PtPackages -> PtPackageSet]
          /\ \A j \in PtGit : ptPackage[j].bundle[PtGitSpace] \in PtVersions
                               => ptPackage'[j].bundle[PtGitSpace] \in PtVersions
      BY <2>1, <2>3, PtPackageStep
    <2>5. /\ UNCHANGED <<ptSource, ptClone, ptFile, ptQuar, ptProc, ptDest, ptCrashes>>
          /\ ptSource' \in [PtSpaces -> PtVersions] /\ ptCrashes' \in 0 .. PtMaxCrashes
          /\ ptExport' \in PtManifests \cup {PtNone}
      BY <1>3 DEF PtExportManifest
    <2> HIDE DEF PtInv, PtTypeOK
    <2> QED
      BY <2>4, <2>5, PtProjectInv
  <1>4. ASSUME NEW s \in PtSpaces, PtExportBundle(s) PROVE PtInv'
    <2> DEFINE p == [ptPackage["export"] EXCEPT !.bundle[s] = ptSource[s]]
               S == DOMAIN ptExport \cup {s}
               m == [t \in S |-> IF t = s THEN ptSource[s] ELSE ptExport[t]]
    <2>1. ptPackage' = [ptPackage EXCEPT !["export"] = p] /\ ptExport' = m /\ ptExport \in PtManifests
      BY <1>4 DEF PtExportBundle, PtBundle
    <2>2. ptSource[s] \in PtVersions
      OBVIOUS
    <2>3. p \in PtPackageSet /\ p.bundle = [ptPackage["export"].bundle EXCEPT ![s] = ptSource[s]]
      BY <1>1, <2>2, PtPackageIs, PtVersionIs
    <2> HIDE DEF p
    <2>4. p.bundle[PtGitSpace] \in {ptSource[s], ptPackage["export"].bundle[PtGitSpace]}
      BY <1>1, <2>3, PtAssumption DEF PtPackageSet
    <2>5. /\ ptPackage' \in [PtPackages -> PtPackageSet]
          /\ \A j \in PtGit : ptPackage[j].bundle[PtGitSpace] \in PtVersions
                               => ptPackage'[j].bundle[PtGitSpace] \in PtVersions
      <3> HIDE DEF PtInv, PtTypeOK
      <3> QED
        BY <2>1, <2>2, <2>3, <2>4, PtPackageStep
    <2>6. m \in PtManifests
      <3>1. S \in SUBSET PtSpaces /\ m \in [S -> PtVersions]
        BY <2>1, <2>2, PtManifestIs
      <3> QED
        BY <3>1, PtManifestIs
    <2>7. /\ UNCHANGED <<ptSource, ptClone, ptFile, ptQuar, ptProc, ptDest, ptCrashes>>
          /\ ptSource' \in [PtSpaces -> PtVersions] /\ ptCrashes' \in 0 .. PtMaxCrashes
      BY <1>4 DEF PtExportBundle
    <2> HIDE DEF PtInv, PtTypeOK
    <2> QED
      BY <2>1, <2>5, <2>6, <2>7, PtProjectInv
  <1>5. ASSUME NEW torn \in BOOLEAN, PtExportDies(torn) PROVE PtInv'
    <2> DEFINE p == [ptPackage["export"] EXCEPT !.manifest = PtTorn]
    <2>1. ptPackage' = IF torn THEN [ptPackage EXCEPT !["export"] = p] ELSE ptPackage
      BY <1>5 DEF PtExportDies
    <2>2. p \in PtPackageSet /\ p.bundle = ptPackage["export"].bundle
      BY <1>1, PtPackageIs
    <2> HIDE DEF p
    <2>3. /\ ptPackage' \in [PtPackages -> PtPackageSet]
          /\ \A j \in PtGit : ptPackage[j].bundle[PtGitSpace] \in PtVersions
                               => ptPackage'[j].bundle[PtGitSpace] \in PtVersions
      BY <2>1, <2>2, PtPackageStep
    <2>4. /\ UNCHANGED <<ptSource, ptClone, ptFile, ptQuar, ptProc, ptDest>>
          /\ ptSource' \in [PtSpaces -> PtVersions] /\ ptExport' \in PtManifests \cup {PtNone}
      BY <1>5 DEF PtExportDies
    <2>5. ptCrashes' \in 0 .. PtMaxCrashes
      BY <1>5, PtAssumption DEF PtExportDies
    <2> HIDE DEF PtInv, PtTypeOK
    <2> QED
      BY <2>3, <2>4, <2>5, PtProjectInv
  <1> QED
    BY <1>2, <1>3, <1>4, <1>5

\* Work in a destination keeps the version it descends from.
LEMMA PtEditInv ==
  ASSUME PtInv, NEW d \in PtDests, NEW s \in PtSpaces, PtEdit(d, s)
  PROVE  PtInv'
  <1> DEFINE r == [ptDest[d][s] EXCEPT !.edited = TRUE]
             e == [ptDest[d] EXCEPT ![s] = r]
  <1>1. /\ ptDest[d][s] \in PtRepos /\ ptDest' = [ptDest EXCEPT ![d] = e]
        /\ UNCHANGED <<ptSource, ptExport, ptPackage, ptClone, ptFile, ptQuar, ptProc, ptCrashes>>
    BY DEF PtEdit
  <1>2. r \in PtRepos /\ r.version = ptDest[d][s].version
    BY <1>1 DEF PtRepos
  <1> HIDE DEF r
  <1>3. /\ ptDest \in [PtDests -> [PtSpaces -> PtRepos \cup {PtNone, PtTorn}]]
        /\ ptDest[d] \in [PtSpaces -> PtRepos \cup {PtNone, PtTorn}]
    BY DEF PtInv, PtTypeOK
  <1>4. e \in [PtSpaces -> PtRepos \cup {PtNone, PtTorn}] /\ e[s] = r /\ \A t \in PtSpaces : t # s => e[t] = ptDest[d][t]
    BY <1>2, <1>3
  <1> HIDE DEF e
  <1>5. PtTypeOK'
    BY <1>1, <1>3, <1>4 DEF PtInv, PtTypeOK
  <1>6. \A c \in PtDests, t \in PtSpaces : ptDest[c][t] \in PtRepos =>
          ptDest'[c][t] \in PtRepos /\ ptDest'[c][t].version = ptDest[c][t].version
    BY <1>1, <1>2, <1>3, <1>4
  <1>7. ASSUME NEW k \in PtAll PROVE PtKeySound(k)'
    <2> DEFINE c == PtDestOf[k]
    <2>1. c \in PtDests /\ PtKeySound(k) /\ ptProc[k] \in PtProcs
      BY PtTypes
    <2>2. ASSUME NEW op \in PtOps, PtHolds(op, ptDest[c]) PROVE PtHolds(op, ptDest'[c])
      <3>1. op.completed \subseteq PtSpaces
        BY DEF PtOps
      <3> QED
        BY <1>6, <2>1, <2>2, <3>1 DEF PtHolds
    <2>3. PtFileSound(ptFile[k], ptDest[c])'
      BY <1>1, <2>1, <2>2 DEF PtKeySound, PtFileSound
    <2>4. ptProc[k].pc \in {"restoring", "verifying"} => ptProc[k].space \in PtSpaces
      BY <2>1, PtOpIs, PtManifestIs DEF PtKeySound, PtProcSound, PtRunning, PtStates
    <2>5. PtProcSound(ptProc[k], ptFile[k], ptDest[c])'
      BY <1>1, <1>6, <2>1, <2>2, <2>4 DEF PtKeySound, PtProcSound
    <2> QED
      BY <1>1, <2>1, <2>3, <2>5 DEF PtKeySound, PtCloneSound
  <1> QED
    BY <1>5, <1>7 DEF PtInv

-----------------------------------------------------------------------------
(* The package of a Git repository *)

LEMMA PtGitStartInv ==
  ASSUME PtInv, PtOwnDests, NEW k \in PtGit, PtGitStart(k)
  PROVE  PtInv'
  <1>1. k \in PtAll
    BY DEF PtAll
  <1>2. \E pc \in {"import", "cloning", "bundling"} : PtGo(k, pc) /\ (pc = "bundling" => ptClone[k] # PtNone)
    BY DEF PtGitStart
  <1>3. PICK pc \in {"import", "cloning", "bundling"} : PtGo(k, pc) /\ (pc = "bundling" => ptClone[k] # PtNone)
    BY <1>2
  <1>4. PICK x \in PtProcs : /\ ptProc' = [ptProc EXCEPT ![k] = x] /\ x.pc = pc
                             /\ PtProcSound(x, ptFile[k], ptDest[PtDestOf[k]])
    BY <1>1, <1>3, PtGoes
  <1>5. UNCHANGED <<ptSource, ptExport, ptPackage, ptClone, ptFile, ptQuar, ptDest, ptCrashes>>
    BY DEF PtGitStart
  <1> QED
    BY <1>1, <1>3, <1>4, <1>5, PtProcStep, PtTypes

LEMMA PtGitCloneInv ==
  ASSUME PtInv, PtOwnDests, NEW k \in PtGit, NEW ok \in BOOLEAN, PtGitClone(k, ok)
  PROVE  PtInv'
  <1>1. k \in PtAll
    BY DEF PtAll
  <1>2. UNCHANGED <<ptSource, ptExport, ptPackage, ptFile, ptQuar, ptDest, ptCrashes>>
    BY DEF PtGitClone
  <1>3. ptSource[PtGitSpace] \in PtVersions
    BY PtAssumption DEF PtInv, PtTypeOK
  <1>4. CASE ok
    <2>1. ptClone' = [ptClone EXCEPT ![k] = ptSource[PtGitSpace]] /\ PtGo(k, "bundling")
      BY <1>4 DEF PtGitClone
    <2>2. PICK x \in PtProcs : /\ ptProc' = [ptProc EXCEPT ![k] = x] /\ x.pc = "bundling"
                               /\ PtProcSound(x, ptFile[k], ptDest[PtDestOf[k]])
      BY <1>1, <2>1, PtGoes
    <2>3. /\ ptClone' \in [PtGit -> PtVersions \cup {PtNone, PtTorn}] /\ ptClone'[k] # PtNone
          /\ \A j \in PtGit : j # k => ptClone'[j] = ptClone[j]
      BY <1>1, <1>3, <2>1, PtTypes, PtNoneAssumption
    <2> QED
      BY <1>1, <1>2, <2>2, <2>3, PtProcStep, PtTypes
  <1>5. CASE ~ ok
    <2>1. UNCHANGED ptClone /\ PtEnd(k)
      BY <1>5 DEF PtGitClone
    <2>2. PICK x \in PtProcs : /\ ptProc' = [ptProc EXCEPT ![k] = x] /\ x.pc = "idle"
                               /\ PtProcSound(x, ptFile[k], ptDest[PtDestOf[k]])
      BY <1>1, <2>1, PtEnds
    <2> QED
      BY <1>1, <1>2, <2>1, <2>2, PtProcStep, PtTypes
  <1> QED
    BY <1>4, <1>5

\* A package of a Git import changes.
LEMMA PtOwnPackage ==
  ASSUME PtInv, NEW k \in PtGit, NEW p \in PtPackageSet, ptPackage' = [ptPackage EXCEPT ![k] = p]
  PROVE  /\ ptPackage' \in [PtPackages -> PtPackageSet] /\ ptPackage'[k] = p
         /\ \A j \in PtGit : j # k => ptPackage'[j].bundle = ptPackage[j].bundle
  <1>1. ptPackage \in [PtPackages -> PtPackageSet] /\ PtGit \subseteq PtPackages
    BY DEF PtInv, PtTypeOK, PtPackages
  <1> QED
    BY <1>1

LEMMA PtGitBundleInv ==
  ASSUME PtInv, PtOwnDests, NEW k \in PtGit, PtGitBundle(k)
  PROVE  PtInv'
  <1>1. k \in PtAll /\ k \in PtPackages
    BY DEF PtAll, PtPackages
  <1>2. UNCHANGED <<ptSource, ptExport, ptClone, ptFile, ptQuar, ptDest, ptCrashes>>
    BY DEF PtGitBundle
  <1>3. CASE ptClone[k] = PtTorn
    <2>1. UNCHANGED ptPackage /\ PtEnd(k)
      BY <1>3 DEF PtGitBundle
    <2>2. PICK x \in PtProcs : /\ ptProc' = [ptProc EXCEPT ![k] = x] /\ x.pc = "idle"
                               /\ PtProcSound(x, ptFile[k], ptDest[PtDestOf[k]])
      BY <1>1, <2>1, PtEnds
    <2> QED
      BY <1>1, <1>2, <2>1, <2>2, PtProcStep, PtTypes
  <1>4. CASE ptClone[k] # PtTorn
    <2> DEFINE v == ptClone[k]
               p == [ptPackage[k] EXCEPT !.bundle[PtGitSpace] = v]
    <2>1. ptPackage' = [ptPackage EXCEPT ![k] = p] /\ PtGo(k, "package") /\ ptProc[k].pc = "bundling"
      BY <1>4 DEF PtGitBundle, PtAt
    <2>2. v \in PtVersions
      BY <1>1, <1>4, <2>1, PtTypes DEF PtKeySound, PtCloneSound
    <2> HIDE DEF v
    <2>3. ptPackage[k] \in PtPackageSet
      BY <1>1, PtTypes
    <2>4. p \in PtPackageSet /\ p.bundle = [ptPackage[k].bundle EXCEPT ![PtGitSpace] = v]
      BY <2>2, <2>3, PtPackageIs, PtVersionIs, PtAssumption
    <2> HIDE DEF p
    <2>5. p.bundle[PtGitSpace] \in PtVersions
      BY <2>2, <2>3, <2>4, PtAssumption DEF PtPackageSet
    <2>6. PICK x \in PtProcs : /\ ptProc' = [ptProc EXCEPT ![k] = x] /\ x.pc = "package"
                               /\ PtProcSound(x, ptFile[k], ptDest[PtDestOf[k]])
      BY <1>1, <2>1, PtGoes
    <2>7. /\ ptPackage' \in [PtPackages -> PtPackageSet] /\ ptPackage'[k] = p
          /\ \A j \in PtGit : j # k => ptPackage'[j].bundle = ptPackage[j].bundle
      BY <2>1, <2>4, PtOwnPackage
    <2> QED
      BY <1>1, <1>2, <2>5, <2>6, <2>7, PtProcStep, PtTypes
  <1> QED
    BY <1>3, <1>4

LEMMA PtGitPackageInv ==
  ASSUME PtInv, PtOwnDests, NEW k \in PtGit, PtGitPackage(k)
  PROVE  PtInv'
  <1> DEFINE m == PtGitManifest(k)
             p == [ptPackage[k] EXCEPT !.manifest = m]
  <1>1. k \in PtAll /\ k \in PtPackages
    BY DEF PtAll, PtPackages
  <1>2. /\ UNCHANGED <<ptSource, ptExport, ptClone, ptFile, ptQuar, ptDest, ptCrashes>>
        /\ ptPackage' = [ptPackage EXCEPT ![k] = p] /\ PtGo(k, "import") /\ ptProc[k].pc = "package"
    BY DEF PtGitPackage, PtAt
  <1>3. ptPackage[k].bundle[PtGitSpace] \in PtVersions
    BY <1>1, <1>2, PtTypes DEF PtKeySound, PtCloneSound
  <1>4. m \in PtManifests
    <2>1. m \in [{PtGitSpace} -> PtVersions] /\ {PtGitSpace} \in SUBSET PtSpaces
      BY <1>3, PtAssumption DEF PtGitManifest
    <2> QED
      BY <2>1, PtManifestIs
  <1> HIDE DEF m
  <1>5. ptPackage[k] \in PtPackageSet
    BY <1>1, PtTypes
  <1>6. p \in PtPackageSet
    BY <1>4, <1>5, PtPackageIs
  <1> HIDE DEF p
  <1>7. PICK x \in PtProcs : /\ ptProc' = [ptProc EXCEPT ![k] = x] /\ x.pc = "import"
                             /\ PtProcSound(x, ptFile[k], ptDest[PtDestOf[k]])
    BY <1>1, <1>2, PtGoes
  <1>8. /\ ptPackage' \in [PtPackages -> PtPackageSet]
        /\ \A j \in PtGit : j # k => ptPackage'[j].bundle = ptPackage[j].bundle
    BY <1>2, <1>6, PtOwnPackage
  <1> QED
    BY <1>1, <1>2, <1>7, <1>8, PtProcStep, PtTypes

-----------------------------------------------------------------------------
(* The import *)

LEMMA PtResumes ==
  ASSUME PtInv, NEW k \in PtAll, NEW op \in PtOps, PtResume(k, op), PtHolds(op, ptDest[PtDestOf[k]]),
         op.state # "activated",
         ptFile[k] \in PtOps => ptFile[k].digest = op.digest
  PROVE  \E x \in PtProcs : /\ ptProc' = [ptProc EXCEPT ![k] = x] /\ x.pc \in {"copying", "checking"}
                            /\ PtProcSound(x, ptFile[k], ptDest[PtDestOf[k]])
  <1> DEFINE c == IF ptQuar[k] = PtNone THEN {} ELSE PtSpaces \cup {PtNone}
             pc == IF op.state = "preflight" THEN "copying" ELSE "checking"
             x == [PtIdle EXCEPT !.pc = pc, !.op = op, !.copied = c]
  <1>1. ptProc' = [ptProc EXCEPT ![k] = x]
    BY DEF PtResume
  <1>2. c \in SUBSET (PtSpaces \cup {PtNone}) /\ pc \in {"copying", "checking"}
    OBVIOUS
  <1> HIDE DEF c, pc
  <1>3. x \in PtProcs /\ x.pc = pc /\ x.op = op
    BY <1>2, PtIdleIs DEF PtProcs
  <1> HIDE DEF x
  <1>4. PtProcSound(x, ptFile[k], ptDest[PtDestOf[k]])
    BY <1>2, <1>3 DEF PtProcSound
  <1> QED
    BY <1>1, <1>2, <1>3, <1>4

LEMMA PtImportInv ==
  ASSUME PtInv, PtOwnDests, NEW k \in PtAll, PtImport(k)
  PROVE  PtInv'
  <1> DEFINE p == ptPackage[PtPkg(k)]
             n == [digest |-> p.manifest, state |-> "preflight", completed |-> {}]
  <1>1. UNCHANGED <<ptSource, ptExport, ptPackage, ptClone, ptFile, ptQuar, ptDest, ptCrashes>>
    BY DEF PtImport
  <1>2. \/ PtEnd(k)
        \/ PtVerified(p) /\ ptFile[k] = PtNone /\ PtResume(k, n)
        \/ ptFile[k] \notin {PtNone, PtTorn} /\ ptFile[k].state # "activated" /\ PtResume(k, ptFile[k])
    BY DEF PtImport, PtReplayed
  <1>3. \E x \in PtProcs : /\ ptProc' = [ptProc EXCEPT ![k] = x] /\ x.pc \in {"idle", "copying", "checking"}
                           /\ PtProcSound(x, ptFile[k], ptDest[PtDestOf[k]])
    <2>1. CASE PtEnd(k)
      BY <2>1, PtEnds
    <2>2. CASE PtVerified(p) /\ ptFile[k] = PtNone /\ PtResume(k, n)
      <3>1. n \in PtOps /\ n.completed = {} /\ n.state = "preflight"
        BY <2>2 DEF PtVerified, PtOps, PtStates
      <3>2. PtHolds(n, ptDest[PtDestOf[k]])
        BY <3>1 DEF PtHolds
      <3>3. ptFile[k] \notin PtOps
        BY <2>2, PtNoneAssumption
      <3> HIDE DEF n
      <3> QED
        BY <2>2, <3>1, <3>2, <3>3, PtResumes
    <2>3. CASE ptFile[k] \notin {PtNone, PtTorn} /\ ptFile[k].state # "activated" /\ PtResume(k, ptFile[k])
      <3>1. ptFile[k] \in PtOps
        BY <2>3, PtTypes
      <3>2. PtHolds(ptFile[k], ptDest[PtDestOf[k]])
        BY <3>1, PtTypes DEF PtKeySound, PtFileSound
      <3> QED
        BY <2>3, <3>1, <3>2, PtResumes
    <2> QED
      BY <1>2, <2>1, <2>2, <2>3
  <1>4. PICK x \in PtProcs : /\ ptProc' = [ptProc EXCEPT ![k] = x] /\ x.pc \in {"idle", "copying", "checking"}
                             /\ PtProcSound(x, ptFile[k], ptDest[PtDestOf[k]])
    BY <1>3
  <1> QED
    BY <1>1, <1>4, PtProcStep, PtTypes

LEMMA PtCopyInv ==
  ASSUME PtInv, PtOwnDests, NEW k \in PtAll, NEW item \in PtSpaces \cup {PtNone}, PtCopy(k, item)
  PROVE  PtInv'
  <1> DEFINE p == ptPackage[PtPkg(k)]
             q == IF ptQuar[k] = PtNone THEN PtEmpty ELSE ptQuar[k]
             r == IF item = PtNone THEN [q EXCEPT !.manifest = p.manifest]
                  ELSE [q EXCEPT !.bundle[item] = p.bundle[item]]
             x == [ptProc[k] EXCEPT !.copied = ptProc[k].copied \cup {item}]
  <1>1. /\ ptProc[k].pc = "copying" /\ ptQuar' = [ptQuar EXCEPT ![k] = r]
        /\ UNCHANGED <<ptSource, ptExport, ptPackage, ptClone, ptFile, ptDest, ptCrashes>>
    BY DEF PtCopy, PtAt
  <1>2. ptProc' = [ptProc EXCEPT ![k] = x]
    BY PtTypes DEF PtCopy
  <1>3. ptProc[k] \in PtProcs
    BY PtTypes
  <1>4. x \in PtProcs /\ x.pc = "copying" /\ x.op = ptProc[k].op
    BY <1>1, <1>3 DEF PtProcs
  <1> HIDE DEF x
  <1>5. PtProcSound(x, ptFile[k], ptDest[PtDestOf[k]])
    BY <1>1, <1>4, PtTypes DEF PtKeySound, PtProcSound
  <1>6. p \in PtPackageSet
    BY PtTypes
  <1>7. q \in PtPackageSet
    BY PtTypes, PtEmptyIs
  <1> HIDE DEF p, q
  <1>8. r \in PtPackageSet
    <2>1. p.manifest \in PtManifests \cup {PtNone, PtTorn} /\ \A s \in PtSpaces : p.bundle[s] \in 0 .. PtMaxVersions
      BY <1>6 DEF PtPackageSet
    <2> QED
      BY <1>7, <2>1, PtPackageIs
  <1> HIDE DEF r
  <1>9. ptQuar' \in [PtAll -> PtPackageSet \cup {PtNone}]
    BY <1>1, <1>8, PtTypes
  <1> QED
    BY <1>1, <1>2, <1>4, <1>5, <1>9, PtProcStep, PtTypes

\* writeOperation of what is held in the destination.
LEMMA PtWriteInv ==
  ASSUME PtInv, PtOwnDests, NEW k \in PtAll, NEW op \in PtOps, NEW pc \in {"idle", "checking", "next"},
         PtWrite(k, op, pc), UNCHANGED ptDest, PtHolds(op, ptDest[PtDestOf[k]]),
         op.state = "activated" => pc = "idle" /\ DOMAIN op.digest \subseteq op.completed
  PROVE  PtInv'
  <1> DEFINE y == [ptProc[k] EXCEPT !.pc = pc, !.op = op]
             x == IF pc = "idle" THEN PtIdle ELSE y
  <1>1. /\ ptFile' = [ptFile EXCEPT ![k] = op]
        /\ UNCHANGED <<ptSource, ptExport, ptPackage, ptClone, ptQuar, ptDest, ptCrashes>>
    BY DEF PtWrite
  <1>2. ptProc' = [ptProc EXCEPT ![k] = x]
    BY PtTypes DEF PtWrite
  <1>3. ptProc[k] \in PtProcs
    BY PtTypes
  <1>4. y \in PtProcs /\ y.pc = pc /\ y.op = op
    BY <1>3 DEF PtProcs
  <1> HIDE DEF y
  <1>5. x \in PtProcs /\ x.pc = pc /\ (x.pc # "idle" => x.op = op)
    BY <1>4, PtIdleIs
  <1> HIDE DEF x
  <1>6. PtTypeOK'
    BY <1>1, <1>2, <1>5 DEF PtInv, PtTypeOK
  <1>7. /\ ptProc'[k] = x /\ ptFile'[k] = op
        /\ \A j \in PtAll : j # k => ptProc'[j] = ptProc[j] /\ ptFile'[j] = ptFile[j]
    BY <1>1, <1>2, PtTypes
  <1>8. PtKeySound(k)'
    <2>1. PtFileSound(ptFile[k], ptDest[PtDestOf[k]])'
      BY <1>1, <1>7 DEF PtFileSound
    <2>2. PtProcSound(ptProc[k], ptFile[k], ptDest[PtDestOf[k]])'
      BY <1>1, <1>5, <1>7 DEF PtProcSound, PtRunning
    <2> QED
      BY <1>5, <1>7, <2>1, <2>2 DEF PtKeySound, PtCloneSound
  <1>9. ASSUME NEW j \in PtAll, j # k PROVE PtKeySound(j)'
    BY <1>1, <1>7, <1>9, PtOthersSound
  <1> QED
    BY <1>6, <1>8, <1>9 DEF PtInv

\* Of a process under way.
LEMMA PtHasOp ==
  ASSUME PtInv, NEW k \in PtAll, ptProc[k].pc \in PtRunning
  PROVE  /\ ptProc[k].op \in PtOps /\ PtHolds(ptProc[k].op, ptDest[PtDestOf[k]])
         /\ ptFile[k] \in PtOps => ptFile[k].digest = ptProc[k].op.digest
         /\ \A state \in PtStates :
              /\ PtState(k, state) \in PtOps /\ PtHolds(PtState(k, state), ptDest[PtDestOf[k]])
              /\ PtState(k, state).state = state /\ PtState(k, state).digest = ptProc[k].op.digest
              /\ PtState(k, state).completed = ptProc[k].op.completed
  <1>1. /\ ptProc[k].op \in PtOps /\ PtHolds(ptProc[k].op, ptDest[PtDestOf[k]])
        /\ ptFile[k] \in PtOps => ptFile[k].digest = ptProc[k].op.digest
    BY PtTypes DEF PtKeySound, PtProcSound
  <1>2. ASSUME NEW state \in PtStates
        PROVE  /\ PtState(k, state) \in PtOps /\ PtHolds(PtState(k, state), ptDest[PtDestOf[k]])
               /\ PtState(k, state).state = state /\ PtState(k, state).digest = ptProc[k].op.digest
               /\ PtState(k, state).completed = ptProc[k].op.completed
    <2> DEFINE o == PtState(k, state)
    <2>1. o \in PtOps /\ o.digest = ptProc[k].op.digest /\ o.completed = ptProc[k].op.completed /\ o.state = state
      BY <1>1, PtOpIs DEF PtState
    <2> HIDE DEF o
    <2>2. PtHolds(o, ptDest[PtDestOf[k]])
      BY <1>1, <2>1 DEF PtHolds
    <2> QED
      BY <2>1, <2>2 DEF o
  <1> QED
    BY <1>1, <1>2

LEMMA PtWritesInv ==
  ASSUME PtInv, PtOwnDests, NEW k \in PtAll,
         PtQuarantined(k) \/ PtCheck(k) \/ PtRestoreFails(k) \/ PtFinish(k)
  PROVE  PtInv'
  <1>1. ptProc[k].pc \in PtRunning /\ UNCHANGED ptDest
    BY DEF PtQuarantined, PtCheck, PtRestoreFails, PtFinish, PtAt, PtRunning
  <1>2. \E state \in PtStates, pc \in {"idle", "checking", "next"} :
          /\ PtWrite(k, PtState(k, state), pc)
          /\ state = "activated" => pc = "idle" /\ DOMAIN ptProc[k].op.digest \subseteq ptProc[k].op.completed
    BY DEF PtQuarantined, PtCheck, PtRestoreFails, PtFinish, PtStates
  <1>3. PICK state \in PtStates, pc \in {"idle", "checking", "next"} :
          /\ PtWrite(k, PtState(k, state), pc)
          /\ state = "activated" => pc = "idle" /\ DOMAIN ptProc[k].op.digest \subseteq ptProc[k].op.completed
    BY <1>2
  <1> QED
    BY <1>1, <1>3, PtHasOp, PtWriteInv

LEMMA PtVerifyInv ==
  ASSUME PtInv, PtOwnDests, NEW k \in PtAll, PtVerify(k)
  PROVE  PtInv'
  <1> DEFINE op == ptProc[k].op
             s == ptProc[k].space
             d == ptDest[PtDestOf[k]]
  <1>1. ptProc[k].pc = "verifying" /\ UNCHANGED ptDest
    BY DEF PtVerify, PtAt
  <1>2. ptProc[k].pc \in PtRunning
    BY <1>1 DEF PtRunning
  <1>3. op \in PtOps /\ PtHolds(op, d) /\ s \in DOMAIN op.digest /\ d[s] \in PtRepos
    BY <1>1, <1>2, PtHasOp, PtTypes DEF PtKeySound, PtProcSound
  <1>4. CASE PtIntegrity(k)
    <2> DEFINE n == [op EXCEPT !.completed = op.completed \cup {s}]
    <2>1. PtWrite(k, n, "next") /\ d[s].version = op.digest[s]
      BY <1>1, <1>4 DEF PtVerify, PtIntegrity
    <2> HIDE DEF op, s, d
    <2>2. s \in PtSpaces
      BY <1>3, PtManifestIs DEF PtOps
    <2>3. n \in PtOps /\ n.digest = op.digest /\ n.completed = op.completed \cup {s} /\ n.state = op.state
      BY <1>3, <2>2 DEF PtOps
    <2> HIDE DEF n
    <2>4. PtHolds(n, d)
      BY <1>3, <2>1, <2>3 DEF PtHolds
    <2>5. op.state # "activated"
      BY <1>2, PtTypes DEF PtKeySound, PtProcSound, op
    <2> QED
      BY <1>1, <2>1, <2>3, <2>4, <2>5, PtWriteInv DEF d
  <1>5. CASE ~ PtIntegrity(k)
    <2>1. PtWrite(k, PtState(k, "blocked"), "idle")
      BY <1>5 DEF PtVerify
    <2> QED
      BY <1>1, <1>2, <2>1, PtHasOp, PtWriteInv DEF PtStates
  <1> QED
    BY <1>4, <1>5

LEMMA PtActivatingInv ==
  ASSUME PtInv, PtOwnDests, NEW k \in PtAll, NEW s \in PtSpaces, PtActivating(k, s)
  PROVE  PtInv'
  <1> DEFINE o == PtState(k, "activating")
             x == [ptProc[k] EXCEPT !.pc = "restoring", !.op = o, !.space = s]
  <1>1. /\ ptProc[k].pc = "next" /\ s \in DOMAIN ptProc[k].op.digest /\ ptFile' = [ptFile EXCEPT ![k] = o]
        /\ UNCHANGED <<ptSource, ptExport, ptPackage, ptClone, ptQuar, ptDest, ptCrashes>>
    BY DEF PtActivating, PtAt
  <1>2. ptProc[k] \in PtProcs /\ ptProc \in [PtAll -> PtProcs]
    BY PtTypes
  <1>3. ptProc' = [ptProc EXCEPT ![k] = x]
    BY <1>2 DEF PtActivating, PtState, PtProcs
  <1>4. /\ o \in PtOps /\ PtHolds(o, ptDest[PtDestOf[k]]) /\ o.state = "activating"
        /\ o.digest = ptProc[k].op.digest
    BY <1>1, PtHasOp DEF PtRunning, PtStates
  <1> HIDE DEF o
  <1>5. x \in PtProcs /\ x.pc = "restoring" /\ x.op = o /\ x.space = s
    BY <1>2, <1>4 DEF PtProcs
  <1> HIDE DEF x
  <1>6. PtTypeOK'
    BY <1>1, <1>3, <1>4, <1>5 DEF PtInv, PtTypeOK
  <1>7. /\ ptProc'[k] = x /\ ptFile'[k] = o
        /\ \A j \in PtAll : j # k => ptProc'[j] = ptProc[j] /\ ptFile'[j] = ptFile[j]
    BY <1>1, <1>3, PtTypes
  <1>8. PtKeySound(k)'
    <2>1. PtFileSound(ptFile[k], ptDest[PtDestOf[k]])'
      BY <1>1, <1>4, <1>7 DEF PtFileSound
    <2>2. PtProcSound(ptProc[k], ptFile[k], ptDest[PtDestOf[k]])'
      BY <1>1, <1>4, <1>5, <1>7 DEF PtProcSound
    <2> QED
      BY <1>5, <1>7, <2>1, <2>2 DEF PtKeySound, PtCloneSound
  <1>9. ASSUME NEW j \in PtAll, j # k PROVE PtKeySound(j)'
    BY <1>1, <1>7, <1>9, PtOthersSound
  <1> QED
    BY <1>6, <1>8, <1>9 DEF PtInv

\* One repository of a destination changes; the other destinations do not.
LEMMA PtDestMoves ==
  ASSUME PtInv, NEW k \in PtAll, NEW e \in [PtSpaces -> PtRepos \cup {PtNone, PtTorn}],
         ptDest' = [ptDest EXCEPT ![PtDestOf[k]] = e]
  PROVE  /\ ptDest' \in [PtDests -> [PtSpaces -> PtRepos \cup {PtNone, PtTorn}]]
         /\ ptDest'[PtDestOf[k]] = e
         /\ \A d \in PtDests : d # PtDestOf[k] => ptDest'[d] = ptDest[d]
  <1>1. /\ ptDest \in [PtDests -> [PtSpaces -> PtRepos \cup {PtNone, PtTorn}]] /\ PtDestOf[k] \in PtDests
    BY PtTypes
  <1> QED
    BY <1>1

LEMMA PtRestoreInv ==
  ASSUME PtInv, PtOwnDests, NEW k \in PtAll, PtRestore(k)
  PROVE  PtInv'
  <1> DEFINE s == ptProc[k].space
             op == ptProc[k].op
             r == [version |-> op.digest[s], edited |-> FALSE]
             x == [ptProc[k] EXCEPT !.pc = "verifying"]
             c == PtDestOf[k]
  <1>1. /\ ptProc[k].pc = "restoring" /\ ptDest' = [ptDest EXCEPT ![c][s] = r]
        /\ UNCHANGED <<ptSource, ptExport, ptPackage, ptClone, ptFile, ptQuar, ptCrashes>>
    BY DEF PtRestore, PtAt
  <1>2. ptProc[k] \in PtProcs /\ ptProc' = [ptProc EXCEPT ![k] = x]
    BY PtTypes DEF PtRestore, PtGo
  <1>3. x \in PtProcs /\ x.pc = "verifying" /\ x.op = op /\ x.space = s
    BY <1>2 DEF PtProcs
  <1> HIDE DEF x
  <1>4. ptProc[k].pc \in PtRunning
    BY <1>1 DEF PtRunning
  <1>5. /\ op \in PtOps /\ PtHolds(op, ptDest[c]) /\ (ptFile[k] \in PtOps => ptFile[k].digest = op.digest)
        /\ s \in DOMAIN op.digest /\ op.state # "activated"
    BY <1>1, <1>4, PtTypes DEF PtKeySound, PtProcSound
  <1>6. s \in PtSpaces /\ op.digest[s] \in PtVersions
    BY <1>5, PtManifestIs DEF PtOps
  <1>7. r \in PtRepos /\ r.version = op.digest[s]
    BY <1>6 DEF PtRepos
  <1> HIDE DEF r, s, op
  <1>8. /\ ptDest' \in [PtDests -> [PtSpaces -> PtRepos \cup {PtNone, PtTorn}]]
        /\ ptDest'[c][s] = r /\ \A t \in PtSpaces : t # s => ptDest'[c][t] = ptDest[c][t]
        /\ \A d \in PtDests : d # c => ptDest'[d] = ptDest[d]
    <2> DEFINE e == [ptDest[c] EXCEPT ![s] = r]
    <2>1. ptDest' = [ptDest EXCEPT ![c] = e]
      BY <1>1
    <2>2. /\ e \in [PtSpaces -> PtRepos \cup {PtNone, PtTorn}] /\ e[s] = r
          /\ \A t \in PtSpaces : t # s => e[t] = ptDest[c][t]
      BY <1>6, <1>7, PtTypes
    <2> HIDE DEF e
    <2> QED
      BY <2>1, <2>2, PtDestMoves
  <1>9. PtTypeOK'
    BY <1>1, <1>2, <1>3, <1>8 DEF PtInv, PtTypeOK
  <1>10. ptProc'[k] = x /\ \A j \in PtAll : j # k => ptProc'[j] = ptProc[j]
    BY <1>2, PtTypes
  <1>11. ASSUME NEW o \in PtOps, PtHolds(o, ptDest[c]), o.digest = op.digest PROVE PtHolds(o, ptDest'[c])
    <2>1. o.completed \subseteq PtSpaces
      BY DEF PtOps
    <2> QED
      BY <1>7, <1>8, <1>11, <2>1 DEF PtHolds
  <1>12. PtKeySound(k)'
    <2>1. PtFileSound(ptFile[k], ptDest[c])'
      BY <1>1, <1>5, <1>11, PtTypes DEF PtFileSound, PtKeySound
    <2>2. PtProcSound(ptProc[k], ptFile[k], ptDest[c])'
      BY <1>1, <1>3, <1>5, <1>7, <1>8, <1>10, <1>11 DEF PtProcSound
    <2> QED
      BY <1>3, <1>10, <2>1, <2>2 DEF PtKeySound, PtCloneSound
  <1>13. ASSUME NEW j \in PtAll, j # k PROVE PtKeySound(j)'
    <2>1. PtDestOf[j] # c /\ PtDestOf[j] \in PtDests
      BY <1>13, PtTypes DEF PtOwnDests
    <2> QED
      BY <1>1, <1>8, <1>10, <1>13, <2>1, PtOthersSound
  <1> QED
    BY <1>9, <1>12, <1>13 DEF PtInv

LEMMA PtDieInv ==
  ASSUME PtInv, PtOwnDests, NEW k \in PtAll, NEW torn \in BOOLEAN, PtDie(k, torn)
  PROVE  PtInv'
  <1> DEFINE c == PtDestOf[k]
             s == ptProc[k].space
  <1>1. ptProc' = [ptProc EXCEPT ![k] = PtIdle] /\ UNCHANGED <<ptSource, ptExport, ptQuar>>
    BY DEF PtDie, PtEnd
  <1>2. ptCrashes' \in 0 .. PtMaxCrashes
    BY PtTypes, PtAssumption DEF PtDie
  <1>3. /\ ptClone' \in [PtGit -> PtVersions \cup {PtNone, PtTorn}]
        /\ \A j \in PtGit : j # k => ptClone'[j] = ptClone[j]
    BY PtTypes DEF PtDie
  <1>4. /\ ptPackage' \in [PtPackages -> PtPackageSet]
        /\ \A j \in PtGit : j # k => ptPackage'[j].bundle = ptPackage[j].bundle
    <2>1. CASE torn /\ ptProc[k].pc = "package"
      <3> DEFINE p == [ptPackage[k] EXCEPT !.manifest = PtTorn]
      <3>1. k \in PtGit
        BY <2>1, PtTypes DEF PtKeySound, PtCloneSound
      <3>2. ptPackage[k] \in PtPackageSet
        BY <3>1, PtTypes DEF PtPackages
      <3>3. p \in PtPackageSet
        BY <3>2, PtPackageIs
      <3>4. ptPackage' = [ptPackage EXCEPT ![k] = p]
        BY <2>1 DEF PtDie, PtAt
      <3> HIDE DEF p
      <3> QED
        BY <3>1, <3>3, <3>4, PtOwnPackage
    <2>2. CASE ~ (torn /\ ptProc[k].pc = "package")
      BY <2>2, PtTypes DEF PtDie, PtAt
    <2> QED
      BY <2>1, <2>2
  <1>5. /\ ptFile' \in [PtAll -> PtOps \cup {PtNone, PtTorn}] /\ ptFile'[k] \in {ptFile[k], PtTorn}
        /\ \A j \in PtAll : j # k => ptFile'[j] = ptFile[j]
    BY PtTypes DEF PtDie
  <1>6. /\ ptDest' \in [PtDests -> [PtSpaces -> PtRepos \cup {PtNone, PtTorn}]]
        /\ \A d \in PtDests : d # c => ptDest'[d] = ptDest[d]
        /\ \A t \in PtSpaces : ptDest[c][t] \in PtRepos => ptDest'[c][t] = ptDest[c][t]
    <2>1. CASE torn /\ ptProc[k].pc = "restoring" /\ ptDest[c][s] = PtNone
      <3>1. ptDest' = [ptDest EXCEPT ![c][s] = PtTorn]
        BY <2>1 DEF PtDie, PtAt
      <3>2. s \in PtSpaces
        BY <2>1, PtTypes, PtManifestIs, PtHasOp DEF PtKeySound, PtProcSound, PtOps, PtRunning
      <3>3. ptDest[c][s] \notin PtRepos
        BY <2>1, PtNoneAssumption
      <3> HIDE DEF s
      <3> QED
        <4> DEFINE e == [ptDest[c] EXCEPT ![s] = PtTorn]
        <4>1. ptDest' = [ptDest EXCEPT ![c] = e]
          BY <3>1
        <4>2. /\ e \in [PtSpaces -> PtRepos \cup {PtNone, PtTorn}]
              /\ \A t \in PtSpaces : t # s => e[t] = ptDest[c][t]
          BY <3>2, PtTypes
        <4> HIDE DEF e
        <4> QED
          BY <3>2, <3>3, <4>1, <4>2, PtDestMoves
    <2>2. CASE ~ (torn /\ ptProc[k].pc = "restoring" /\ ptDest[c][s] = PtNone)
      BY <2>2, PtTypes DEF PtDie, PtAt
    <2> QED
      BY <2>1, <2>2
  <1>7. PtTypeOK'
    BY <1>1, <1>2, <1>3, <1>4, <1>5, <1>6, PtIdleIs DEF PtInv, PtTypeOK
  <1>8. ptProc'[k] = PtIdle /\ \A j \in PtAll : j # k => ptProc'[j] = ptProc[j]
    BY <1>1, PtTypes
  <1>9. PtKeySound(k)'
    <2>1. ASSUME NEW o \in PtOps, PtHolds(o, ptDest[c]) PROVE PtHolds(o, ptDest'[c])
      <3>1. o.completed \subseteq PtSpaces
        BY DEF PtOps
      <3> QED
        BY <1>6, <2>1, <3>1 DEF PtHolds
    <2>2. PtTorn \notin PtOps
      BY PtNoneAssumption
    <2>3. PtFileSound(ptFile'[k], ptDest'[c])
      BY <1>5, <2>1, <2>2, PtTypes DEF PtFileSound, PtKeySound
    <2>4. PtProcSound(ptProc'[k], ptFile'[k], ptDest'[c]) /\ PtCloneSound(k)'
      BY <1>8, PtIdleIs DEF PtProcSound, PtRunning, PtCloneSound
    <2> QED
      BY <2>3, <2>4 DEF PtKeySound
  <1>10. ASSUME NEW j \in PtAll, j # k PROVE PtKeySound(j)'
    <2>1. PtDestOf[j] # c /\ PtDestOf[j] \in PtDests
      BY <1>10, PtTypes DEF PtOwnDests
    <2> QED
      BY <1>3, <1>4, <1>5, <1>6, <1>8, <1>10, <2>1, PtOthersSound
  <1> QED
    BY <1>7, <1>9, <1>10 DEF PtInv

LEMMA PtStepInv == ASSUME PtInv, PtOwnDests, [PtNext]_ptVars PROVE PtInv'
  <1>1. CASE UNCHANGED ptVars
    BY <1>1 DEF ptVars, PtInv, PtTypeOK, PtKeySound, PtCloneSound
  <1>2. ASSUME NEW s \in PtSpaces,
               \/ PtCommit(s) \/ PtExportBundle(s)
               \/ (\E d \in PtDests : PtEdit(d, s)) \/ \E v \in PtVersions : PtSwap(s, v)
        PROVE  PtInv'
    BY <1>2, PtCommitInv, PtExportInv, PtEditInv
  <1>3. ASSUME NEW k \in PtGit,
               PtGitStart(k) \/ PtGitBundle(k) \/ PtGitPackage(k) \/ \E ok \in BOOLEAN : PtGitClone(k, ok)
        PROVE  PtInv'
    BY <1>3, PtGitStartInv, PtGitBundleInv, PtGitPackageInv, PtGitCloneInv
  <1>4. ASSUME NEW k \in PtAll,
               \/ PtImport(k) \/ PtQuarantined(k) \/ PtCheck(k) \/ PtRestore(k) \/ PtRestoreFails(k)
               \/ PtVerify(k) \/ PtFinish(k)
               \/ \E item \in PtSpaces \cup {PtNone} : PtCopy(k, item)
               \/ \E s \in PtSpaces : PtActivating(k, s)
               \/ \E torn \in BOOLEAN : PtDie(k, torn)
        PROVE  PtInv'
    BY <1>4, PtImportInv, PtWritesInv, PtRestoreInv, PtVerifyInv, PtCopyInv, PtActivatingInv, PtDieInv
  <1> QED
    BY <1>1, <1>2, <1>3, <1>4, PtExportInv DEF PtNext

LEMMA PtInitInv == PtInit => PtInv
  <1> SUFFICES ASSUME PtInit PROVE PtInv
    OBVIOUS
  <1>1. 1 \in PtVersions /\ 0 \in 0 .. PtMaxCrashes
    BY PtAssumption DEF PtVersions
  <1>2. PtTypeOK
    BY <1>1, PtEmptyIs, PtIdleIs DEF PtInit, PtTypeOK
  <1>3. ASSUME NEW k \in PtAll PROVE PtKeySound(k)
    <2>1. ptFile[k] \notin PtOps /\ ptProc[k].pc = "idle"
      BY PtNoneAssumption, PtIdleIs DEF PtInit
    <2> QED
      BY <2>1 DEF PtKeySound, PtFileSound, PtProcSound, PtRunning, PtCloneSound
  <1> QED
    BY <1>2, <1>3 DEF PtInv

LEMMA PtAlwaysInv == ASSUME PtOwnDests PROVE PtSpec => []PtInv
  <1>1. PtInv /\ [PtNext]_ptVars => PtInv'
    BY PtStepInv
  <1> QED
    BY <1>1, PtInitInv, PTL DEF PtSpec

\* The packages, checkpoints, processes and destinations keep their types, when
\* every import has a destination of its own.
THEOREM PtTypeCorrect == ASSUME PtOwnDests PROVE PtSpec => []PtTypeOK
  BY PtAlwaysInv, PTL DEF PtInv

\* An import into a destination of its own that is activated has restored every
\* repository of its manifest at exactly the version the manifest names, for any
\* Source Spaces, keys and crashes, whatever was exported again, copied or
\* restored halfway, or edited in between (project-export.ts importProject).
THEOREM PtActivatedIsExportedCorrect == ASSUME PtOwnDests PROVE PtSpec => []PtActivatedIsExported
  <1>1. PtInv => PtActivatedIsExported
    BY DEF PtInv, PtKeySound, PtFileSound, PtHolds, PtActivatedIsExported
  <1> QED
    BY <1>1, PtAlwaysInv, PTL

-----------------------------------------------------------------------------
(* The local agent broker *)

\* While one broker takes over a lock, no other waits for it.
LaTakesOverAlone ==
  \A c, d \in LaClients :
    c # d /\ laClient[c].pc = "judged" => laClient[d].pc \notin {"waiting", "judged"}

\* There are at most two brokers.
LaTwoBrokers == \E a, b \in LaClients : LaClients = {a, b}

\* The Sessions of a state file are numbered in the order in which they started.
LaCounted(f) ==
  /\ f.current <= f.count
  /\ \A s \in LaSessions : s > f.count => f.status[s] = "none"

\* Whoever created the lock file and lives still has it; what a broker inside
\* the lock has read is the state file; and when one is about to unlink the lock
\* file, no other is inside.
LaLockSound ==
  /\ \A c \in LaClients :
       /\ laClient[c].pc \in {"created", "inside"} =>
            laLock = [by |-> c, named |-> laClient[c].pc = "inside"]
       /\ laClient[c].pc = "inside" => laClient[c].file = laFile
       /\ laClient[c].pc = "judged" =>
            \A d \in LaClients \ {c} : laClient[d].pc \notin {"created", "inside"}

\* The process group of a workload that was let go is in the state file, and its
\* Session was not revoked.
LaWorkSound(f, work) ==
  \A s \in LaSessions : work[s] \in {"registered", "running"} =>
    s \in f.registered /\ f.status[s] # "revoked"

LaInv == LaTypeOK /\ LaCounted(laFile) /\ LaLockSound /\ LaWorkSound(laFile, laWork)

\* What an operation makes of the state file.
LaStill(f, g) ==
  /\ LaCounted(g)
  /\ \A s \in LaSessions : f.status[s] = "revoked" => g.status[s] = "revoked"

LEMMA LaFileType ==
  ASSUME NEW f \in LaFile
  PROVE  /\ f.count \in 0 .. LaMaxSessions /\ f.current \in {0} \cup LaSessions
         /\ f.status \in [LaSessions -> {"none", "active", "expired", "revoked"}]
         /\ f.registered \in SUBSET LaSessions /\ f.passed \in SUBSET LaSessions
  BY DEF LaFile

LEMMA LaExpireType ==
  ASSUME NEW f \in LaFile, NEW set
  PROVE  /\ LaExpire(f, set) \in LaFile
         /\ LaExpire(f, set).count = f.count /\ LaExpire(f, set).current = f.current
         /\ LaExpire(f, set).registered = f.registered
         /\ \A s \in LaSessions : LaExpire(f, set).status[s] =
              IF s \in set /\ s \in laLate /\ f.status[s] = "active" THEN "expired" ELSE f.status[s]
  <1> DEFINE g == [s \in LaSessions |->
                     IF s \in set /\ s \in laLate /\ f.status[s] = "active" THEN "expired" ELSE f.status[s]]
  <1>1. g \in [LaSessions -> {"none", "active", "expired", "revoked"}]
    BY DEF LaFile
  <1>2. LaExpire(f, set) = [f EXCEPT !.status = g]
    BY DEF LaExpire
  <1> HIDE DEF g
  <1>3. /\ LaExpire(f, set) \in LaFile
        /\ LaExpire(f, set).count = f.count /\ LaExpire(f, set).current = f.current
        /\ LaExpire(f, set).registered = f.registered
        /\ LaExpire(f, set).status = g
    BY <1>1, <1>2 DEF LaFile
  <1> QED
    BY <1>3 DEF g

LEMMA LaRefusedType ==
  ASSUME NEW f \in LaFile, NEW s
  PROVE  /\ LaRefused(f, s) \in LaFile
         /\ LaRefused(f, s).count = f.count /\ LaRefused(f, s).current \in {0, f.current}
         /\ LaRefused(f, s).registered = f.registered
         /\ LaRefused(f, s).status = LaExpire(f, {s}).status
  <1> DEFINE g == LaExpire(f, {s})
  <1>1. g \in LaFile /\ g.count = f.count /\ g.current = f.current /\ g.registered = f.registered
    BY LaExpireType
  <1> HIDE DEF g
  <1>2. LaRefused(f, s) = [g EXCEPT !.current = IF g.current = s THEN 0 ELSE g.current]
    BY DEF LaRefused, g
  <1>3. (IF g.current = s THEN 0 ELSE g.current) \in {0} \cup LaSessions
    BY <1>1 DEF LaFile
  <1>4. /\ LaRefused(f, s) \in LaFile /\ LaRefused(f, s).count = g.count
        /\ LaRefused(f, s).current \in {0, g.current}
        /\ LaRefused(f, s).registered = g.registered /\ LaRefused(f, s).status = g.status
    BY <1>1, <1>2, <1>3 DEF LaFile
  <1> QED
    BY <1>1, <1>4 DEF g

LEMMA LaNewSessionType ==
  ASSUME NEW f \in LaFile, f.count < LaMaxSessions
  PROVE  /\ f.count + 1 \in LaSessions
         /\ LaNewSession(f) \in LaFile
         /\ LaNewSession(f).count = f.count + 1 /\ LaNewSession(f).current = f.count + 1
         /\ LaNewSession(f).registered = f.registered
         /\ \A s \in LaSessions : LaNewSession(f).status[s] =
              IF s = f.count + 1 THEN "active" ELSE LaExpire(f, LaSearched(f)).status[s]
  <1> DEFINE g == LaExpire(f, LaSearched(f))
  <1>1. g \in LaFile /\ g.count = f.count /\ g.registered = f.registered
    BY LaExpireType
  <1> HIDE DEF g
  <1>2. f.count + 1 \in LaSessions
    BY LaFileType, LaAssumption DEF LaSessions
  <1>3. LaNewSession(f) = [g EXCEPT !.count = g.count + 1, !.status[f.count + 1] = "active",
                                    !.current = f.count + 1]
    BY DEF LaNewSession, g
  <1>4. f.count + 1 \in 0 .. LaMaxSessions
    BY <1>2, LaFileType, LaAssumption DEF LaSessions
  <1>5. g.status \in [LaSessions -> {"none", "active", "expired", "revoked"}]
    BY <1>1 DEF LaFile
  <1> DEFINE status == [g.status EXCEPT ![f.count + 1] = "active"]
  <1>6. status \in [LaSessions -> {"none", "active", "expired", "revoked"}]
    BY <1>5
  <1>7. LaNewSession(f) = [g EXCEPT !.count = f.count + 1, !.status = status, !.current = f.count + 1]
    BY <1>1, <1>3 DEF LaFile
  <1> HIDE DEF status
  <1>8. /\ LaNewSession(f) \in LaFile
        /\ LaNewSession(f).count = f.count + 1 /\ LaNewSession(f).current = f.count + 1
        /\ LaNewSession(f).registered = f.registered /\ LaNewSession(f).status = status
    BY <1>1, <1>2, <1>4, <1>6, <1>7 DEF LaFile
  <1> QED
    BY <1>2, <1>5, <1>8 DEF g, status

LEMMA LaRevokedType ==
  ASSUME NEW f \in LaFile, NEW s \in LaSessions
  PROVE  /\ LaRevoked(f, s) \in LaFile
         /\ LaRevoked(f, s).count = f.count /\ LaRevoked(f, s).current \in {0, f.current}
         /\ LaRevoked(f, s).registered = f.registered
         /\ \A t \in LaSessions :
              LaRevoked(f, s).status[t] = IF t = s THEN "revoked" ELSE f.status[t]
  <1>1. (IF f.current = s THEN 0 ELSE f.current) \in {0} \cup LaSessions
    BY DEF LaFile
  <1>2. LaRevoked(f, s) = [f EXCEPT !.status = [f.status EXCEPT ![s] = "revoked"],
                                    !.current = IF f.current = s THEN 0 ELSE f.current]
    BY DEF LaRevoked, LaFile
  <1>3. [f.status EXCEPT ![s] = "revoked"] \in [LaSessions -> {"none", "active", "expired", "revoked"}]
    BY DEF LaFile
  <1>4. /\ LaRevoked(f, s) \in LaFile /\ LaRevoked(f, s).count = f.count
        /\ LaRevoked(f, s).current \in {0, f.current} /\ LaRevoked(f, s).registered = f.registered
        /\ LaRevoked(f, s).status = [f.status EXCEPT ![s] = "revoked"]
    BY <1>1, <1>2, <1>3 DEF LaFile
  <1> QED
    BY <1>4, LaFileType

LEMMA LaKilledType ==
  ASSUME NEW c, NEW f, NEW s \in LaSessions,
         laWork \in [LaSessions -> {"none", "spawned", "registered", "running", "ended", "killed"}]
  PROVE  /\ LaKilled(c, f, s) \in
              [LaSessions -> {"none", "spawned", "registered", "running", "ended", "killed"}]
         /\ \A t \in LaSessions : t # s => LaKilled(c, f, s)[t] = laWork[t]
         /\ s \in f.registered => LaKilled(c, f, s)[s] \notin {"registered", "running"}
         /\ LaKilled(c, f, s)[s] \in {"registered", "running"} => laWork[s] \in {"registered", "running"}
  BY DEF LaKilled

\* A refusal revokes nothing and leaves what is registered.
LEMMA LaRefusedKeeps ==
  ASSUME NEW f \in LaFile, NEW s
  PROVE  /\ LaRefused(f, s) \in LaFile /\ LaRefused(f, s).registered = f.registered
         /\ \A t \in LaSessions : LaRefused(f, s).status[t] = "revoked" => f.status[t] = "revoked"
  <1>1. LaRefused(f, s) \in LaFile /\ LaRefused(f, s).registered = f.registered
        /\ LaRefused(f, s).status = LaExpire(f, {s}).status
    BY LaRefusedType
  <1>2. \A t \in LaSessions : LaExpire(f, {s}).status[t] = "revoked" => f.status[t] = "revoked"
    BY LaExpireType
  <1> QED
    BY <1>1, <1>2

\* How the operations leave the numbering and the revocations.
LEMMA LaExpireStill ==
  ASSUME NEW f \in LaFile, LaCounted(f), NEW set
  PROVE  LaStill(f, LaExpire(f, set))
  <1>1. LaSessions \subseteq Nat /\ f.count \in Nat
    BY LaFileType, LaAssumption DEF LaSessions
  <1> QED
    BY <1>1, LaExpireType DEF LaCounted, LaStill

LEMMA LaRefusedStill ==
  ASSUME NEW f \in LaFile, LaCounted(f), NEW s
  PROVE  LaStill(f, LaRefused(f, s))
  <1>1. LaSessions \subseteq Nat /\ f.count \in Nat
    BY LaFileType, LaAssumption DEF LaSessions
  <1>2. f.current \in Nat
    <2>1. f.current \in {0} \cup LaSessions
      BY LaFileType
    <2> QED
      BY <2>1, LaAssumption DEF LaSessions
  <1>3. LaStill(f, LaExpire(f, {s}))
    BY LaExpireStill
  <1>4. /\ LaRefused(f, s).count = f.count /\ LaRefused(f, s).current \in {0, f.current}
        /\ LaRefused(f, s).status = LaExpire(f, {s}).status /\ LaExpire(f, {s}).count = f.count
    BY LaExpireType, LaRefusedType
  <1> QED
    BY <1>1, <1>2, <1>3, <1>4 DEF LaCounted, LaStill

LEMMA LaNewSessionStill ==
  ASSUME NEW f \in LaFile, LaCounted(f), f.count < LaMaxSessions
  PROVE  LaStill(f, LaNewSession(f))
  <1>1. LaSessions \subseteq Nat /\ f.count \in Nat
    BY LaFileType, LaAssumption DEF LaSessions
  <1>2. f.status[f.count + 1] = "none"
    BY <1>1, LaNewSessionType DEF LaCounted
  <1> QED
    BY <1>1, <1>2, LaExpireType, LaNewSessionType DEF LaCounted, LaStill

LEMMA LaRevokedStill ==
  ASSUME NEW f \in LaFile, LaCounted(f), NEW s \in LaSessions, s <= f.count
  PROVE  LaStill(f, LaRevoked(f, s))
  <1>1. LaSessions \subseteq Nat /\ f.count \in Nat
    BY LaFileType, LaAssumption DEF LaSessions
  <1> QED
    BY <1>1, LaRevokedType DEF LaCounted, LaStill

LEMMA LaClientType ==
  ASSUME LaTypeOK, NEW c \in LaClients
  PROVE  laClient[c].file \in LaFile
  BY DEF LaTypeOK, LaBroker

\* An operation ends: types.
LEMMA LaFinishType ==
  ASSUME LaTypeOK, NEW c \in LaClients, NEW file \in LaFile, LaFinish(c, file),
         laOwner' \in [LaSessions -> LaClients \cup {LaNone}],
         laWork' \in [LaSessions -> {"none", "spawned", "registered", "running", "ended", "killed"}],
         laLate' = laLate
  PROVE  LaTypeOK'
  <1>1. LaEmpty \in LaFile
    BY LaAssumption DEF LaEmpty, LaFile
  <1>2. LaIdle \in LaBroker
    BY <1>1 DEF LaIdle, LaBroker
  <1> QED
    BY <1>2 DEF LaTypeOK, LaFinish

\* What an operation inside the lock may be, and what it leaves.
LaWorks == [LaSessions -> {"none", "spawned", "registered", "running", "ended", "killed"}]

LaOperation(c, f, file) ==
  /\ LaFinish(c, file) /\ file \in LaFile
  /\ laOwner' \in [LaSessions -> LaClients \cup {LaNone}] /\ laWork' \in LaWorks /\ laLate' = laLate
  /\ f = laFile /\ LaCounted(f) /\ LaWorkSound(f, laWork) => LaStill(f, file) /\ LaWorkSound(file, laWork')

LaInside(c) ==
  \/ LaReuse(c) \/ LaStart(c) \/ LaHandoff(c) \/ LaRefuse(c)
  \/ \E set \in SUBSET LaSessions : LaList(c, set)
  \/ \E s \in LaSessions :
       \/ LaRevoke(c, s) \/ LaTool(c, s) \/ LaPrepare(c, s) \/ LaRegister(c, s)
       \/ \E succeeded \in BOOLEAN : LaComplete(c, s, succeeded)

\* A file that changes no revocation and no registration.
LEMMA LaPlainWork ==
  ASSUME NEW f, NEW g, LaWorkSound(f, laWork), NEW work,
         \A s \in LaSessions : work[s] \in {"registered", "running"} => laWork[s] \in {"registered", "running"},
         g.registered = f.registered,
         \A s \in LaSessions : g.status[s] = "revoked" => f.status[s] = "revoked"
  PROVE  LaWorkSound(g, work)
  BY DEF LaWorkSound

LEMMA LaInsideStep ==
  ASSUME LaTypeOK, NEW c \in LaClients, LaInside(c)
  PROVE  laClient[c].pc = "inside" /\ \E file : LaOperation(c, laClient[c].file, file)
  <1> DEFINE f == laClient[c].file
  <1>f. f \in LaFile /\ laFile \in LaFile /\ laWork \in LaWorks
        /\ laOwner \in [LaSessions -> LaClients \cup {LaNone}]
    BY LaClientType DEF LaTypeOK, LaWorks
  <1>g. \A file \in LaFile : LaCounted(file) => LaStill(file, file)
    BY DEF LaStill
  <1>1. CASE LaReuse(c)
    <2>1. PICK file \in {f, LaExpire(f, LaSearched(f))} : LaFinish(c, file)
      BY <1>1 DEF LaReuse
    <2>2. file \in LaFile /\ file.registered = f.registered
          /\ \A s \in LaSessions : file.status[s] = "revoked" => f.status[s] = "revoked"
      BY <1>f, <2>1, LaExpireType
    <2>3. LaCounted(f) => LaStill(f, file)
      BY <1>f, <1>g, <2>1, LaExpireStill
    <2>4. LaWorkSound(f, laWork) => LaWorkSound(file, laWork)
      BY <2>2, LaPlainWork
    <2> QED
      BY <1>f, <1>1, <2>1, <2>2, <2>3, <2>4 DEF LaReuse, LaOperation
  <1>2. CASE LaStart(c)
    <2> DEFINE file == LaNewSession(f)
    <2>1. f.count < LaMaxSessions /\ LaFinish(c, file) /\ laOwner' = [laOwner EXCEPT ![f.count + 1] = c]
      BY <1>2 DEF LaStart
    <2>2. file \in LaFile /\ file.registered = f.registered /\ f.count + 1 \in LaSessions
          /\ \A s \in LaSessions : file.status[s] = "revoked" => f.status[s] = "revoked"
      BY <1>f, <2>1, LaNewSessionType, LaExpireType
    <2>3. LaCounted(f) => LaStill(f, file)
      BY <1>f, <2>1, LaNewSessionStill
    <2> HIDE DEF file
    <2>4. LaWorkSound(f, laWork) => LaWorkSound(file, laWork)
      BY <2>2, LaPlainWork
    <2>5. laOwner' \in [LaSessions -> LaClients \cup {LaNone}]
      BY <1>f, <2>1, <2>2
    <2> QED
      BY <1>f, <1>2, <2>1, <2>2, <2>3, <2>4, <2>5 DEF LaStart, LaOperation
  <1>3. CASE LaHandoff(c)
    <2> DEFINE g == LaRevoked(f, f.current)
               busy == \E s \in 1 .. g.count : LaLive(g, s)
               file == IF busy THEN g ELSE LaNewSession(g)
    <2>1. /\ laClient[c].pc = "inside" /\ f.current # 0
          /\ busy \/ g.count < LaMaxSessions
          /\ laWork' = LaKilled(c, f, f.current)
          /\ LaFinish(c, file) /\ laLate' = laLate
          /\ laOwner' = IF busy THEN laOwner ELSE [laOwner EXCEPT ![g.count + 1] = c]
      BY <1>3 DEF LaHandoff
    <2>2. f.current \in LaSessions
      BY <1>f, <2>1, LaFileType
    <2>3. /\ g \in LaFile /\ g.registered = f.registered /\ g.count = f.count
          /\ \A t \in LaSessions : g.status[t] = IF t = f.current THEN "revoked" ELSE f.status[t]
      BY <1>f, <2>2, LaRevokedType
    <2> HIDE DEF g
    <2>4. ~ busy => /\ g.count < LaMaxSessions /\ g.count + 1 \in LaSessions
                    /\ LaNewSession(g) \in LaFile /\ LaNewSession(g).registered = g.registered
                    /\ \A t \in LaSessions : LaNewSession(g).status[t] = "revoked" => g.status[t] = "revoked"
      BY <2>1, <2>3, LaNewSessionType, LaExpireType
    <2>5. laOwner' \in [LaSessions -> LaClients \cup {LaNone}]
      BY <1>f, <2>1, <2>4
    <2>6. laWork' \in LaWorks
      BY <1>f, <2>1, <2>2, LaKilledType DEF LaWorks
    <2>7. file \in LaFile
      BY <2>3, <2>4
    <2>8. ASSUME LaCounted(f), LaWorkSound(f, laWork)
          PROVE  LaStill(f, file) /\ LaWorkSound(file, laWork')
      <3>1. LaStill(f, g)
        BY <1>f, <2>2, <2>8, LaRevokedStill DEF LaCounted, g
      <3>2. ~ busy => LaStill(g, LaNewSession(g))
        BY <2>3, <2>4, <3>1, LaNewSessionStill DEF LaStill
      <3>3. LaStill(f, file)
        BY <3>1, <3>2 DEF LaStill
      <3>4. ASSUME NEW t \in LaSessions, laWork'[t] \in {"registered", "running"}
            PROVE  t \in f.registered /\ f.status[t] # "revoked" /\ t # f.current
        <4>1. laWork[t] \in {"registered", "running"}
          BY <1>f, <2>1, <2>2, <3>4, LaKilledType DEF LaWorks
        <4>2. t \in f.registered /\ f.status[t] # "revoked"
          BY <2>8, <4>1 DEF LaWorkSound
        <4> QED
          BY <1>f, <2>1, <2>2, <3>4, <4>2, LaKilledType DEF LaWorks
      <3>5. LaWorkSound(file, laWork')
        BY <2>3, <2>4, <3>4 DEF LaWorkSound
      <3> QED
        BY <3>3, <3>5
    <2> HIDE DEF file
    <2> QED
      BY <2>1, <2>5, <2>6, <2>7, <2>8 DEF LaOperation
  <1>4. CASE LaRefuse(c)
    BY <1>4, <1>f, <1>g DEF LaRefuse, LaOperation
  <1>5. ASSUME NEW set, LaList(c, set) PROVE laClient[c].pc = "inside" /\ \E file : LaOperation(c, f, file)
    <2> DEFINE file == LaExpire(f, set)
    <2>1. file \in LaFile /\ file.registered = f.registered
          /\ \A s \in LaSessions : file.status[s] = "revoked" => f.status[s] = "revoked"
      BY <1>f, LaExpireType
    <2>2. LaCounted(f) => LaStill(f, file)
      BY <1>f, LaExpireStill
    <2>3. LaFinish(c, file) /\ UNCHANGED <<laOwner, laWork, laLate>> /\ laClient[c].pc = "inside"
      BY <1>5 DEF LaList
    <2> HIDE DEF file
    <2>4. LaWorkSound(f, laWork) => LaWorkSound(file, laWork)
      BY <2>1, LaPlainWork
    <2> QED
      BY <1>f, <2>1, <2>2, <2>3, <2>4 DEF LaOperation
  <1>6. ASSUME NEW s \in LaSessions, LaRevoke(c, s)
        PROVE  laClient[c].pc = "inside" /\ \E file : LaOperation(c, f, file)
    <2> DEFINE file == LaRevoked(f, s)
    <2>1. /\ laClient[c].pc = "inside" /\ f.status[s] # "none"
          /\ laWork' = LaKilled(c, f, s) /\ LaFinish(c, file) /\ UNCHANGED <<laOwner, laLate>>
      BY <1>6 DEF LaRevoke
    <2>2. /\ file \in LaFile /\ file.registered = f.registered
          /\ \A t \in LaSessions : file.status[t] = IF t = s THEN "revoked" ELSE f.status[t]
      BY <1>f, LaRevokedType
    <2>3. laWork' \in LaWorks
      BY <1>f, <2>1, LaKilledType DEF LaWorks
    <2>4. ASSUME LaCounted(f), LaWorkSound(f, laWork)
          PROVE  LaStill(f, file) /\ LaWorkSound(file, laWork')
      <3>1. LaSessions \subseteq Nat /\ f.count \in Nat
        BY <1>f, LaFileType, LaAssumption DEF LaSessions
      <3>2. s <= f.count
        BY <2>1, <2>4, <3>1 DEF LaCounted
      <3>3. LaStill(f, file)
        BY <1>f, <2>4, <3>2, LaRevokedStill
      <3> HIDE DEF file
      <3>4. ASSUME NEW t \in LaSessions, laWork'[t] \in {"registered", "running"}
            PROVE  t \in f.registered /\ f.status[t] # "revoked" /\ t # s
        <4>1. laWork[t] \in {"registered", "running"}
          BY <1>f, <2>1, <3>4, LaKilledType DEF LaWorks
        <4>2. t \in f.registered /\ f.status[t] # "revoked"
          BY <2>4, <4>1 DEF LaWorkSound
        <4> QED
          BY <1>f, <2>1, <3>4, <4>2, LaKilledType DEF LaWorks
      <3>5. LaWorkSound(file, laWork')
        BY <2>2, <3>4 DEF LaWorkSound
      <3> QED
        BY <3>3, <3>5
    <2> HIDE DEF file
    <2> QED
      BY <1>f, <2>1, <2>2, <2>3, <2>4 DEF LaOperation
  <1>7. ASSUME NEW s \in LaSessions, LaTool(c, s)
        PROVE  laClient[c].pc = "inside" /\ \E file : LaOperation(c, f, file)
    <2> DEFINE file == IF LaLive(f, s) THEN f ELSE LaRefused(f, s)
    <2>1. laClient[c].pc = "inside" /\ LaFinish(c, file) /\ UNCHANGED <<laOwner, laWork, laLate>>
      BY <1>7 DEF LaTool
    <2>2. file \in LaFile /\ file.registered = f.registered
          /\ \A t \in LaSessions : file.status[t] = "revoked" => f.status[t] = "revoked"
      BY <1>f, LaRefusedKeeps
    <2>3. LaCounted(f) => LaStill(f, file)
      BY <1>f, <1>g, LaRefusedStill
    <2> HIDE DEF file
    <2>4. LaWorkSound(f, laWork) => LaWorkSound(file, laWork)
      BY <2>2, LaPlainWork
    <2> QED
      BY <1>f, <2>1, <2>2, <2>3, <2>4 DEF LaOperation
  <1>8. ASSUME NEW s \in LaSessions, LaPrepare(c, s)
        PROVE  laClient[c].pc = "inside" /\ \E file : LaOperation(c, f, file)
    <2> DEFINE file == IF LaLive(f, s) THEN laFile ELSE LaRefused(f, s)
    <2>1. /\ laClient[c].pc = "inside" /\ LaFinish(c, file) /\ UNCHANGED <<laOwner, laLate>>
          /\ laWork[s] = "none"
          /\ laWork' \in {laWork, [laWork EXCEPT ![s] = "spawned"]}
      BY <1>8 DEF LaPrepare
    <2>2. file \in LaFile
      BY <1>f, LaRefusedType
    <2>3. ASSUME f = laFile
          PROVE  /\ file.registered = f.registered
                 /\ \A t \in LaSessions : file.status[t] = "revoked" => f.status[t] = "revoked"
      BY <1>f, <2>3, LaRefusedKeeps
    <2>4. f = laFile /\ LaCounted(f) => LaStill(f, file)
      BY <1>f, <1>g, LaRefusedStill
    <2> HIDE DEF file
    <2>5. laWork' \in LaWorks
      BY <1>f, <2>1 DEF LaWorks
    <2>6. \A t \in LaSessions : laWork'[t] \in {"registered", "running"} => laWork[t] \in {"registered", "running"}
      BY <1>f, <2>1 DEF LaWorks
    <2>7. f = laFile /\ LaWorkSound(f, laWork) => LaWorkSound(file, laWork')
      BY <2>3, <2>6 DEF LaWorkSound
    <2> QED
      BY <1>f, <2>1, <2>2, <2>4, <2>5, <2>7 DEF LaOperation
  <1>9. ASSUME NEW s \in LaSessions, LaRegister(c, s)
        PROVE  laClient[c].pc = "inside" /\ \E file : LaOperation(c, f, file)
    <2>1. laClient[c].pc = "inside" /\ laWork[s] = "spawned" /\ UNCHANGED <<laOwner, laLate>>
      BY <1>9 DEF LaRegister
    <2>2. CASE LaLive(f, s)
      <3> DEFINE file == [f EXCEPT !.registered = f.registered \cup {s}]
      <3>1. laWork' = [laWork EXCEPT ![s] = "registered"] /\ LaFinish(c, file)
        BY <1>9, <2>2 DEF LaRegister
      <3>2. /\ file \in LaFile /\ file.status = f.status /\ file.count = f.count
            /\ file.current = f.current /\ file.registered = f.registered \cup {s}
        BY <1>f DEF LaFile
      <3> HIDE DEF file
      <3>3. laWork' \in LaWorks
        BY <1>f, <3>1 DEF LaWorks
      <3>4. LaCounted(f) => LaStill(f, file)
        BY <3>2 DEF LaCounted, LaStill
      <3>5. \A t \in LaSessions : laWork'[t] = IF t = s THEN "registered" ELSE laWork[t]
        BY <1>f, <3>1 DEF LaWorks
      <3>6. LaWorkSound(f, laWork) => LaWorkSound(file, laWork')
        BY <2>2, <3>2, <3>5 DEF LaWorkSound, LaLive
      <3> QED
        BY <1>f, <2>1, <3>1, <3>2, <3>3, <3>4, <3>6 DEF LaOperation
    <2>3. CASE ~ LaLive(f, s)
      <3> DEFINE file == LaRefused(f, s)
      <3>1. laWork' = [laWork EXCEPT ![s] = "none"] /\ LaFinish(c, file)
        BY <1>9, <2>3 DEF LaRegister
      <3>2. file \in LaFile /\ file.registered = f.registered
            /\ \A t \in LaSessions : file.status[t] = "revoked" => f.status[t] = "revoked"
        BY <1>f, LaRefusedKeeps
      <3>3. LaCounted(f) => LaStill(f, file)
        BY <1>f, LaRefusedStill
      <3> HIDE DEF file
      <3>4. laWork' \in LaWorks
        BY <1>f, <3>1 DEF LaWorks
      <3>5. \A t \in LaSessions : laWork'[t] = IF t = s THEN "none" ELSE laWork[t]
        BY <1>f, <3>1 DEF LaWorks
      <3>6. LaWorkSound(f, laWork) => LaWorkSound(file, laWork')
        BY <3>2, <3>5 DEF LaWorkSound
      <3> QED
        BY <1>f, <2>1, <3>1, <3>2, <3>3, <3>4, <3>6 DEF LaOperation
    <2> QED
      BY <2>2, <2>3
  <1>10. ASSUME NEW s \in LaSessions, NEW succeeded \in BOOLEAN, LaComplete(c, s, succeeded)
         PROVE  laClient[c].pc = "inside" /\ \E file : LaOperation(c, f, file)
    <2> DEFINE g == IF f.status[s] = "active" /\ s \in laLate THEN LaRefused(f, s) ELSE f
               passed == IF LaLive(f, s) /\ succeeded THEN g.passed \cup {s} ELSE g.passed
               file == [g EXCEPT !.registered = g.registered \ {s}, !.passed = passed]
    <2>1. /\ laClient[c].pc = "inside" /\ LaFinish(c, file) /\ UNCHANGED <<laOwner, laLate>>
          /\ laWork' = [laWork EXCEPT ![s] = "none"]
      BY <1>10 DEF LaComplete
    <2>2. g \in LaFile /\ g.registered = f.registered
          /\ \A t \in LaSessions : g.status[t] = "revoked" => f.status[t] = "revoked"
      BY <1>f, LaRefusedKeeps
    <2>3. LaCounted(f) => LaStill(f, g)
      BY <1>f, <1>g, LaRefusedStill
    <2> HIDE DEF g
    <2>4. passed \in SUBSET LaSessions
      BY <2>2 DEF LaFile
    <2> HIDE DEF passed
    <2>5. /\ file \in LaFile /\ file.status = g.status /\ file.count = g.count
          /\ file.current = g.current /\ file.registered = g.registered \ {s}
      BY <2>2, <2>4 DEF LaFile
    <2> HIDE DEF file
    <2>6. LaCounted(f) => LaStill(f, file)
      BY <2>3, <2>5 DEF LaCounted, LaStill
    <2>7. laWork' \in LaWorks
      BY <1>f, <2>1 DEF LaWorks
    <2>8. \A t \in LaSessions : laWork'[t] = IF t = s THEN "none" ELSE laWork[t]
      BY <1>f, <2>1 DEF LaWorks
    <2>9. LaWorkSound(f, laWork) => LaWorkSound(file, laWork')
      BY <2>2, <2>5, <2>8 DEF LaWorkSound
    <2> QED
      BY <1>f, <2>1, <2>5, <2>6, <2>7, <2>9 DEF LaOperation
  <1> HIDE DEF f
  <1> QED
    BY <1>1, <1>2, <1>3, <1>4, <1>5, <1>6, <1>7, <1>8, <1>9, <1>10 DEF LaInside, f

\* A step is an operation inside the lock, one on the lock, or one of a workload.
LaOutside ==
  \/ \E c \in LaClients : LaWant(c) \/ LaCreateLock(c) \/ LaEnter(c) \/ LaTimeout(c) \/ LaUnlink(c) \/ LaCrash(c)
  \/ \E s \in LaSessions : LaRelease(s) \/ LaEnd(s) \/ LaCut(s) \/ LaPassTime(s)

LEMMA LaNextIs ==
  ASSUME LaNext
  PROVE  LaOutside \/ \E c \in LaClients : LaInside(c)
  BY DEF LaNext, LaOutside, LaInside

LEMMA LaIdleType == LaEmpty \in LaFile /\ LaIdle \in LaBroker
  <1>1. LaEmpty \in LaFile
    BY LaAssumption DEF LaEmpty, LaFile
  <1> QED
    BY <1>1 DEF LaIdle, LaBroker

LEMMA LaTypeStep ==
  ASSUME LaTypeOK, [LaNext]_laVars
  PROVE  LaTypeOK'
  <1>a. \A c \in LaClients : laClient[c].file \in LaFile
    BY LaClientType
  <1>1. ASSUME NEW c \in LaClients, LaInside(c) PROVE LaTypeOK'
    <2>1. PICK file : LaOperation(c, laClient[c].file, file)
      BY <1>1, LaInsideStep
    <2> QED
      BY <2>1, LaFinishType DEF LaOperation, LaWorks
  <1>2. ASSUME NEW c \in LaClients, LaWant(c) \/ LaTimeout(c) PROVE LaTypeOK'
    <2>1. PICK pc \in {"waiting", "judged", "idle"} : laClient' = [laClient EXCEPT ![c].pc = pc]
      BY <1>2 DEF LaWant, LaTimeout
    <2>2. laClient' \in [LaClients -> LaBroker]
      BY <2>1 DEF LaTypeOK, LaBroker
    <2> QED
      BY <1>2, <2>2 DEF LaWant, LaTimeout, LaTypeOK, LaUnlocked
  <1>3. ASSUME NEW c \in LaClients, LaCreateLock(c) \/ LaUnlink(c) PROVE LaTypeOK'
    <2>1. PICK pc \in {"waiting", "created"} : laClient' = [laClient EXCEPT ![c].pc = pc]
      BY <1>3 DEF LaCreateLock, LaUnlink
    <2>2. laClient' \in [LaClients -> LaBroker]
      BY <2>1 DEF LaTypeOK, LaBroker
    <2>3. laLock' \in {LaNone} \cup [by : LaClients, named : BOOLEAN]
      <3>1. LaCreateLock(c) => laLock' = [by |-> c, named |-> FALSE]
        BY DEF LaCreateLock
      <3>2. LaUnlink(c) => laLock' = LaNone
        BY DEF LaUnlink
      <3>3. [by |-> c, named |-> FALSE] \in [by : LaClients, named : BOOLEAN]
        OBVIOUS
      <3> QED
        BY <1>3, <3>1, <3>2, <3>3
    <2> QED
      BY <1>3, <2>2, <2>3 DEF LaCreateLock, LaUnlink, LaTypeOK, LaUnlocked
  <1>4. ASSUME NEW c \in LaClients, LaEnter(c) PROVE LaTypeOK'
    <2>1. laClient' \in [LaClients -> LaBroker]
      BY <1>4 DEF LaEnter, LaTypeOK, LaBroker
    <2>2. laLock' \in {LaNone} \cup [by : LaClients, named : BOOLEAN]
      BY <1>4 DEF LaEnter, LaTypeOK
    <2> QED
      BY <1>4, <2>1, <2>2 DEF LaEnter, LaTypeOK, LaUnlocked
  <1>5. ASSUME NEW c \in LaClients, LaCrash(c) PROVE LaTypeOK'
    <2>1. [LaIdle EXCEPT !.pc = "down"] \in LaBroker
      BY LaIdleType DEF LaBroker
    <2>2. laClient' \in [LaClients -> LaBroker]
      BY <1>5, <2>1 DEF LaCrash, LaTypeOK
    <2> QED
      BY <1>5, <2>2 DEF LaCrash, LaTypeOK
  <1>6. ASSUME NEW s \in LaSessions, LaRelease(s) \/ LaEnd(s) \/ LaCut(s) \/ LaPassTime(s) PROVE LaTypeOK'
    BY <1>6 DEF LaRelease, LaEnd, LaCut, LaPassTime, LaTypeOK
  <1>7. CASE UNCHANGED laVars
    BY <1>7 DEF laVars, LaTypeOK
  <1> QED
    BY <1>1, <1>2, <1>3, <1>4, <1>5, <1>6, <1>7, LaNextIs DEF LaOutside

LEMMA LaInitType == LaInit => LaTypeOK
  BY LaIdleType DEF LaInit, LaTypeOK

\* The state file and the workloads keep their types, for any number of brokers.
THEOREM LaTypeCorrect == LaSpec => []LaTypeOK
  BY LaInitType, LaTypeStep, PTL DEF LaSpec

\* At most one broker is inside the lock, and it works on the state file as it is.
LEMMA LaLockStep ==
  ASSUME LaTakesOverAlone, ~ LaSlowCreator, LaTypeOK, LaLockSound, [LaNext]_laVars
  PROVE  LaLockSound'
  <1>a. \A c \in LaClients : \A named \in BOOLEAN : laLock = [by |-> c, named |-> named] => laLock # LaNone
    BY LaNoneAssumption
  <1>c. \A c \in LaClients : laClient[c] = [pc |-> laClient[c].pc, file |-> laClient[c].file]
    BY DEF LaTypeOK, LaBroker
  <1>1. ASSUME NEW c \in LaClients, LaInside(c) PROVE LaLockSound'
    <2>1. PICK file : laClient[c].pc = "inside" /\ LaOperation(c, laClient[c].file, file)
      BY <1>1, LaInsideStep
    <2>2. \A d \in LaClients : laClient'[d] = IF d = c THEN LaIdle ELSE laClient[d]
      BY <2>1 DEF LaOperation, LaFinish, LaTypeOK
    <2>3. \A d \in LaClients \ {c} : laClient[d].pc \notin {"created", "inside", "judged"}
      BY <2>1 DEF LaLockSound
    <2> QED
      BY <2>2, <2>3 DEF LaLockSound, LaIdle
  <1>2. ASSUME NEW c \in LaClients, LaWant(c) PROVE LaLockSound'
    <2>1. \A d \in LaClients : /\ laClient'[d].pc = IF d = c THEN "waiting" ELSE laClient[d].pc
                               /\ laClient'[d].file = laClient[d].file
      BY <1>2, <1>c DEF LaWant, LaTypeOK
    <2> QED
      BY <1>2, <2>1 DEF LaWant, LaLockSound, LaUnlocked
  <1>3. ASSUME NEW c \in LaClients, LaTimeout(c) PROVE LaLockSound'
    <2> DEFINE pc == IF LaStale(laLock) THEN "judged" ELSE "idle"
    <2>1. \A d \in LaClients : /\ laClient'[d].pc = IF d = c THEN pc ELSE laClient[d].pc
                               /\ laClient'[d].file = laClient[d].file
      BY <1>3, <1>c DEF LaTimeout, LaTypeOK
    <2>2. laLock \in [by : LaClients, named : BOOLEAN]
      BY <1>3 DEF LaTimeout, LaTypeOK
    <2>3. LaStale(laLock) => laClient[laLock.by].pc = "down"
      BY <1>3 DEF LaTimeout, LaStale
    <2>4. LaStale(laLock) => \A d \in LaClients \ {c} : laClient[d].pc \notin {"created", "inside"}
      <3>1. \A d \in LaClients : laClient[d].pc \in {"created", "inside"} => laLock.by = d
        BY DEF LaLockSound
      <3> QED
        BY <2>3, <3>1
    <2> QED
      BY <1>3, <2>1, <2>4 DEF LaTimeout, LaLockSound, LaUnlocked
  <1>4. ASSUME NEW c \in LaClients, LaCreateLock(c) PROVE LaLockSound'
    <2>1. \A d \in LaClients : /\ laClient'[d].pc = IF d = c THEN "created" ELSE laClient[d].pc
                               /\ laClient'[d].file = laClient[d].file
      BY <1>4, <1>c DEF LaCreateLock, LaTypeOK
    <2>2. ASSUME NEW d \in LaClients PROVE laClient[d].pc \notin {"created", "inside", "judged"}
      <3>1. laClient[d].pc \notin {"created", "inside"}
        BY <1>a, <1>4 DEF LaCreateLock, LaLockSound
      <3>2. laClient[d].pc # "judged"
        BY <1>4 DEF LaCreateLock, LaTakesOverAlone
      <3> QED
        BY <3>1, <3>2
    <2>3. laLock' = [by |-> c, named |-> FALSE] /\ laFile' = laFile
      BY <1>4 DEF LaCreateLock, LaUnlocked
    <2> QED
      BY <2>1, <2>2, <2>3 DEF LaLockSound
  <1>5. ASSUME NEW c \in LaClients, LaEnter(c) PROVE LaLockSound'
    <2>1. \A d \in LaClients : laClient'[d] = IF d = c THEN [pc |-> "inside", file |-> laFile] ELSE laClient[d]
      BY <1>5 DEF LaEnter, LaTypeOK
    <2>2. \A d \in LaClients \ {c} : laClient[d].pc \notin {"created", "inside", "judged"}
      BY <1>5 DEF LaEnter, LaLockSound
    <2>3. laLock = [by |-> c, named |-> FALSE]
      BY <1>5 DEF LaEnter, LaLockSound
    <2>4. laLock' = [by |-> c, named |-> TRUE] /\ laFile' = laFile
      BY <1>a, <1>5, <2>3 DEF LaEnter, LaUnlocked
    <2> QED
      <3>1. /\ laClient'[c].pc = "inside" /\ laClient'[c].file = laFile'
            /\ laLock' = [by |-> c, named |-> laClient'[c].pc = "inside"]
        <4>1. laClient'[c] = [pc |-> "inside", file |-> laFile]
          BY <2>1
        <4>2. laClient'[c].pc = "inside" /\ laClient'[c].file = laFile
          BY <4>1
        <4>3. (laClient'[c].pc = "inside") = TRUE
          BY <4>2
        <4> QED
          BY <2>4, <4>2, <4>3, Zenon
      <3>2. ASSUME NEW d \in LaClients \ {c}
            PROVE  laClient'[d].pc \notin {"created", "inside", "judged"}
        BY <2>1, <2>2
      <3> QED
        BY <3>1, <3>2 DEF LaLockSound
  <1>6. ASSUME NEW c \in LaClients, LaUnlink(c) PROVE LaLockSound'
    <2>1. \A d \in LaClients : /\ laClient'[d].pc = IF d = c THEN "waiting" ELSE laClient[d].pc
                               /\ laClient'[d].file = laClient[d].file
      BY <1>6, <1>c DEF LaUnlink, LaTypeOK
    <2>2. \A d \in LaClients \ {c} : laClient[d].pc \notin {"created", "inside"}
      BY <1>6 DEF LaUnlink, LaLockSound
    <2> QED
      BY <1>6, <2>1, <2>2 DEF LaUnlink, LaLockSound, LaUnlocked
  <1>7. ASSUME NEW c \in LaClients, LaCrash(c) PROVE LaLockSound'
    <2>1. \A d \in LaClients : laClient'[d] = IF d = c THEN [LaIdle EXCEPT !.pc = "down"] ELSE laClient[d]
      BY <1>7 DEF LaCrash, LaTypeOK
    <2>2. [LaIdle EXCEPT !.pc = "down"].pc = "down"
      BY DEF LaIdle
    <2> QED
      BY <1>7, <2>1, <2>2 DEF LaCrash, LaLockSound
  <1>8. ASSUME NEW s \in LaSessions, LaRelease(s) \/ LaEnd(s) \/ LaCut(s) \/ LaPassTime(s) PROVE LaLockSound'
    BY <1>8 DEF LaRelease, LaEnd, LaCut, LaPassTime, LaLockSound
  <1>9. CASE UNCHANGED laVars
    BY <1>9 DEF laVars, LaLockSound
  <1> QED
    BY <1>1, <1>2, <1>3, <1>4, <1>5, <1>6, <1>7, <1>8, <1>9, LaNextIs DEF LaOutside

LEMMA LaInvStep ==
  ASSUME LaTakesOverAlone, ~ LaSlowCreator, LaInv, [LaNext]_laVars
  PROVE  LaInv' /\ (laFile' = laFile \/ LaStill(laFile, laFile'))
  <1>t. LaTypeOK' /\ LaLockSound'
    BY LaTypeStep, LaLockStep DEF LaInv
  <1>1. ASSUME NEW c \in LaClients, LaInside(c)
        PROVE  LaStill(laFile, laFile') /\ LaWorkSound(laFile', laWork')
    <2>1. PICK file : laClient[c].pc = "inside" /\ LaOperation(c, laClient[c].file, file)
      BY <1>1, LaInsideStep DEF LaInv
    <2>2. laClient[c].file = laFile /\ laFile' = file
      BY <2>1 DEF LaInv, LaLockSound, LaOperation, LaFinish
    <2> QED
      BY <2>1, <2>2 DEF LaInv, LaOperation
  <1>2. ASSUME LaOutside \/ UNCHANGED laVars
        PROVE  laFile' = laFile /\ LaWorkSound(laFile', laWork')
    <2>1. laFile' = laFile
      BY <1>2 DEF LaOutside, LaWant, LaCreateLock, LaEnter, LaTimeout, LaUnlink, LaCrash, LaRelease,
                  LaEnd, LaCut, LaPassTime, LaUnlocked, laVars
    <2>2. \A s \in LaSessions : laWork'[s] \in {"registered", "running"} =>
            laWork[s] \in {"registered", "running"}
      <3>1. ASSUME NEW c \in LaClients,
                   LaWant(c) \/ LaCreateLock(c) \/ LaEnter(c) \/ LaTimeout(c) \/ LaUnlink(c)
            PROVE  laWork' = laWork
        BY <3>1 DEF LaWant, LaCreateLock, LaEnter, LaTimeout, LaUnlink, LaUnlocked
      <3>2. ASSUME NEW c \in LaClients, LaCrash(c), NEW s \in LaSessions
            PROVE  laWork'[s] \in {"none", laWork[s]}
        BY <3>2 DEF LaCrash
      <3>3. ASSUME NEW t \in LaSessions, LaRelease(t) \/ LaEnd(t) \/ LaCut(t) \/ LaPassTime(t), NEW s \in LaSessions
            PROVE  laWork'[s] \in {"registered", "running"} => laWork[s] \in {"registered", "running"}
        BY <3>3 DEF LaRelease, LaEnd, LaCut, LaPassTime, LaInv, LaTypeOK
      <3>4. UNCHANGED laVars => laWork' = laWork
        BY DEF laVars
      <3> QED
        BY <1>2, <3>1, <3>2, <3>3, <3>4 DEF LaOutside
    <2> QED
      BY <2>1, <2>2 DEF LaInv, LaWorkSound
  <1>3. LaNext => LaOutside \/ \E c \in LaClients : LaInside(c)
    BY LaNextIs
  <1> QED
    BY <1>t, <1>1, <1>2, <1>3 DEF LaInv, LaStill

LEMMA LaInitInv == LaInit => LaInv
  <1>1. LaInit => LaTypeOK
    BY LaInitType
  <1>2. LaInit => LaCounted(laFile)
    BY DEF LaInit, LaCounted, LaEmpty
  <1>3. LaInit => LaLockSound
    BY DEF LaInit, LaLockSound, LaIdle
  <1>4. LaInit => LaWorkSound(laFile, laWork)
    BY DEF LaInit, LaWorkSound
  <1> QED
    BY <1>1, <1>2, <1>3, <1>4 DEF LaInv

\* Of two brokers one that takes over is alone: the other is dead.
LaOtherIsDead ==
  \A c, d \in LaClients : c # d /\ laClient[c].pc = "judged" => laClient[d].pc = "down"

LEMMA LaTwoAreAlone ==
  ASSUME LaTwoBrokers, ~ LaSlowCreator
  PROVE  LaSpec => []LaTakesOverAlone
  <1>1. LaInit => LaOtherIsDead
    BY DEF LaInit, LaOtherIsDead, LaIdle
  <1>2. LaTypeOK /\ LaOtherIsDead /\ [LaNext]_laVars => LaOtherIsDead'
    <2> SUFFICES ASSUME LaTypeOK, LaOtherIsDead, [LaNext]_laVars PROVE LaOtherIsDead'
      OBVIOUS
    <2>1. \A c, d, e \in LaClients : c # d => e \in {c, d}
      BY DEF LaTwoBrokers
    <2>2. \A c \in LaClients : laClient[c] = [pc |-> laClient[c].pc, file |-> laClient[c].file]
      BY DEF LaTypeOK, LaBroker
    <2>3. ASSUME NEW c \in LaClients, NEW pc, pc # "judged", laClient[c].pc # "down",
                 \A d \in LaClients : laClient'[d].pc = IF d = c THEN pc ELSE laClient[d].pc
          PROVE  LaOtherIsDead'
      BY <2>3 DEF LaOtherIsDead
    <2>4. ASSUME NEW c \in LaClients, LaWant(c) PROVE LaOtherIsDead'
      <3>1. \A d \in LaClients : laClient'[d].pc = IF d = c THEN "waiting" ELSE laClient[d].pc
        BY <2>2, <2>4 DEF LaWant, LaTypeOK
      <3> QED
        BY <2>3, <2>4, <3>1 DEF LaWant
    <2>5. ASSUME NEW c \in LaClients, LaCreateLock(c) PROVE LaOtherIsDead'
      <3>1. \A d \in LaClients : laClient'[d].pc = IF d = c THEN "created" ELSE laClient[d].pc
        BY <2>2, <2>5 DEF LaCreateLock, LaTypeOK
      <3> QED
        BY <2>3, <2>5, <3>1 DEF LaCreateLock
    <2>6. ASSUME NEW c \in LaClients, LaEnter(c) PROVE LaOtherIsDead'
      <3>1. \A d \in LaClients : laClient'[d].pc = IF d = c THEN "inside" ELSE laClient[d].pc
        BY <2>6 DEF LaEnter, LaTypeOK
      <3> QED
        BY <2>3, <2>6, <3>1 DEF LaEnter
    <2>7. ASSUME NEW c \in LaClients, LaUnlink(c) PROVE LaOtherIsDead'
      <3>1. \A d \in LaClients : laClient'[d].pc = IF d = c THEN "waiting" ELSE laClient[d].pc
        BY <2>2, <2>7 DEF LaUnlink, LaTypeOK
      <3> QED
        BY <2>3, <2>7, <3>1 DEF LaUnlink
    <2>8. ASSUME NEW c \in LaClients, LaInside(c) PROVE LaOtherIsDead'
      <3>1. PICK file : laClient[c].pc = "inside" /\ LaOperation(c, laClient[c].file, file)
        BY <2>8, LaInsideStep
      <3>2. \A d \in LaClients : laClient'[d].pc = IF d = c THEN "idle" ELSE laClient[d].pc
        BY <3>1 DEF LaOperation, LaFinish, LaIdle, LaTypeOK
      <3> QED
        BY <2>3, <3>1, <3>2
    <2>9. ASSUME NEW c \in LaClients, LaCrash(c) PROVE LaOtherIsDead'
      <3>1. \A d \in LaClients : laClient'[d].pc = IF d = c THEN "down" ELSE laClient[d].pc
        BY <2>9 DEF LaCrash, LaIdle, LaTypeOK
      <3> QED
        BY <3>1 DEF LaOtherIsDead
    <2>10. ASSUME NEW c \in LaClients, LaTimeout(c) PROVE LaOtherIsDead'
      <3>1. \A d \in LaClients :
              laClient'[d].pc = IF d = c THEN (IF LaStale(laLock) THEN "judged" ELSE "idle") ELSE laClient[d].pc
        BY <2>2, <2>10 DEF LaTimeout, LaTypeOK
      <3>2. laLock \in [by : LaClients, named : BOOLEAN]
        BY <2>10 DEF LaTimeout, LaTypeOK
      <3>3. LaStale(laLock) => laClient[laLock.by].pc = "down"
        BY <2>10 DEF LaTimeout, LaStale
      <3>4. LaStale(laLock) => \A d \in LaClients : d # c => laClient[d].pc = "down"
        BY <2>1, <2>10, <3>2, <3>3 DEF LaTimeout
      <3>5. laClient[c].pc = "waiting"
        BY <2>10 DEF LaTimeout
      <3> QED
        BY <3>1, <3>4, <3>5 DEF LaOtherIsDead
    <2>11. ASSUME NEW s \in LaSessions, LaRelease(s) \/ LaEnd(s) \/ LaCut(s) \/ LaPassTime(s)
           PROVE  LaOtherIsDead'
      BY <2>11 DEF LaRelease, LaEnd, LaCut, LaPassTime, LaOtherIsDead
    <2>12. CASE UNCHANGED laVars
      BY <2>12 DEF laVars, LaOtherIsDead
    <2> QED
      BY <2>4, <2>5, <2>6, <2>7, <2>8, <2>9, <2>10, <2>11, <2>12, LaNextIs DEF LaOutside
  <1>3. LaOtherIsDead => LaTakesOverAlone
    BY DEF LaOtherIsDead, LaTakesOverAlone
  <1> QED
    BY <1>1, <1>2, <1>3, LaTypeCorrect, PTL DEF LaSpec

\* Of any number of brokers that share a state file, whichever die, when no two
\* wait behind a dead one: a Session that was revoked validates no credential
\* again and runs no workload, for any number of Sessions (withStateLock, revoke,
\* handoff, registerWorkspaceProcess).
THEOREM LaRevocationHoldsCorrect ==
  ASSUME ~ LaSlowCreator
  PROVE  LaSpec /\ []LaTakesOverAlone => LaRevocationHolds
  <1>1. LaTakesOverAlone /\ LaInv /\ [LaNext]_laVars => LaInv'
    BY LaInvStep
  <1>2. LaInv => \A s \in LaSessions : laFile.status[s] = "revoked" => laWork[s] # "running"
    BY DEF LaInv, LaWorkSound
  <1>3. LaTakesOverAlone /\ LaInv /\ [LaNext]_laVars =>
          [\A s \in LaSessions : laFile.status[s] = "revoked" => ~ LaCredentialValid(s)']_laVars
    BY LaInvStep DEF LaStill, LaCredentialValid
  <1> QED
    BY <1>1, <1>2, <1>3, LaInitInv, PTL DEF LaSpec, LaRevocationHolds, LaRevocationSurvives

\* Two brokers need no such hypothesis: when one waits, the dead one is the other.
THEOREM LaRevocationOfTwoHolds ==
  ASSUME LaTwoBrokers, ~ LaSlowCreator
  PROVE  LaSpec => LaRevocationHolds
  BY LaTwoAreAlone, LaRevocationHoldsCorrect, PTL

-----------------------------------------------------------------------------
(* The mounts of a Workspace *)

\* A set of numbers that is not empty has a least one.
LEMMA FirstPosition ==
  ASSUME NEW S \in SUBSET Nat, S # {}
  PROVE  \E i \in S : \A j \in S : i <= j
  <1>1. \E i \in S : \A j \in S : <<j, i>> \notin OpToRel(<, Nat)
    BY NatLessThanWellFounded, WFMin
  <1>2. PICK i \in S : \A j \in S : <<j, i>> \notin OpToRel(<, Nat)
    BY <1>1
  <1>3. \A j \in S : ~ (j < i)
    BY <1>2 DEF OpToRel
  <1> QED
    BY <1>3

\* A set of numbers up to a bound that is not empty has a greatest one.
LEMMA LastPosition ==
  ASSUME NEW n \in Nat, NEW S \in SUBSET (0 .. n), S # {}
  PROVE  \E i \in S : \A j \in S : j <= i
  <1> DEFINE T == {n - i : i \in S}
  <1>1. T \in SUBSET Nat /\ T # {}
    <2>1. \A i \in S : n - i \in Nat
      OBVIOUS
    <2>2. PICK i \in S : TRUE
      OBVIOUS
    <2>3. n - i \in T
      OBVIOUS
    <2> QED
      BY <2>1, <2>3
  <1>2. PICK t \in T : \A u \in T : t <= u
    BY <1>1, FirstPosition
  <1>3. PICK i \in S : t = n - i
    BY <1>2
  <1>4. ASSUME NEW j \in S PROVE j <= i
    <2>1. n - j \in T /\ i \in 0 .. n /\ j \in 0 .. n
      OBVIOUS
    <2>2. n - i <= n - j
      BY <1>2, <1>3, <2>1
    <2> QED
      BY <2>1, <2>2
  <1> QED
    BY <1>4

\* The separators, and characters that a file system may take for each other.
WmSeparators == {"/", "\\"}
WmSame(x, y) == WmLower(WmNfkc(x)) = WmLower(WmNfkc(y))

LEMMA WmCharacters ==
  ASSUME NEW x \in WmChars
  PROVE  /\ WmNfkc(x) \in WmChars /\ WmLower(x) \in WmChars
         /\ WmNfkc(x) = "/" <=> x \in WmSeparators
         /\ WmLower(WmNfkc(x)) = "/" <=> x \in WmSeparators
         /\ x \notin WmSeparators => (WmNfkc(x) = "." <=> x = ".")
         /\ WmLower(x) = "." <=> x = "."
         /\ WmNfkc(x) = "nul" <=> x = "nul"
         /\ WmNfkc(x) = ":" <=> x = ":"
         /\ WmNfkc(x) \in {"a", "b", "A"} <=> x \in {"a", "b", "A"}
  BY DEF WmChars, WmNfkc, WmLower, WmSeparators

LEMMA WmCharactersAlike ==
  ASSUME NEW x \in WmChars, NEW y \in WmChars
  PROVE  /\ x \in WmSeparators => (WmSame(x, y) <=> y \in WmSeparators)
         /\ x \notin WmSeparators /\ y \notin WmSeparators =>
              (WmSame(x, y) <=> WmLower(x) = WmLower(y))
  BY DEF WmChars, WmNfkc, WmLower, WmSeparators, WmSame

LEMMA WmReplacedIs ==
  ASSUME NEW p \in Seq(WmChars)
  PROVE  /\ WmReplaced(p) \in Seq(WmChars) /\ Len(WmReplaced(p)) = Len(p)
         /\ \A i \in 1 .. Len(p) : WmReplaced(p)[i] = WmNfkc(p[i])
         /\ WmKey(p) \in Seq(WmChars) /\ Len(WmKey(p)) = Len(p)
         /\ \A i \in 1 .. Len(p) : WmKey(p)[i] = WmLower(p[i])
  <1>1. Len(p) \in Nat /\ \A i \in 1 .. Len(p) : p[i] \in WmChars
    OBVIOUS
  <1>2. \A i \in 1 .. Len(p) : WmNfkc(p[i]) \in WmChars /\ WmLower(p[i]) \in WmChars
    BY <1>1, WmCharacters
  <1>3. WmReplaced(p) \in [1 .. Len(p) -> WmChars] /\ WmKey(p) \in [1 .. Len(p) -> WmChars]
    BY <1>2 DEF WmReplaced, WmKey
  <1> QED
    BY <1>1, <1>3 DEF WmReplaced, WmKey

LEMMA WmSectionIs ==
  ASSUME NEW p \in Seq(WmChars), NEW separators, NEW s \in WmSections(p, separators)
  PROVE  /\ s[1] \in {0} \cup WmBars(p, separators) /\ s[1] \in 0 .. Len(p)
         /\ s[2] \in WmBars(p, separators) \cup {Len(p) + 1} /\ s[2] \in 1 .. Len(p) + 1
         /\ s[1] < s[2] /\ s = <<s[1], s[2]>>
         /\ \A i \in 1 .. Len(p) : s[1] < i /\ i < s[2] => p[i] \notin separators
  <1>1. Len(p) \in Nat /\ WmBars(p, separators) \subseteq 1 .. Len(p)
    BY DEF WmBars
  <1>2. /\ s \in ({0} \cup WmBars(p, separators)) \X (WmBars(p, separators) \cup {Len(p) + 1})
        /\ s[1] < s[2] /\ \A b \in WmBars(p, separators) : ~ (s[1] < b /\ b < s[2])
    BY DEF WmSections
  <1>3. s[1] \in {0} \cup WmBars(p, separators) /\ s[2] \in WmBars(p, separators) \cup {Len(p) + 1}
        /\ s = <<s[1], s[2]>>
    BY <1>2
  <1>4. s[1] \in 0 .. Len(p) /\ s[2] \in 1 .. Len(p) + 1
    BY <1>1, <1>3
  <1>5. \A i \in 1 .. Len(p) : s[1] < i /\ i < s[2] => p[i] \notin separators
    BY <1>2 DEF WmBars
  <1> QED
    BY <1>2, <1>3, <1>4, <1>5

LEMMA WmSegmentIs ==
  ASSUME NEW p \in Seq(WmChars), NEW separators, NEW s \in WmSections(p, separators)
  PROVE  /\ WmSegment(p, s) \in Seq(WmChars)
         /\ Len(WmSegment(p, s)) = s[2] - s[1] - 1
         /\ \A i \in 1 .. s[2] - s[1] - 1 :
              s[1] + i \in 1 .. Len(p) /\ WmSegment(p, s)[i] = p[s[1] + i]
  <1> DEFINE a == s[1]
             z == s[2]
             m == a + 1
             n == z - 1
  <1>1. Len(p) \in Nat /\ a \in 0 .. Len(p) /\ z \in 1 .. Len(p) + 1 /\ a < z
    BY WmSectionIs
  <1> HIDE DEF a, z
  <1>2. m \in Int /\ n \in Int /\ \A i \in m .. n : p[i] \in WmChars
    BY <1>1
  <1> HIDE DEF m, n
  <1>3. /\ SubSeq(p, m, n) \in Seq(WmChars)
        /\ Len(SubSeq(p, m, n)) = IF m <= n THEN n - m + 1 ELSE 0
        /\ \A i \in 1 .. n - m + 1 : SubSeq(p, m, n)[i] = p[m + i - 1]
    BY <1>2, SubSeqProperties
  <1>4. Len(SubSeq(p, m, n)) = z - a - 1
    BY <1>1, <1>3 DEF m, n
  <1>5. ASSUME NEW i \in 1 .. z - a - 1
        PROVE  a + i \in 1 .. Len(p) /\ SubSeq(p, m, n)[i] = p[a + i]
    <2>1. i \in 1 .. n - m + 1 /\ m + i - 1 = a + i /\ a + i \in 1 .. Len(p)
      BY <1>1, <1>5 DEF m, n
    <2> QED
      BY <1>3, <2>1
  <1> QED
    BY <1>3, <1>4, <1>5 DEF WmSegment, m, n, a, z

\* Every position is in a section.
LEMMA WmSectionAt ==
  ASSUME NEW p \in Seq(WmChars), NEW separators, NEW x \in 0 .. Len(p)
  PROVE  \E s \in WmSections(p, separators) : s[1] <= x /\ x < s[2]
  <1> DEFINE bars == WmBars(p, separators)
             before == {b \in {0} \cup bars : b <= x}
             after == {b \in bars \cup {Len(p) + 1} : x < b}
  <1>1. Len(p) \in Nat /\ bars \subseteq 1 .. Len(p)
    BY DEF WmBars
  <1>2. 0 \in before /\ before \in SUBSET (0 .. Len(p))
    BY <1>1
  <1>3. PICK a \in before : \A b \in before : b <= a
    BY <1>1, <1>2, LastPosition
  <1>4. Len(p) + 1 \in after /\ after \in SUBSET Nat
    BY <1>1
  <1>5. PICK z \in after : \A b \in after : z <= b
    BY <1>4, FirstPosition
  <1>6. a \in Nat /\ z \in Nat /\ x \in Nat /\ a <= x /\ x < z
    BY <1>1, <1>2, <1>3, <1>4, <1>5
  <1>7. ASSUME NEW b \in bars, a < b, b < z PROVE FALSE
    <2>1. b \in Nat
      BY <1>1
    <2>2. b <= x \/ x < b
      BY <1>6, <2>1
    <2> QED
      BY <1>3, <1>5, <1>6, <1>7, <2>1, <2>2
  <1>8. <<a, z>> \in WmSections(p, separators)
    BY <1>3, <1>5, <1>6, <1>7 DEF WmSections
  <1> QED
    BY <1>6, <1>8

\* How deep a section is.
WmDepth(p, i) == Cardinality({b \in WmBars(p, WmSeparators) : b <= i})

LEMMA WmFoldersAre ==
  ASSUME NEW p
  PROVE  WmFolders(p) = {<<WmDepth(p, s[1]), WmKey(WmSegment(p, s))>> : s \in WmSections(p, WmSeparators)}
  BY DEF WmFolders, WmDepth, WmSeparators

LEMMA WmDepthIs ==
  ASSUME NEW p \in Seq(WmChars), NEW i \in 0 .. Len(p), NEW j \in 0 .. Len(p), i < j
  PROVE  /\ WmDepth(p, i) \in Nat /\ WmDepth(p, j) \in Nat
         /\ WmDepth(p, i) <= WmDepth(p, j)
         /\ p[j] \in WmSeparators => WmDepth(p, i) < WmDepth(p, j)
  <1> DEFINE bars == WmBars(p, WmSeparators)
             I == {b \in bars : b <= i}
             J == {b \in bars : b <= j}
  <1>1. Len(p) \in Nat /\ bars \in SUBSET (1 .. Len(p)) /\ IsFiniteSet(1 .. Len(p))
    <2>1. Len(p) \in Nat /\ bars \in SUBSET (1 .. Len(p))
      BY DEF WmBars
    <2> QED
      BY <2>1, FS_Interval
  <1>2. IsFiniteSet(bars)
    BY <1>1, FS_Subset
  <1>3. IsFiniteSet(I) /\ IsFiniteSet(J)
    <2>1. I \in SUBSET bars /\ J \in SUBSET bars
      OBVIOUS
    <2> QED
      BY <1>2, <2>1, FS_Subset
  <1>4. I \in SUBSET J
    BY <1>1
  <1>5. Cardinality(I) <= Cardinality(J) /\ (Cardinality(J) = Cardinality(I) => J = I)
    BY <1>3, <1>4, FS_Subset
  <1>6. Cardinality(I) \in Nat /\ Cardinality(J) \in Nat
    BY <1>3, FS_CardinalityType
  <1>7. p[j] \in WmSeparators => j \in J /\ j \notin I
    BY <1>1 DEF WmBars
  <1> HIDE DEF I, J
  <1>8. p[j] \in WmSeparators => Cardinality(I) < Cardinality(J)
    BY <1>5, <1>6, <1>7
  <1> QED
    BY <1>5, <1>6, <1>8 DEF WmDepth, I, J

\* Sections begin at different depths.
LEMMA WmDepthTells ==
  ASSUME NEW p \in Seq(WmChars),
         NEW i \in {0} \cup WmBars(p, WmSeparators), NEW j \in {0} \cup WmBars(p, WmSeparators),
         WmDepth(p, i) = WmDepth(p, j)
  PROVE  i = j
  <1>1. Len(p) \in Nat /\ i \in 0 .. Len(p) /\ j \in 0 .. Len(p)
    BY DEF WmBars
  <1>2. i > 0 => p[i] \in WmSeparators
    BY DEF WmBars
  <1>3. j > 0 => p[j] \in WmSeparators
    BY DEF WmBars
  <1>4. ~ (i < j)
    <2> SUFFICES ASSUME i < j PROVE FALSE
      OBVIOUS
    <2>1. WmDepth(p, i) \in Nat /\ WmDepth(p, i) < WmDepth(p, j)
      BY <1>1, <1>3, WmDepthIs
    <2> QED
      BY <2>1
  <1>5. ~ (j < i)
    <2> SUFFICES ASSUME j < i PROVE FALSE
      OBVIOUS
    <2>1. WmDepth(p, j) \in Nat /\ WmDepth(p, j) < WmDepth(p, i)
      BY <1>1, <1>2, WmDepthIs
    <2> QED
      BY <2>1
  <1> QED
    BY <1>1, <1>4, <1>5

\* Two paths that agree up to a place are as deep there.
LEMMA WmDepthSame ==
  ASSUME NEW p \in Seq(WmChars), NEW q \in Seq(WmChars), NEW i \in 0 .. Len(p), i <= Len(q),
         \A x \in 1 .. i : WmSame(p[x], q[x])
  PROVE  /\ WmDepth(p, i) = WmDepth(q, i)
         /\ i \in {0} \cup WmBars(p, WmSeparators) <=> i \in {0} \cup WmBars(q, WmSeparators)
  <1>1. Len(p) \in Nat /\ Len(q) \in Nat /\ i \in Nat
    OBVIOUS
  <1>2. ASSUME NEW x \in 1 .. i
        PROVE  x \in WmBars(p, WmSeparators) <=> x \in WmBars(q, WmSeparators)
    <2>1. x \in 1 .. Len(p) /\ x \in 1 .. Len(q) /\ p[x] \in WmChars /\ q[x] \in WmChars
      BY <1>1
    <2>2. p[x] \in WmSeparators <=> q[x] \in WmSeparators
      <3>1. WmSame(p[x], q[x]) /\ WmSame(q[x], p[x])
        BY DEF WmSame
      <3> QED
        BY <2>1, <3>1, WmCharactersAlike
    <2> QED
      BY <2>1, <2>2 DEF WmBars
  <1>3. {b \in WmBars(p, WmSeparators) : b <= i} = {b \in WmBars(q, WmSeparators) : b <= i}
    <2>1. \A b \in WmBars(p, WmSeparators) \cup WmBars(q, WmSeparators) : b <= i => b \in 1 .. i
      BY <1>1 DEF WmBars
    <2> QED
      BY <1>2, <2>1
  <1>4. i = 0 \/ i \in 1 .. i
    BY <1>1
  <1> QED
    BY <1>2, <1>3, <1>4 DEF WmDepth

\* The names of two sections are alike when their characters are.
LEMMA WmNamesAlike ==
  ASSUME NEW p \in Seq(WmChars), NEW q \in Seq(WmChars),
         NEW s \in WmSections(p, WmSeparators), NEW t \in WmSections(q, WmSeparators), s[1] = t[1]
  PROVE  WmKey(WmSegment(p, s)) = WmKey(WmSegment(q, t)) <=>
           s = t /\ \A x \in 1 .. Len(p) : s[1] < x /\ x < s[2] => WmSame(p[x], q[x])
  <1> DEFINE a == s[1]
             y == s[2]
             z == t[2]
             k == WmKey(WmSegment(p, s))
             l == WmKey(WmSegment(q, t))
  <1>1. /\ Len(p) \in Nat /\ Len(q) \in Nat /\ a \in 0 .. Len(p) /\ a \in 0 .. Len(q)
        /\ y \in 1 .. Len(p) + 1 /\ z \in 1 .. Len(q) + 1 /\ a < y /\ a < z
        /\ s = <<a, y>> /\ t = <<a, z>>
    BY WmSectionIs
  <1>2. /\ k \in Seq(WmChars) /\ Len(k) = y - a - 1
        /\ \A i \in 1 .. y - a - 1 : k[i] = WmLower(p[a + i]) /\ a + i \in 1 .. Len(p)
    BY WmSegmentIs, WmReplacedIs
  <1>3. /\ l \in Seq(WmChars) /\ Len(l) = z - a - 1
        /\ \A i \in 1 .. z - a - 1 : l[i] = WmLower(q[a + i]) /\ a + i \in 1 .. Len(q)
    BY WmSegmentIs, WmReplacedIs
  <1>4. ASSUME y = z, NEW x \in 1 .. Len(p), a < x, x < y
        PROVE  WmSame(p[x], q[x]) <=> k[x - a] = l[x - a]
    <2>1. x - a \in 1 .. y - a - 1 /\ x - a \in 1 .. z - a - 1 /\ a + (x - a) = x /\ x \in 1 .. Len(q)
      BY <1>1, <1>4
    <2>2. k[x - a] = WmLower(p[x]) /\ l[x - a] = WmLower(q[x])
      BY <1>2, <1>3, <2>1
    <2>3. p[x] \notin WmSeparators /\ q[x] \notin WmSeparators /\ p[x] \in WmChars /\ q[x] \in WmChars
      BY <1>4, <2>1, WmSectionIs
    <2> QED
      BY <2>2, <2>3, WmCharactersAlike
  <1> HIDE DEF a, y, z, k, l
  <1>5. k = l => y = z
    BY <1>1, <1>2, <1>3
  <1>6. ASSUME k = l
        PROVE  \A x \in 1 .. Len(p) : a < x /\ x < y => WmSame(p[x], q[x])
    BY <1>4, <1>5, <1>6
  <1>7. ASSUME y = z, \A x \in 1 .. Len(p) : a < x /\ x < y => WmSame(p[x], q[x])
        PROVE  k = l
    <2>1. ASSUME NEW i \in 1 .. Len(k) PROVE k[i] = l[i]
      <3>1. a + i \in 1 .. Len(p) /\ a < a + i /\ a + i < y /\ (a + i) - a = i
        BY <1>1, <1>2
      <3> QED
        BY <1>4, <1>7, <3>1
    <2>2. Len(k) = Len(l)
      BY <1>2, <1>3, <1>7
    <2> QED
      BY <1>2, <1>3, <2>1, <2>2, SeqEqual
  <1>8. s = t <=> y = z
    BY <1>1
  <1> QED
    BY <1>5, <1>6, <1>7, <1>8 DEF a, y, z, k, l

\* A folder of p that is among those of q, and before which the paths agree, is
\* at the same place in q.
LEMMA WmSameSection ==
  ASSUME NEW p \in Seq(WmChars), NEW q \in Seq(WmChars), WmFolders(p) \subseteq WmFolders(q),
         NEW s \in WmSections(p, WmSeparators), s[1] <= Len(q),
         \A x \in 1 .. s[1] : WmSame(p[x], q[x])
  PROVE  /\ s \in WmSections(q, WmSeparators)
         /\ \A x \in 1 .. Len(p) : s[1] < x /\ x < s[2] => WmSame(p[x], q[x])
         /\ WmDepth(p, s[1]) = WmDepth(q, s[1])
  <1>1. s[1] \in 0 .. Len(p) /\ s[1] \in {0} \cup WmBars(p, WmSeparators)
    BY WmSectionIs
  <1>2. /\ WmDepth(p, s[1]) = WmDepth(q, s[1])
        /\ s[1] \in {0} \cup WmBars(q, WmSeparators)
    BY <1>1, WmDepthSame
  <1>3. <<WmDepth(p, s[1]), WmKey(WmSegment(p, s))>> \in WmFolders(q)
    BY WmFoldersAre
  <1>4. PICK t \in WmSections(q, WmSeparators) :
          <<WmDepth(p, s[1]), WmKey(WmSegment(p, s))>> = <<WmDepth(q, t[1]), WmKey(WmSegment(q, t))>>
    BY <1>3, WmFoldersAre
  <1>5. WmDepth(q, t[1]) = WmDepth(q, s[1]) /\ WmKey(WmSegment(p, s)) = WmKey(WmSegment(q, t))
    BY <1>2, <1>4
  <1>6. t[1] \in {0} \cup WmBars(q, WmSeparators)
    BY WmSectionIs
  <1>7. s[1] = t[1]
    BY <1>2, <1>5, <1>6, WmDepthTells
  <1>8. s = t /\ \A x \in 1 .. Len(p) : s[1] < x /\ x < s[2] => WmSame(p[x], q[x])
    BY <1>5, <1>7, WmNamesAlike
  <1> QED
    BY <1>2, <1>8

\* q is p, or a path below it, as far as a file system can tell.
WmWithin(p, q) ==
  /\ Len(p) <= Len(q)
  /\ \A x \in 1 .. Len(p) : WmSame(p[x], q[x])
  /\ Len(p) = Len(q) \/ q[Len(p) + 1] \in WmSeparators

\* When the folders of p are the first folders of q, q agrees with p all along.
LEMMA WmFoldersAgree ==
  ASSUME NEW p \in Seq(WmChars), NEW q \in Seq(WmChars), WmFolders(p) \subseteq WmFolders(q)
  PROVE  \A x \in 1 .. Len(p) : x <= Len(q) /\ WmSame(p[x], q[x])
  <1> DEFINE bad == {x \in 1 .. Len(p) : ~ (x <= Len(q) /\ WmSame(p[x], q[x]))}
  <1> SUFFICES ASSUME bad # {} PROVE FALSE
    OBVIOUS
  <1>1. Len(p) \in Nat /\ Len(q) \in Nat /\ bad \in SUBSET Nat
    OBVIOUS
  <1>2. PICK x \in bad : \A y \in bad : x <= y
    BY <1>1, FirstPosition
  <1>3. x \in 1 .. Len(p) /\ x - 1 \in 0 .. Len(p)
    BY <1>1
  <1>4. \A y \in 1 .. x - 1 : y <= Len(q) /\ WmSame(p[y], q[y])
    BY <1>1, <1>2, <1>3
  <1>5. PICK s \in WmSections(p, WmSeparators) : s[1] <= x - 1 /\ x - 1 < s[2]
    BY <1>3, WmSectionAt
  <1>6. /\ s[1] \in 0 .. Len(p) /\ s[2] \in WmBars(p, WmSeparators) \cup {Len(p) + 1}
        /\ s[2] \in 1 .. Len(p) + 1 /\ s[1] < s[2]
    BY WmSectionIs
  <1>7. s[1] <= Len(q) /\ \A y \in 1 .. s[1] : WmSame(p[y], q[y])
    BY <1>1, <1>3, <1>4, <1>5, <1>6
  <1>8. /\ s \in WmSections(q, WmSeparators)
        /\ \A y \in 1 .. Len(p) : s[1] < y /\ y < s[2] => WmSame(p[y], q[y])
        /\ WmDepth(p, s[1]) = WmDepth(q, s[1])
    BY <1>7, WmSameSection
  <1>9. s[2] \in WmBars(q, WmSeparators) \cup {Len(q) + 1} /\ s[2] \in 1 .. Len(q) + 1
    BY <1>8, WmSectionIs
  <1>10. CASE x < s[2]
    BY <1>1, <1>2, <1>3, <1>5, <1>6, <1>8, <1>9, <1>10
  <1>11. CASE x = s[2]
    <2>1. x \in WmBars(p, WmSeparators) /\ p[x] \in WmSeparators /\ p[x] \in WmChars
      BY <1>1, <1>3, <1>6, <1>11 DEF WmBars
    <2>2. CASE x \in WmBars(q, WmSeparators)
      <3>1. q[x] \in WmSeparators /\ q[x] \in WmChars /\ x <= Len(q)
        BY <1>1, <2>2 DEF WmBars
      <3> QED
        BY <1>2, <2>1, <3>1, WmCharactersAlike
    <2>3. CASE x = Len(q) + 1
      <3>1. PICK t \in WmSections(p, WmSeparators) : t[1] <= x /\ x < t[2]
        BY <1>1, <1>3, WmSectionAt
      <3>2. t[1] = x
        <4>1. t[1] \in 0 .. Len(p) /\ ~ (t[1] < x /\ x < t[2])
          BY <1>3, <2>1, WmSectionIs
        <4> QED
          BY <1>1, <1>3, <3>1, <4>1
      <3>3. <<WmDepth(p, t[1]), WmKey(WmSegment(p, t))>> \in WmFolders(q)
        BY WmFoldersAre
      <3>4. PICK u \in WmSections(q, WmSeparators) :
              <<WmDepth(p, t[1]), WmKey(WmSegment(p, t))>> = <<WmDepth(q, u[1]), WmKey(WmSegment(q, u))>>
        BY <3>3, WmFoldersAre
      <3>5. WmDepth(q, u[1]) = WmDepth(p, x)
        BY <3>2, <3>4
      <3>6. WmDepth(p, s[1]) < WmDepth(p, x) /\ WmDepth(p, s[1]) \in Nat
        BY <1>3, <1>6, <1>11, <2>1, WmDepthIs
      <3>7. u[1] \in {0} \cup WmBars(q, WmSeparators) /\ u[1] \in 0 .. Len(q)
        BY WmSectionIs
      <3>8. u[1] <= s[1]
        <4>1. s[1] < u[1] => u[1] \in WmBars(q, WmSeparators) /\ u[1] < s[2]
          BY <1>1, <1>6, <1>11, <2>3, <3>7
        <4>2. \A b \in WmBars(q, WmSeparators) : ~ (s[1] < b /\ b < s[2])
          BY <1>8 DEF WmSections
        <4> QED
          BY <1>1, <1>6, <3>7, <4>1, <4>2
      <3>9. WmDepth(q, u[1]) <= WmDepth(q, s[1]) /\ WmDepth(q, u[1]) \in Nat
        <4>1. s[1] \in 0 .. Len(q)
          BY <1>8, WmSectionIs
        <4>2. u[1] < s[1] => WmDepth(q, u[1]) <= WmDepth(q, s[1]) /\ WmDepth(q, u[1]) \in Nat
          BY <3>7, <4>1, WmDepthIs
        <4>3. u[1] = s[1] \/ u[1] < s[1]
          BY <1>1, <3>7, <3>8, <4>1
        <4> QED
          BY <1>8, <3>6, <4>2, <4>3
      <3> QED
        BY <1>8, <3>5, <3>6, <3>9
    <2> QED
      BY <1>9, <1>11, <2>2, <2>3
  <1> QED
    BY <1>1, <1>3, <1>5, <1>6, <1>10, <1>11

LEMMA WmFoldersWithin ==
  ASSUME NEW p \in Seq(WmChars), NEW q \in Seq(WmChars)
  PROVE  WmFolders(p) \subseteq WmFolders(q) <=> WmWithin(p, q)
  <1>1. Len(p) \in Nat /\ Len(q) \in Nat
    OBVIOUS
  <1>2. ASSUME WmFolders(p) \subseteq WmFolders(q) PROVE WmWithin(p, q)
    <2>1. \A x \in 1 .. Len(p) : x <= Len(q) /\ WmSame(p[x], q[x])
      BY <1>2, WmFoldersAgree
    <2>2. Len(p) <= Len(q)
      <3>1. Len(p) = 0 \/ Len(p) \in 1 .. Len(p)
        BY <1>1
      <3> QED
        BY <1>1, <2>1, <3>1
    <2>3. Len(p) \in 0 .. Len(p)
      BY <1>1
    <2>4. PICK s \in WmSections(p, WmSeparators) : s[1] <= Len(p) /\ Len(p) < s[2]
      BY <2>3, WmSectionAt
    <2>5. s[2] = Len(p) + 1 /\ s[1] \in 0 .. Len(p)
      <3>1. s[2] \in 1 .. Len(p) + 1 /\ s[1] \in 0 .. Len(p)
        BY WmSectionIs
      <3> QED
        BY <1>1, <2>4, <3>1
    <2>6. s[1] <= Len(q) /\ \A x \in 1 .. s[1] : WmSame(p[x], q[x])
      BY <1>1, <2>1, <2>2, <2>5
    <2>7. s \in WmSections(q, WmSeparators)
      BY <1>2, <2>6, WmSameSection
    <2>8. Len(p) + 1 \in WmBars(q, WmSeparators) \cup {Len(q) + 1}
      BY <2>5, <2>7, WmSectionIs
    <2>9. Len(p) = Len(q) \/ q[Len(p) + 1] \in WmSeparators
      BY <1>1, <2>8 DEF WmBars
    <2> QED
      BY <2>1, <2>2, <2>9 DEF WmWithin
  <1>3. ASSUME WmWithin(p, q) PROVE WmFolders(p) \subseteq WmFolders(q)
    <2>1. /\ Len(p) <= Len(q) /\ \A x \in 1 .. Len(p) : WmSame(p[x], q[x])
          /\ Len(p) = Len(q) \/ q[Len(p) + 1] \in WmSeparators
      BY <1>3 DEF WmWithin
    <2>2. ASSUME NEW s \in WmSections(p, WmSeparators)
          PROVE  <<WmDepth(p, s[1]), WmKey(WmSegment(p, s))>> \in WmFolders(q)
      <3>1. /\ s[1] \in {0} \cup WmBars(p, WmSeparators) /\ s[1] \in 0 .. Len(p)
            /\ s[2] \in WmBars(p, WmSeparators) \cup {Len(p) + 1} /\ s[2] \in 1 .. Len(p) + 1
            /\ s[1] < s[2] /\ s = <<s[1], s[2]>>
            /\ \A x \in 1 .. Len(p) : s[1] < x /\ x < s[2] => p[x] \notin WmSeparators
        BY WmSectionIs
      <3>2. ASSUME NEW x \in 1 .. Len(p)
            PROVE  x \in WmBars(p, WmSeparators) <=> x \in WmBars(q, WmSeparators)
        <4>1. x \in 1 .. Len(q) /\ p[x] \in WmChars /\ q[x] \in WmChars
          BY <1>1, <2>1
        <4>2. WmSame(p[x], q[x]) /\ WmSame(q[x], p[x])
          BY <2>1 DEF WmSame
        <4>3. p[x] \in WmSeparators <=> q[x] \in WmSeparators
          BY <4>1, <4>2, WmCharactersAlike
        <4> QED
          BY <4>1, <4>3 DEF WmBars
      <3>3. WmDepth(p, s[1]) = WmDepth(q, s[1]) /\ s[1] \in {0} \cup WmBars(q, WmSeparators)
        <4>1. s[1] <= Len(q) /\ \A x \in 1 .. s[1] : WmSame(p[x], q[x])
          BY <1>1, <2>1, <3>1
        <4> QED
          BY <3>1, <4>1, WmDepthSame
      <3>4. s[2] \in WmBars(q, WmSeparators) \cup {Len(q) + 1}
        <4>1. CASE s[2] = Len(p) + 1
          BY <1>1, <2>1, <4>1 DEF WmBars
        <4>2. CASE s[2] \in WmBars(p, WmSeparators)
          BY <3>2, <4>2 DEF WmBars
        <4> QED
          BY <3>1, <4>1, <4>2
      <3>5. \A b \in WmBars(q, WmSeparators) : ~ (s[1] < b /\ b < s[2])
        <4> SUFFICES ASSUME NEW b \in WmBars(q, WmSeparators), s[1] < b, b < s[2] PROVE FALSE
          OBVIOUS
        <4>1. b \in 1 .. Len(p)
          BY <1>1, <3>1 DEF WmBars
        <4>2. b \in WmBars(p, WmSeparators)
          BY <3>2, <4>1
        <4>3. p[b] \in WmSeparators
          BY <4>2 DEF WmBars
        <4> QED
          BY <3>1, <4>1, <4>3
      <3>6. s \in WmSections(q, WmSeparators)
        <4>1. s \in ({0} \cup WmBars(q, WmSeparators)) \X (WmBars(q, WmSeparators) \cup {Len(q) + 1})
          BY <3>1, <3>3, <3>4
        <4> QED
          BY <3>1, <3>5, <4>1 DEF WmSections
      <3>7. WmKey(WmSegment(p, s)) = WmKey(WmSegment(q, s))
        BY <2>1, <3>6, WmNamesAlike
      <3> QED
        BY <3>3, <3>6, <3>7, WmFoldersAre
    <2> QED
      BY <2>2, WmFoldersAre
  <1> QED
    BY <1>2, <1>3

LEMMA WmPrefixIs ==
  ASSUME NEW r \in Seq(WmChars), NEW l \in Seq(WmChars)
  PROVE  IsPrefix(Append(r, "/"), l) <=>
           /\ Len(r) < Len(l)
           /\ \A i \in 1 .. Len(r) : r[i] = l[i]
           /\ l[Len(r) + 1] = "/"
  <1> DEFINE a == Append(r, "/")
             n == Len(r) + 1
  <1>1. Len(r) \in Nat /\ Len(l) \in Nat /\ "/" \in WmChars
    BY DEF WmChars
  <1>2. /\ a \in Seq(WmChars) /\ Len(a) = n
        /\ \A i \in 1 .. Len(r) : a[i] = r[i]
        /\ a[n] = "/"
    BY <1>1, AppendProperties
  <1> HIDE DEF a
  <1>3. n \in Nat
    BY <1>1
  <1>4. SubSeq(a, 1, n) = a
    <2>1. \A i \in 1 .. n : a[i] \in WmChars
      BY <1>2
    <2>2. /\ SubSeq(a, 1, n) \in Seq(WmChars) /\ Len(SubSeq(a, 1, n)) = n
          /\ \A i \in 1 .. n - 1 + 1 : SubSeq(a, 1, n)[i] = a[1 + i - 1]
      BY <1>3, <2>1, SubSeqProperties
    <2>3. \A i \in 1 .. n : i \in 1 .. n - 1 + 1 /\ 1 + i - 1 = i
      BY <1>3
    <2>4. \A i \in 1 .. n : SubSeq(a, 1, n)[i] = a[i]
      BY <2>2, <2>3
    <2> QED
      BY <1>2, <2>2, <2>4, SeqEqual
  <1>5. ASSUME n <= Len(l)
        PROVE  a = SubSeq(l, 1, n) <=> \A i \in 1 .. n : a[i] = l[i]
    <2>1. \A i \in 1 .. n : l[i] \in WmChars
      BY <1>1, <1>5
    <2>2. /\ SubSeq(l, 1, n) \in Seq(WmChars) /\ Len(SubSeq(l, 1, n)) = n
          /\ \A i \in 1 .. n - 1 + 1 : SubSeq(l, 1, n)[i] = l[1 + i - 1]
      BY <1>3, <2>1, SubSeqProperties
    <2>3. \A i \in 1 .. n : i \in 1 .. n - 1 + 1 /\ 1 + i - 1 = i
      BY <1>3
    <2>4. \A i \in 1 .. n : SubSeq(l, 1, n)[i] = l[i]
      BY <2>2, <2>3
    <2>5. (\A i \in 1 .. n : a[i] = l[i]) => a = SubSeq(l, 1, n)
      BY <1>2, <2>2, <2>4, SeqEqual
    <2> QED
      BY <2>4, <2>5
  <1>6. IsPrefix(a, l) <=> n <= Len(l) /\ \A i \in 1 .. n : a[i] = l[i]
    BY <1>2, <1>4, <1>5 DEF IsPrefix
  <1>7. (\A i \in 1 .. n : a[i] = l[i]) <=> (\A i \in 1 .. Len(r) : r[i] = l[i]) /\ l[n] = "/"
    <2>1. \A i \in 1 .. n : i \in 1 .. Len(r) \/ i = n
      BY <1>1
    <2>2. n \in 1 .. n /\ \A i \in 1 .. Len(r) : i \in 1 .. n
      BY <1>1
    <2> QED
      BY <1>2, <2>1, <2>2
  <1>8. n <= Len(l) <=> Len(r) < Len(l)
    BY <1>1
  <1> QED
    BY <1>6, <1>7, <1>8 DEF a

\* A path and a path below it, once normalized and folded.
LEMMA WmWithinIs ==
  ASSUME NEW p \in Seq(WmChars), NEW q \in Seq(WmChars)
  PROVE  LET k == WmKey(WmReplaced(p))
             l == WmKey(WmReplaced(q))
         IN  WmWithin(p, q) <=> k = l \/ IsPrefix(Append(k, "/"), l)
  <1> DEFINE k == WmKey(WmReplaced(p))
             l == WmKey(WmReplaced(q))
  <1>1. Len(p) \in Nat /\ Len(q) \in Nat
    OBVIOUS
  <1>2. /\ k \in Seq(WmChars) /\ Len(k) = Len(p)
        /\ \A i \in 1 .. Len(p) : k[i] = WmLower(WmNfkc(p[i]))
    BY WmReplacedIs
  <1>3. /\ l \in Seq(WmChars) /\ Len(l) = Len(q)
        /\ \A i \in 1 .. Len(q) : l[i] = WmLower(WmNfkc(q[i]))
    BY WmReplacedIs
  <1> HIDE DEF k, l
  <1>4. ASSUME Len(p) <= Len(q)
        PROVE  (\A i \in 1 .. Len(p) : WmSame(p[i], q[i])) <=> \A i \in 1 .. Len(p) : k[i] = l[i]
    <2>1. \A i \in 1 .. Len(p) : i \in 1 .. Len(q)
      BY <1>1, <1>4
    <2> QED
      BY <1>2, <1>3, <2>1 DEF WmSame
  <1>5. ASSUME Len(p) < Len(q)
        PROVE  l[Len(p) + 1] = "/" <=> q[Len(p) + 1] \in WmSeparators
    <2>1. Len(p) + 1 \in 1 .. Len(q)
      BY <1>1, <1>5
    <2>2. q[Len(p) + 1] \in WmChars
      BY <2>1
    <2> QED
      BY <1>3, <2>1, <2>2, WmCharacters
  <1>6. k = l <=> Len(p) = Len(q) /\ \A i \in 1 .. Len(p) : k[i] = l[i]
    BY <1>2, <1>3, SeqEqual
  <1>7. IsPrefix(Append(k, "/"), l) <=>
          Len(p) < Len(q) /\ (\A i \in 1 .. Len(p) : k[i] = l[i]) /\ l[Len(p) + 1] = "/"
    BY <1>2, <1>3, WmPrefixIs
  <1>8. CASE Len(p) = Len(q)
    <2>1. Len(p) <= Len(q) /\ ~ (Len(p) < Len(q))
      BY <1>1, <1>8
    <2> QED
      BY <1>4, <1>6, <1>7, <1>8, <2>1 DEF WmWithin, k, l
  <1>9. CASE Len(p) < Len(q)
    <2>1. Len(p) <= Len(q) /\ Len(p) # Len(q)
      BY <1>1, <1>9
    <2> QED
      BY <1>4, <1>5, <1>6, <1>7, <1>9, <2>1 DEF WmWithin, k, l
  <1>10. CASE Len(q) < Len(p)
    <2>1. ~ (Len(p) <= Len(q)) /\ ~ (Len(p) < Len(q)) /\ Len(p) # Len(q)
      BY <1>1, <1>10
    <2> QED
      BY <1>6, <1>7, <2>1 DEF WmWithin, k, l
  <1> QED
    BY <1>1, <1>8, <1>9, <1>10

\* The strings overlap when the folders of one path are among those of the other.
LEMMA WmOverlapIs ==
  ASSUME NEW p \in Seq(WmChars), NEW q \in Seq(WmChars)
  PROVE  WmOverlaps(WmReplaced(p), WmReplaced(q)) <=>
           WmFolders(p) \subseteq WmFolders(q) \/ WmFolders(q) \subseteq WmFolders(p)
  <1> DEFINE k == WmKey(WmReplaced(p))
             l == WmKey(WmReplaced(q))
  <1>1. WmFolders(p) \subseteq WmFolders(q) <=> k = l \/ IsPrefix(Append(k, "/"), l)
    BY WmFoldersWithin, WmWithinIs
  <1>2. WmFolders(q) \subseteq WmFolders(p) <=> l = k \/ IsPrefix(Append(l, "/"), k)
    BY WmFoldersWithin, WmWithinIs
  <1> QED
    BY <1>1, <1>2 DEF WmOverlaps

\* The folders of a path are the sections of the normalized one.
LEMMA WmReplacedSections ==
  ASSUME NEW p \in Seq(WmChars)
  PROVE  WmSections(WmReplaced(p), {"/"}) = WmSections(p, WmSeparators)
  <1>1. Len(WmReplaced(p)) = Len(p)
    BY WmReplacedIs
  <1>2. ASSUME NEW i \in 1 .. Len(p) PROVE WmReplaced(p)[i] \in {"/"} <=> p[i] \in WmSeparators
    <2>1. p[i] \in WmChars
      BY <1>2
    <2> QED
      BY <2>1, WmReplacedIs, WmCharacters
  <1>3. WmBars(WmReplaced(p), {"/"}) = WmBars(p, WmSeparators)
    BY <1>1, <1>2 DEF WmBars
  <1> QED
    BY <1>1, <1>3 DEF WmSections

\* Bad segments: none, or at most two characters, dots all.
LEMMA WmBadIs ==
  ASSUME NEW s \in Seq(WmChars)
  PROVE  s \in WmBadSegments <=> Len(s) <= 2 /\ \A i \in 1 .. Len(s) : s[i] = "."
  <1>1. ASSUME s \in WmBadSegments PROVE Len(s) <= 2 /\ \A i \in 1 .. Len(s) : s[i] = "."
    <2>1. CASE s = << >>
      BY <2>1
    <2>2. CASE s = <<".">>
      <3>1. Len(s) = 1 /\ s[1] = "."
        BY <2>2
      <3> QED
        BY <3>1
    <2>3. CASE s = <<".", ".">>
      <3>1. Len(s) = 2 /\ s[1] = "." /\ s[2] = "."
        BY <2>3
      <3> QED
        BY <3>1
    <2> QED
      BY <1>1, <2>1, <2>2, <2>3 DEF WmBadSegments
  <1>2. ASSUME Len(s) <= 2, \A i \in 1 .. Len(s) : s[i] = "." PROVE s \in WmBadSegments
    <2>1. Len(s) \in {0, 1, 2}
      <3>1. Len(s) \in Nat
        OBVIOUS
      <3>2. Len(s) <= 2
        BY <1>2
      <3>3. \A n \in Nat : n <= 2 => n = 0 \/ n = 1 \/ n = 2
        OBVIOUS
      <3> QED
        BY <3>1, <3>2, <3>3
    <2>2. CASE Len(s) = 0
      BY <2>2 DEF WmBadSegments
    <2>3. CASE Len(s) = 1
      BY <1>2, <2>3 DEF WmBadSegments
    <2>4. CASE Len(s) = 2
      BY <1>2, <2>4 DEF WmBadSegments
    <2> QED
      BY <2>1, <2>2, <2>3, <2>4
  <1> QED
    BY <1>1, <1>2

LEMMA WmBadAlike ==
  ASSUME NEW p \in Seq(WmChars), NEW s \in WmSections(p, WmSeparators)
  PROVE  WmSegment(WmReplaced(p), s) \in WmBadSegments <=> WmKey(WmSegment(p, s)) \in WmBadSegments
  <1> DEFINE n == s[2] - s[1] - 1
             k == WmSegment(WmReplaced(p), s)
             l == WmKey(WmSegment(p, s))
  <1>1. s \in WmSections(WmReplaced(p), {"/"}) /\ WmReplaced(p) \in Seq(WmChars)
    BY WmReplacedSections, WmReplacedIs
  <1>2. /\ k \in Seq(WmChars) /\ Len(k) = n
        /\ \A i \in 1 .. n : k[i] = WmReplaced(p)[s[1] + i]
    BY <1>1, WmSegmentIs
  <1>3. /\ WmSegment(p, s) \in Seq(WmChars) /\ Len(WmSegment(p, s)) = n
        /\ \A i \in 1 .. n : s[1] + i \in 1 .. Len(p) /\ WmSegment(p, s)[i] = p[s[1] + i]
    BY WmSegmentIs
  <1>4. l \in Seq(WmChars) /\ Len(l) = n /\ \A i \in 1 .. n : l[i] = WmLower(p[s[1] + i])
    BY <1>3, WmReplacedIs
  <1>5. s[1] \in 0 .. Len(p) /\ s[2] \in 1 .. Len(p) + 1 /\ s[1] < s[2]
        /\ \A i \in 1 .. Len(p) : s[1] < i /\ i < s[2] => p[i] \notin WmSeparators
    BY WmSectionIs
  <1>6. ASSUME NEW i \in 1 .. n PROVE k[i] = "." <=> l[i] = "."
    <2>1. s[1] + i \in 1 .. Len(p) /\ s[1] < s[1] + i /\ s[1] + i < s[2]
      BY <1>5
    <2>2. p[s[1] + i] \in WmChars /\ p[s[1] + i] \notin WmSeparators
      BY <1>5, <2>1
    <2>3. k[i] = WmNfkc(p[s[1] + i]) /\ l[i] = WmLower(p[s[1] + i])
      BY <1>2, <1>4, <2>1, WmReplacedIs
    <2> QED
      BY <2>2, <2>3, WmCharacters
  <1> HIDE DEF k, l, n
  <1> QED
    BY <1>2, <1>4, <1>6, WmBadIs DEF k, l

LEMMA WmNormalIs ==
  ASSUME NEW p \in Seq(WmChars)
  PROVE  WmNormal(p) <=>
           /\ \A f \in WmFolders(p) : f[2] \notin WmBadSegments
           /\ "nul" \notin ToSet(p)
           /\ ~ (Len(p) > 1 /\ p[1] \in {"a", "b", "A"} /\ p[2] = ":")
  <1> DEFINE r == WmReplaced(p)
  <1>1. Len(p) \in Nat /\ Len(r) = Len(p) /\ \A i \in 1 .. Len(p) : r[i] = WmNfkc(p[i]) /\ p[i] \in WmChars
    BY WmReplacedIs
  <1> HIDE DEF r
  <1>2. Contains(r, "nul") <=> "nul" \in ToSet(p)
    <2>1. \A i \in 1 .. Len(p) : r[i] = "nul" <=> p[i] = "nul"
      BY <1>1, WmCharacters
    <2>2. DOMAIN p = 1 .. Len(p)
      OBVIOUS
    <2> QED
      BY <1>1, <2>1, <2>2 DEF Contains, ToSet
  <1>3. (Len(r) > 1 /\ r[1] \in {"a", "b", "A"} /\ r[2] = ":") <=>
          (Len(p) > 1 /\ p[1] \in {"a", "b", "A"} /\ p[2] = ":")
    <2>1. Len(p) > 1 => 1 \in 1 .. Len(p) /\ 2 \in 1 .. Len(p)
      BY <1>1
    <2> QED
      BY <1>1, <2>1, WmCharacters
  <1>4. (\A s \in WmSections(r, {"/"}) : WmSegment(r, s) \notin WmBadSegments) <=>
          \A f \in WmFolders(p) : f[2] \notin WmBadSegments
    <2>1. WmSections(r, {"/"}) = WmSections(p, WmSeparators)
      BY WmReplacedSections DEF r
    <2>2. \A s \in WmSections(p, WmSeparators) :
            WmSegment(r, s) \in WmBadSegments <=> WmKey(WmSegment(p, s)) \in WmBadSegments
      BY WmBadAlike DEF r
    <2>3. (\A f \in WmFolders(p) : f[2] \notin WmBadSegments) <=>
            \A s \in WmSections(p, WmSeparators) : WmKey(WmSegment(p, s)) \notin WmBadSegments
      <3>1. WmFolders(p) =
              {<<WmDepth(p, s[1]), WmKey(WmSegment(p, s))>> : s \in WmSections(p, WmSeparators)}
        BY WmFoldersAre
      <3>2. \A s \in WmSections(p, WmSeparators) :
              /\ <<WmDepth(p, s[1]), WmKey(WmSegment(p, s))>> \in WmFolders(p)
              /\ <<WmDepth(p, s[1]), WmKey(WmSegment(p, s))>>[2] = WmKey(WmSegment(p, s))
        BY <3>1
      <3>3. \A f \in WmFolders(p) : \E s \in WmSections(p, WmSeparators) :
              f[2] = WmKey(WmSegment(p, s))
        BY <3>1
      <3> QED
        BY <3>2, <3>3
    <2> QED
      BY <2>1, <2>2, <2>3
  <1> QED
    BY <1>2, <1>3, <1>4 DEF WmNormal, r

\* n different things; n things that are among n others.
Different(n, f) == \A i, j \in 1 .. n : i # j => f[i] # f[j]
Among(n, f, g) == \A i \in 1 .. n : \E j \in 1 .. n : g[j] = f[i]

\* As many of one kind as of the other: when the first are different, and each is
\* among the second, the second are different, and each is among the first.
LEMMA SameCount ==
  ASSUME NEW n \in Nat, NEW f, NEW g, Different(n, f), Among(n, f, g)
  PROVE  Different(n, g) /\ Among(n, g, f)
  <1> DEFINE N == 1 .. n
             h == [i \in N |-> CHOOSE j \in N : g[j] = f[i]]
  <1>1. \A i \in N : h[i] \in N /\ g[h[i]] = f[i]
    BY DEF Among
  <1>2. h \in [N -> N]
    BY <1>1
  <1>3. h \in Injection(N, N)
    <2>1. \A i, j \in N : h[i] = h[j] => i = j
      BY <1>1 DEF Different
    <2>2. DOMAIN h = N
      OBVIOUS
    <2> HIDE DEF h, N
    <2> QED
      BY <1>2, <2>1, <2>2 DEF Injection, IsInjective
  <1>4. IsFiniteSet(N)
    BY FS_Interval
  <1>5. h \in Surjection(N, N)
    <2> HIDE DEF h, N
    <2> QED
      BY <1>3, <1>4, FS_Injection
  <1>6. \A j \in N : \E i \in N : h[i] = j
    <2> HIDE DEF h, N
    <2> QED
      BY <1>5 DEF Surjection
  <1>7. \A j \in N : \E i \in N : h[i] = j /\ f[i] = g[j]
    BY <1>1, <1>6
  <1> HIDE DEF h
  <1> QED
    BY <1>7 DEF Different, Among

\* The Source Spaces of a Workspace: some, none blank and none twice.
WmSourcesFine(sources) ==
  /\ sources # << >>
  /\ \A i \in 1 .. Len(sources) : WmTrim[sources[i]] # WmBlank
  /\ \A i, j \in 1 .. Len(sources) : i # j => WmTrim[sources[i]] # WmTrim[sources[j]]

LEMMA WmSourceCodeIs ==
  ASSUME NEW sources \in Seq(WmIds)
  PROVE  /\ WmSourceCode(sources) \in (WmCodes \cup {"none"}) \ {"accepted"}
         /\ WmSourceCode(sources) = "none" <=> WmSourcesFine(sources)
  <1> DEFINE id(i) == WmTrim[sources[i]]
             wrong == {i \in 1 .. Len(sources) : id(i) = WmBlank \/ \E j \in 1 .. i - 1 : id(j) = id(i)}
  <1>1. Len(sources) \in Nat
    OBVIOUS
  <1>2. wrong = {} <=>
          /\ \A i \in 1 .. Len(sources) : id(i) # WmBlank
          /\ \A i, j \in 1 .. Len(sources) : i # j => id(i) # id(j)
    <2>1. ASSUME wrong = {}, NEW i \in 1 .. Len(sources), NEW j \in 1 .. Len(sources), i # j
          PROVE  id(i) # id(j)
      <3>1. j \in 1 .. i - 1 \/ i \in 1 .. j - 1
        BY <1>1, <2>1
      <3>2. i \notin wrong /\ j \notin wrong
        BY <2>1
      <3> QED
        BY <3>1, <3>2
    <2>2. ASSUME NEW i \in wrong, \A j, k \in 1 .. Len(sources) : j # k => id(j) # id(k)
          PROVE  id(i) = WmBlank
      <3>1. \A j \in 1 .. i - 1 : j \in 1 .. Len(sources) /\ j # i
        BY <1>1, <2>2
      <3> QED
        BY <2>2, <3>1
    <2> QED
      BY <2>1, <2>2
  <1>3. WmSourceCode(sources) =
          CASE sources = << >> -> "source-space-array-invalid"
            [] sources # << >> /\ wrong = {} -> "none"
            [] OTHER -> IF id(Min(wrong)) = WmBlank THEN "source-space-empty" ELSE "source-space-duplicate"
    BY DEF WmSourceCode
  <1> HIDE DEF wrong
  <1>4. CASE sources = << >>
    <2>1. WmSourceCode(sources) = "source-space-array-invalid"
      BY <1>3, <1>4
    <2> QED
      BY <1>4, <2>1 DEF WmCodes, WmSourcesFine
  <1>5. CASE sources # << >> /\ wrong = {}
    <2>1. WmSourceCode(sources) = "none"
      BY <1>3, <1>5
    <2> QED
      BY <1>2, <1>5, <2>1 DEF WmSourcesFine
  <1>6. CASE sources # << >> /\ wrong # {}
    <2>1. WmSourceCode(sources) \in {"source-space-empty", "source-space-duplicate"}
      BY <1>3, <1>6
    <2> QED
      BY <1>2, <1>6, <2>1 DEF WmCodes, WmSourcesFine
  <1> QED
    BY <1>4, <1>5, <1>6

\* Every Source Space has a mount.
WmAllMounted(sources, mounts) ==
  \A i \in 1 .. Len(sources) : \E j \in 1 .. Len(mounts) :
    WmTrim[mounts[j].source] = WmTrim[sources[i]]

LEMMA WmPathIs ==
  WmPaths \subseteq Seq(WmChars) /\ \A m \in WmMount : m.path \in Seq(WmChars) /\ m.source \in WmIds
  BY WmAssumption DEF WmMount

LEMMA WmProperIs ==
  ASSUME NEW sources \in Seq(WmIds), NEW mounts \in Seq(WmMount)
  PROVE  WmProper(sources, mounts) <=>
           /\ WmSourcesFine(sources)
           /\ WmAllMounted(sources, mounts)
           /\ Len(mounts) = Len(sources)
           /\ \A i \in 1 .. Len(mounts) : WmNormal(mounts[i].path)
           /\ \A i, j \in 1 .. Len(mounts) :
                i # j => ~ WmOverlaps(WmReplaced(mounts[i].path), WmReplaced(mounts[j].path))
  <1> DEFINE S == 1 .. Len(sources)
             M == 1 .. Len(mounts)
             path(i) == mounts[i].path
  <1>1. Len(sources) \in Nat /\ \A i \in M : path(i) \in Seq(WmChars)
    <2>1. \A i \in M : mounts[i] \in WmMount
      OBVIOUS
    <2> QED
      BY <2>1, WmPathIs
  <1>2. S # {} <=> sources # << >>
    <2>1. sources # << >> => Len(sources) >= 1
      OBVIOUS
    <2>2. sources = << >> => Len(sources) = 0
      OBVIOUS
    <2> QED
      BY <1>1, <2>1, <2>2
  <1>3. \A i \in M :
          WmNormal(path(i)) <=>
            /\ \A f \in WmFolders(path(i)) : f[2] \notin WmBadSegments
            /\ "nul" \notin ToSet(path(i))
            /\ ~ (Len(path(i)) > 1 /\ path(i)[1] \in {"a", "b", "A"} /\ path(i)[2] = ":")
    BY <1>1, WmNormalIs
  <1>4. \A i, j \in M :
          WmOverlaps(WmReplaced(path(i)), WmReplaced(path(j))) <=>
            WmFolders(path(i)) \subseteq WmFolders(path(j)) \/ WmFolders(path(j)) \subseteq WmFolders(path(i))
    BY <1>1, WmOverlapIs
  <1>5. (\A i, j \in M : i # j => ~ (WmFolders(path(i)) \subseteq WmFolders(path(j)))) <=>
          \A i, j \in M : i # j => ~ WmOverlaps(WmReplaced(path(i)), WmReplaced(path(j)))
    <2> HIDE DEF M, path
    <2> QED
      BY <1>4
  <1>6. WmProper(sources, mounts) <=>
          /\ S # {}
          /\ \A i \in S : WmTrim[sources[i]] # WmBlank
          /\ \A i, j \in S : i # j => WmTrim[sources[i]] # WmTrim[sources[j]]
          /\ \A i \in S : \E j \in M : WmTrim[mounts[j].source] = WmTrim[sources[i]]
          /\ Len(mounts) = Len(sources)
          /\ \A i \in M :
               /\ \A f \in WmFolders(path(i)) : f[2] \notin WmBadSegments
               /\ "nul" \notin ToSet(path(i))
               /\ ~ (Len(path(i)) > 1 /\ path(i)[1] \in {"a", "b", "A"} /\ path(i)[2] = ":")
          /\ \A i, j \in M : i # j => ~ (WmFolders(path(i)) \subseteq WmFolders(path(j)))
    BY DEF WmProper
  <1>7. (\A i \in M : WmNormal(path(i))) <=>
          \A i \in M :
            /\ \A f \in WmFolders(path(i)) : f[2] \notin WmBadSegments
            /\ "nul" \notin ToSet(path(i))
            /\ ~ (Len(path(i)) > 1 /\ path(i)[1] \in {"a", "b", "A"} /\ path(i)[2] = ":")
    <2> HIDE DEF M, path
    <2> QED
      BY <1>3
  <1> QED
    BY <1>2, <1>5, <1>6, <1>7 DEF WmSourcesFine, WmAllMounted

\* When there are as many mounts as Source Spaces, each Source Space has a mount
\* exactly when each mount is for a Source Space of its own.
LEMMA WmOneEach ==
  ASSUME NEW sources \in Seq(WmIds), NEW mounts \in Seq(WmMount), WmSourcesFine(sources),
         Len(mounts) = Len(sources)
  PROVE  WmAllMounted(sources, mounts) <=>
           /\ \A i, j \in 1 .. Len(mounts) :
                i # j => WmTrim[mounts[i].source] # WmTrim[mounts[j].source]
           /\ \A j \in 1 .. Len(mounts) : \E i \in 1 .. Len(sources) :
                WmTrim[sources[i]] = WmTrim[mounts[j].source]
  <1> DEFINE n == Len(mounts)
             f == [i \in 1 .. n |-> WmTrim[sources[i]]]
             g == [i \in 1 .. n |-> WmTrim[mounts[i].source]]
  <1>1. n \in Nat /\ n = Len(sources)
    OBVIOUS
  <1>2. \A i \in 1 .. n : f[i] = WmTrim[sources[i]] /\ g[i] = WmTrim[mounts[i].source]
    OBVIOUS
  <1> HIDE DEF f, g
  <1>3. Different(n, f)
    BY <1>1, <1>2 DEF WmSourcesFine, Different
  <1>4. WmAllMounted(sources, mounts) <=> Among(n, f, g)
    <2>1. Among(n, f, g) <=>
            \A i \in 1 .. n : \E j \in 1 .. n : WmTrim[mounts[j].source] = WmTrim[sources[i]]
      <3> HIDE DEF n
      <3> QED
        <4>1. \A i, j \in 1 .. n : g[j] = f[i] <=> WmTrim[mounts[j].source] = WmTrim[sources[i]]
          BY <1>2
        <4> QED
          BY <4>1 DEF Among
    <2>2. Len(sources) = n
      BY <1>1
    <2> QED
      BY <2>1, <2>2, Zenon DEF WmAllMounted
  <1>5. Different(n, g) <=>
          \A i, j \in 1 .. n : i # j => WmTrim[mounts[i].source] # WmTrim[mounts[j].source]
    BY <1>2 DEF Different
  <1>6. Among(n, g, f) <=>
          \A j \in 1 .. n : \E i \in 1 .. Len(sources) : WmTrim[sources[i]] = WmTrim[mounts[j].source]
    <2>1. Among(n, g, f) <=>
            \A j \in 1 .. n : \E i \in 1 .. n : WmTrim[sources[i]] = WmTrim[mounts[j].source]
      <3> HIDE DEF n
      <3> QED
        <4>1. \A i, j \in 1 .. n : f[j] = g[i] <=> WmTrim[sources[j]] = WmTrim[mounts[i].source]
          BY <1>2
        <4> QED
          BY <4>1 DEF Among
    <2>2. Len(sources) = n
      BY <1>1
    <2> QED
      BY <2>1, <2>2, Zenon
  <1>7. Among(n, f, g) => Different(n, g) /\ Among(n, g, f)
    BY <1>1, <1>3, SameCount
  <1>8. Different(n, g) /\ Among(n, g, f) => Among(n, f, g)
    BY <1>1, SameCount
  <1> QED
    BY <1>4, <1>5, <1>6, <1>7, <1>8

-----------------------------------------------------------------------------

WmMounted == [source : WmIds \cup {WmBlank}, path : Seq(WmChars)]
WmCalls ==
  [at : {"idle", "mounts", "done"}, sources : Seq(WmIds), mounts : Seq(WmMount),
   mounted : Seq(WmMounted), outcome : WmCodes \cup {"none"}]

\* What a mount was found to be.
WmChecked(call, i) ==
  /\ call.mounted[i] = [source |-> WmTrim[call.mounts[i].source],
                        path |-> WmReplaced(call.mounts[i].path)]
  /\ WmNormal(call.mounts[i].path)
  /\ \E j \in 1 .. Len(call.sources) : WmTrim[call.sources[j]] = WmTrim[call.mounts[i].source]

WmApart(call, i, j) ==
  /\ WmTrim[call.mounts[i].source] # WmTrim[call.mounts[j].source]
  /\ ~ WmOverlaps(WmReplaced(call.mounts[i].path), WmReplaced(call.mounts[j].path))

WmWalked(call) ==
  /\ WmSourcesFine(call.sources)
  /\ \A i \in 1 .. Len(call.mounted) : WmChecked(call, i)
  /\ \A i, j \in 1 .. Len(call.mounted) : i # j => WmApart(call, i, j)

WmSound(call) ==
  /\ call \in WmCalls /\ Len(call.mounted) <= Len(call.mounts)
  /\ call.at = "mounts" => WmWalked(call)
  /\ call.at = "done" => (call.outcome = "accepted" <=> WmProper(call.sources, call.mounts))

WmInv == WmSound(wmCall)

LEMMA WmOverlapsEither ==
  ASSUME NEW p, NEW q
  PROVE  WmOverlaps(p, q) <=> WmOverlaps(q, p)
  BY DEF WmOverlaps

\* An answer that is true.
LEMMA WmAnswerIs ==
  ASSUME NEW call \in WmCalls, NEW code \in WmCodes, Len(call.mounted) <= Len(call.mounts),
         code = "accepted" <=> WmProper(call.sources, call.mounts)
  PROVE  WmSound([call EXCEPT !.at = "done", !.outcome = code])
  <1> DEFINE c == [call EXCEPT !.at = "done", !.outcome = code]
  <1>1. /\ c \in WmCalls /\ c.at = "done" /\ c.outcome = code
        /\ c.sources = call.sources /\ c.mounts = call.mounts /\ c.mounted = call.mounted
    BY DEF WmCalls
  <1> HIDE DEF c
  <1> QED
    BY <1>1 DEF WmSound, c

LEMMA WmValidateIs ==
  ASSUME NEW sources \in Seq(WmIds), NEW mounts \in Seq(WmMount),
         NEW code \in (WmCodes \cup {"none"}) \ {"accepted"},
         code = "none" => WmSourcesFine(sources),
         code # "none" => ~ WmProper(sources, mounts),
         WmValidate(sources, mounts, code)
  PROVE  WmInv'
  <1> DEFINE c == [at |-> IF code = "none" THEN "mounts" ELSE "done",
                   sources |-> sources, mounts |-> mounts, mounted |-> << >>, outcome |-> code]
  <1>1. << >> \in Seq(WmMounted) /\ Len(<< >>) = 0 /\ Len(mounts) \in Nat /\ 1 .. 0 = {}
    OBVIOUS
  <1>2. /\ c \in WmCalls /\ c.sources = sources /\ c.mounts = mounts /\ c.mounted = << >>
        /\ c.at = (IF code = "none" THEN "mounts" ELSE "done") /\ c.outcome = code
    BY <1>1 DEF WmCalls
  <1>3. wmCall' = c
    BY DEF WmValidate
  <1> HIDE DEF c
  <1>4. Len(c.mounted) = 0 /\ Len(c.mounted) <= Len(c.mounts) /\ 1 .. Len(c.mounted) = {}
    BY <1>1, <1>2
  <1>5. CASE code = "none"
    <2>1. WmWalked(c)
      BY <1>2, <1>4, <1>5 DEF WmWalked
    <2> QED
      BY <1>2, <1>3, <1>4, <1>5, <2>1 DEF WmInv, WmSound
  <1>6. CASE code # "none"
    BY <1>2, <1>3, <1>4, <1>6 DEF WmInv, WmSound
  <1> QED
    BY <1>5, <1>6

\* validateWorkspaceMounts
LEMMA WmValidateMountsIs ==
  ASSUME NEW sources \in Seq(WmIds), NEW mounts \in Seq(WmMount), WmValidateMounts(sources, mounts)
  PROVE  WmInv'
  <1>1. WmSourceCode(sources) # "none" => ~ WmProper(sources, mounts)
    BY WmSourceCodeIs, WmProperIs
  <1> QED
    BY <1>1, WmSourceCodeIs, WmValidateIs DEF WmValidateMounts

\* validateWorkspaceMountPaths
LEMMA WmValidatePathsIs ==
  ASSUME NEW sources \in Seq(WmIds), NEW paths \in Seq(WmPaths), WmValidatePaths(sources, paths)
  PROVE  WmInv'
  <1> DEFINE mounts == [i \in 1 .. Len(paths) |-> [source |-> sources[i], path |-> paths[i]]]
  <1>1. CASE Len(paths) = Len(sources)
    <2>1. Len(paths) \in Nat
      OBVIOUS
    <2>2. \A i \in 1 .. Len(paths) : sources[i] \in WmIds /\ paths[i] \in WmPaths
      BY <1>1
    <2>3. mounts \in [1 .. Len(paths) -> WmMount]
      BY <2>2 DEF WmMount
    <2>4. mounts \in Seq(WmMount)
      <3> HIDE DEF mounts
      <3> QED
        BY <2>1, <2>3
    <2>5. WmValidateMounts(sources, mounts)
      BY <1>1 DEF WmValidatePaths
    <2> QED
      BY <2>4, <2>5, WmValidateMountsIs
  <1>2. CASE Len(paths) # Len(sources)
    <2>1. << >> \in Seq(WmMount) /\ "mount-count-mismatch" \in (WmCodes \cup {"none"}) \ {"accepted"}
      BY DEF WmCodes
    <2>2. ~ WmProper(sources, << >>)
      <3>1. sources # << >> => Len(sources) # Len(<< >>)
        OBVIOUS
      <3> QED
        BY <2>1, <3>1, WmProperIs DEF WmSourcesFine
    <2>3. WmValidate(sources, << >>, "mount-count-mismatch")
      BY <1>2 DEF WmValidatePaths
    <2> QED
      BY <2>1, <2>2, <2>3, WmValidateIs
  <1> QED
    BY <1>1, <1>2

\* One turn of the loop: a mount that is refused may not be among the mounts,
\* and one that is taken is as those before it.
LEMMA WmCheckMountStep ==
  ASSUME WmInv, WmCheckMount
  PROVE  WmInv'
  <1> DEFINE call == wmCall
             n == Len(call.mounted) + 1
             source == WmTrim[call.mounts[n].source]
             path == WmReplaced(call.mounts[n].path)
             disclosed == {WmTrim[x] : x \in ToSet(call.sources)}
             taken == \E m \in ToSet(call.mounted) : m.source = source
             near == {i \in 1 .. Len(call.mounted) : WmOverlaps(call.mounted[i].path, path)}
             S == 1 .. Len(call.sources)
             M == 1 .. Len(call.mounts)
  <1>1. /\ call \in WmCalls /\ Len(call.mounted) <= Len(call.mounts)
        /\ call.at = "mounts" /\ n <= Len(call.mounts)
        /\ WmWalked(call)
    BY DEF WmInv, WmSound, WmCheckMount
  <1>2. /\ call.sources \in Seq(WmIds) /\ call.mounts \in Seq(WmMount) /\ call.mounted \in Seq(WmMounted)
    BY <1>1 DEF WmCalls
  <1>3. /\ \/ source = WmBlank /\ WmAnswer("source-space-empty")
           \/ ~ WmNormal(call.mounts[n].path) /\ WmAnswer("mount-invalid")
           \/ source \notin disclosed /\ WmAnswer("mount-source-undisclosed")
           \/ taken /\ WmAnswer("mount-source-duplicate")
           \/ near # {} /\ WmAnswer(IF WmKey(call.mounted[Min(near)].path) = WmKey(path)
                                    THEN "mount-path-duplicate" ELSE "mount-path-overlap")
           \/ /\ WmNormal(call.mounts[n].path) /\ source \in disclosed /\ ~ taken /\ near = {}
              /\ wmCall' = [call EXCEPT !.mounted = Append(@, [source |-> source, path |-> path])]
    BY DEF WmCheckMount
  <1>4. n \in Nat /\ n \in M /\ Len(call.mounted) \in Nat /\ \A i \in 1 .. Len(call.mounted) : i \in M /\ i # n
    BY <1>1, <1>2
  <1>5. call.mounts[n] \in WmMount /\ call.mounts[n].path \in Seq(WmChars) /\ call.mounts[n].source \in WmIds
    BY <1>2, <1>4, WmPathIs
  <1>6. source \in disclosed <=> \E j \in S : WmTrim[call.sources[j]] = source
    <2>1. ToSet(call.sources) = {call.sources[j] : j \in S}
      BY <1>2 DEF ToSet
    <2> HIDE DEF source, S
    <2> QED
      BY <2>1
  <1>7. \A i \in 1 .. Len(call.mounted) :
          /\ call.mounted[i].source = WmTrim[call.mounts[i].source]
          /\ call.mounted[i].path = WmReplaced(call.mounts[i].path)
    <2> SUFFICES ASSUME NEW i \in 1 .. Len(call.mounted)
                 PROVE  /\ call.mounted[i].source = WmTrim[call.mounts[i].source]
                        /\ call.mounted[i].path = WmReplaced(call.mounts[i].path)
      OBVIOUS
    <2>1. call.mounted[i] = [source |-> WmTrim[call.mounts[i].source],
                             path |-> WmReplaced(call.mounts[i].path)]
      BY <1>1 DEF WmWalked, WmChecked
    <2> HIDE DEF call
    <2> QED
      BY <2>1
  <1>8. taken <=> \E i \in 1 .. Len(call.mounted) : WmTrim[call.mounts[i].source] = source
    <2>1. ToSet(call.mounted) = {call.mounted[j] : j \in 1 .. Len(call.mounted)}
      BY <1>2 DEF ToSet
    <2> HIDE DEF source, call
    <2> QED
      BY <1>7, <2>1
  <1>9. near # {} <=> \E i \in 1 .. Len(call.mounted) : WmOverlaps(WmReplaced(call.mounts[i].path), path)
    <2> HIDE DEF path, call
    <2> QED
      BY <1>7
  <1>10. ASSUME WmProper(call.sources, call.mounts)
         PROVE  /\ source # WmBlank /\ WmNormal(call.mounts[n].path) /\ source \in disclosed
                /\ ~ taken /\ near = {}
    <2>1. /\ WmSourcesFine(call.sources) /\ WmAllMounted(call.sources, call.mounts)
          /\ Len(call.mounts) = Len(call.sources)
          /\ \A i \in M : WmNormal(call.mounts[i].path)
          /\ \A i, j \in M : i # j => ~ WmOverlaps(WmReplaced(call.mounts[i].path), WmReplaced(call.mounts[j].path))
      BY <1>2, <1>10, WmProperIs
    <2>2. /\ \A i, j \in M : i # j => WmTrim[call.mounts[i].source] # WmTrim[call.mounts[j].source]
          /\ \A j \in M : \E i \in S : WmTrim[call.sources[i]] = WmTrim[call.mounts[j].source]
      BY <1>2, <2>1, WmOneEach
    <2>3. WmNormal(call.mounts[n].path)
      BY <1>4, <2>1
    <2>4. source \in disclosed
      BY <1>4, <1>6, <2>2
    <2>5. source # WmBlank
      <3>1. PICK i \in S : WmTrim[call.sources[i]] = source
        BY <1>4, <2>2
      <3> QED
        BY <2>1, <3>1 DEF WmSourcesFine
    <2>6. ~ taken
      BY <1>4, <1>8, <2>2
    <2>7. near = {}
      BY <1>4, <1>9, <2>1
    <2> QED
      BY <2>3, <2>4, <2>5, <2>6, <2>7
  <1> HIDE DEF taken, near, disclosed
  <1>11. ASSUME NEW code \in WmCodes, code # "accepted", WmAnswer(code),
                ~ WmProper(call.sources, call.mounts)
         PROVE  WmInv'
    <2>1. WmSound([call EXCEPT !.at = "done", !.outcome = code])
      BY <1>1, <1>11, WmAnswerIs
    <2> QED
      BY <1>11, <2>1 DEF WmAnswer, WmInv
  <1>12. {"source-space-empty", "mount-invalid", "mount-source-undisclosed", "mount-source-duplicate",
          "mount-path-duplicate", "mount-path-overlap"} \subseteq WmCodes \ {"accepted"}
    BY DEF WmCodes
  <1>13. CASE source = WmBlank /\ WmAnswer("source-space-empty")
    BY <1>10, <1>11, <1>12, <1>13
  <1>14. CASE ~ WmNormal(call.mounts[n].path) /\ WmAnswer("mount-invalid")
    BY <1>10, <1>11, <1>12, <1>14
  <1>15. CASE source \notin disclosed /\ WmAnswer("mount-source-undisclosed")
    BY <1>10, <1>11, <1>12, <1>15
  <1>16. CASE taken /\ WmAnswer("mount-source-duplicate")
    BY <1>10, <1>11, <1>12, <1>16
  <1>17. CASE near # {} /\ WmAnswer(IF WmKey(call.mounted[Min(near)].path) = WmKey(path)
                                    THEN "mount-path-duplicate" ELSE "mount-path-overlap")
    <2> DEFINE code == IF WmKey(call.mounted[Min(near)].path) = WmKey(path)
                       THEN "mount-path-duplicate" ELSE "mount-path-overlap"
    <2>1. code \in {"mount-path-duplicate", "mount-path-overlap"}
      OBVIOUS
    <2>2. WmAnswer(code)
      BY <1>17
    <2> HIDE DEF code
    <2> QED
      BY <1>10, <1>11, <1>12, <1>17, <2>1, <2>2
  <1>18. CASE /\ WmNormal(call.mounts[n].path) /\ source \in disclosed /\ ~ taken /\ near = {}
              /\ wmCall' = [call EXCEPT !.mounted = Append(@, [source |-> source, path |-> path])]
    <2> DEFINE m == [source |-> source, path |-> path]
               c == [call EXCEPT !.mounted = Append(@, m)]
    <2>1. m \in WmMounted
      <3>1. source \in WmIds \cup {WmBlank}
        BY <1>5, WmAssumption
      <3>2. path \in Seq(WmChars)
        BY <1>5, WmReplacedIs
      <3> QED
        BY <3>1, <3>2 DEF WmMounted
    <2> HIDE DEF m
    <2>2. /\ Append(call.mounted, m) \in Seq(WmMounted) /\ Len(Append(call.mounted, m)) = n
          /\ \A i \in 1 .. Len(call.mounted) : Append(call.mounted, m)[i] = call.mounted[i]
          /\ Append(call.mounted, m)[n] = m
      BY <1>2, <2>1, AppendProperties
    <2>3. /\ c \in WmCalls /\ c.at = "mounts" /\ c.sources = call.sources /\ c.mounts = call.mounts
          /\ c.mounted = Append(call.mounted, m) /\ c.outcome = call.outcome
      BY <1>1, <2>2 DEF WmCalls
    <2> HIDE DEF c
    <2>4. \A i \in 1 .. n : i \in 1 .. Len(call.mounted) \/ i = n
      BY <1>4
    <2>5. ASSUME NEW i \in 1 .. n PROVE WmChecked(c, i)
      <3>1. CASE i \in 1 .. Len(call.mounted)
        BY <1>1, <2>2, <2>3, <3>1 DEF WmWalked, WmChecked
      <3>2. CASE i = n
        BY <1>6, <1>18, <2>2, <2>3, <3>2 DEF WmChecked, m
      <3> QED
        BY <2>4, <3>1, <3>2
    <2>6. ASSUME NEW i \in 1 .. Len(call.mounted)
          PROVE  WmApart(c, i, n) /\ WmApart(c, n, i)
      <3>1. /\ WmTrim[call.mounts[i].source] # source
            /\ ~ WmOverlaps(WmReplaced(call.mounts[i].path), path)
        BY <1>8, <1>9, <1>18, <2>6
      <3>2. ~ WmOverlaps(path, WmReplaced(call.mounts[i].path))
        BY <3>1, WmOverlapsEither
      <3> QED
        BY <2>3, <3>1, <3>2 DEF WmApart
    <2>7. ASSUME NEW i \in 1 .. n, NEW j \in 1 .. n, i # j PROVE WmApart(c, i, j)
      <3>1. CASE i = n
        BY <2>4, <2>6, <2>7, <3>1
      <3>2. CASE j = n
        BY <2>4, <2>6, <2>7, <3>2
      <3>3. CASE i \in 1 .. Len(call.mounted) /\ j \in 1 .. Len(call.mounted)
        <4>1. WmApart(call, i, j)
          BY <1>1, <2>7, <3>3 DEF WmWalked
        <4> QED
          BY <2>3, <4>1 DEF WmApart
      <3> QED
        BY <2>4, <3>1, <3>2, <3>3
    <2>8. WmWalked(c)
      <3>1. WmSourcesFine(c.sources)
        BY <1>1, <2>3 DEF WmWalked
      <3>2. Len(c.mounted) = n
        BY <2>2, <2>3
      <3> HIDE DEF n
      <3> QED
        BY <2>5, <2>7, <3>1, <3>2 DEF WmWalked
    <2>9. Len(c.mounted) <= Len(c.mounts)
      BY <1>1, <2>2, <2>3
    <2>10. WmSound(c)
      BY <2>3, <2>8, <2>9 DEF WmSound
    <2> QED
      BY <1>18, <2>10 DEF WmInv, c, m
  <1> QED
    BY <1>3, <1>13, <1>14, <1>15, <1>16, <1>17, <1>18

\* After the loop: what is left to tell is whether the numbers agree.
LEMMA WmCheckCountStep ==
  ASSUME WmInv, WmCheckCount
  PROVE  WmInv'
  <1> DEFINE call == wmCall
             S == 1 .. Len(call.sources)
             M == 1 .. Len(call.mounts)
             code == IF Len(call.mounts) = Len(call.sources) THEN "accepted" ELSE "mount-count-mismatch"
  <1>1. /\ call \in WmCalls /\ Len(call.mounted) = Len(call.mounts)
        /\ WmWalked(call) /\ WmAnswer(code)
    BY DEF WmInv, WmSound, WmCheckCount
  <1>2. /\ call.sources \in Seq(WmIds) /\ call.mounts \in Seq(WmMount)
    BY <1>1 DEF WmCalls
  <1>3. /\ WmSourcesFine(call.sources)
        /\ \A i \in M : WmNormal(call.mounts[i].path)
        /\ \A i, j \in M : i # j => WmApart(call, i, j)
        /\ \A j \in M : \E i \in S : WmTrim[call.sources[i]] = WmTrim[call.mounts[j].source]
    BY <1>1 DEF WmWalked, WmChecked
  <1>4. /\ \A i, j \in M : i # j => WmTrim[call.mounts[i].source] # WmTrim[call.mounts[j].source]
        /\ \A i, j \in M : i # j => ~ WmOverlaps(WmReplaced(call.mounts[i].path), WmReplaced(call.mounts[j].path))
    BY <1>3 DEF WmApart
  <1>5. Len(call.mounts) = Len(call.sources) => WmAllMounted(call.sources, call.mounts)
    BY <1>2, <1>3, <1>4, WmOneEach
  <1>6. WmProper(call.sources, call.mounts) <=> Len(call.mounts) = Len(call.sources)
    BY <1>2, <1>3, <1>4, <1>5, WmProperIs
  <1>7. code \in WmCodes /\ (code = "accepted" <=> Len(call.mounts) = Len(call.sources))
    BY DEF WmCodes
  <1> HIDE DEF code
  <1>8. Len(call.mounted) <= Len(call.mounts)
    <2>1. Len(call.mounts) \in Nat
      BY <1>2
    <2> QED
      BY <1>1, <2>1
  <1>9. WmSound([call EXCEPT !.at = "done", !.outcome = code])
    BY <1>1, <1>6, <1>7, <1>8, WmAnswerIs
  <1> QED
    BY <1>1, <1>9 DEF WmAnswer, WmInv

\* The walk keeps its invariant.
LEMMA WmInvariant == WmSpec => []WmInv
  <1>1. WmInit => WmInv
    <2> SUFFICES ASSUME WmInit PROVE WmInv
      OBVIOUS
    <2>1. /\ << >> \in Seq(WmIds) /\ << >> \in Seq(WmMount) /\ << >> \in Seq(WmMounted)
          /\ Len(<< >>) <= Len(<< >>)
      OBVIOUS
    <2>2. wmCall \in WmCalls /\ wmCall.at = "idle" /\ wmCall.mounted = << >> /\ wmCall.mounts = << >>
      BY <2>1 DEF WmInit, WmCalls
    <2> QED
      BY <2>1, <2>2 DEF WmInv, WmSound
  <1>2. WmInv /\ [WmNext]_wmCall => WmInv'
    <2> SUFFICES ASSUME WmInv, [WmNext]_wmCall PROVE WmInv'
      OBVIOUS
    <2>1. ASSUME NEW n \in 0 .. WmMax, NEW m \in 0 .. WmMax, NEW sources \in [1 .. n -> WmIds]
          PROVE  /\ sources \in Seq(WmIds)
                 /\ \A mounts \in [1 .. m -> WmMount] : mounts \in Seq(WmMount)
                 /\ \A paths \in [1 .. m -> WmPaths] : paths \in Seq(WmPaths)
      <3>1. n \in Nat /\ m \in Nat
        BY WmAssumption
      <3> QED
        BY <3>1
    <2>2. ASSUME NEW n \in 0 .. WmMax, NEW m \in 0 .. WmMax, NEW sources \in [1 .. n -> WmIds],
                 NEW mounts \in [1 .. m -> WmMount], WmValidateMounts(sources, mounts)
          PROVE  WmInv'
      BY <2>1, <2>2, WmValidateMountsIs
    <2>3. ASSUME NEW n \in 0 .. WmMax, NEW m \in 0 .. WmMax, NEW sources \in [1 .. n -> WmIds],
                 NEW paths \in [1 .. m -> WmPaths], WmValidatePaths(sources, paths)
          PROVE  WmInv'
      BY <2>1, <2>3, WmValidatePathsIs
    <2>4. CASE WmCheckMount
      BY <2>4, WmCheckMountStep
    <2>5. CASE WmCheckCount
      BY <2>5, WmCheckCountStep
    <2>6. CASE UNCHANGED wmCall
      BY <2>6 DEF WmInv
    <2> QED
      BY <2>2, <2>3, <2>4, <2>5, <2>6 DEF WmNext
  <1> QED
    BY <1>1, <1>2, PTL DEF WmSpec

\* The call keeps its type.
THEOREM WmTypeCorrect == WmSpec => []WmTypeOK
  <1>1. WmInv => WmTypeOK
    BY DEF WmInv, WmSound, WmCalls, WmTypeOK
  <1> QED
    BY <1>1, WmInvariant, PTL

\* Mounts are accepted exactly when they may be, whatever the paths, and in
\* whatever order they are walked through (validateWorkspaceMounts).
THEOREM WmAcceptsProperCorrect == WmSpec => []WmAcceptsProper
  <1>1. WmInv => WmAcceptsProper
    BY DEF WmInv, WmSound, WmAcceptsProper
  <1> QED
    BY <1>1, WmInvariant, PTL

-----------------------------------------------------------------------------
(* The services side by side *)

\* A step of the composition is a step of each service, or leaves it alone.
LEMMA EdgeSteps ==
  ASSUME [MCNext]_mcVars
  PROVE  /\ [MsNext]_msVars /\ [MiNext]_miVars /\ [PoNext]_poVars /\ [BrNext]_brVars
         /\ [InNext]_inVars /\ [LaNext]_laVars /\ [GtNext]_gtVars /\ [PtNext]_ptVars
         /\ [WmNext]_wmCall
  BY DEF MCNext, OthersKeep, mcVars

LEMMA EdgeParts ==
  MCSpec => /\ MsSpec /\ MiSpec /\ PoSpec /\ BrSpec /\ InSpec /\ LaSpec /\ GtSpec /\ PtSpec
            /\ WmSpec
  <1>1. MCInit => /\ MsInit /\ MiInit /\ PoInit /\ BrInit /\ InInit /\ LaInit /\ GtInit /\ PtInit
                  /\ WmInit
    BY DEF MCInit
  <1> QED
    BY <1>1, EdgeSteps, PTL
       DEF MCSpec, MsSpec, MiSpec, PoSpec, BrSpec, InSpec, LaSpec, GtSpec, PtSpec, WmSpec

\* Side by side each service keeps what it promises on its own: the slots of
\* the transport cover the transfers that run, an import that is activated is
\* what was exported, a synchronization overwrites nothing that only the remote
\* had, the import boundary does not go back, a success stays on record and an
\* installation keeps its history (HostedGitBudgetObject, importProject,
\* synchronize, recordImport, execute, CustomerRealmInstallation).
THEOREM EdgeServicesKeepTheirPromises ==
  ASSUME PtOwnDests
  PROVE  MCSpec => /\ []GtSlotsAreHeld /\ []PtActivatedIsExported
                   /\ MsNothingOverwritten /\ MiBoundaryOnlyAdvances
                   /\ PoSucceededStays /\ InHistoryKept
  BY EdgeParts, GtSlotsAreHeldCorrect, PtActivatedIsExportedCorrect,
     MsNothingOverwrittenCorrect, MiBoundaryOnlyAdvancesCorrect, PoSucceededStaysCorrect,
     InHistoryKeptCorrect

\* So does the local agent, for two brokers of which none is slow: a Session
\* that was revoked is never active again (atomicLocalState, revokeSession).
THEOREM EdgeRevocationHolds ==
  ASSUME LaTwoBrokers, ~ LaSlowCreator
  PROVE  MCSpec => LaRevocationHolds
  BY EdgeParts, LaRevocationOfTwoHolds, PTL

\* Every record keeps its type, nothing the Actions bridge takes from GitHub
\* counts twice, and the mounts of a Workspace are accepted exactly when they
\* may be (exchangeOidcToken, submitCheckpoint, validateWorkspaceMounts).
THEOREM EdgeServicesAreConsistent ==
  ASSUME PtOwnDests
  PROVE  MCSpec => []EdgeServicesConsistent
  <1>1. MCSpec => /\ []MsTypeOK /\ []MiTypeOK /\ []PoTypeOK /\ []BrTypeOK /\ []InTypeOK
                  /\ []LaTypeOK /\ []GtTypeOK /\ []PtTypeOK /\ []WmTypeOK
                  /\ []BrNothingTwice /\ []WmAcceptsProper
    BY EdgeParts, MsTypeCorrect, MiTypeCorrect, PoTypeCorrect, BrTypeCorrect, InTypeCorrect,
       LaTypeCorrect, GtTypeCorrect, PtTypeCorrect, WmTypeCorrect, BrNothingTwiceCorrect,
       WmAcceptsProperCorrect
  <1>2. /\ MsTypeOK /\ MiTypeOK /\ PoTypeOK /\ BrTypeOK /\ InTypeOK /\ LaTypeOK /\ GtTypeOK
        /\ PtTypeOK /\ WmTypeOK /\ BrNothingTwice /\ WmAcceptsProper
        => EdgeServicesConsistent
    BY DEF EdgeServicesConsistent
  <1> QED
    BY <1>1, <1>2, PTL
=============================================================================
