---------------------------- MODULE PublicGateway ----------------------------
(* The request ledger of a public Project (PublicGatewayCoordinator in       *)
(* cloudflare/public-gateway.ts, its Durable Object in                       *)
(* apps/public-gateway-worker, the R2 archive in                             *)
(* cloudflare/public-gateway-replay-archive.ts).  A contribution is accepted *)
(* into quarantine at most once per request id.  Old denials leave the       *)
(* ledger: compaction turns them into tombstones, tombstones over the limit  *)
(* move to the archive, and archived ones are deleted after a replay window. *)
(* The Durable Object runs one operation at a time; the archive is another   *)
(* store, so an operation that fails half way leaves the archive changed and *)
(* the ledger as it was.                                                     *)
EXTENDS Integers, FiniteSets

CONSTANTS
  GwRequests,    \* request ids
  GwPayloads,    \* payload digests
  GwMode,        \* "rate-limited" or "approval-only"
  GwLimit,       \* contributions the intake policy allows
  GwTombLimit,   \* tombstones the ledger may hold
  GwRetention,   \* age at which a denial leaves the records: one that may be
                 \* retried (TRUE), a terminal one (FALSE)
  GwWindow,      \* replay defence of a denial, from its tombstone on
  GwMaxTime,     \* bounds
  GwMaxSubmissions,
  GwNone

ASSUME GwAssumption ==
  /\ {GwLimit, GwTombLimit, GwWindow, GwMaxTime, GwMaxSubmissions} \subseteq Nat
  /\ GwRetention \in [BOOLEAN -> Nat]
  /\ GwMode \in {"rate-limited", "approval-only"}

VARIABLES
  gwStatus,     \* closed, open, suspended
  gwCount,      \* requests counted against the limit
  gwRecords,    \* request records
  gwTombs,      \* tombstones in the ledger
  gwArchive,    \* request -> the archived tombstone or GwNone
  gwExported,   \* the ledger is as its latest export has it
  gwNow,
  gwAccepted,   \* request -> times it was accepted
  gwPromise     \* request -> end of the replay window of its terminal denial

gwVars == <<gwStatus, gwCount, gwRecords, gwTombs, gwArchive, gwExported, gwNow, gwAccepted, gwPromise>>

\* no is the place in the order of submissions, in which the code's arrays are
\* kept; at is when a record was made and when a tombstone was.
GwRecord == [request : GwRequests, payload : GwPayloads, retryable : BOOLEAN,
             status : {"accepted", "denied", "approval_required"},
             at : 0 .. GwMaxTime, no : 1 .. GwMaxSubmissions]
GwTomb == [request : GwRequests, payload : GwPayloads, retryable : BOOLEAN,
           at : 0 .. GwMaxTime, no : 1 .. GwMaxSubmissions]

ASSUME GwNoneAssumption == GwNone \notin GwRecord \cup GwTomb

GwTypeOK ==
  /\ gwStatus \in {"closed", "open", "suspended"}
  /\ gwCount \in 0 .. GwMaxSubmissions
  /\ gwRecords \subseteq GwRecord /\ gwTombs \subseteq GwTomb
  /\ gwArchive \in [GwRequests -> GwTomb \cup {GwNone}]
  /\ gwExported \in BOOLEAN /\ gwNow \in 0 .. GwMaxTime
  /\ gwAccepted \in [GwRequests -> Nat]
  /\ gwPromise \in [GwRequests -> 0 .. GwMaxTime + GwWindow]

GwInit ==
  /\ gwStatus = "closed" /\ gwCount = 0 /\ gwRecords = {} /\ gwTombs = {}
  /\ gwArchive = [r \in GwRequests |-> GwNone]
  /\ gwExported = FALSE /\ gwNow = 0
  /\ gwAccepted = [r \in GwRequests |-> 0] /\ gwPromise = [r \in GwRequests |-> 0]

-----------------------------------------------------------------------------
(* Moderation; every one is audited, so that an export is no longer current *)

GwOpen ==
  /\ gwStatus = "closed"
  /\ gwStatus' = "open" /\ gwExported' = FALSE
  /\ UNCHANGED <<gwCount, gwRecords, gwTombs, gwArchive, gwNow, gwAccepted, gwPromise>>

GwSuspend ==
  /\ gwStatus # "suspended"
  /\ gwStatus' = "suspended" /\ gwExported' = FALSE
  /\ UNCHANGED <<gwCount, gwRecords, gwTombs, gwArchive, gwNow, gwAccepted, gwPromise>>

GwReopen ==
  /\ gwStatus = "suspended"
  /\ gwStatus' = "open" /\ gwExported' = FALSE
  /\ UNCHANGED <<gwCount, gwRecords, gwTombs, gwArchive, gwNow, gwAccepted, gwPromise>>

GwCleanup ==
  /\ gwStatus # "closed"
  /\ gwStatus' = "closed" /\ gwExported' = FALSE
  /\ UNCHANGED <<gwCount, gwRecords, gwTombs, gwArchive, gwNow, gwAccepted, gwPromise>>

GwTick ==
  /\ gwNow < GwMaxTime
  /\ gwNow' = gwNow + 1
  /\ UNCHANGED <<gwStatus, gwCount, gwRecords, gwTombs, gwArchive, gwExported, gwAccepted, gwPromise>>

-----------------------------------------------------------------------------
(* Submission *)

GwBefore(e, f) == e.at < f.at \/ (e.at = f.at /\ e.no < f.no)

GwOf(entries, r) == {e \in entries : e.request = r}

\* findRecord and findTombstone: the newest of the request.
GwNewest(entries, r) ==
  IF GwOf(entries, r) = {} THEN GwNone
  ELSE CHOOSE e \in GwOf(entries, r) : \A f \in GwOf(entries, r) : ~ GwBefore(e, f)

GwFindRecord(r) == GwNewest(gwRecords, r)

GwFindLocalTomb(r) == GwNewest(gwTombs, r)   \* mutant: the archive is not asked

\* The ledger's tombstone, else the archive's.
GwFindTomb(r) ==
  IF GwNewest(gwTombs, r) # GwNone THEN GwNewest(gwTombs, r) ELSE gwArchive[r]

\* The decision on a request that the provider let pass.
GwDecide(requested) ==
  CASE gwStatus # "open" -> "denied"
    [] gwStatus = "open" /\ GwMode = "approval-only" -> "approval_required"
    [] OTHER -> IF requested > GwLimit THEN "denied" ELSE "accepted"

\* The request id was used for another payload: denied and counted, not recorded.
GwMismatch(r, payload) ==
  /\ gwCount < GwMaxSubmissions
  /\ LET known == IF GwFindRecord(r) # GwNone THEN GwFindRecord(r) ELSE GwFindTomb(r) IN
     known # GwNone /\ known.payload # payload
  /\ gwCount' = gwCount + 1 /\ gwExported' = FALSE
  /\ UNCHANGED <<gwStatus, gwRecords, gwTombs, gwArchive, gwNow, gwAccepted, gwPromise>>

\* A request that was decided is answered as before and changes nothing.
GwSettled(r, payload) ==
  \/ GwFindRecord(r) # GwNone /\ GwFindRecord(r).payload = payload /\ ~ GwFindRecord(r).retryable
  \/ GwFindRecord(r) = GwNone /\ GwFindTomb(r) # GwNone /\ GwFindTomb(r).payload = payload

\* provider: ready, timeout, or abuse that may or may not be retried.
GwSubmit(r, payload, provider) ==
  LET known == IF GwFindRecord(r) # GwNone THEN GwFindRecord(r) ELSE GwFindTomb(r)
      status == IF provider = "ready" THEN GwDecide(gwCount + 1) ELSE "denied"
  IN /\ gwCount < GwMaxSubmissions
     /\ known # GwNone => known.payload = payload
     /\ ~ GwSettled(r, payload)
     /\ gwCount' = gwCount + 1 /\ gwExported' = FALSE
     /\ gwRecords' = gwRecords \cup
          {[request |-> r, payload |-> payload, status |-> status, at |-> gwNow, no |-> gwCount + 1,
            retryable |-> provider \in {"timeout", "abuse-retryable"}]}
     /\ gwAccepted' = [gwAccepted EXCEPT ![r] = IF status = "accepted" THEN @ + 1 ELSE @]
     /\ UNCHANGED <<gwStatus, gwTombs, gwArchive, gwNow, gwPromise>>

-----------------------------------------------------------------------------
(* Export, compaction and deletion *)

GwExport ==
  /\ ~ gwExported
  /\ gwExported' = TRUE
  /\ UNCHANGED <<gwStatus, gwCount, gwRecords, gwTombs, gwArchive, gwNow, gwAccepted, gwPromise>>

GwCompactable == {e \in gwRecords : e.status = "denied" /\ gwNow - e.at >= GwRetention[e.retryable]}

GwTombOf(record) == [request |-> record.request, payload |-> record.payload,
                     retryable |-> record.retryable, at |-> gwNow, no |-> record.no]

\* replayDefenseUntil: the clock starts when the tombstone is made.
GwUntil(tomb) == tomb.at + GwWindow

\* The tombstones of the ledger and of the records that leave it.
GwCompacted == gwTombs \cup {GwTombOf(e) : e \in GwCompactable}

\* The first n of them.
GwFirst(n) == {t \in GwCompacted : Cardinality({u \in GwCompacted : GwBefore(u, t)}) < n}

\* archive.put of each, in their order: an object that is there stays as it is.
GwArchived(tombs) ==
  [r \in GwRequests |->
     IF gwArchive[r] # GwNone \/ GwOf(tombs, r) = {} THEN gwArchive[r]
     ELSE CHOOSE t \in GwOf(tombs, r) : \A u \in GwOf(tombs, r) : ~ GwBefore(u, t)]

\* The window of a terminal denial starts when its tombstone is first
\* materialized, in the ledger or in the archive.
GwPromises(tombs) ==
  [r \in GwRequests |->
     LET final == {t \in GwOf(tombs, r) : ~ t.retryable} IN
     IF final # {} /\ gwNow >= gwPromise[r] /\ gwArchive[r] = GwNone
       THEN GwUntil(CHOOSE t \in final : TRUE) ELSE gwPromise[r]]

\* compactLedger, with as many tombstones in the ledger as it may hold.
GwCompact ==
  /\ gwExported
  /\ LET overflow == Cardinality(GwCompacted) > GwTombLimit IN
     /\ gwTombs' = IF overflow THEN {} ELSE GwCompacted
     /\ gwArchive' = IF overflow THEN GwArchived(GwCompacted) ELSE gwArchive
  /\ gwRecords' = gwRecords \ GwCompactable
  /\ gwPromise' = GwPromises(GwCompacted)
  /\ gwExported' = FALSE
  /\ UNCHANGED <<gwStatus, gwCount, gwNow, gwAccepted>>

\* The archive fails after n of the tombstones; the ledger is not saved.
GwCompactFails(n) ==
  /\ gwExported
  /\ Cardinality(GwCompacted) > GwTombLimit
  /\ GwArchived(GwFirst(n)) # gwArchive
  /\ gwArchive' = GwArchived(GwFirst(n))
  /\ gwPromise' = GwPromises(GwFirst(n))
  /\ UNCHANGED <<gwStatus, gwCount, gwRecords, gwTombs, gwExported, gwNow, gwAccepted>>

GwDeletable == {r \in GwRequests : /\ gwArchive[r] # GwNone
                                   /\ ~ gwArchive[r].retryable
                                   /\ gwNow >= GwUntil(gwArchive[r])}

\* deleteExpiredReplayArchive: those of a set, all of them when it does not fail.
GwDelete(deleted) ==
  /\ deleted # {} /\ deleted \subseteq GwDeletable
  /\ gwArchive' = [r \in GwRequests |-> IF r \in deleted THEN GwNone ELSE gwArchive[r]]
  /\ gwExported' = (gwExported /\ deleted # GwDeletable)
  /\ UNCHANGED <<gwStatus, gwCount, gwRecords, gwTombs, gwNow, gwAccepted, gwPromise>>

GwNext ==
  \/ GwOpen \/ GwSuspend \/ GwReopen \/ GwCleanup \/ GwTick \/ GwExport \/ GwCompact
  \/ \E r \in GwRequests, payload \in GwPayloads :
       \/ GwMismatch(r, payload)
       \/ \E provider \in {"ready", "timeout", "abuse-retryable", "abuse-final"} :
            GwSubmit(r, payload, provider)
  \/ \E n \in 1 .. GwMaxSubmissions : GwCompactFails(n)
  \/ \E deleted \in SUBSET GwRequests : GwDelete(deleted)

GwSpec == GwInit /\ [][GwNext]_gwVars

-----------------------------------------------------------------------------

\* A contribution enters the quarantine once per request id, whatever was
\* compacted, archived, half archived or deleted in between; and a denial that
\* cannot be retried is repeated until its replay window is over (submit,
\* compactLedger, deleteExpiredReplayArchive).
GwDecisionsStand ==
  \A r \in GwRequests :
    /\ gwAccepted[r] <= 1
    /\ gwNow < gwPromise[r] => \E payload \in GwPayloads : GwSettled(r, payload)
=============================================================================
