---------------------------- MODULE ActionsBridge ----------------------------
(* The GitHub Actions bridge of a Realm: one connection that OIDC tokens      *)
(* activate, the capabilities exchanged for them (GitHubActionsBridge-        *)
(* Authority), and the operations a capability admits: the initial import,    *)
(* a proposal, an outbound push (the two coordinators with their replay       *)
(* ledgers).  Handlers of the Realm object interleave at every await of a     *)
(* digest or of a service; the object may stop between any two steps, and     *)
(* hydrates from its snapshots.  The bindings of claims, packages and bundles *)
(* are each one choice: they match or they do not.                            *)
EXTENDS Integers, FiniteSets

CONSTANTS
  BrTokens,      \* verified OIDC tokens, by jti
  BrShaOf,       \* token -> the workflow sha it claims
  BrExchanges,   \* exchange requests
  BrJobs,        \* requests that run an operation
  BrOperations,  \* operation ids
  BrMaxRestarts, \* bound
  BrNone

ASSUME BrAssumption == BrMaxRestarts \in Nat

VARIABLES
  brConnection,  \* the connection in memory
  brClaims,      \* jti digests claimed, in memory
  brCapabilities,
  brExchange,    \* request -> where it is and the connection it read
  brJob,         \* request -> where it is, its operation and its ledger
  brInFlight,    \* operations claimed in memory, by ledger
  brCompleted,   \* operations completed in memory
  brSaved,       \* the three snapshots in storage
  brExpired,     \* tokens past their expiry
  brAcked,       \* operations whose caller was told they succeeded
  brRestarts

brMemory == <<brConnection, brClaims, brCapabilities, brInFlight, brCompleted>>
brVars == <<brConnection, brClaims, brCapabilities, brExchange, brJob, brInFlight,
            brCompleted, brSaved, brExpired, brAcked, brRestarts>>

BrShas == {BrShaOf[t] : t \in BrTokens}
BrConnection == [status : {"none", "pending", "active", "revoked", "blocked", "expired"},
                 sha : BrShas \cup {BrNone}]
BrNoConnection == [status |-> "none", sha |-> BrNone]
BrKinds == {"import", "proposal", "outbound"}
\* What a token claims of the repository, the workflow and the event.
BrClaimed == [token : BrTokens, wellFormed : BOOLEAN, bound : BOOLEAN]
\* A source package, with what the history service found of it.
BrRelations == {"empty", "same", "github-ahead", "canonical-ahead", "diverged"}
BrPackage == [wellFormed : BOOLEAN, intact : BOOLEAN, relation : BrRelations]
\* An outbound bundle, with the workflow run it was made for.
BrBundle == [wellFormed : BOOLEAN, mapped : BOOLEAN, signed : BOOLEAN,
             run : {"received", "no-run", "stale", "disabled", "revoked"}]
\* Imports and proposals share one ledger.
BrLedger(kind) == IF kind = "outbound" THEN "outbound" ELSE "import"
BrCapability == [id : BrExchanges, token : BrTokens, kind : BrKinds]
BrEntries == {"import", "outbound"} \X BrOperations
BrExchangeRecord == [pc : {"idle", "digest", "persist", "done"}, read : BrConnection,
                     token : BrTokens \cup {BrNone}, kind : BrKinds]
BrIdleExchange == [pc |-> "idle", read |-> BrNoConnection, token |-> BrNone, kind |-> "import"]
BrJobRecord == [pc : {"idle", "prepared", "imported", "persist"}, kind : BrKinds,
                op : BrOperations \cup {BrNone}, done : BOOLEAN]
BrIdleJob == [pc |-> "idle", kind |-> "import", op |-> BrNone, done |-> FALSE]
BrSnapshot == [connection : BrConnection, claims : SUBSET BrTokens,
               capabilities : SUBSET BrCapability, completed : SUBSET BrEntries]

BrTypeOK ==
  /\ brConnection \in BrConnection /\ brClaims \subseteq BrTokens
  /\ brCapabilities \subseteq BrCapability
  /\ brExchange \in [BrExchanges -> BrExchangeRecord] /\ brJob \in [BrJobs -> BrJobRecord]
  /\ brInFlight \subseteq BrEntries /\ brCompleted \subseteq BrEntries
  /\ brSaved \in BrSnapshot /\ brExpired \subseteq BrTokens /\ brAcked \subseteq BrEntries
  /\ brRestarts \in 0 .. BrMaxRestarts

BrInit ==
  /\ brConnection = BrNoConnection /\ brClaims = {} /\ brCapabilities = {}
  /\ brExchange = [e \in BrExchanges |-> BrIdleExchange] /\ brJob = [j \in BrJobs |-> BrIdleJob]
  /\ brInFlight = {} /\ brCompleted = {} /\ brExpired = {} /\ brAcked = {} /\ brRestarts = 0
  /\ brSaved = [connection |-> BrNoConnection, claims |-> {}, capabilities |-> {}, completed |-> {}]

-----------------------------------------------------------------------------
(* Snapshots *)

BrPersistDropsClaims(connection, claims, capabilities) ==   \* mutant: the replay entries are not part of the snapshot
  brSaved' = [brSaved EXCEPT !.connection = connection, !.capabilities = capabilities, !.claims = {}]

\* snapshot and put: expired replay entries are left out.
BrPersist(connection, claims, capabilities) ==
  brSaved' = [brSaved EXCEPT !.connection = connection, !.capabilities = capabilities,
                             !.claims = claims \ brExpired]

BrPersistLedger(completed) == brSaved' = [brSaved EXCEPT !.completed = completed]

\* The object stops: requests under way are lost, memory is read from storage.
BrRestart ==
  /\ brRestarts < BrMaxRestarts /\ brRestarts' = brRestarts + 1
  /\ brConnection' = brSaved.connection /\ brClaims' = brSaved.claims
  /\ brCapabilities' = brSaved.capabilities /\ brCompleted' = brSaved.completed
  /\ brInFlight' = {}
  /\ brExchange' = [e \in BrExchanges |-> IF brExchange[e].pc = "idle" THEN BrIdleExchange
                                          ELSE [BrIdleExchange EXCEPT !.pc = "done"]]
  /\ brJob' = [j \in BrJobs |-> BrIdleJob]
  /\ UNCHANGED <<brSaved, brExpired, brAcked>>

-----------------------------------------------------------------------------
(* The connection *)

BrCreateConnection ==
  /\ brConnection.status = "none"
  /\ brConnection' = [status |-> "pending", sha |-> BrNone]
  /\ BrPersist(brConnection', brClaims, brCapabilities)
  /\ UNCHANGED <<brClaims, brCapabilities, brExchange, brJob, brInFlight, brCompleted,
                 brExpired, brAcked, brRestarts>>

\* Any status but revoked becomes revoked; capabilities are denied when checked.
BrRevokeConnection ==
  /\ brConnection.status \notin {"none", "revoked"}
  /\ brConnection' = [brConnection EXCEPT !.status = "revoked"]
  /\ BrPersist(brConnection', brClaims, brCapabilities)
  /\ UNCHANGED <<brClaims, brCapabilities, brExchange, brJob, brInFlight, brCompleted,
                 brExpired, brAcked, brRestarts>>

-----------------------------------------------------------------------------
(* exchangeVerified *)

\* A pending connection past its expiry is closed by the request that finds it.
BrFindExpired(e) ==
  /\ brExchange[e].pc = "idle" /\ brConnection.status = "pending"
  /\ brConnection' = [brConnection EXCEPT !.status = "expired"]
  /\ brExchange' = [brExchange EXCEPT ![e].pc = "persist"]
  /\ UNCHANGED <<brClaims, brCapabilities, brJob, brInFlight, brCompleted, brSaved,
                 brExpired, brAcked, brRestarts>>

\* parseClaims and validateClaims: claims that do not match end the request.
BrClaimsHold(c) == c.wellFormed /\ c.token \notin brExpired /\ c.bound

\* An active connection whose workflow changed is blocked.
BrWorkflowChanged(e, c) ==
  /\ brExchange[e].pc = "idle" /\ BrClaimsHold(c)
  /\ brConnection.status = "active" /\ BrShaOf[c.token] # brConnection.sha
  /\ brConnection' = [brConnection EXCEPT !.status = "blocked"]
  /\ brExchange' = [brExchange EXCEPT ![e].pc = "persist"]
  /\ UNCHANGED <<brClaims, brCapabilities, brJob, brInFlight, brCompleted, brSaved,
                 brExpired, brAcked, brRestarts>>

\* Otherwise the connection is kept across the await of the jti's digest.
BrReadConnection(e, c, kind) ==
  /\ brExchange[e].pc = "idle" /\ BrClaimsHold(c)
  /\ \/ brConnection.status = "pending"
     \/ brConnection.status = "active" /\ BrShaOf[c.token] = brConnection.sha
  /\ brExchange' = [brExchange EXCEPT ![e] =
                      [pc |-> "digest", read |-> brConnection, token |-> c.token, kind |-> kind]]
  /\ UNCHANGED <<brMemory, brJob, brSaved, brExpired, brAcked, brRestarts>>

\* A token already claimed for the connection: nothing is granted.
BrReplayed(e) ==
  /\ brExchange[e].pc = "digest" /\ brExchange[e].token \in brClaims
  /\ brExchange' = [brExchange EXCEPT ![e].pc = "persist"]
  /\ UNCHANGED <<brMemory, brJob, brSaved, brExpired, brAcked, brRestarts>>

\* The claim, the connection as it was read (activated when it was pending),
\* and the capability.
BrGrant(e) ==
  LET x == brExchange[e] IN
  /\ x.pc = "digest" /\ x.token \notin brClaims
  /\ brClaims' = brClaims \cup {x.token}
  /\ brConnection' = IF x.read.status = "pending"
                       THEN [status |-> "active", sha |-> BrShaOf[x.token]] ELSE x.read
  /\ brCapabilities' = brCapabilities \cup {[id |-> e, token |-> x.token, kind |-> x.kind]}
  /\ brExchange' = [brExchange EXCEPT ![e].pc = "persist"]
  /\ UNCHANGED <<brJob, brInFlight, brCompleted, brSaved, brExpired, brAcked, brRestarts>>

BrPersistExchange(e) ==
  /\ brExchange[e].pc = "persist"
  /\ BrPersist(brConnection, brClaims, brCapabilities)
  /\ brExchange' = [brExchange EXCEPT ![e].pc = "done"]
  /\ UNCHANGED <<brMemory, brJob, brExpired, brAcked, brRestarts>>

\* A token and the capability it gave run out together.
BrExpire(t) ==
  /\ t \notin brExpired /\ brExpired' = brExpired \cup {t}
  /\ UNCHANGED <<brMemory, brExchange, brJob, brSaved, brAcked, brRestarts>>

-----------------------------------------------------------------------------
(* Operations *)

\* authorize: the capability exists, is for this operation, has not expired,
\* and its connection is active.
BrAuthorized(kind) ==
  /\ brConnection.status = "active"
  /\ \E k \in brCapabilities : k.kind = kind /\ k.token \notin brExpired

\* The wire format, then validatePackage: digests, sizes, refs, LFS objects.
BrParsed(p) == p.wellFormed
BrIntact(p) == p.intact
\* An initial import needs an empty Project, a proposal a GitHub that is ahead.
BrRelationFits(kind, relation) ==
  relation = IF kind = "import" THEN "empty" ELSE "github-ahead"
\* prepare of an outbound push: a received run, mapped refs, a valid signature.
BrBundleReady(b) == b.run = "received" /\ b.mapped /\ b.signed

\* prepare changes nothing; the request that runs the operation repeats it.
BrPrepare(j, kind, op) ==
  /\ brJob[j].pc = "idle" /\ BrAuthorized(kind)
  /\ IF kind = "outbound"
       THEN \E b \in BrBundle : BrParsed(b) /\ BrBundleReady(b)
       ELSE \E p \in BrPackage : BrParsed(p) /\ BrIntact(p) /\ BrRelationFits(kind, p.relation)
  /\ brJob' = [brJob EXCEPT ![j] = [pc |-> "prepared", kind |-> kind, op |-> op, done |-> FALSE]]
  /\ UNCHANGED <<brMemory, brExchange, brSaved, brExpired, brAcked, brRestarts>>

BrEntry(j) == <<BrLedger(brJob[j].kind), brJob[j].op>>
BrFree(j) == BrEntry(j) \notin brInFlight \cup brCompleted

\* A claimed operation is a replay.
BrReplayedJob(j) ==
  /\ brJob[j].pc = "prepared" /\ ~ BrFree(j)
  /\ brJob' = [brJob EXCEPT ![j].pc = "persist"]
  /\ UNCHANGED <<brMemory, brExchange, brSaved, brExpired, brAcked, brRestarts>>

\* activateInitialImport and createProposal claim before they call a service.
BrClaim(j) ==
  /\ brJob[j].pc = "prepared" /\ brJob[j].kind # "outbound" /\ BrFree(j)
  /\ brInFlight' = brInFlight \cup {BrEntry(j)}
  /\ brJob' = [brJob EXCEPT ![j].pc = "imported"]
  /\ UNCHANGED <<brConnection, brClaims, brCapabilities, brExchange, brCompleted, brSaved,
                 brExpired, brAcked, brRestarts>>

\* The services answered as asked: the operation is complete.
BrComplete(j) ==
  /\ brJob[j].pc = "imported"
  /\ brInFlight' = brInFlight \ {BrEntry(j)} /\ brCompleted' = brCompleted \cup {BrEntry(j)}
  /\ brJob' = [brJob EXCEPT ![j].pc = "persist", ![j].done = TRUE]
  /\ UNCHANGED <<brConnection, brClaims, brCapabilities, brExchange, brSaved, brExpired,
                 brAcked, brRestarts>>

\* A service failed, or its receipt does not match: the claim is released.
BrRelease(j) ==
  /\ brJob[j].pc = "imported"
  /\ brInFlight' = brInFlight \ {BrEntry(j)}
  /\ brJob' = [brJob EXCEPT ![j].pc = "persist"]
  /\ UNCHANGED <<brConnection, brClaims, brCapabilities, brExchange, brCompleted, brSaved,
                 brExpired, brAcked, brRestarts>>

\* complete of the outbound coordinator: the workflow has pushed already, the
\* claim, the check of the refs and the completion are one step.
BrCompleteOutbound(j, matches) ==
  /\ brJob[j].pc = "prepared" /\ brJob[j].kind = "outbound" /\ BrFree(j)
  /\ brCompleted' = IF matches THEN brCompleted \cup {BrEntry(j)} ELSE brCompleted
  /\ brJob' = [brJob EXCEPT ![j].pc = "persist", ![j].done = matches]
  /\ UNCHANGED <<brConnection, brClaims, brCapabilities, brInFlight, brExchange, brSaved,
                 brExpired, brAcked, brRestarts>>

\* A provider receipt with credential material throws after the claim: the
\* operation stays in flight until the object restarts.
BrOutboundThrows(j) ==
  /\ brJob[j].pc = "prepared" /\ brJob[j].kind = "outbound" /\ BrFree(j)
  /\ brInFlight' = brInFlight \cup {BrEntry(j)}
  /\ brJob' = [brJob EXCEPT ![j] = BrIdleJob]
  /\ UNCHANGED <<brConnection, brClaims, brCapabilities, brExchange, brCompleted, brSaved,
                 brExpired, brAcked, brRestarts>>

BrPersistJob(j) ==
  /\ brJob[j].pc = "persist" /\ BrPersistLedger(brCompleted)
  /\ brAcked' = IF brJob[j].done THEN brAcked \cup {BrEntry(j)} ELSE brAcked
  /\ brJob' = [brJob EXCEPT ![j] = BrIdleJob]
  /\ UNCHANGED <<brMemory, brExchange, brExpired, brRestarts>>

BrNext ==
  \/ BrCreateConnection \/ BrRevokeConnection \/ BrRestart
  \/ \E e \in BrExchanges :
       \/ BrFindExpired(e) \/ BrReplayed(e) \/ BrGrant(e) \/ BrPersistExchange(e)
       \/ \E c \in BrClaimed : \/ BrWorkflowChanged(e, c)
                               \/ \E kind \in BrKinds : BrReadConnection(e, c, kind)
  \/ \E t \in BrTokens : BrExpire(t)
  \/ \E j \in BrJobs :
       \/ \E kind \in BrKinds, op \in BrOperations : BrPrepare(j, kind, op)
       \/ BrReplayedJob(j) \/ BrClaim(j) \/ BrComplete(j) \/ BrRelease(j)
       \/ \E b \in BOOLEAN : BrCompleteOutbound(j, b)
       \/ BrOutboundThrows(j) \/ BrPersistJob(j)

BrSpec == BrInit /\ [][BrNext]_brVars

-----------------------------------------------------------------------------

\* Nothing is granted or run twice: one OIDC token gives at most one
\* capability, over concurrent exchanges and restarts of the Realm object
\* (exchangeVerified claims the jti digest after the await; snapshot keeps the
\* claims that have not expired), and no service is called again for an
\* operation whose caller was told that it succeeded (the import ledger).
BrNothingTwice ==
  /\ \A k, l \in brCapabilities : k.token = l.token => k = l
  /\ \A j \in BrJobs : brJob[j].pc = "imported" => BrEntry(j) \notin brAcked
=============================================================================
