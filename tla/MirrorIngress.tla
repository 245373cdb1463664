--------------------------- MODULE MirrorIngress ----------------------------
(* The way of a GitHub webhook into the Authority: the webhook route queues  *)
(* a delivery, the queue consumer calls the mirror producer, which reads the *)
(* Mirror from the Realm, then the refs and the pull request from GitHub,    *)
(* signs a hand-off and has the Realm ingest it.  Only the ingestion is one  *)
(* step of the Realm (blockConcurrencyWhile); everything else interleaves.   *)
(* The queue delivers a message at least once and again after a retry.  The  *)
(* remote only moves forward: the producer refuses deleted and forced refs.  *)
EXTENDS Integers, FiniteSets

CONSTANTS
  MiPushes,        \* deliveries of a push
  MiPulls,         \* deliveries of a pull_request event
  MiConsumers,     \* queue consumers at work
  MiMaxMessages,   \* bounds: messages of one delivery, Landings
  MiMaxLandings,
  MiNone

ASSUME MiAssumption ==
  /\ MiPushes \cap MiPulls = {} /\ IsFiniteSet(MiPushes \cup MiPulls)
  /\ MiMaxMessages \in Nat /\ MiMaxLandings \in Nat

MiDeliveries == MiPushes \cup MiPulls
MiPositions == 0 .. Cardinality(MiDeliveries)

VARIABLES
  miRemote,     \* position of the mapped ref at GitHub
  miPull,       \* position of the pull request's head
  miSent,       \* deliveries GitHub made
  miQueue,      \* delivery -> its waiting messages
  miCall,       \* consumer -> the message it works on
  miCanonical,  \* number of Landings: the canonical Project Revision
  miMirror,     \* the Mirror record: generation of the remote and state
  miNonces,     \* deliveries whose nonce is stored
  miLedger,     \* delivery -> recorded outcome (mirrorDeliveries, idempotency)
  miHeads,      \* heads with a Change Revision
  miAcked       \* deliveries with an acknowledged message

miVars == <<miRemote, miPull, miSent, miQueue, miCall, miCanonical, miMirror,
            miNonces, miLedger, miHeads, miAcked>>

MiHead == {"push", "pull"} \X MiPositions
MiMirrorRecord == [generation : MiPositions, state : {"lagging", "blocked"}]

\* The producer context (canonical, generation) and what was read of GitHub.
MiCallRecord == [pc : {"idle", "context", "refs", "head", "ingest"},
                 delivery : MiDeliveries \cup {MiNone}, canonical : 0 .. MiMaxLandings,
                 generation : MiPositions, refs : MiPositions, head : MiHead]

MiTypeOK ==
  /\ miRemote \in MiPositions /\ miPull \in MiPositions /\ miSent \subseteq MiDeliveries
  /\ miQueue \in [MiDeliveries -> 0 .. MiMaxMessages]
  /\ miCall \in [MiConsumers -> MiCallRecord]
  /\ miCanonical \in 0 .. MiMaxLandings /\ miMirror \in MiMirrorRecord
  /\ miNonces \subseteq MiDeliveries /\ miAcked \subseteq MiDeliveries
  /\ miLedger \in [MiDeliveries -> {"none", "taken", "blocked"}]
  /\ miHeads \subseteq MiHead

MiIdle == [pc |-> "idle", delivery |-> MiNone, canonical |-> 0, generation |-> 0,
           refs |-> 0, head |-> <<"push", 0>>]

MiInit ==
  /\ miRemote = 0 /\ miPull = 0 /\ miSent = {} /\ miCanonical = 0
  /\ miQueue = [d \in MiDeliveries |-> 0] /\ miCall = [c \in MiConsumers |-> MiIdle]
  /\ miMirror = [generation |-> 0, state |-> "lagging"]
  /\ miNonces = {} /\ miLedger = [d \in MiDeliveries |-> "none"]
  /\ miHeads = {} /\ miAcked = {}

-----------------------------------------------------------------------------
(* GitHub and the Landings of the Realm *)

MiPush(d) ==
  /\ d \in MiDeliveries \ miSent /\ miSent' = miSent \cup {d}
  /\ IF d \in MiPushes THEN miRemote' = miRemote + 1 /\ UNCHANGED miPull
                       ELSE miPull' = miPull + 1 /\ UNCHANGED miRemote
  /\ UNCHANGED <<miQueue, miCall, miCanonical, miMirror, miNonces, miLedger, miHeads, miAcked>>

MiLand ==
  /\ miCanonical < MiMaxLandings /\ miCanonical' = miCanonical + 1
  /\ UNCHANGED <<miRemote, miPull, miSent, miQueue, miCall, miMirror, miNonces, miLedger, miHeads, miAcked>>

-----------------------------------------------------------------------------
(* The webhook route and the queue consumer *)

\* validateGitHubWebhook: the signature is GitHub's.
MiAuthentic(d) == d \in miSent

\* An authentic event is queued; a redelivery is queued again.
MiWebhook(d) ==
  /\ MiAuthentic(d) /\ miQueue[d] < MiMaxMessages
  /\ miQueue' = [miQueue EXCEPT ![d] = @ + 1]
  /\ UNCHANGED <<miRemote, miPull, miSent, miCall, miCanonical, miMirror, miNonces, miLedger, miHeads, miAcked>>

MiTake(c, d) ==
  /\ miCall[c].pc = "idle" /\ miQueue[d] > 0
  /\ miQueue' = [miQueue EXCEPT ![d] = @ - 1]
  /\ miCall' = [miCall EXCEPT ![c].pc = "context", ![c].delivery = d]
  /\ UNCHANGED <<miRemote, miPull, miSent, miCanonical, miMirror, miNonces, miLedger, miHeads, miAcked>>

\* message.ack() and message.retry(): a retry is back in the queue.
MiAck(c) ==
  /\ miCall' = [miCall EXCEPT ![c] = MiIdle]
  /\ miAcked' = miAcked \cup {miCall[c].delivery} /\ UNCHANGED miQueue

MiRetry(c) ==
  /\ miQueue[miCall[c].delivery] < MiMaxMessages
  /\ miCall' = [miCall EXCEPT ![c] = MiIdle]
  /\ miQueue' = [miQueue EXCEPT ![miCall[c].delivery] = @ + 1] /\ UNCHANGED miAcked

-----------------------------------------------------------------------------
(* The producer *)

\* /internal/mirrors/producer-context.
MiContext(c) ==
  /\ miCall[c].pc = "context"
  /\ miCall' = [miCall EXCEPT ![c].pc = "refs", ![c].canonical = miCanonical,
                              ![c].generation = miMirror.generation]
  /\ UNCHANGED <<miRemote, miPull, miSent, miQueue, miCanonical, miMirror, miNonces, miLedger, miHeads, miAcked>>

\* The mapped refs are read first.
MiReadRefs(c) ==
  /\ miCall[c].pc = "refs"
  /\ miCall' = [miCall EXCEPT ![c].pc = "head", ![c].refs = miRemote]
  /\ UNCHANGED <<miRemote, miPull, miSent, miQueue, miCanonical, miMirror, miNonces, miLedger, miHeads, miAcked>>

\* A push is about the ref that was read.
MiReadPush(c) ==
  /\ miCall[c].pc = "head" /\ miCall[c].delivery \in MiPushes
  /\ miCall' = [miCall EXCEPT ![c].pc = "ingest", ![c].head = <<"push", miCall[c].refs>>]
  /\ UNCHANGED <<miRemote, miPull, miSent, miQueue, miCanonical, miMirror, miNonces, miLedger, miHeads, miAcked>>

MiReadPullRequest(c) ==
  /\ miCall[c].pc = "head" /\ miCall[c].delivery \in MiPulls
  /\ miCall' = [miCall EXCEPT ![c].pc = "ingest", ![c].head = <<"pull", miPull>>]
  /\ UNCHANGED <<miRemote, miPull, miSent, miQueue, miCanonical, miMirror, miNonces, miLedger, miHeads, miAcked>>

\* The provider fails, the context is incomplete, the answer of the Realm is
\* lost, or the hand-off expires before it is ingested: the message is retried.
MiFails(c) ==
  /\ miCall[c].pc # "idle" /\ MiRetry(c)
  /\ UNCHANGED <<miRemote, miPull, miSent, miCanonical, miMirror, miNonces, miLedger, miHeads>>

-----------------------------------------------------------------------------
(* authorityMirrorIngest *)

\* verifyMirrorIngestionHandoff: only what the producer signed is ingested.
MiVerified(c) == miCall[c].pc = "ingest"

\* The nonce is derived from the delivery, so a retry has the same one.  A
\* stored nonce is answered with a replay, which the producer takes as success.
MiReplayed(c) ==
  /\ MiVerified(c) /\ miCall[c].delivery \in miNonces
  /\ MiAck(c)
  /\ UNCHANGED <<miRemote, miPull, miSent, miCanonical, miMirror, miNonces, miLedger, miHeads>>

MiClaimNonce(c) ==
  /\ MiVerified(c) /\ miCall[c].delivery \notin miNonces
  /\ miNonces' = miNonces \cup {miCall[c].delivery}

MiCurrent(c) ==
  /\ miLedger[miCall[c].delivery] = "none" /\ miCall[c].canonical = miCanonical

\* execute and mirror.sync throw after the nonce was stored: the command key
\* belongs to an earlier attempt, the canonical Project Revision moved, or the
\* pull request has another base.
MiIngestRefused(c) ==
  /\ MiClaimNonce(c) /\ (MiCurrent(c) => miCall[c].delivery \in MiPulls)
  /\ MiRetry(c)
  /\ UNCHANGED <<miRemote, miPull, miSent, miCanonical, miMirror, miLedger, miHeads>>

\* The save of the new snapshot fails after the nonce was stored.
MiSaveFails(c) ==
  /\ MiClaimNonce(c) /\ MiCurrent(c)
  /\ MiRetry(c)
  /\ UNCHANGED <<miRemote, miPull, miSent, miCanonical, miMirror, miLedger, miHeads>>

MiAnyGeneration(c) == TRUE   \* mutant: the expected generation is not compared

MiSameGeneration(c) == miCall[c].generation = miMirror.generation

\* The expected generation is not the Mirror's: the operation and the delivery
\* are recorded as blocked.
MiIngestBlocked(c) ==
  /\ MiClaimNonce(c) /\ MiCurrent(c) /\ ~ MiSameGeneration(c)
  /\ MiRetry(c)
  /\ miLedger' = [miLedger EXCEPT ![miCall[c].delivery] = "blocked"]
  /\ miMirror' = [miMirror EXCEPT !.state = "blocked"]
  /\ UNCHANGED <<miRemote, miPull, miSent, miCanonical, miHeads>>

\* The head the signed observation is about.
MiObserved(c) == miCall[c].head

\* The remote boundary is accepted and the head gets a Change Revision; the
\* answer may still be lost.
MiIngest(c, answered) ==
  /\ MiClaimNonce(c) /\ MiCurrent(c) /\ MiSameGeneration(c)
  /\ IF answered THEN MiAck(c) ELSE MiRetry(c)
  /\ miLedger' = [miLedger EXCEPT ![miCall[c].delivery] = "taken"]
  /\ miMirror' = [generation |-> miCall[c].refs, state |-> "lagging"]
  /\ miHeads' = miHeads \cup {MiObserved(c)}
  /\ UNCHANGED <<miRemote, miPull, miSent, miCanonical>>

\* The nonces are purged when their hand-off has expired.
MiNonceExpires(d) ==
  /\ d \in miNonces /\ miNonces' = miNonces \ {d}
  /\ UNCHANGED <<miRemote, miPull, miSent, miQueue, miCall, miCanonical, miMirror, miLedger, miHeads, miAcked>>

MiNext ==
  \/ \E d \in MiDeliveries : MiPush(d) \/ MiWebhook(d) \/ MiNonceExpires(d)
  \/ MiLand
  \/ \E c \in MiConsumers :
       \/ \E d \in MiDeliveries : MiTake(c, d)
       \/ MiContext(c) \/ MiReadRefs(c) \/ MiReadPush(c) \/ MiReadPullRequest(c) \/ MiFails(c)
       \/ MiReplayed(c) \/ MiIngestRefused(c) \/ MiSaveFails(c) \/ MiIngestBlocked(c)
       \/ \E answered \in BOOLEAN : MiIngest(c, answered)

MiSpec == MiInit /\ [][MiNext]_miVars

-----------------------------------------------------------------------------

\* The remote boundary the Authority accepted never goes back to an earlier
\* state of the remote, however deliveries, redeliveries and retries overtake
\* each other between the producer's reads and the ingestion
\* (expectedRemoteGeneration, acceptsRemoteBoundary).
MiBoundaryOnlyAdvances == [][miMirror'.generation >= miMirror.generation]_miVars

\* A message that left the queue had its provider state taken by the Authority
\* (reconcileGitHubWebhookQueueMessage; docs/qualification/github-app.md: "a
\* blocked or response-loss attempt is retried without accepting provider
\* state").  It does not hold: the retry of a blocked or refused ingestion
\* carries the nonce the first attempt stored and is taken for a success.
MiAckedIsTaken == \A d \in miAcked : miLedger[d] = "taken"
=============================================================================
