--------------------------- MODULE HostedIsolation ---------------------------
(* The store that Realms hosted together share, and the router before it     *)
(* (HostedSaaSIsolationStore, HostedSaaSRouter in                            *)
(* cloudflare/hosted-saas-isolation.ts).  A request is routed to the Realm   *)
(* of its host and its token is authenticated before its body is read;       *)
(* between the two the Realm may be revoked, the store cleaned up or         *)
(* restored.  Every change is to leave a message, an event and a log.        *)
EXTENDS Integers, Sequences, FiniteSets

CONSTANTS
  SaRealms, SaHosts, SaProjects,
  SaSites,          \* the hosts a Realm may be registered for
  SaRequests,       \* requests under way
  SaMaxSequence     \* bound on the numbers of messages and events

ASSUME SaAssumption ==
  /\ SaMaxSequence \in Nat \ {0}
  /\ SaSites \subseteq SaRealms \X SaHosts

VARIABLES
  saStore,      \* the maps and lists of the store; a snapshot has the same, without tokens
  saTokens,     \* Realms that have issued a token under their present epoch
  saSequence,   \* the last number of a message or event
  saSnapshot,   \* the snapshots taken
  saRequest,    \* the requests under way
  saSilent      \* history: projects stored by a call that then failed

saVars == <<saStore, saTokens, saSequence, saSnapshot, saRequest, saSilent>>

SaKeys == SaRealms \X SaProjects
SaRealm == [realm : SaRealms, host : SaHosts]
SaRecord == [id : 1 .. SaMaxSequence, key : SaKeys, write : BOOLEAN]
\* Revisions stand for content: 0 is no project, no cache entry, no export.
SaRevision == 0 .. SaMaxSequence
SaStore == [realms : Seq(SaRealm),
            projects : [SaKeys -> SaRevision], cache : [SaKeys -> SaRevision],
            exports : [SaKeys -> SaRevision],
            queue : SUBSET SaRecord, events : SUBSET SaRecord]

SaEmpty ==
  [realms |-> << >>, projects |-> [k \in SaKeys |-> 0], cache |-> [k \in SaKeys |-> 0],
   exports |-> [k \in SaKeys |-> 0], queue |-> {}, events |-> {}]

SaTypeOK ==
  /\ saStore \in SaStore /\ saSnapshot \subseteq SaStore
  /\ saTokens \subseteq SaRealms
  /\ saSequence \in 0 .. SaMaxSequence
  /\ saRequest \in [SaRequests -> {"none"} \cup SaRealms]
  /\ saSilent \subseteq SaKeys

SaInit ==
  /\ saStore = SaEmpty /\ saTokens = {} /\ saSequence = 0 /\ saSnapshot = {}
  /\ saRequest = [q \in SaRequests |-> "none"] /\ saSilent = {}

SaHas(r) == \E i \in 1 .. Len(saStore.realms) : saStore.realms[i].realm = r

-----------------------------------------------------------------------------
(* The store: Realms and credentials *)

\* registerRealm; that a host is taken is not looked at.
SaRegisterRealm(r, h) ==
  /\ ~ SaHas(r)
  /\ saStore' = [saStore EXCEPT !.realms = Append(@, [realm |-> r, host |-> h])]
  /\ UNCHANGED <<saTokens, saSequence, saSnapshot, saRequest, saSilent>>

\* issueCredential.  A token bears the epoch of its Realm and a number of the
\* same count; neither is kept here, as an epoch never comes back while a
\* token of it is stored and only messages and events are told apart by number.
SaIssueCredential(r) ==
  /\ SaHas(r)
  /\ saTokens' = saTokens \cup {r}
  /\ UNCHANGED <<saStore, saSequence, saSnapshot, saRequest, saSilent>>

\* revokeRealm: the epoch goes on, so no token issued so far is accepted.
SaRevokeRealm(r) ==
  /\ SaHas(r)
  /\ saTokens' = saTokens \ {r}
  /\ UNCHANGED <<saStore, saSequence, saSnapshot, saRequest, saSilent>>

-----------------------------------------------------------------------------
(* The router *)

\* findRealmByHost: the first Realm registered for the host.
SaRoute(h) ==
  LET at == {i \in 1 .. Len(saStore.realms) : saStore.realms[i].host = h}
  IN IF at = {} THEN "none"
     ELSE saStore.realms[CHOOSE i \in at : \A j \in at : i <= j].realm

\* handle up to the body: authenticate in the Realm of the host.
SaAuthenticate(q, h) ==
  LET r == SaRoute(h) IN
  /\ saRequest[q] = "none" /\ r # "none"
  /\ r \in saTokens
  /\ saRequest' = [saRequest EXCEPT ![q] = r]
  /\ UNCHANGED <<saStore, saTokens, saSequence, saSnapshot, saSilent>>

SaAnswered(q) == saRequest' = [saRequest EXCEPT ![q] = "none"]

\* appendObservations: a message and an event, each with a number of its own.
SaObserved(store, key, write) ==
  [store EXCEPT
     !.queue = @ \cup {[id |-> saSequence + 1, key |-> key, write |-> write]},
     !.events = @ \cup {[id |-> saSequence + 2, key |-> key, write |-> write]}]
SaObserve == saSequence + 2 <= SaMaxSequence /\ saSequence' = saSequence + 2

\* createProject.  The correlation identifier is looked at last, when project
\* and cache are already stored.
SaCreateProject(q, p, correlated) ==
  LET key == <<saRequest[q], p>>
      stored == [saStore EXCEPT !.projects[key] = 1, !.cache[key] = 1]
  IN /\ saRequest[q] # "none"
     /\ IF ~ SaHas(saRequest[q]) \/ saStore.projects[key] # 0
        THEN UNCHANGED <<saStore, saSequence, saSilent>>
        ELSE IF correlated
        THEN saStore' = SaObserved(stored, key, TRUE) /\ SaObserve /\ UNCHANGED saSilent
        ELSE saStore' = stored /\ saSilent' = saSilent \cup {key} /\ UNCHANGED saSequence
     /\ SaAnswered(q)
     /\ UNCHANGED <<saTokens, saSnapshot>>

\* readProject, and exportProject, which reads and then keeps what it read.
SaReadProject(q, p, export) ==
  LET key == <<saRequest[q], p>>
      seen == SaObserved(saStore, key, FALSE)
  IN /\ saRequest[q] # "none"
     /\ SaObserve
     /\ saStore' = IF export /\ saStore.projects[key] # 0
                   THEN [seen EXCEPT !.exports[key] = saStore.projects[key]] ELSE seen
     /\ SaAnswered(q)
     /\ UNCHANGED <<saTokens, saSnapshot, saSilent>>

\* mutateProject observes first; a project that is not there is not made.
SaMutateProject(q, p) ==
  LET key == <<saRequest[q], p>>
      next == saStore.projects[key] + 1
      seen == SaObserved(saStore, key, next > 1)
  IN /\ saRequest[q] # "none"
     /\ SaObserve
     /\ saStore' = IF next = 1 THEN seen
                   ELSE [seen EXCEPT !.projects[key] = next, !.cache[key] = next]
     /\ SaAnswered(q)
     /\ UNCHANGED <<saTokens, saSnapshot, saSilent>>

-----------------------------------------------------------------------------
(* Snapshot, cleanup and restore *)

SaTakeSnapshot ==
  /\ saSnapshot = {}
  /\ saSnapshot' = {saStore}
  /\ UNCHANGED <<saStore, saTokens, saSequence, saRequest, saSilent>>

\* cleanup empties the store and goes on counting; so does a restore that
\* refuses its snapshot, which it finds out after it has emptied the store.
SaCleanup ==
  /\ saStore # SaEmpty
  /\ saStore' = SaEmpty /\ saTokens' = {}
  /\ UNCHANGED <<saSequence, saSnapshot, saRequest, saSilent>>

\* restore goes on from the highest number of the messages and events; tokens
\* are not restored.
SaRestore(s) ==
  LET numbers == {x.id : x \in s.queue \cup s.events}
  IN /\ s \in saSnapshot
     /\ saStore' = s /\ saTokens' = {}
     /\ saSequence' = IF numbers = {} THEN 0
                      ELSE CHOOSE n \in numbers : \A m \in numbers : m <= n
     /\ UNCHANGED <<saSnapshot, saRequest, saSilent>>

SaNext ==
  \/ \E site \in SaSites : SaRegisterRealm(site[1], site[2])
  \/ \E r \in SaRealms :
       SaIssueCredential(r) \/ SaRevokeRealm(r)
  \/ \E q \in SaRequests :
       \/ \E h \in SaHosts : SaAuthenticate(q, h)
       \/ \E p \in SaProjects :
            \/ \E correlated \in BOOLEAN : SaCreateProject(q, p, correlated)
            \/ \E export \in BOOLEAN : SaReadProject(q, p, export)
            \/ SaMutateProject(q, p)
  \/ SaTakeSnapshot \/ SaCleanup
  \/ \E s \in saSnapshot : SaRestore(s)

SaSpec == SaInit /\ [][SaNext]_saVars

-----------------------------------------------------------------------------

\* No number is on two messages or events and none is ahead of the count,
\* whatever was restored in between (restore, nextId).
SaNumbersAreFresh ==
  /\ \A x, y \in saStore.queue \cup saStore.events : x.id = y.id => x = y
  /\ saStore.queue \cap saStore.events = {}
  /\ \A x \in saStore.queue \cup saStore.events : x.id <= saSequence

\* The cache has the project as it is, an export what it was, and every
\* revision has its message and its event, except where the call that created
\* the project failed after it had stored it (createProject, mutateProject).
SaChangesAreObserved ==
  \A k \in SaKeys :
    LET writes(records) == Cardinality({x \in records : x.key = k /\ x.write}) IN
    /\ saStore.cache[k] = saStore.projects[k]
    /\ saStore.exports[k] <= saStore.projects[k]
    /\ k \notin saSilent =>
         /\ writes(saStore.queue) = saStore.projects[k]
         /\ writes(saStore.events) = saStore.projects[k]

\* What the store keeps for a Realm belongs together.
SaStoreAgrees == SaNumbersAreFresh /\ SaChangesAreObserved
=============================================================================
