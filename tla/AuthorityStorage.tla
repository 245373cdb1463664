------------------------- MODULE AuthorityStorage -------------------------
(* How a Realm's Durable Object keeps the Authority plane: the SQLite rows a *)
(* command's difference is committed to, the migration of the older          *)
(* key-value snapshot, the custody rows of hosted Workspaces beside them,    *)
(* and the recovery ceremony (export, restore into quarantine, activate).    *)
(* A handler runs under blockConcurrencyWhile, so it is one step.  What a    *)
(* command does to the plane is the subject of Authority; here it writes one *)
(* entity, one audit event and one idempotency record, both named by its key.*)
EXTENDS Integers

CONSTANTS
  AsKeys,           \* idempotency keys of commands
  AsQualification,  \* those that carry a qualification's id
  AsBundleIds,      \* recovery bundles
  AsWorkspaces,     \* custody rows of hosted Workspaces
  AsMaxWrites,      \* bound: writes of a custody row
  AsFirst,          \* the command recorded in the older snapshot
  AsNone

ASSUME AsAssumption ==
  /\ AsQualification \subseteq AsKeys /\ AsMaxWrites \in Nat
  /\ AsFirst \notin AsKeys /\ AsNone \notin AsKeys \cup AsBundleIds \cup {AsFirst}

VARIABLES
  asSql,      \* the Authority read from the SQLite rows, or none
  asLegacy,   \* the snapshot under the older storage key, or none
  asRows,     \* custody row -> writes so far, 0 when absent
  asStatus,   \* recovery status
  asCurrent,  \* the recovery bound to the current quarantine, or none
  asReceipts, \* bundles with a stored restore receipt
  asBundles,  \* bundle -> what the owner holds, or none
  asGrants,   \* Grants issued by disclosed commands, in memory
  asKept,     \* and as last stored
  asCleaned,  \* a qualification clean-up has moved the version back
  asActivated \* the bundle the last activation named, or none

asVars == <<asSql, asLegacy, asRows, asStatus, asCurrent, asReceipts, asBundles,
            asGrants, asKept, asCleaned, asActivated>>

-----------------------------------------------------------------------------
(* Snapshots, bundles *)

\* The collections the properties tell apart: a Run's details and the
\* projections of canonical refs were added later than the rest, and a
\* qualification's clean-up disposes of all but the projections.
AsCollections == {"workspaces", "runDetails", "canonicalRefProjections"}
AsAdditive == {"runDetails", "canonicalRefProjections"}
AsDisposable == {"workspaces", "runDetails"}

AsWriters == AsKeys \cup {AsFirst}
\* An audit event: the version it was committed with, by which its rows are
\* ordered, and the command.
AsEvents == [at : Nat, key : AsWriters]
AsSnapshots == [version : Nat,
                entities : [AsCollections -> AsWriters \cup {AsNone}],
                audit : SUBSET AsEvents]
AsRowSets == [AsWorkspaces -> 0 .. AsMaxWrites]
AsNoRows == [w \in AsWorkspaces |-> 0]

\* The fields a bundle signs.  missing: collections an older exporter did not know.
AsBundleSet == [snapshot : AsSnapshots, rows : AsRowSets,
                missing : {{}, {"runDetails"}, AsAdditive}]
AsBinding == [bundle : AsBundleIds, snapshot : AsSnapshots, rows : AsRowSets]

ASSUME AsNoneAssumption == AsNone \notin AsSnapshots \cup AsBinding \cup AsBundleSet

AsEmpty == [version |-> 0, entities |-> [c \in AsCollections |-> AsNone], audit |-> {}]
AsOlder == [version |-> 1,
            entities |-> [AsEmpty.entities EXCEPT !["canonicalRefProjections"] = AsFirst],
            audit |-> {[at |-> 1, key |-> AsFirst]}]

AsTypeOK ==
  /\ asSql = AsNone \/ asSql \in AsSnapshots
  /\ asLegacy \in {AsNone, AsOlder} /\ asRows \in AsRowSets
  /\ asStatus \in {"active", "quarantined"}
  /\ asCurrent = AsNone \/ asCurrent \in AsBinding
  /\ asReceipts \subseteq AsBundleIds
  /\ \A b \in AsBundleIds : asBundles[b] = AsNone \/ asBundles[b] \in AsBundleSet
  /\ asGrants \subseteq AsKeys /\ asKept \subseteq AsKeys /\ asCleaned \in BOOLEAN
  /\ asActivated \in AsBundleIds \cup {AsNone}

\* A Realm of an earlier version: nothing in SQLite yet.
AsInit ==
  /\ asSql = AsNone /\ asLegacy = AsOlder /\ asRows = AsNoRows
  /\ asStatus = "active" /\ asCurrent = AsNone /\ asReceipts = {}
  /\ asBundles = [b \in AsBundleIds |-> AsNone]
  /\ asGrants = {} /\ asKept = {} /\ asCleaned = FALSE
  /\ asActivated = AsNone

-----------------------------------------------------------------------------
(* The store *)

\* authoritySnapshot: the rows, else the older snapshot, else an empty plane;
\* a handler that reads it has also written it to the rows.
AsRead == IF asSql # AsNone THEN asSql ELSE IF asLegacy # AsNone THEN asLegacy ELSE AsEmpty
AsReplace(snapshot) == asSql' = snapshot /\ asLegacy' = AsNone

\* diffCollection: only the entities that differ between the two snapshots.
AsDiff(rows, previous, next) ==
  [c \in AsCollections |-> IF next[c] # previous[c] THEN next[c] ELSE rows[c]]

AsKeysOf(audit) == {e.key : e \in audit}

\* b goes on where a ends.
AsPrefix(a, b) == a \subseteq b /\ \A e \in b \ a, f \in a : f.at < e.at

\* assertImmutableRecords, and no event twice.
AsExtends(previous, next) ==
  previous.audit \subseteq next.audit /\ \A e, f \in next.audit : e.key = f.key => e = f

\* commit: the version moves by one from the version of the rows.
AsCommit(rows, previous, next) ==
  /\ next.version = previous.version + 1 /\ rows.version = previous.version
  /\ AsExtends(previous, next)
  /\ AsReplace([version |-> next.version,
                entities |-> AsDiff(rows.entities, previous.entities, next.entities),
                audit |-> rows.audit \cup (next.audit \ previous.audit)])

\* AuthorityPlaneCoordinator.execute, as far as it is stored.
AsExecuted(snapshot, key, collection) ==
  [version |-> snapshot.version + 1,
   entities |-> [snapshot.entities EXCEPT ![collection] = key],
   audit |-> snapshot.audit \cup {[at |-> snapshot.version + 1, key |-> key]}]
AsReplayed(key) == key \in AsKeysOf(AsRead.audit)

\* persistAuthoritySnapshot: the executed snapshot, or the unchanged one.
AsPersist(key, collection) ==
  \/ ~AsReplayed(key) /\ AsCommit(AsRead, AsRead, AsExecuted(AsRead, key, collection))
  \/ AsReplace(AsRead)

AsActive == asStatus = "active"
AsRecoveryUnchanged == UNCHANGED <<asRows, asStatus, asCurrent, asReceipts, asBundles, asCleaned, asActivated>>

-----------------------------------------------------------------------------
(* Commands *)

\* authorityCommand, and the Runner service's and the qualification's entries
\* that execute a command in the same way.
AsCommand(key, collection) ==
  /\ AsActive
  /\ AsPersist(key, collection)
  /\ AsRecoveryUnchanged /\ UNCHANGED <<asGrants, asKept>>

AsRunnerProfile(key) == AsCommand(key, "workspaces")

\* A completion records the Run and its details.
AsRunnerComplete(key) == AsCommand(key, "runDetails")

\* A delegated Agent's command, and an owner's Mirror command of a qualification.
AsMcpCommand(key) == AsCommand(key, "workspaces")
AsQualificationMirror(key) == key \in AsQualification /\ AsCommand(key, "workspaces")

\* captureOperationalRollback: the identity in memory as it was before the command.
AsRollback(before, issued) == before

\* A disclosed command issues a Grant first.  A replay and a refusal give it
\* back; otherwise the snapshot and the identity are stored in one transaction.
AsViewCommand(key, collection) ==
  /\ AsActive
  /\ LET issued == asGrants \cup {key}
     IN \/ /\ ~AsReplayed(key)
           /\ AsPersist(key, collection)
           /\ asGrants' = issued /\ asKept' = issued
        \/ /\ AsReplace(AsRead)
           /\ asGrants' = AsRollback(asGrants, issued) /\ UNCHANGED asKept
  /\ AsRecoveryUnchanged

AsRawSourceCommand(key) == AsViewCommand(key, "workspaces")
AsMcpViewCommand(key) == AsViewCommand(key, "runDetails")

\* authorityOwnerReadableProject: reader policies are set when the version moved.
AsOwnerReadableProject(key) ==
  /\ AsActive
  /\ \/ /\ ~AsReplayed(key)
        /\ AsCommit(AsRead, AsRead, AsExecuted(AsRead, key, "workspaces"))
        /\ asGrants' = asGrants \cup {key} /\ asKept' = asGrants'
     \/ /\ AsReplace(AsRead)
        /\ asGrants' = AsRollback(asGrants, asGrants \cup {key}) /\ UNCHANGED asKept
  /\ AsRecoveryUnchanged

\* authorityWorkspaceRepository: a provider operation moves a custody row and
\* not the version of the Authority.
AsWorkspaceRepository(w) ==
  /\ AsActive /\ asSql # AsNone /\ asSql.entities["workspaces"] # AsNone
  /\ asRows[w] < AsMaxWrites
  /\ asRows' = [asRows EXCEPT ![w] = @ + 1]
  /\ UNCHANGED <<asSql, asLegacy, asStatus, asCurrent, asReceipts, asBundles, asGrants, asKept, asCleaned,
                 asActivated>>

-----------------------------------------------------------------------------
(* Recovery *)

\* Custody rows that the Authority's Workspaces and Source Spaces account for.
AsBound(rows, snapshot) == rows = AsNoRows \/ snapshot.entities["workspaces"] # AsNone
AsCapturable(snapshot) == AsBound(asRows, snapshot)

\* createAuthorityRecoveryBundle
AsBundle(snapshot, rows) == [snapshot |-> snapshot, rows |-> rows, missing |-> {}]

AsExport(b) ==
  /\ asBundles[b] = AsNone /\ AsCapturable(AsRead)
  /\ asBundles' = [asBundles EXCEPT ![b] = AsBundle(AsRead, asRows)]
  /\ AsReplace(AsRead)
  /\ UNCHANGED <<asRows, asStatus, asCurrent, asReceipts, asGrants, asKept, asCleaned, asActivated>>

\* A bundle an earlier version exported: without custody rows, and without the
\* collections it did not know.
AsEarlierExport(b, missing) ==
  /\ asBundles[b] = AsNone /\ asSql = AsNone
  /\ asBundles' = [asBundles EXCEPT ![b] =
       [AsBundle([asLegacy EXCEPT !.entities = [c \in AsCollections |->
                    IF c \in missing THEN AsNone ELSE asLegacy.entities[c]]], AsNoRows)
          EXCEPT !.missing = missing]]
  /\ UNCHANGED <<asSql, asLegacy, asRows, asStatus, asCurrent, asReceipts, asGrants, asKept, asCleaned,
                 asActivated>>

\* verifyAuthorityRecoveryBundle: what the owner presents is a bundle that was signed.
AsVerified(b) == asBundles[b] # AsNone

\* The Authority a bundle with absent collections is compared with.
AsBaseline(bundle) == IF bundle.missing = {} THEN AsRead ELSE asSql

\* authorityRecoverySnapshot: an absent collection is inherited, and then the
\* whole must be the current state.
AsRestored(bundle, current) ==
  [bundle.snapshot EXCEPT !.entities = [c \in AsCollections |->
     IF c \in bundle.missing THEN current.entities[c] ELSE bundle.snapshot.entities[c]]]
AsCompatible(bundle, current) == bundle.missing # {} => AsRestored(bundle, current) = current

\* authorityQualificationCleanupAllowed
AsCleanupAllowed(exported, current) ==
  /\ \A c \in AsDisposable : exported.entities[c] = AsNone
  /\ AsPrefix(exported.audit, current.audit)
  /\ AsKeysOf(current.audit \ exported.audit) \subseteq AsQualification

AsVersionMatches(bundle, current, cleanup) ==
  \/ current.version = bundle.snapshot.version
  \/ cleanup /\ AsCleanupAllowed(bundle.snapshot, current)

\* ArtifactsRecoveryStore.restore: no current row may be absent or differ; a
\* bundle without custody rows asks for none at all.
AsRowsKept(bundle) == \A w \in AsWorkspaces : asRows[w] # 0 => asRows[w] = bundle.rows[w]

AsRestore(b, cleanup) ==
  /\ AsVerified(b) /\ b \notin asReceipts
  /\ LET bundle == asBundles[b]
         current == AsBaseline(bundle)
     IN /\ current # AsNone
        /\ AsVersionMatches(bundle, current, cleanup)
        /\ AsCompatible(bundle, current)
        /\ AsBound(bundle.rows, AsRestored(bundle, current)) /\ AsCapturable(current)
        /\ AsRowsKept(bundle)
        /\ AsReplace(AsRestored(bundle, current))
        /\ asRows' = bundle.rows
        /\ asCurrent' = [bundle |-> b, snapshot |-> AsRestored(bundle, current), rows |-> bundle.rows]
        /\ asCleaned' = (asCleaned \/ current.version # bundle.snapshot.version)
  /\ asStatus' = "quarantined" /\ asReceipts' = asReceipts \cup {b}
  /\ UNCHANGED <<asBundles, asGrants, asKept, asActivated>>

AsActivateAnyReceipt(b) ==   \* mutant: any restored bundle may be activated
  /\ asStatus = "quarantined" /\ b \in asReceipts
  /\ asSql = asCurrent.snapshot /\ asRows = asCurrent.rows /\ AsCapturable(asSql)
  /\ asStatus' = "active" /\ asActivated' = b
  /\ UNCHANGED <<asSql, asLegacy, asRows, asCurrent, asReceipts, asBundles, asGrants, asKept, asCleaned>>

\* authorityRecoveryActivate: the bundle of the current quarantine, and the
\* very rows it restored.
AsActivate(b) ==
  /\ asStatus = "quarantined" /\ b \in asReceipts
  /\ asCurrent # AsNone /\ asCurrent.bundle = b
  /\ asSql = asCurrent.snapshot /\ asRows = asCurrent.rows /\ AsCapturable(asSql)
  /\ asStatus' = "active" /\ asActivated' = b
  /\ UNCHANGED <<asSql, asLegacy, asRows, asCurrent, asReceipts, asBundles, asGrants, asKept, asCleaned>>

\* The Durable Object is evicted: the identity is read from storage again.
AsRestart ==
  /\ asGrants' = asKept
  /\ UNCHANGED <<asSql, asLegacy, asRows, asStatus, asCurrent, asReceipts, asBundles, asKept, asCleaned,
                 asActivated>>

AsNext ==
  \/ \E k \in AsKeys, c \in AsCollections : AsCommand(k, c) \/ AsViewCommand(k, c)
  \/ \E k \in AsKeys :
       \/ AsRunnerProfile(k) \/ AsRunnerComplete(k) \/ AsMcpCommand(k) \/ AsQualificationMirror(k)
       \/ AsRawSourceCommand(k) \/ AsMcpViewCommand(k) \/ AsOwnerReadableProject(k)
  \/ \E w \in AsWorkspaces : AsWorkspaceRepository(w)
  \/ \E b \in AsBundleIds :
       \/ AsExport(b) \/ AsActivate(b)
       \/ \E missing \in {{}, {"runDetails"}, AsAdditive} : AsEarlierExport(b, missing)
       \/ \E cleanup \in BOOLEAN : AsRestore(b, cleanup)
  \/ AsRestart

AsSpec == AsInit /\ [][AsNext]_asVars

-----------------------------------------------------------------------------
(* Properties *)

\* What a step may do to what was accepted: nothing is lost outside of the
\* recovery ceremony, and by the ceremony only once a qualification's clean-up
\* has moved the version back.
AsKeepsAccepted ==
  /\ asStatus' = "active" \/ ~asCleaned' => AsPrefix(AsRead.audit, AsRead'.audit)
  /\ \A w \in AsWorkspaces : asRows'[w] >= asRows[w]
  /\ asGrants' = asKept'

\* What an activation puts in force: the Authority and the custody rows of the
\* bundle it names.
AsPutsInForce(b) ==
  /\ asSql'.version = asBundles[b].snapshot.version
  /\ asSql'.audit = asBundles[b].snapshot.audit /\ asRows' = asBundles[b].rows
  /\ \A c \in AsCollections \ asBundles[b].missing :
       asSql'.entities[c] = asBundles[b].snapshot.entities[c]

\* Recovery loses nothing that was accepted and activates what was restored.
\* Until a clean-up, two snapshots of one version are the same snapshot, so a
\* restore at the current version replaces the rows by themselves, whatever was
\* exported and committed in between (authorityRecoveryRestore compares versions
\* only); custody rows, which move without the version, survive every restore;
\* Grants in memory are the stored ones after every command
\* (authorityViewCommand's rollback); and another bundle of the same version,
\* restored in between, cannot be activated in the name of the first
\* (authorityRecoveryActivate).
AsRecoveryIsExact ==
  [][/\ AsKeepsAccepted
     /\ asStatus = "quarantined" /\ asStatus' = "active" => AsPutsInForce(asActivated')]_asVars

=============================================================================
