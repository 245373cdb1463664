----------------------------- MODULE MirrorSync -----------------------------
(* Two-way synchronization of the mapped refs of a Project with a GitHub     *)
(* repository (MirrorCoordinator in portability/mirror.ts with the           *)
(* GitHubAppProjectionAdapter of portability/github-app.ts).  Nothing        *)
(* serializes two synchronizations: they interleave at every provider call,  *)
(* and others move the refs of the remote and land Changes at any time.      *)
(* The generation of the remote is the digest of its refs, so it is modelled *)
(* by the refs.  Each synchronization has an idempotency key of its own; one *)
(* that repeats a key gets the recorded answer and changes nothing.          *)
EXTENDS Integers, FiniteSets

CONSTANTS
  MsRefs,      \* mapped refs
  MsOids,      \* commits
  MsBase,      \* the commit both sides start from
  MsSyncs,     \* synchronizations
  MsFailures,  \* states a provider failure may leave (classifyProviderState)
  MsMaxMoves,  \* bounds: changes of the remote by others, Landings
  MsMaxLandings,
  MsNone

ASSUME MsAssumption ==
  /\ MsFailures \subseteq {"credential-failed", "lagging", "blocked"}
  /\ MsBase \in MsOids /\ MsNone \notin MsOids
  /\ {MsMaxMoves, MsMaxLandings} \subseteq Nat

VARIABLES
  msRemote,     \* ref -> commit at the remote, or none
  msCanonical,  \* revision and refs of the canonical Project
  msMirror,     \* the RepositoryMirror record
  msSync,       \* synchronization -> its call
  msProposed,   \* <<ref, commit>> with an inbound Change
  msMoves,
  msLanded      \* <<ref, commit>> that were canonical

msVars == <<msRemote, msCanonical, msMirror, msSync, msProposed, msMoves, msLanded>>

MsRefState == [MsRefs -> MsOids \cup {MsNone}]
MsMirrorStates == {"healthy", "lagging", "divergent", "force-pushed", "credential-failed", "blocked"}
MsMirror == [state : MsMirrorStates, revision : 0 .. MsMaxLandings, canonical : MsRefState,
             generation : MsRefState, refs : MsRefState, pending : SUBSET (MsRefs \X MsOids)]
MsChoices == {"none", "remote-as-proposal", "canonical-wins"}

\* known: the refs given to inspect; seen: the refs it answered; todo: refs
\* whose inbound Change is still to be created.
MsCall == [pc : {"idle", "inspect", "inspected", "propose", "push", "reinspect", "done"},
           choice : MsChoices, revision : 0 .. MsMaxLandings, canonical : MsRefState,
           known : MsRefState, seen : MsRefState, rewritten : BOOLEAN, todo : SUBSET MsRefs]

MsTypeOK ==
  /\ msRemote \in MsRefState
  /\ msCanonical \in [revision : 0 .. MsMaxLandings, refs : MsRefState]
  /\ msMirror \in MsMirror /\ msSync \in [MsSyncs -> MsCall]
  /\ msProposed \subseteq MsRefs \X MsOids /\ msLanded \subseteq MsRefs \X MsOids
  /\ msMoves \in 0 .. MsMaxMoves

MsBaseRefs == [r \in MsRefs |-> MsBase]

MsIdle == [pc |-> "idle", choice |-> "none", revision |-> 0, canonical |-> MsBaseRefs,
           known |-> MsBaseRefs, seen |-> MsBaseRefs, rewritten |-> FALSE, todo |-> {}]

MsInit ==
  /\ msRemote = MsBaseRefs
  /\ msCanonical = [revision |-> 0, refs |-> MsBaseRefs]
  /\ msMirror = [state |-> "healthy", revision |-> 0, canonical |-> MsBaseRefs,
                 generation |-> MsBaseRefs, refs |-> MsBaseRefs, pending |-> {}]
  /\ msSync = [s \in MsSyncs |-> MsIdle]
  /\ msProposed = {} /\ msMoves = 0 /\ msLanded = MsRefs \X {MsBase}

-----------------------------------------------------------------------------
(* The surroundings *)

\* Somebody pushes to, rewrites or deletes a ref of the remote.
MsRemoteMoves(r, oid) ==
  /\ msMoves < MsMaxMoves /\ oid # msRemote[r]
  /\ msRemote' = [msRemote EXCEPT ![r] = oid] /\ msMoves' = msMoves + 1
  /\ UNCHANGED <<msCanonical, msMirror, msSync, msProposed, msLanded>>

\* A Landing; an inbound Change may be what lands.
MsLand(r, oid) ==
  /\ msCanonical.revision < MsMaxLandings
  /\ msCanonical' = [revision |-> msCanonical.revision + 1, refs |-> [msCanonical.refs EXCEPT ![r] = oid]]
  /\ msLanded' = msLanded \cup {<<r, oid>>}
  /\ UNCHANGED <<msRemote, msMirror, msSync, msProposed, msMoves>>

-----------------------------------------------------------------------------
(* fail and succeed *)

MsFailMovesRefs(s, state, generation) ==   \* mutant: a refused sync also accepts the remote refs
  /\ msSync' = [msSync EXCEPT ![s] = [MsIdle EXCEPT !.pc = "done"]]
  /\ msMirror' = [msMirror EXCEPT !.state = state, !.generation = generation,
                                  !.refs = generation]

\* fail: the Mirror keeps the refs it last accepted; the generation it saw is
\* recorded when the remote was inspected.
MsFail(s, state, generation) ==
  /\ msSync' = [msSync EXCEPT ![s] = [MsIdle EXCEPT !.pc = "done"]]
  /\ msMirror' = [msMirror EXCEPT !.state = state, !.generation = generation]

MsSucceed(s, state, revision, canonical, refs, pending) ==
  /\ msSync' = [msSync EXCEPT ![s] = [MsIdle EXCEPT !.pc = "done"]]
  /\ msMirror' = [state |-> state, revision |-> revision, canonical |-> canonical,
                  generation |-> refs, refs |-> refs, pending |-> pending]

-----------------------------------------------------------------------------
(* A synchronization *)

MsStart(s, choice) ==
  /\ msSync[s].pc = "idle"
  /\ msSync' = [msSync EXCEPT ![s] = [MsIdle EXCEPT !.pc = "inspect", !.choice = choice,
                  !.revision = msCanonical.revision, !.canonical = msCanonical.refs,
                  !.known = msMirror.refs]]
  /\ UNCHANGED <<msRemote, msCanonical, msMirror, msProposed, msMoves, msLanded>>

\* validateCanonical: a projection that is not verified or not disclosed.
MsInvalid(s) ==
  /\ msSync[s].pc = "idle"
  /\ MsFail(s, "blocked", msMirror.generation)
  /\ UNCHANGED <<msRemote, msCanonical, msProposed, msMoves, msLanded>>

\* inspect: a ref that moved was fast-forwarded, or rewritten (compare); one
\* that is gone counts as a rewrite.
MsInspect(s, rewritten) ==
  LET moved == {r \in MsRefs : msRemote[r] # msSync[s].known[r]} IN
  /\ msSync[s].pc = "inspect"
  /\ (\E r \in moved : msRemote[r] = MsNone) => rewritten
  /\ rewritten => \E r \in moved : msSync[s].known[r] # MsNone
  /\ msSync' = [msSync EXCEPT ![s].pc = "inspected", ![s].seen = msRemote, ![s].rewritten = rewritten]
  /\ UNCHANGED <<msRemote, msCanonical, msMirror, msProposed, msMoves, msLanded>>

MsInspectFails(s, state) ==
  /\ msSync[s].pc = "inspect" /\ state \in MsFailures
  /\ MsFail(s, state, msMirror.generation)
  /\ UNCHANGED <<msRemote, msCanonical, msProposed, msMoves, msLanded>>

\* What the inspected state is, against the record as it is now.
MsRemoteChanged(s) == msSync[s].seen # msMirror.refs \/ msSync[s].seen # msMirror.generation
MsCanonicalChanged(s) ==
  msSync[s].revision # msMirror.revision \/ msSync[s].canonical # msMirror.canonical
MsEqual(s) == msSync[s].canonical = msSync[s].seen

\* The reason to refuse, as the state the Mirror gets, in the order of sync.
MsRefusal(s) ==
  LET c == msSync[s] IN
  CASE msMirror.state \in {"force-pushed", "divergent"} /\ c.choice = "none" -> "blocked"
    [] c.rewritten /\ c.choice = "none" -> "force-pushed"
    [] MsEqual(s) /\ (MsRemoteChanged(s) \/ MsCanonicalChanged(s) \/ msMirror.pending # {}) -> "equal"
    [] msMirror.pending # {} /\ MsCanonicalChanged(s) /\ ~ MsEqual(s) /\ c.choice # "canonical-wins" -> "blocked"
    [] MsRemoteChanged(s) /\ MsCanonicalChanged(s) /\ ~ MsEqual(s) /\ c.choice = "none" -> "divergent"
    [] OTHER -> "none"

MsRefused(s) ==
  /\ msSync[s].pc = "inspected" /\ MsRefusal(s) \notin {"equal", "none"}
  /\ MsFail(s, MsRefusal(s), msSync[s].seen)
  /\ UNCHANGED <<msRemote, msCanonical, msProposed, msMoves, msLanded>>

\* Both sides have the same refs.
MsAgree(s) ==
  /\ msSync[s].pc = "inspected" /\ MsRefusal(s) = "equal"
  /\ MsSucceed(s, "healthy", msSync[s].revision, msSync[s].canonical, msSync[s].seen, {})
  /\ UNCHANGED <<msRemote, msCanonical, msProposed, msMoves, msLanded>>

MsInbound(s) ==
  /\ MsRefusal(s) = "none" /\ msSync[s].choice # "canonical-wins"
  /\ (MsRemoteChanged(s) /\ ~ MsEqual(s)) \/ msSync[s].choice = "remote-as-proposal"

MsOutbound(s) ==
  /\ MsRefusal(s) = "none" /\ ~ MsInbound(s)
  /\ (MsCanonicalChanged(s) /\ ~ MsEqual(s)) \/ msSync[s].choice = "canonical-wins"

\* Neither side moved.
MsQuiet(s) ==
  /\ msSync[s].pc = "inspected" /\ MsRefusal(s) = "none" /\ ~ MsInbound(s) /\ ~ MsOutbound(s)
  /\ MsSucceed(s, "healthy", msSync[s].revision, msSync[s].canonical, msSync[s].seen, msMirror.pending)
  /\ UNCHANGED <<msRemote, msCanonical, msProposed, msMoves, msLanded>>

\* processInbound: the refs the provider reported as moved to a commit.
MsUpdates(s) == {r \in MsRefs : msSync[s].seen[r] # msSync[s].known[r] /\ msSync[s].seen[r] # MsNone}

MsBeginInbound(s) ==
  /\ msSync[s].pc = "inspected" /\ MsInbound(s)
  /\ IF MsUpdates(s) = {}
       THEN MsFail(s, "blocked", msSync[s].seen)
       ELSE /\ msSync' = [msSync EXCEPT ![s].pc = "propose", ![s].todo = MsUpdates(s)]
            /\ UNCHANGED msMirror
  /\ UNCHANGED <<msRemote, msCanonical, msProposed, msMoves, msLanded>>

\* One Change per commit, in the order the provider reported the refs in; a
\* commit that has one is passed over.
MsPropose(s, r) ==
  /\ msSync[s].pc = "propose" /\ r \in msSync[s].todo
  /\ msProposed' = msProposed \cup {<<r, msSync[s].seen[r]>>}
  /\ msSync' = [msSync EXCEPT ![s].todo = @ \ {r}]
  /\ UNCHANGED <<msRemote, msCanonical, msMirror, msMoves, msLanded>>

\* The Change is refused, or comes back with another provenance.
MsProposeFails(s, r, state) ==
  /\ msSync[s].pc = "propose" /\ r \in msSync[s].todo /\ state \in MsFailures
  /\ <<r, msSync[s].seen[r]>> \notin msProposed
  /\ MsFail(s, state, msSync[s].seen)
  /\ UNCHANGED <<msRemote, msCanonical, msProposed, msMoves, msLanded>>

MsEndInbound(s) ==
  /\ msSync[s].pc = "propose" /\ msSync[s].todo = {}
  /\ MsSucceed(s, "lagging", msMirror.revision, msMirror.canonical, msSync[s].seen,
               msMirror.pending \cup {<<r, msSync[s].seen[r]>> : r \in MsUpdates(s)})
  /\ UNCHANGED <<msRemote, msCanonical, msProposed, msMoves, msLanded>>

\* processOutbound.
MsBeginOutbound(s) ==
  /\ msSync[s].pc = "inspected" /\ MsOutbound(s)
  /\ msSync' = [msSync EXCEPT ![s].pc = "push"]
  /\ UNCHANGED <<msRemote, msCanonical, msMirror, msProposed, msMoves, msLanded>>

\* push --atomic --force-with-lease on every mapped ref.
MsPush(s) ==
  /\ msSync[s].pc = "push" /\ msRemote = msSync[s].seen
  /\ msRemote' = msSync[s].canonical
  /\ msSync' = [msSync EXCEPT ![s].pc = "reinspect"]
  /\ UNCHANGED <<msCanonical, msMirror, msProposed, msMoves, msLanded>>

\* The push is refused, its answer is lost, or the refs read after it are not
\* the ones that were pushed.
MsPushFails(s, state) ==
  /\ msSync[s].pc \in {"push", "reinspect"} /\ state \in MsFailures
  /\ MsFail(s, state, msSync[s].seen)
  /\ UNCHANGED <<msRemote, msCanonical, msProposed, msMoves, msLanded>>

MsPushed(s) ==
  /\ msSync[s].pc = "reinspect" /\ msRemote = msSync[s].canonical
  /\ MsSucceed(s, "healthy", msSync[s].revision, msSync[s].canonical, msSync[s].canonical, {})
  /\ UNCHANGED <<msRemote, msCanonical, msProposed, msMoves, msLanded>>

MsNext ==
  \/ \E r \in MsRefs, oid \in MsOids \cup {MsNone} : MsRemoteMoves(r, oid)
  \/ \E r \in MsRefs, oid \in MsOids : MsLand(r, oid)
  \/ \E s \in MsSyncs :
       \/ \E choice \in MsChoices : MsStart(s, choice)
       \/ MsInvalid(s)
       \/ \E rewritten \in BOOLEAN : MsInspect(s, rewritten)
       \/ MsRefused(s) \/ MsAgree(s) \/ MsQuiet(s)
       \/ MsBeginInbound(s) \/ MsEndInbound(s)
       \/ \E r \in MsRefs : MsPropose(s, r) \/ \E state \in MsFailures : MsProposeFails(s, r, state)
       \/ MsBeginOutbound(s) \/ MsPush(s) \/ MsPushed(s)
       \/ \E state \in MsFailures :
            MsInspectFails(s, state) \/ MsPushFails(s, state)

MsSpec == MsInit /\ [][MsNext]_msVars

-----------------------------------------------------------------------------

\* A push that was not told that the canonical side wins replaces a commit of
\* the remote only when that commit has an inbound Change or was canonical: a
\* commit made at the remote is never overwritten unseen, however the
\* synchronizations, the provider's failures and the pushes of others
\* interleave (sync, processOutbound, gitPushArguments).
MsNothingOverwritten ==
  [][\A s \in MsSyncs, r \in MsRefs :
       (/\ msSync[s].pc = "push" /\ msSync'[s].pc = "reinspect"
        /\ msSync[s].choice # "canonical-wins"
        /\ msRemote[r] \notin {MsNone, msRemote'[r]})
       => <<r, msRemote[r]>> \in msProposed \cup msLanded]_msVars
=============================================================================
