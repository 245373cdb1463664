---------------------------- MODULE CanonicalRefs ----------------------------
(***************************************************************************)
(* CanonicalRefReconciler of src/cloudflare/canonical-ref-reconciliation.ts *)
(* bringing the canonical Git refs to the Project Revision that the cohort *)
(* Landing of src/cloudflare/cohort-landing.ts selected, and holding the   *)
(* next Landing back until they are there.                                 *)
(*                                                                         *)
(* Several workers reconcile and land at once.  A worker is suspended      *)
(* whenever it awaits the provider; everything between two awaits is one   *)
(* step.  The provider (FencedCanonicalRefProvider) is external: its step  *)
(* is taken at some moment between call and resumption.  A worker may be   *)
(* lost at any await, and its last request may still arrive afterwards.    *)
(*                                                                         *)
(* Identities that a step only compares (challenges, receipts, bindings)   *)
(* are left out; a record's id is its revision, since begin refuses a      *)
(* second record for one revision.                                         *)
(***************************************************************************)
EXTENDS Naturals

CONSTANTS
  Workers,
  N,              \* Source Spaces, in the order of the bindings
  MaxRevision,    \* bound on Landings
  Snapshot,       \* Snapshot[v][i]: the commit of Source Space i in revision v
  ForeignOids,    \* commits a competing writer moves a ref to
  MaxMoves,       \* bound on competing writes
  MaxLosses,      \* bound on lost workers
  None

Spaces == 1..N
Revisions == 0..MaxRevision

ASSUME ConstantsAssumption ==
  /\ N \in Nat \ {0}
  /\ MaxRevision \in Nat /\ MaxMoves \in Nat /\ MaxLosses \in Nat
  /\ DOMAIN Snapshot = Revisions
  /\ \A v \in Revisions : DOMAIN Snapshot[v] = Spaces

\* No record is None.
ASSUME NoneAssumption ==
  None \notin [revision : Revisions, state : {"pending", "complete"},
               sealed : [Spaces -> Nat \cup {None}]]

VARIABLES
  version,       \* Authority version
  canonical,     \* canonical Project Revision
  epochOf,       \* landed revision -> the version its Landing was committed at
  projection,    \* canonicalRefProjections: [revision, state, sealed] or None
  checkpoints,   \* idempotency keys of save: <<revision, phase, space, generation>>
  ref,           \* provider: space -> [oid, generation, epoch, revision, candidate, sealed]
  worker,        \* suspended calls
  wire,          \* requests of lost workers that may still arrive
  moves, losses

authority == <<version, canonical, epochOf, projection, checkpoints>>
vars == <<authority, ref, worker, wire, moves, losses>>

Idle == [purpose |-> "idle"]

Init ==
  /\ version = 0
  /\ canonical = 0
  /\ epochOf = [v \in Revisions |-> 0]
  /\ projection = None
  /\ checkpoints = {}
  /\ ref = [i \in Spaces |-> [oid |-> Snapshot[0][i], generation |-> 0, epoch |-> 0,
                              revision |-> None, candidate |-> None, sealed |-> FALSE]]
  /\ worker = [w \in Workers |-> Idle]
  /\ wire = {}
  /\ moves = 0 /\ losses = 0

-----------------------------------------------------------------------------
(* Awaited calls.  at is the call, i its Source Space, record the worker's *)
(* copy of the projection, before the observation a request is based on,   *)
(* loaded the version a Landing read.                                      *)

Call(purpose, at, i, record, before, loaded) ==
  [purpose |-> purpose, at |-> at, i |-> i, record |-> record,
   before |-> before, loaded |-> loaded, reply |-> None]

Desired(record, i) == Snapshot[record.revision][i]
Base(record, i) == Snapshot[record.revision - 1][i]
Epoch(record) == epochOf[record.revision]

\* requireRecord: the record of the revision that is canonical now.
Current(p) == p # None /\ p.revision = canonical

Exact(o, record, i) ==
  /\ o.epoch = Epoch(record)
  /\ o.revision = record.revision
  /\ o.candidate = Desired(record, i)
  /\ o.oid = Desired(record, i)

Covered(record) == \A i \in Spaces : record.sealed[i] # None

\* save: refused when the selection has moved on, a no-op when the checkpoint
\* exists, refused when the record is complete; otherwise the worker's copy
\* replaces the record.
Saves(record, key) ==
  /\ canonical = record.revision
  /\ \/ key \in checkpoints
     \/ projection # None /\ projection.revision = record.revision /\ projection.state # "complete"

Saved(record, key) ==
  IF key \in checkpoints
    THEN UNCHANGED <<version, projection, checkpoints>>
    ELSE /\ projection' = record
         /\ version' = version + 1
         /\ checkpoints' = checkpoints \cup {key}

Replayed(record, key) == IF key \in checkpoints THEN projection ELSE record

NextCallWithoutVerify(i, loadedRecord) ==   \* mutant: gives up after the last space
  IF i < N THEN Call("reconcile", "observe", i + 1, loadedRecord, None, 0) ELSE Idle

\* After a Source Space is sealed the record is loaded again: the next space is
\* observed, or all of them are verified (assertSealed).
NextCall(i, loadedRecord) ==
  IF i < N THEN Call("reconcile", "observe", i + 1, loadedRecord, None, 0)
  ELSE IF Covered(loadedRecord) THEN Call("reconcile", "verify", 1, loadedRecord, None, 0)
  ELSE Idle

-----------------------------------------------------------------------------
(* Landing.  The first one needs no reconciliation; a later one verifies   *)
(* the completed projection and commits if the version has not moved.      *)

CommitLanding(base) ==
  /\ base < MaxRevision
  /\ canonical' = base + 1
  /\ version' = version + 1
  /\ epochOf' = [epochOf EXCEPT ![base + 1] = version + 1]
  /\ UNCHANGED <<projection, checkpoints>>

FirstLanding ==
  /\ canonical = 0
  /\ CommitLanding(canonical)
  /\ UNCHANGED <<ref, worker, wire, moves, losses>>

\* assertComplete refuses a record that is not complete; landCohort throws.
BeginLand(w) ==
  /\ worker[w] = Idle
  /\ 0 < canonical /\ canonical < MaxRevision
  /\ Current(projection)
  /\ projection.state = "complete"
  /\ Covered(projection)
  /\ worker' = [worker EXCEPT ![w] = Call("land", "verify", 1, projection, None, version)]
  /\ UNCHANGED <<authority, ref, wire, moves, losses>>

-----------------------------------------------------------------------------
(* reconcile. *)

NewRecordKeepsState ==   \* mutant: the previous record's state is not reset
  [revision |-> canonical, state |-> IF projection = None THEN "pending" ELSE projection.state,
   sealed |-> [i \in Spaces |-> None]]

NewRecord == [revision |-> canonical, state |-> "pending", sealed |-> [i \in Spaces |-> None]]

\* Begins the record of a revision that has none, resumes a pending one, checks a
\* complete one.
BeginReconcile(w) ==
  /\ worker[w] = Idle
  /\ canonical > 0
  /\ \/ /\ ~Current(projection)
        /\ projection' = NewRecord
        /\ version' = version + 1
        /\ checkpoints' = checkpoints \cup {<<canonical, "begin", 0, 0>>}
        /\ worker' = [worker EXCEPT ![w] = Call("reconcile", "observe", 1, NewRecord, None, 0)]
     \/ /\ Current(projection)
        /\ projection.state = "pending"
        /\ worker' = [worker EXCEPT ![w] = Call("reconcile", "observe", 1, projection, None, 0)]
        /\ UNCHANGED <<version, projection, checkpoints>>
     \/ /\ Current(projection)
        /\ projection.state = "complete"
        /\ worker' = [worker EXCEPT ![w] = Call("check", "verify", 1, projection, None, 0)]
        /\ UNCHANGED <<version, projection, checkpoints>>
  /\ UNCHANGED <<canonical, epochOf, ref, wire, moves, losses>>

Replied(w, at) == worker[w] # Idle /\ worker[w].at = at /\ worker[w].reply # None

Fits(o, record, i) ==
  /\ o.epoch <= Epoch(record)
  /\ o.epoch = Epoch(record) => o.revision = record.revision /\ o.candidate = Desired(record, i)
  /\ o.oid \in {Base(record, i), Desired(record, i)}

\* sealed:<space> is saved unless the worker's copy already has that generation;
\* then the record is loaded for the next space (requireRecord).
SaveSealed(w, o) ==
  LET i == worker[w].i
      record == [worker[w].record EXCEPT !.sealed[i] = o.generation]
      key == <<record.revision, "sealed", i, o.generation>>
  IN  IF worker[w].record.sealed[i] = o.generation
      THEN /\ worker' = [worker EXCEPT ![w] = IF Current(projection) THEN NextCall(i, projection) ELSE Idle]
           /\ UNCHANGED <<version, projection, checkpoints>>
      ELSE \/ /\ Saves(record, key)
              /\ Saved(record, key)
              /\ worker' = [worker EXCEPT ![w] = NextCall(i, Replayed(record, key))]
           \/ /\ ~Saves(record, key)
              /\ worker' = [worker EXCEPT ![w] = Idle]
              /\ UNCHANGED <<version, projection, checkpoints>>

AfterObserve(w) ==
  LET call == worker[w]
      o == call.reply
      repair == o.epoch # Epoch(call.record) \/ o.oid # Desired(call.record, call.i)
  IN  /\ Replied(w, "observe")
      /\ \/ /\ Fits(o, call.record, call.i) /\ repair
            /\ worker' = [worker EXCEPT ![w] = Call("reconcile", "repair", call.i, call.record, o, 0)]
            /\ UNCHANGED <<version, projection, checkpoints>>
         \/ /\ Fits(o, call.record, call.i) /\ ~repair /\ ~o.sealed
            /\ worker' = [worker EXCEPT ![w] = Call("reconcile", "seal", call.i, call.record, o, 0)]
            /\ UNCHANGED <<version, projection, checkpoints>>
         \/ /\ Fits(o, call.record, call.i) /\ ~repair /\ o.sealed
            /\ SaveSealed(w, o)
         \/ /\ ~Fits(o, call.record, call.i)
            /\ worker' = [worker EXCEPT ![w] = Idle]
            /\ UNCHANGED <<version, projection, checkpoints>>
      /\ UNCHANGED <<canonical, epochOf, ref, wire, moves, losses>>

\* The repair is saved from the copy loaded before observe and repair were
\* awaited, then the ref is sealed.
AfterRepair(w) ==
  LET call == worker[w]
      o == call.reply
      key == <<call.record.revision, "repaired", call.i, o.generation>>
  IN  /\ Replied(w, "repair")
      /\ \/ /\ Saves(call.record, key)
            /\ Saved(call.record, key)
            /\ worker' = [worker EXCEPT ![w] = Call("reconcile", "seal", call.i, call.record, o, 0)]
         \/ /\ ~Saves(call.record, key)
            /\ worker' = [worker EXCEPT ![w] = Idle]
            /\ UNCHANGED <<version, projection, checkpoints>>
      /\ UNCHANGED <<canonical, epochOf, ref, wire, moves, losses>>

AfterSeal(w) ==
  /\ Replied(w, "seal")
  /\ SaveSealed(w, worker[w].reply)
  /\ UNCHANGED <<canonical, epochOf, ref, wire, moves, losses>>

\* assertSealed, one Source Space: sealed, exact, and of the saved generation.
Verified(o, record, i) ==
  /\ Exact(o, record, i)
  /\ o.sealed
  /\ o.generation = record.sealed[i]

AfterVerify(w) ==
  LET call == worker[w]
      complete == [call.record EXCEPT !.state = "complete"]
      key == <<call.record.revision, "complete", 0, 0>>
      last == call.i = N
  IN  /\ Replied(w, "verify")
      /\ Verified(call.reply, call.record, call.i)
      /\ \/ /\ ~last
            /\ worker' = [worker EXCEPT ![w] =
                 Call(call.purpose, "verify", call.i + 1, call.record, None, call.loaded)]
            /\ UNCHANGED authority
         \/ /\ last /\ call.purpose = "check"
            /\ worker' = [worker EXCEPT ![w] = Idle]
            /\ UNCHANGED authority
         \/ /\ last /\ call.purpose = "reconcile"
            /\ worker' = [worker EXCEPT ![w] = Idle]
            /\ IF Saves(complete, key) THEN Saved(complete, key)
                                       ELSE UNCHANGED <<version, projection, checkpoints>>
            /\ UNCHANGED <<canonical, epochOf>>
      /\ UNCHANGED <<ref, wire, moves, losses>>

VerifyFails(w) ==
  /\ Replied(w, "verify")
  /\ ~Verified(worker[w].reply, worker[w].record, worker[w].i)
  /\ worker' = [worker EXCEPT ![w] = Idle]
  /\ UNCHANGED <<authority, ref, wire, moves, losses>>

\* commitSelection behind the version fence.
UnfencedLand(w) ==   \* mutant: commits whatever was committed in between
  /\ Replied(w, "verify")
  /\ worker[w].purpose = "land" /\ worker[w].i = N
  /\ Verified(worker[w].reply, worker[w].record, N)
  /\ worker' = [worker EXCEPT ![w] = Idle]
  /\ CommitLanding(worker[w].record.revision)
  /\ UNCHANGED <<ref, wire, moves, losses>>

Land(w) ==
  /\ Replied(w, "verify")
  /\ worker[w].purpose = "land" /\ worker[w].i = N
  /\ Verified(worker[w].reply, worker[w].record, N)
  /\ worker' = [worker EXCEPT ![w] = Idle]
  /\ IF version = worker[w].loaded
       THEN CommitLanding(worker[w].record.revision) ELSE UNCHANGED authority
  /\ UNCHANGED <<ref, wire, moves, losses>>

-----------------------------------------------------------------------------
(* The provider (external).  It compares generation and commit, refuses a  *)
(* lower epoch, another selection of the same epoch, and any write to a    *)
(* sealed epoch, and opens a higher epoch only over a sealed one.          *)

Request(call) ==
  [at |-> call.at, i |-> call.i, epoch |-> Epoch(call.record), revision |-> call.record.revision,
   desired |-> Desired(call.record, call.i), generation |-> call.before.generation,
   oid |-> call.before.oid]

Accepts(r, q) ==
  /\ r.generation = q.generation
  /\ CASE q.at = "repair" ->
            /\ r.oid = q.oid
            /\ r.epoch <= q.epoch
            /\ r.epoch = q.epoch => r.revision = q.revision /\ r.candidate = q.desired /\ ~r.sealed
            /\ r.epoch < q.epoch => r.epoch = 0 \/ r.sealed
       [] q.at = "seal" ->
            /\ r.oid = q.desired /\ r.epoch = q.epoch
            /\ r.revision = q.revision /\ r.candidate = q.desired /\ ~r.sealed

Applied(r, q) ==
  IF q.at = "repair"
    THEN [oid |-> q.desired, generation |-> r.generation + 1, epoch |-> q.epoch,
          revision |-> q.revision, candidate |-> q.desired, sealed |-> FALSE]
    ELSE [r EXCEPT !.sealed = TRUE, !.generation = @ + 1]

Awaits(w) == worker[w] # Idle /\ worker[w].reply = None

ProviderObserves(w) ==
  /\ Awaits(w)
  /\ worker[w].at \in {"observe", "verify"}
  /\ worker' = [worker EXCEPT ![w].reply = ref[worker[w].i]]
  /\ UNCHANGED <<authority, ref, wire, moves, losses>>

\* A refused request throws out of reconcile.
ProviderWrites(w) ==
  LET q == Request(worker[w])
  IN  /\ Awaits(w)
      /\ worker[w].at \in {"repair", "seal"}
      /\ IF Accepts(ref[q.i], q)
           THEN /\ ref' = [ref EXCEPT ![q.i] = Applied(@, q)]
                /\ worker' = [worker EXCEPT ![w].reply = Applied(ref[q.i], q)]
           ELSE /\ worker' = [worker EXCEPT ![w] = Idle]
                /\ UNCHANGED ref
      /\ UNCHANGED <<authority, wire, moves, losses>>

\* The request of a lost worker arrives late; nobody hears the answer.
LateWrite(q) ==
  /\ wire' = wire \ {q}
  /\ ref' = IF Accepts(ref[q.i], q) THEN [ref EXCEPT ![q.i] = Applied(@, q)] ELSE ref
  /\ UNCHANGED <<authority, worker, moves, losses>>

\* A competing writer obeys the seal but no epoch.
ExternalMove(i, oid) ==
  /\ moves < MaxMoves
  /\ ~ref[i].sealed
  /\ oid # ref[i].oid
  /\ ref' = [ref EXCEPT ![i].oid = oid, ![i].generation = @ + 1]
  /\ moves' = moves + 1
  /\ UNCHANGED <<authority, worker, wire, losses>>

\* The process exits, or the reply is lost.
Lose(w) ==
  /\ worker[w] # Idle
  /\ losses < MaxLosses
  /\ losses' = losses + 1
  /\ wire' = IF Awaits(w) /\ worker[w].at \in {"repair", "seal"}
               THEN wire \cup {Request(worker[w])} ELSE wire
  /\ worker' = [worker EXCEPT ![w] = Idle]
  /\ UNCHANGED <<authority, ref, moves>>

-----------------------------------------------------------------------------

Resume(w) ==
  \/ AfterObserve(w) \/ AfterRepair(w) \/ AfterSeal(w)
  \/ AfterVerify(w) \/ VerifyFails(w) \/ Land(w)
  \/ ProviderObserves(w) \/ ProviderWrites(w)

Next ==
  \/ FirstLanding
  \/ \E w \in Workers :
       \/ BeginLand(w)
       \/ BeginReconcile(w)
       \/ AfterObserve(w)
       \/ AfterRepair(w)
       \/ AfterSeal(w)
       \/ AfterVerify(w)
       \/ VerifyFails(w)
       \/ Land(w)
       \/ ProviderObserves(w)
       \/ ProviderWrites(w)
       \/ Lose(w)
  \/ \E q \in wire : LateWrite(q)
  \/ \E i \in Spaces, oid \in ForeignOids : ExternalMove(i, oid)

\* Awaited calls are answered and resumed; reconciliation is started again until
\* the record is complete.
Fairness ==
  \A w \in Workers : /\ WF_vars(Resume(w))
                     /\ WF_vars(BeginReconcile(w))

Spec == Init /\ [][Next]_vars /\ Fairness

-----------------------------------------------------------------------------
(* Properties. *)

\* Every collection holds records of its kind, and no generation is ahead of the
\* provider's.
TypeOK ==
  /\ version \in Nat /\ canonical \in Revisions
  /\ epochOf \in [Revisions -> 0..version]
  /\ projection # None => /\ projection.revision \in 1..canonical
                          /\ projection.state \in {"pending", "complete"}
                          /\ \A i \in Spaces : projection.sealed[i] \in {None} \cup 0..ref[i].generation
  /\ \A w \in Workers : worker[w].purpose \in {"idle", "reconcile", "check", "land"}
  /\ \A w \in Workers : worker[w] # Idle => worker[w].i \in Spaces

\* A complete projection of the canonical revision is true of the repositories:
\* every ref is sealed, at the Landing's epoch, on the selected commit, in the
\* generation the record names, whatever workers were lost or came late
\* (reconcile, assertSealed).
CompleteIsSealed ==
  Current(projection) /\ projection.state = "complete" =>
    \A i \in Spaces : /\ ref[i].sealed
                      /\ Exact(ref[i], projection, i)
                      /\ ref[i].generation = projection.sealed[i]

\* A later Landing is committed only while every ref is sealed on the revision it
\* replaces (landCohort, ADR 0002).
LandingWaitsForRefs ==
  [][epochOf' # epochOf /\ canonical > 0 =>
       \A i \in Spaces : /\ ref[i].sealed
                         /\ ref[i].revision = canonical
                         /\ ref[i].oid = Snapshot[canonical][i]]_vars

\* No worker, however late, leaves a ref on an older selection: a ref is at the
\* canonical revision's epoch, or still sealed at its predecessor's.
NoStaleRef ==
  \A i \in Spaces : ref[i].epoch # 0 =>
    \/ ref[i].revision = canonical
    \/ ref[i].revision = canonical - 1 /\ ref[i].sealed

\* The records have their types, a complete projection is true of the
\* repositories, and no ref stays on an older selection.
RefsSound == TypeOK /\ CompleteIsSealed /\ NoStaleRef

Completed == Current(projection) /\ projection.state = "complete"

\* A space was checkpointed as sealed, and the record no longer says so: another
\* worker saved the copy it had loaded before.
Overwritten ==
  Current(projection) /\
    \E i \in Spaces : \E g \in 0..ref[i].generation :
      <<canonical, "sealed", i, g>> \in checkpoints /\ projection.sealed[i] # g

\* A Landing is reconciled in the end, by several workers, some of which are
\* lost: workers that keep starting reconcile bring the record to completion
\* unless a competing writer moves a ref or saved progress is overwritten.
ReconcileCompletes == canonical > 0 ~> Completed \/ Overwritten \/ moves > 0

-----------------------------------------------------------------------------
(* What the documentation says, and the code does not keep. *)

\* "Anyam reconciles ordinary Git refs idempotently" (ADR 0002), and "pending
\* progress and completion use the existing Authority SQLite transaction/version
\* fence" (CanonicalRefReconciler): workers that keep starting reconcile complete
\* the Landing, when nobody else writes.  save commits against the snapshot it
\* has just loaded but writes the older copy of the record, and never again
\* writes a checkpoint that exists.
ReconcileAlwaysCompletes == canonical > 0 ~> Completed \/ moves > 0
=============================================================================
