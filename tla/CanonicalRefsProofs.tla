------------------------- MODULE CanonicalRefsProofs -------------------------
(***************************************************************************)
(* RefsSound and LandingWaitsForRefs, for any number of workers, Source    *)
(* Spaces, Landings, competing writes and lost workers.                    *)
(*                                                                         *)
(* CompleteIsSealed is not inductive: the worker that completes a record   *)
(* has only the observations it made earlier, one Source Space at a time.  *)
(* What a call has verified of the canonical revision must be so still     *)
(* (CallSound).  It is, because a ref that is sealed at the epoch of the   *)
(* canonical revision is written by nobody: not by a competing writer, and *)
(* not by a request that is late, whose epoch is no later (RequestSound,   *)
(* AcceptedIsSound).                                                       *)
(*                                                                         *)
(* A Landing lands on the canonical revision, with its refs sealed,        *)
(* because the version it compares was read with the completed record, and *)
(* every Landing, begin and save raises the version.                       *)
(***************************************************************************)
EXTENDS CanonicalRefs, TLAPS

\* The commits a ref can be on.

Oids == {Snapshot[v][i] : v \in Revisions, i \in Spaces} \cup ForeignOids

\* What the provider shows of a ref.
Observation ==
  [oid : Oids, generation : Nat, epoch : Nat, revision : Revisions \cup {None},
   candidate : Oids \cup {None}, sealed : BOOLEAN]

Projection ==
  [revision : Revisions, state : {"pending", "complete"}, sealed : [Spaces -> Nat \cup {None}]]

Suspended ==
  [purpose : {"reconcile", "check", "land"}, at : {"observe", "repair", "seal", "verify"}, i : Spaces,
   record : Projection, before : Observation \cup {None}, loaded : Nat, reply : Observation \cup {None}]

Requested ==
  [at : {"repair", "seal"}, i : Spaces, epoch : Nat, revision : Revisions, desired : Oids,
   generation : Nat, oid : Oids]

\* The observation o shows Source Space i sealed as the record says.
SealedAs(o, record, i, epochs) ==
  /\ o.sealed = TRUE /\ o.epoch = epochs[record.revision] /\ o.revision = record.revision
  /\ o.candidate = Desired(record, i) /\ o.oid = Desired(record, i)
  /\ o.generation = record.sealed[i]

\* A ref belongs to the canonical revision, or is still sealed for the one
\* before; one that no Landing has touched is none of a later Landing.
RefSound(r, i, c, epochs) ==
  /\ r.epoch = 0 => r.sealed = FALSE /\ c <= 1
  /\ r.epoch # 0 => /\ r.revision \in 1..c /\ r.epoch = epochs[r.revision]
                    /\ r.candidate = Snapshot[r.revision][i]
                    /\ r.sealed = TRUE => r.oid = r.candidate
                    /\ r.revision = c \/ (r.revision = c - 1 /\ r.sealed = TRUE)

\* The generations that a record names are not ahead of the provider's.
Bounded(record, refs) ==
  \A i \in Spaces : record.sealed[i] = None \/ record.sealed[i] <= refs[i].generation

IsComplete(p, c) == p # None /\ p.revision = c /\ p.state = "complete"

ProjectionSound(p, c, epochs, refs) ==
  p # None =>
    /\ p \in Projection /\ p.revision \in 1..c /\ Bounded(p, refs)
    /\ p.revision = c /\ p.state = "complete" => \A i \in Spaces : SealedAs(refs[i], p, i, epochs)

\* A suspended call: what it has verified of the canonical revision is still so,
\* a copy that is complete is of a record that is, and a Landing whose version
\* is current lands on the canonical revision.
CallSound(x, c, epochs, refs, p, v) ==
  /\ x \in Suspended
  /\ x.record.revision \in 1..c /\ Bounded(x.record, refs)
  /\ x.reply # None => x.reply.generation <= refs[x.i].generation
  /\ x.at \in {"repair", "seal"} => x.before \in Observation
  /\ x.at # "verify" => x.purpose = "reconcile"
  /\ x.at = "verify" /\ x.record.revision = c =>
       /\ \A j \in Spaces : j < x.i => SealedAs(refs[j], x.record, j, epochs)
       /\ x.reply # None /\ SealedAs(x.reply, x.record, x.i, epochs) => refs[x.i] = x.reply
  /\ x.record.state = "complete" /\ x.record.revision = c => IsComplete(p, c)
  /\ x.purpose = "land" =>
       /\ x.loaded <= v
       /\ x.loaded = v => x.record.revision = c /\ x.record.state = "complete"

RequestSound(q, c, epochs) ==
  /\ q \in Requested /\ q.revision \in 1..c /\ q.epoch = epochs[q.revision]
  /\ q.desired = Snapshot[q.revision][q.i]

\* Each Landing has a later epoch than the one before.
EpochsRise(c, epochs, v) ==
  /\ epochs[0] = 0 /\ \A u \in 0..c : epochs[u] \in 0..v
  /\ \A u, w \in 0..c : u < w => epochs[u] < epochs[w]

CrInv ==
  /\ version \in Nat /\ canonical \in Revisions /\ epochOf \in [Revisions -> 0..version]
  /\ EpochsRise(canonical, epochOf, version)
  /\ ref \in [Spaces -> Observation] /\ \A i \in Spaces : RefSound(ref[i], i, canonical, epochOf)
  /\ ProjectionSound(projection, canonical, epochOf, ref)
  /\ \A k \in checkpoints : k[1] \in 1..canonical /\
       (k[1] = canonical => projection # None /\ projection.revision = canonical)
  /\ DOMAIN worker = Workers
  /\ \A w \in Workers : worker[w] # Idle => CallSound(worker[w], canonical, epochOf, ref, projection, version)
  /\ \A q \in wire : RequestSound(q, canonical, epochOf)

-----------------------------------------------------------------------------
(* The suspended calls. *)

\* What the invariant says of a suspended call.
LEMMA CallsAre ==
  ASSUME CrInv, NEW w \in Workers, worker[w] # Idle
  PROVE  /\ CallSound(worker[w], canonical, epochOf, ref, projection, version)
         /\ worker[w] \in Suspended /\ worker[w].i \in Spaces /\ worker[w].record \in Projection
         /\ worker[w].record.revision \in 1..canonical /\ worker[w].purpose # "idle"
  BY DEF CrInv, CallSound, Suspended

\* The fields of a new call.
LEMMA CallIs ==
  ASSUME NEW purpose \in {"reconcile", "check", "land"}, NEW at \in {"observe", "repair", "seal", "verify"},
         NEW i \in Spaces, NEW record \in Projection, NEW before \in Observation \cup {None}, NEW loaded \in Nat
  PROVE  LET x == Call(purpose, at, i, record, before, loaded) IN
         /\ x \in Suspended /\ x.purpose = purpose /\ x.at = at /\ x.i = i /\ x.record = record
         /\ x.before = before /\ x.loaded = loaded /\ x.reply = None
  BY DEF Call, Suspended

\* A call of reconcile that does not verify.
LEMMA ReconcileCallSound ==
  ASSUME NEW at \in {"observe", "repair", "seal"}, NEW i \in Spaces, NEW record \in Projection,
         NEW before \in Observation \cup {None}, NEW c, NEW epochs, NEW refs, NEW p, NEW v,
         at # "observe" => before \in Observation,
         record.revision \in 1..c, Bounded(record, refs),
         record.state = "complete" /\ record.revision = c => IsComplete(p, c)
  PROVE  CallSound(Call("reconcile", at, i, record, before, 0), c, epochs, refs, p, v)
  <1> DEFINE x == Call("reconcile", at, i, record, before, 0)
  <1>1. /\ x \in Suspended /\ x.purpose = "reconcile" /\ x.at = at /\ x.i = i /\ x.record = record
        /\ x.before = before /\ x.reply = None
    BY CallIs
  <1> HIDE DEF x
  <1>2. CallSound(x, c, epochs, refs, p, v)
    BY <1>1 DEF CallSound
  <1> QED
    BY <1>2 DEF x

\* A call that begins to verify.
LEMMA VerifyCallSound ==
  ASSUME NEW purpose \in {"reconcile", "check", "land"}, NEW i \in Spaces, NEW record \in Projection,
         NEW loaded \in Nat, NEW c, NEW epochs, NEW refs, NEW p, NEW v,
         record.revision \in 1..c, Bounded(record, refs),
         record.revision = c => \A j \in Spaces : j < i => SealedAs(refs[j], record, j, epochs),
         record.state = "complete" /\ record.revision = c => IsComplete(p, c),
         purpose = "land" => loaded <= v /\ (loaded = v => record.revision = c /\ record.state = "complete")
  PROVE  CallSound(Call(purpose, "verify", i, record, None, loaded), c, epochs, refs, p, v)
  <1> DEFINE x == Call(purpose, "verify", i, record, None, loaded)
  <1>1. /\ x \in Suspended /\ x.purpose = purpose /\ x.at = "verify" /\ x.i = i /\ x.record = record
        /\ x.before = None /\ x.loaded = loaded /\ x.reply = None
    BY CallIs
  <1> HIDE DEF x
  <1>2. CallSound(x, c, epochs, refs, p, v)
    BY <1>1 DEF CallSound
  <1> QED
    BY <1>2 DEF x

\* The call that follows a sealed Source Space.
LEMMA NextCallSound ==
  ASSUME NEW i \in Spaces, NEW record \in Projection, NEW c, NEW epochs, NEW refs, NEW p, NEW v,
         record.revision \in 1..c, Bounded(record, refs),
         record.state = "complete" /\ record.revision = c => IsComplete(p, c)
  PROVE  NextCall(i, record) # Idle => CallSound(NextCall(i, record), c, epochs, refs, p, v)
  <1>1. CASE i < N
    <2>1. i + 1 \in Spaces
      BY <1>1, ConstantsAssumption DEF Spaces
    <2>2. NextCall(i, record) = Call("reconcile", "observe", i + 1, record, None, 0)
      BY <1>1 DEF NextCall
    <2> QED
      BY <2>1, <2>2, ReconcileCallSound
  <1>2. CASE ~(i < N) /\ Covered(record)
    <2>1. 1 \in Spaces /\ \A j \in Spaces : ~(j < 1)
      BY ConstantsAssumption DEF Spaces
    <2>2. NextCall(i, record) = Call("reconcile", "verify", 1, record, None, 0)
      BY <1>2 DEF NextCall
    <2> QED
      BY <2>1, <2>2, VerifyCallSound
  <1>3. CASE ~(i < N) /\ ~Covered(record)
    BY <1>3 DEF NextCall
  <1> QED
    BY <1>1, <1>2, <1>3

-----------------------------------------------------------------------------
(* The ways the state moves. *)

\* Only one call moves.
LEMMA WorkerMoves ==
  ASSUME CrInv, NEW w \in Workers, NEW x, worker' = [worker EXCEPT ![w] = x],
         x # Idle => CallSound(x, canonical, epochOf, ref, projection, version),
         \A q \in wire' : RequestSound(q, canonical, epochOf),
         UNCHANGED <<version, canonical, epochOf, projection, checkpoints, ref>>
  PROVE  CrInv'
  <1>1. DOMAIN worker' = Workers /\ \A u \in Workers : worker'[u] = IF u = w THEN x ELSE worker[u]
    BY DEF CrInv
  <1>2. \A u \in Workers : worker'[u] # Idle => CallSound(worker'[u], canonical, epochOf, ref, projection, version)
    BY <1>1 DEF CrInv
  <1> QED
    BY <1>1, <1>2 DEF CrInv

\* begin and save: a record that is not complete is replaced.
LEMMA AuthoritySaves ==
  ASSUME CrInv, NEW w \in Workers, NEW x, NEW p \in Projection, NEW key,
         ~IsComplete(projection, canonical), p.revision = canonical, canonical \in 1..canonical, Bounded(p, ref),
         p.state = "complete" => \A i \in Spaces : SealedAs(ref[i], p, i, epochOf), key[1] = canonical,
         x # Idle => CallSound(x, canonical, epochOf, ref, p, version + 1),
         projection' = p, version' = version + 1, checkpoints' = checkpoints \cup {key},
         worker' = [worker EXCEPT ![w] = x], UNCHANGED <<canonical, epochOf, ref, wire>>
  PROVE  CrInv'
  <1>1. version' \in Nat /\ epochOf' \in [Revisions -> 0..version'] /\ EpochsRise(canonical, epochOf, version')
    <2>1. version \in Nat /\ epochOf \in [Revisions -> 0..version] /\ EpochsRise(canonical, epochOf, version)
      BY DEF CrInv
    <2>2. 0..version \subseteq 0..(version + 1) /\ version + 1 \in Nat
      BY <2>1
    <2>3. EpochsRise(canonical, epochOf, version + 1)
      BY <2>1, <2>2 DEF EpochsRise
    <2>4. epochOf \in [Revisions -> 0..(version + 1)]
      BY <2>1, <2>2
    <2> QED
      BY <2>2, <2>3, <2>4
  <1>2. p # None
    BY NoneAssumption DEF Projection
  <1>3. ProjectionSound(p, canonical, epochOf, ref)
    BY DEF ProjectionSound
  <1>4. \A k \in checkpoints' : k[1] \in 1..canonical /\ (k[1] = canonical => p # None /\ p.revision = canonical)
    BY <1>2 DEF CrInv
  <1>5. DOMAIN worker' = Workers /\ \A u \in Workers : worker'[u] = IF u = w THEN x ELSE worker[u]
    BY DEF CrInv
  <1>6. ASSUME NEW u \in Workers, worker[u] # Idle
        PROVE  CallSound(worker[u], canonical, epochOf, ref, p, version + 1)
    <2>1. CallSound(worker[u], canonical, epochOf, ref, projection, version) /\ version \in Nat
      BY <1>6 DEF CrInv
    <2>2. worker[u].loaded \in Nat
      BY <2>1 DEF CallSound, Suspended
    <2> QED
      BY <2>1, <2>2 DEF CallSound
  <1>7. \A u \in Workers : worker'[u] # Idle => CallSound(worker'[u], canonical, epochOf, ref, p, version + 1)
    BY <1>5, <1>6
  <1> QED
    BY <1>1, <1>3, <1>4, <1>5, <1>7 DEF CrInv

\* A ref that is not sealed for the canonical revision moves: what the calls have
\* verified is of other refs.
LEMMA CallsKeep ==
  ASSUME CrInv, NEW i \in Spaces, NEW r \in Observation, ref[i].generation <= r.generation,
         ~(ref[i].sealed = TRUE /\ ref[i].epoch # 0 /\ ref[i].revision = canonical),
         NEW refs, refs = [ref EXCEPT ![i] = r]
  PROVE  /\ \A w \in Workers : worker[w] # Idle =>
              CallSound(worker[w], canonical, epochOf, refs, projection, version)
         /\ ProjectionSound(projection, canonical, epochOf, refs)
  <1>1. /\ \A j \in Spaces : refs[j] = IF j = i THEN r ELSE ref[j]
        /\ \A j \in Spaces : ref[j].generation \in Nat /\ refs[j].generation \in Nat /\ ref[j].generation <= refs[j].generation
    <2>1. ref \in [Spaces -> Observation]
      BY DEF CrInv
    <2>2. \A o \in Observation : o.generation \in Nat
      BY DEF Observation
    <2> QED
      BY <2>1, <2>2
  <1>2. \A record \in Projection : Bounded(record, ref) => Bounded(record, refs)
    <2>1. \A record \in Projection, j \in Spaces : record.sealed[j] = None \/ record.sealed[j] \in Nat
      BY DEF Projection
    <2> QED
      BY <1>1, <2>1 DEF Bounded
  <1>3. canonical \in 1..canonical => epochOf[canonical] # 0
    BY DEF CrInv, EpochsRise
  <1>4. ASSUME NEW record \in Projection, record.revision = canonical, canonical \in 1..canonical,
               NEW j \in Spaces, SealedAs(ref[j], record, j, epochOf)
        PROVE  j # i /\ refs[j] = ref[j]
    BY <1>1, <1>3, <1>4 DEF SealedAs
  <1>5. ASSUME NEW w \in Workers, worker[w] # Idle
        PROVE  CallSound(worker[w], canonical, epochOf, refs, projection, version)
    <2> DEFINE x == worker[w]
    <2>1. /\ CallSound(x, canonical, epochOf, ref, projection, version) /\ x \in Suspended
          /\ x.i \in Spaces /\ x.record \in Projection
      BY <1>5, CallsAre
    <2> HIDE DEF x
    <2>2. x.reply # None => x.reply.generation <= refs[x.i].generation
      <3>1. x.reply # None => x.reply.generation \in Nat
        BY <2>1 DEF Suspended, Observation
      <3> QED
        BY <1>1, <2>1, <3>1 DEF CallSound
    <2>3. ASSUME x.at = "verify", x.record.revision = canonical
          PROVE  /\ \A j \in Spaces : j < x.i => SealedAs(refs[j], x.record, j, epochOf)
                 /\ x.reply # None /\ SealedAs(x.reply, x.record, x.i, epochOf) => refs[x.i] = x.reply
      <3>1. canonical \in 1..canonical
        BY <2>1, <2>3 DEF CallSound
      <3>2. \A j \in Spaces : j < x.i => SealedAs(ref[j], x.record, j, epochOf)
        BY <2>1, <2>3 DEF CallSound
      <3>3. x.reply # None /\ SealedAs(x.reply, x.record, x.i, epochOf) => ref[x.i] = x.reply
        BY <2>1, <2>3 DEF CallSound
      <3> QED
        BY <1>4, <2>1, <2>3, <3>1, <3>2, <3>3
    <2>4. CallSound(x, canonical, epochOf, refs, projection, version)
      BY <1>2, <2>1, <2>2, <2>3 DEF CallSound
    <2> QED
      BY <2>4 DEF x
  <1>6. ProjectionSound(projection, canonical, epochOf, refs)
    BY <1>2, <1>4 DEF CrInv, ProjectionSound
  <1> QED
    BY <1>5, <1>6

\* The provider changes one ref, of a Source Space not sealed for the canonical revision.
LEMMA RefWritten ==
  ASSUME CrInv, NEW i \in Spaces, NEW r \in Observation, RefSound(r, i, canonical, epochOf),
         ref[i].generation <= r.generation,
         ~(ref[i].sealed = TRUE /\ ref[i].epoch # 0 /\ ref[i].revision = canonical),
         ref' = [ref EXCEPT ![i] = r], UNCHANGED authority, wire' \subseteq wire, DOMAIN worker' = Workers,
         \A w \in Workers : worker'[w] \in {Idle, worker[w]} \/
            CallSound(worker'[w], canonical, epochOf, ref', projection, version)
  PROVE  CrInv'
  <1>1. /\ \A w \in Workers : worker[w] # Idle =>
              CallSound(worker[w], canonical, epochOf, ref', projection, version)
        /\ ProjectionSound(projection, canonical, epochOf, ref')
    BY CallsKeep
  <1>2. UNCHANGED <<version, canonical, epochOf, projection, checkpoints>>
    BY DEF authority
  <1>3. ref' \in [Spaces -> Observation] /\ \A j \in Spaces : RefSound(ref'[j], j, canonical, epochOf)
    BY DEF CrInv
  <1>4. \A w \in Workers : worker'[w] # Idle =>
           CallSound(worker'[w], canonical, epochOf, ref', projection, version)
    BY <1>1
  <1> QED
    BY <1>1, <1>2, <1>3, <1>4 DEF CrInv

\* The next Landing: every ref is sealed for the revision it replaces.
LEMMA LandingMoves ==
  ASSUME CrInv, canonical < MaxRevision,
         canonical # 0 => \A i \in Spaces : ref[i].sealed = TRUE /\ ref[i].revision = canonical,
         canonical' = canonical + 1, version' = version + 1,
         epochOf' = [epochOf EXCEPT ![canonical + 1] = version + 1],
         UNCHANGED <<projection, checkpoints, ref, wire>>, DOMAIN worker' = Workers,
         \A w \in Workers : worker'[w] \in {Idle, worker[w]}
  PROVE  CrInv'
  <1> DEFINE c == canonical
  <1>1. /\ c \in Nat /\ version \in Nat /\ c + 1 \in Revisions /\ 1..c \subseteq 1..(c + 1)
        /\ epochOf \in [Revisions -> 0..version]
        /\ EpochsRise(c, epochOf, version) /\ 0..c \subseteq Revisions
    BY ConstantsAssumption DEF CrInv, Revisions
  <1>2. /\ version' \in Nat /\ canonical' \in Revisions /\ epochOf' \in [Revisions -> 0..version']
        /\ \A u \in 0..c : epochOf'[u] = epochOf[u]
        /\ epochOf'[c + 1] = version + 1
    <2>1. 0..version \subseteq 0..(version + 1) /\ version + 1 \in 0..(version + 1)
      BY <1>1
    <2>2. \A u \in 0..c : u # c + 1 /\ u \in Revisions
      BY <1>1
    <2> QED
      BY <1>1, <2>1, <2>2
  <1>3. EpochsRise(canonical', epochOf', version')
    <2>1. \A u \in 0..(c + 1) : u \in 0..c \/ u = c + 1
      BY <1>1
    <2>2. \A u \in 0..(c + 1) : epochOf'[u] \in 0..(version + 1)
      BY <1>1, <1>2, <2>1 DEF EpochsRise
    <2>3. \A u \in 0..c : epochOf[u] < version + 1
      BY <1>1 DEF EpochsRise
    <2>4. \A u, w \in 0..(c + 1) : u < w => u \in 0..c
      BY <1>1
    <2>5. \A u, w \in 0..(c + 1) : u < w => epochOf'[u] < epochOf'[w]
      BY <1>1, <1>2, <2>1, <2>3, <2>4 DEF EpochsRise
    <2>6. epochOf'[0] = 0
      BY <1>1, <1>2 DEF EpochsRise
    <2> QED
      BY <2>2, <2>5, <2>6
         DEF EpochsRise
  <1>4. \A i \in Spaces : RefSound(ref[i], i, c + 1, epochOf')
    <2> SUFFICES ASSUME NEW i \in Spaces PROVE RefSound(ref[i], i, c + 1, epochOf')
      OBVIOUS
    <2>1. RefSound(ref[i], i, c, epochOf) /\ ref[i] \in Observation
      BY DEF CrInv
    <2>2. CASE c = 0
      BY <2>1, <2>2 DEF RefSound
    <2>3. CASE c # 0
      <3>1. ref[i].sealed = TRUE /\ ref[i].revision = c
        BY <2>3
      <3>2. ref[i].epoch # 0 /\ ref[i].revision \in 0..c /\ ref[i].revision \in 1..(c + 1) /\ c = (c + 1) - 1
        BY <1>1, <2>1, <3>1 DEF RefSound
      <3> QED
        BY <1>2, <2>1, <3>1, <3>2 DEF RefSound
    <2> QED
      BY <2>2, <2>3
  <1>5. ProjectionSound(projection, c + 1, epochOf', ref)
    <2>1. ProjectionSound(projection, c, epochOf, ref)
      BY DEF CrInv
    <2>2. \A u \in 1..c : u # c + 1
      BY <1>1
    <2> QED
      BY <1>1, <2>1, <2>2 DEF ProjectionSound
  <1>6. \A k \in checkpoints : k[1] \in 1..(c + 1) /\ k[1] # c + 1
    <2>1. \A u \in 1..c : u # c + 1
      BY <1>1
    <2> QED
      BY <1>1, <2>1 DEF CrInv
  <1>7. ASSUME NEW w \in Workers, worker[w] # Idle
        PROVE  CallSound(worker[w], c + 1, epochOf', ref, projection, version + 1)
    <2> DEFINE x == worker[w]
    <2>1. CallSound(x, c, epochOf, ref, projection, version)
      BY <1>7, CallsAre
    <2> HIDE DEF x
    <2>2. x.record.revision \in 1..(c + 1) /\ x.record.revision # c + 1
      BY <1>1, <2>1 DEF CallSound
    <2>3. x.loaded \in Nat
      BY <2>1 DEF CallSound, Suspended
    <2>4. x.purpose = "land" => x.loaded <= version + 1 /\ x.loaded # version + 1
      BY <1>1, <2>1, <2>3 DEF CallSound
    <2>5. CallSound(x, c + 1, epochOf', ref, projection, version + 1)
      BY <2>1, <2>2, <2>4 DEF CallSound
    <2> QED
      BY <2>5 DEF x
  <1>8. \A w \in Workers : worker'[w] # Idle => CallSound(worker'[w], c + 1, epochOf', ref, projection, version + 1)
    BY <1>7
  <1>9. \A q \in wire : RequestSound(q, c + 1, epochOf')
    <2>1. \A q \in wire : RequestSound(q, c, epochOf)
      BY DEF CrInv
    <2>2. \A u \in 1..c : u \in 0..c
      BY <1>1
    <2> QED
      BY <1>1, <1>2, <2>1, <2>2 DEF RequestSound
  <1> QED
    BY <1>2, <1>3, <1>4, <1>5, <1>6, <1>8, <1>9 DEF CrInv

-----------------------------------------------------------------------------
(* The provider. *)

\* The commits that the Landings select.
LEMMA OidsAre == \A v \in Revisions, i \in Spaces : Snapshot[v][i] \in Oids
  BY DEF Oids

\* What a suspended write asks for.
LEMMA RequestIs ==
  ASSUME CrInv, NEW w \in Workers, worker[w] # Idle, worker[w].at \in {"repair", "seal"}
  PROVE  RequestSound(Request(worker[w]), canonical, epochOf) /\ Request(worker[w]).i = worker[w].i
  <1> DEFINE x == worker[w]
             q == Request(x)
  <1>1. /\ x.i \in Spaces /\ x.record \in Projection /\ x.record.revision \in 1..canonical
        /\ x.before \in Observation
    BY CallsAre DEF CallSound
  <1>2. x.before.generation \in Nat /\ x.before.oid \in Oids /\ x.record.revision \in Revisions
    BY <1>1 DEF Observation, Projection
  <1>3. epochOf[x.record.revision] \in Nat
    BY <1>2 DEF CrInv
  <1>4. q = [at |-> x.at, i |-> x.i, epoch |-> epochOf[x.record.revision], revision |-> x.record.revision,
             desired |-> Snapshot[x.record.revision][x.i], generation |-> x.before.generation,
             oid |-> x.before.oid]
    BY DEF Request, Epoch, Desired
  <1>5. Snapshot[x.record.revision][x.i] \in Oids
    BY <1>1, <1>2, OidsAre
  <1> HIDE DEF q
  <1>6. q \in Requested
    BY <1>1, <1>2, <1>3, <1>4, <1>5 DEF Requested
  <1> QED
    BY <1>1, <1>4, <1>6 DEF RequestSound, q

\* A request that is accepted, however late, is one for the canonical revision,
\* and the ref was not sealed for that yet.
LEMMA AcceptedIsSound ==
  ASSUME CrInv, NEW q, RequestSound(q, canonical, epochOf), Accepts(ref[q.i], q)
  PROVE  /\ Applied(ref[q.i], q) \in Observation
         /\ RefSound(Applied(ref[q.i], q), q.i, canonical, epochOf)
         /\ ref[q.i].generation <= Applied(ref[q.i], q).generation
         /\ ~(ref[q.i].sealed = TRUE /\ ref[q.i].epoch # 0 /\ ref[q.i].revision = canonical)
  <1> DEFINE r == ref[q.i]
             c == canonical
             e == epochOf
             a == Applied(r, q)
  <1>1. /\ q \in Requested /\ q.revision \in 1..c /\ q.epoch = e[q.revision]
        /\ q.desired = Snapshot[q.revision][q.i] /\ q.i \in Spaces
    BY DEF RequestSound, Requested
  <1>2. r \in Observation /\ RefSound(r, q.i, c, e)
    BY <1>1 DEF CrInv
  <1>3. /\ c \in Nat /\ \A u \in 1..c : u \in 0..c /\ e[u] \in Nat /\ e[u] # 0
        /\ \A u, v \in 1..c : e[u] < e[v] => u < v
        /\ \A u, v \in 1..c : e[u] = e[v] => u = v
    <2>1. /\ c \in Nat /\ e[0] = 0 /\ version \in Nat /\ (\A u \in 0..c : e[u] \in 0..version)
          /\ \A u, v \in 0..c : u < v => e[u] < e[v]
      BY DEF CrInv, EpochsRise, Revisions
    <2>2. \A u \in 1..c : u \in 0..c /\ e[u] \in Nat /\ 0 < u /\ 0 \in 0..c /\ u \in Nat
      BY <2>1
    <2>3. \A u \in 1..c : e[u] # 0
      BY <2>1, <2>2
    <2>4. \A u, v \in 1..c : e[u] <= e[v] => ~(v < u)
      BY <2>1, <2>2
    <2>5. \A u, v \in 1..c : e[u] = e[v] => u = v
      BY <2>2, <2>4
    <2> QED
      BY <2>1, <2>2, <2>3, <2>4, <2>5
  <1>4. r.generation \in Nat /\ r.epoch \in Nat /\ r.sealed \in BOOLEAN /\ q.epoch \in Nat
    BY <1>1, <1>2 DEF Observation, Requested
  <1> HIDE DEF r
  <1>5. CASE q.at = "repair"
    <2>1. /\ r.epoch <= q.epoch
          /\ r.epoch = q.epoch => r.revision = q.revision /\ r.sealed = FALSE
          /\ r.epoch < q.epoch => r.epoch = 0 \/ r.sealed = TRUE
      BY <1>4, <1>5 DEF Accepts, r
    <2>2. a = [oid |-> q.desired, generation |-> r.generation + 1, epoch |-> q.epoch,
               revision |-> q.revision, candidate |-> q.desired, sealed |-> FALSE]
      BY <1>5 DEF Applied
    <2>3. q.revision = c /\ ~(r.sealed = TRUE /\ r.epoch # 0 /\ r.revision = c)
      <3>1. CASE r.epoch = 0
        BY <1>1, <1>2, <1>3, <3>1 DEF RefSound
      <3>2. CASE r.epoch # 0 /\ r.epoch = q.epoch
        BY <1>2, <2>1, <3>2 DEF RefSound
      <3>3. CASE r.epoch # 0 /\ r.epoch < q.epoch
        <4>1. r.revision \in 1..c /\ r.epoch = e[r.revision] /\ r.revision \in {c, c - 1}
          BY <1>2, <3>3 DEF RefSound
        <4>2. r.revision < q.revision
          BY <1>1, <1>3, <3>3, <4>1
        <4> QED
          BY <1>1, <1>3, <4>1, <4>2
      <3>4. r.epoch = 0 \/ (r.epoch # 0 /\ r.epoch = q.epoch) \/ (r.epoch # 0 /\ r.epoch < q.epoch)
        BY <1>4, <2>1
      <3> QED
        BY <3>1, <3>2, <3>3, <3>4
    <2>4. q.epoch # 0 /\ q.revision \in Revisions /\ q.desired \in Oids /\ r.generation + 1 \in Nat
      BY <1>1, <1>3, <1>4 DEF Requested
    <2>5. /\ a \in Observation /\ a.epoch = q.epoch /\ a.revision = q.revision /\ a.candidate = q.desired
          /\ a.sealed = FALSE /\ a.generation = r.generation + 1
      BY <1>4, <2>2, <2>4 DEF Observation
    <2> HIDE DEF a
    <2>6. RefSound(a, q.i, c, e)
      BY <1>1, <2>3, <2>4, <2>5 DEF RefSound
    <2> QED
      BY <1>4, <2>3, <2>5, <2>6 DEF a, r
  <1>6. CASE q.at = "seal"
    <2>1. /\ r.oid = q.desired /\ r.epoch = q.epoch /\ r.revision = q.revision /\ r.candidate = q.desired
          /\ r.sealed = FALSE
      BY <1>4, <1>6 DEF Accepts, r
    <2>2. r.epoch # 0 /\ r.revision = c
      BY <1>1, <1>2, <1>3, <2>1 DEF RefSound
    <2> DEFINE g == r.generation + 1
               b == [r EXCEPT !.sealed = TRUE]
    <2>3. a = [b EXCEPT !.generation = g]
      BY <1>2, <1>6 DEF Applied, Observation
    <2>4. g \in Nat
      BY <1>4
    <2> HIDE DEF g
    <2>5. /\ b \in Observation /\ b.epoch = r.epoch /\ b.revision = r.revision /\ b.candidate = r.candidate
          /\ b.sealed = TRUE /\ b.oid = r.oid
      BY <1>2 DEF Observation
    <2> HIDE DEF a, b
    <2>6. /\ a \in Observation /\ a.epoch = r.epoch /\ a.revision = r.revision /\ a.candidate = r.candidate
          /\ a.sealed = TRUE /\ a.generation = g /\ a.oid = r.oid
      BY <2>3, <2>5, <2>4 DEF Observation
    <2>7. RefSound(a, q.i, c, e)
      BY <1>1, <2>1, <2>2, <2>6 DEF RefSound
    <2> QED
      BY <1>4, <2>1, <2>6, <2>7 DEF a, r, g
  <1> QED
    BY <1>1, <1>5, <1>6 DEF Requested

\* observe and the reads of assertSealed
LEMMA ProviderObservesInv ==
  ASSUME CrInv, NEW w \in Workers, ProviderObserves(w)
  PROVE  CrInv'
  <1> DEFINE x == worker[w]
             o == ref[x.i]
             y == [x EXCEPT !.reply = o]
  <1>1. /\ x # Idle /\ x.at \in {"observe", "verify"} /\ worker' = [worker EXCEPT ![w].reply = o]
        /\ UNCHANGED <<authority, ref, wire>>
    BY DEF ProviderObserves, Awaits
  <1>2. worker' = [worker EXCEPT ![w] = y]
    BY <1>1
  <1>3. CallSound(x, canonical, epochOf, ref, projection, version) /\ x \in Suspended /\ x.i \in Spaces
    BY <1>1, CallsAre
  <1>4. o \in Observation
    BY <1>3 DEF CrInv
  <1>5. o.generation <= o.generation
    BY <1>4 DEF Observation
  <1> HIDE DEF x
  <1>6. /\ y \in Suspended /\ y.i = x.i /\ y.at = x.at /\ y.purpose = x.purpose /\ y.record = x.record
        /\ y.loaded = x.loaded /\ y.reply = o /\ y.before = x.before
    BY <1>3, <1>4 DEF Suspended
  <1> HIDE DEF y
  <1>7. CallSound(y, canonical, epochOf, ref, projection, version)
    BY <1>3, <1>5, <1>6 DEF CallSound
  <1>8. \A q \in wire' : RequestSound(q, canonical, epochOf)
    BY <1>1 DEF CrInv
  <1> QED
    BY <1>1, <1>2, <1>7, <1>8, WorkerMoves DEF authority

\* advance and seal, answered
LEMMA ProviderWritesInv ==
  ASSUME CrInv, NEW w \in Workers, ProviderWrites(w)
  PROVE  CrInv'
  <1> DEFINE x == worker[w]
             q == Request(x)
             a == Applied(ref[q.i], q)
             y == [x EXCEPT !.reply = a]
  <1>1. x # Idle /\ x.at \in {"repair", "seal"} /\ UNCHANGED <<authority, wire>>
    BY DEF ProviderWrites, Awaits
  <1>2. CallSound(x, canonical, epochOf, ref, projection, version) /\ x \in Suspended /\ x.i \in Spaces
    BY <1>1, CallsAre
  <1>3. RequestSound(q, canonical, epochOf) /\ q.i = x.i
    BY <1>1, RequestIs
  <1>4. CASE Accepts(ref[q.i], q)
    <2>1. ref' = [ref EXCEPT ![q.i] = a] /\ worker' = [worker EXCEPT ![w].reply = a]
      BY <1>4 DEF ProviderWrites
    <2>2. /\ a \in Observation /\ RefSound(a, q.i, canonical, epochOf) /\ ref[q.i].generation <= a.generation
          /\ ~(ref[q.i].sealed = TRUE /\ ref[q.i].epoch # 0 /\ ref[q.i].revision = canonical)
      BY <1>3, <1>4, AcceptedIsSound
    <2>3. worker' = [worker EXCEPT ![w] = y]
      BY <2>1
    <2> HIDE DEF a, q
    <2>4. ref'[x.i] = a /\ a.generation <= a.generation
      BY <1>2, <1>3, <2>1, <2>2 DEF CrInv, Observation
    <2>5. CallSound(x, canonical, epochOf, ref', projection, version)
      BY <1>1, <1>2, <1>3, <2>1, <2>2, CallsKeep
    <2> HIDE DEF x
    <2>6. /\ y \in Suspended /\ y.i = x.i /\ y.at = x.at /\ y.purpose = x.purpose /\ y.record = x.record
          /\ y.loaded = x.loaded /\ y.reply = a /\ y.before = x.before
      BY <1>2, <2>2 DEF Suspended
    <2> HIDE DEF y
    <2>7. CallSound(y, canonical, epochOf, ref', projection, version)
      BY <1>1, <2>4, <2>5, <2>6 DEF CallSound
    <2>8. /\ DOMAIN worker' = Workers
          /\ \A u \in Workers : worker'[u] \in {Idle, worker[u]} \/
               CallSound(worker'[u], canonical, epochOf, ref', projection, version)
      BY <2>3, <2>7 DEF CrInv
    <2>9. q.i \in Spaces /\ wire' \subseteq wire
      BY <1>1, <1>2, <1>3
    <2> QED
      BY <1>1, <2>1, <2>2, <2>8, <2>9, RefWritten
  <1>5. CASE ~Accepts(ref[q.i], q)
    <2>1. worker' = [worker EXCEPT ![w] = Idle] /\ UNCHANGED ref
      BY <1>5 DEF ProviderWrites
    <2>2. \A z \in wire' : RequestSound(z, canonical, epochOf)
      BY <1>1 DEF CrInv
    <2> QED
      BY <1>1, <2>1, <2>2, WorkerMoves DEF authority
  <1> QED
    BY <1>4, <1>5

\* A request that arrives after its worker was lost
LEMMA LateWriteInv ==
  ASSUME CrInv, NEW q \in wire, LateWrite(q)
  PROVE  CrInv'
  <1> DEFINE a == Applied(ref[q.i], q)
  <1>1. RequestSound(q, canonical, epochOf) /\ q.i \in Spaces
    BY DEF CrInv, RequestSound, Requested
  <1>2. wire' \subseteq wire /\ UNCHANGED <<authority, worker>>
    BY DEF LateWrite
  <1>3. CASE Accepts(ref[q.i], q)
    <2>1. ref' = [ref EXCEPT ![q.i] = a]
      BY <1>3 DEF LateWrite
    <2>2. /\ a \in Observation /\ RefSound(a, q.i, canonical, epochOf) /\ ref[q.i].generation <= a.generation
          /\ ~(ref[q.i].sealed = TRUE /\ ref[q.i].epoch # 0 /\ ref[q.i].revision = canonical)
      BY <1>1, <1>3, AcceptedIsSound
    <2> HIDE DEF a
    <2>3. DOMAIN worker' = Workers /\ \A u \in Workers : worker'[u] \in {Idle, worker[u]}
      BY <1>2 DEF CrInv
    <2> QED
      BY <1>1, <1>2, <2>1, <2>2, <2>3, RefWritten
  <1>4. CASE ~Accepts(ref[q.i], q)
    <2>1. UNCHANGED <<version, canonical, epochOf, projection, checkpoints, ref, worker>>
      BY <1>2, <1>4 DEF LateWrite, authority
    <2> QED
      BY <1>2, <2>1 DEF CrInv
  <1> QED
    BY <1>3, <1>4

\* A competing writer
LEMMA ExternalMoveInv ==
  ASSUME CrInv, NEW i \in Spaces, NEW oid \in ForeignOids, ExternalMove(i, oid)
  PROVE  CrInv'
  <1> DEFINE r == ref[i]
             g == r.generation + 1
             a == [r EXCEPT !.oid = oid, !.generation = g]
  <1>1. r \in Observation /\ RefSound(r, i, canonical, epochOf) /\ r.generation \in Nat /\ r.sealed \in BOOLEAN
    BY DEF CrInv, Observation
  <1>2. r.sealed = FALSE /\ UNCHANGED <<authority, worker, wire>>
    BY <1>1 DEF ExternalMove
  <1>3. ref' = [ref EXCEPT ![i] = a]
    BY DEF ExternalMove
  <1>4. g \in Nat /\ r.generation <= g
    BY <1>1
  <1> HIDE DEF r, g
  <1>5. /\ a \in Observation /\ a.generation = g /\ a.epoch = r.epoch /\ a.revision = r.revision
        /\ a.candidate = r.candidate /\ a.sealed = r.sealed
    <2> DEFINE b == [r EXCEPT !.oid = oid]
    <2>1. oid \in Oids
      BY DEF Oids
    <2>2. a = [b EXCEPT !.generation = g]
      BY <1>1 DEF Observation
    <2>3. /\ b \in Observation /\ b.epoch = r.epoch /\ b.revision = r.revision /\ b.candidate = r.candidate
          /\ b.sealed = r.sealed
      BY <1>1, <2>1 DEF Observation
    <2> HIDE DEF a, b
    <2> QED
      BY <1>4, <2>2, <2>3 DEF Observation
  <1> HIDE DEF a
  <1>6. RefSound(a, i, canonical, epochOf)
    BY <1>1, <1>2, <1>5 DEF RefSound
  <1>7. DOMAIN worker' = Workers /\ \A u \in Workers : worker'[u] \in {Idle, worker[u]}
    BY <1>2 DEF CrInv
  <1> QED
    BY <1>2, <1>3, <1>4, <1>5, <1>6, <1>7, RefWritten DEF r

\* A worker is lost, and its request may still arrive
LEMMA LoseInv ==
  ASSUME CrInv, NEW w \in Workers, Lose(w)
  PROVE  CrInv'
  <1>1. worker' = [worker EXCEPT ![w] = Idle] /\ UNCHANGED <<authority, ref>> /\ worker[w] # Idle
    BY DEF Lose
  <1>2. \A q \in wire' : RequestSound(q, canonical, epochOf)
    <2>1. CASE Awaits(w) /\ worker[w].at \in {"repair", "seal"}
      BY <1>1, <2>1, RequestIs DEF Lose, CrInv
    <2>2. CASE ~(Awaits(w) /\ worker[w].at \in {"repair", "seal"})
      BY <2>2 DEF Lose, CrInv
    <2> QED
      BY <2>1, <2>2
  <1> QED
    BY <1>1, <1>2, WorkerMoves DEF authority

-----------------------------------------------------------------------------
(* The calls of a worker. *)

\* A call that ends, or that goes on with the record it has.
LEMMA AuthorityLeft ==
  ASSUME CrInv, NEW w \in Workers, NEW x, worker' = [worker EXCEPT ![w] = x],
         x # Idle => CallSound(x, canonical, epochOf, ref, projection, version),
         UNCHANGED <<version, canonical, epochOf, projection, checkpoints, ref, wire>>
  PROVE  CrInv'
  <1>1. \A q \in wire' : RequestSound(q, canonical, epochOf)
    BY DEF CrInv
  <1> QED
    BY <1>1, WorkerMoves

\* assertComplete: a Landing begins from the completed projection.
LEMMA BeginLandInv ==
  ASSUME CrInv, NEW w \in Workers, BeginLand(w)
  PROVE  CrInv'
  <1> DEFINE x == Call("land", "verify", 1, projection, None, version)
  <1>1. /\ Current(projection) /\ projection.state = "complete" /\ worker' = [worker EXCEPT ![w] = x]
        /\ UNCHANGED <<authority, ref, wire>>
    BY DEF BeginLand
  <1>2. /\ projection \in Projection /\ projection.revision \in 1..canonical /\ Bounded(projection, ref)
        /\ projection.revision = canonical /\ IsComplete(projection, canonical)
    BY <1>1 DEF CrInv, ProjectionSound, Current, IsComplete
  <1>3. 1 \in Spaces /\ version \in Nat /\ version <= version /\ \A j \in Spaces : ~(j < 1)
    BY ConstantsAssumption DEF CrInv, Spaces
  <1>4. CallSound(x, canonical, epochOf, ref, projection, version)
    BY <1>1, <1>2, <1>3, VerifyCallSound
  <1> HIDE DEF x
  <1> QED
    BY <1>1, <1>4, AuthorityLeft DEF authority

\* begin, resume, check
LEMMA BeginReconcileInv ==
  ASSUME CrInv, NEW w \in Workers, BeginReconcile(w)
  PROVE  CrInv'
  <1>1. canonical > 0 /\ canonical \in 1..canonical /\ canonical \in Revisions /\ version \in Nat /\ 1 \in Spaces
        /\ \A j \in Spaces : ~(j < 1)
    BY ConstantsAssumption DEF BeginReconcile, CrInv, Spaces, Revisions
  <1>2. UNCHANGED <<canonical, epochOf, ref, wire>>
    BY DEF BeginReconcile
  <1>3. CASE /\ ~Current(projection) /\ projection' = NewRecord /\ version' = version + 1
             /\ checkpoints' = checkpoints \cup {<<canonical, "begin", 0, 0>>}
             /\ worker' = [worker EXCEPT ![w] = Call("reconcile", "observe", 1, NewRecord, None, 0)]
    <2> DEFINE p == NewRecord
               x == Call("reconcile", "observe", 1, p, None, 0)
               key == <<canonical, "begin", 0, 0>>
    <2>1. /\ p \in Projection /\ p.revision = canonical /\ p.state = "pending" /\ Bounded(p, ref)
      BY <1>1 DEF NewRecord, Projection, Bounded
    <2> HIDE DEF p
    <2>2. CallSound(x, canonical, epochOf, ref, p, version + 1)
      BY <1>1, <2>1, ReconcileCallSound
    <2>3. key[1] = canonical /\ ~IsComplete(projection, canonical)
      BY <1>3 DEF Current, IsComplete
    <2>4. projection' = p /\ checkpoints' = checkpoints \cup {key} /\ worker' = [worker EXCEPT ![w] = x]
      BY <1>3 DEF p
    <2> HIDE DEF x, key
    <2> QED
      BY <1>1, <1>2, <1>3, <2>1, <2>2, <2>3, <2>4, AuthoritySaves
  <1>4. CASE Current(projection) /\ UNCHANGED <<version, projection, checkpoints>>
    <2>1. /\ projection \in Projection /\ projection.revision \in 1..canonical /\ Bounded(projection, ref)
          /\ projection.revision = canonical
      BY <1>4 DEF CrInv, ProjectionSound, Current
    <2>2. projection.state = "complete" => IsComplete(projection, canonical)
      BY <1>4 DEF Current, IsComplete
    <2>3. CASE worker' = [worker EXCEPT ![w] = Call("reconcile", "observe", 1, projection, None, 0)]
      <3> DEFINE x == Call("reconcile", "observe", 1, projection, None, 0)
      <3>1. CallSound(x, canonical, epochOf, ref, projection, version)
        BY <1>1, <2>1, <2>2, ReconcileCallSound
      <3>2. worker' = [worker EXCEPT ![w] = x]
        BY <2>3
      <3> HIDE DEF x
      <3> QED
        BY <1>2, <1>4, <3>1, <3>2, AuthorityLeft
    <2>4. CASE worker' = [worker EXCEPT ![w] = Call("check", "verify", 1, projection, None, 0)]
      <3> DEFINE x == Call("check", "verify", 1, projection, None, 0)
      <3>1. CallSound(x, canonical, epochOf, ref, projection, version)
        BY <1>1, <2>1, <2>2, VerifyCallSound
      <3>2. worker' = [worker EXCEPT ![w] = x]
        BY <2>4
      <3> HIDE DEF x
      <3> QED
        BY <1>2, <1>4, <3>1, <3>2, AuthorityLeft
    <2> QED
      BY <1>4, <2>3, <2>4 DEF BeginReconcile
  <1> QED
    BY <1>3, <1>4 DEF BeginReconcile

\* save: the checkpoint exists and nothing is written, or the copy replaces a
\* record of the same revision that is not complete.
LEMMA SaveIs ==
  ASSUME CrInv, NEW record \in Projection, NEW key, key[1] = record.revision,
         Saves(record, key), Saved(record, key)
  PROVE  /\ record.revision = canonical
         /\ \/ /\ UNCHANGED <<version, projection, checkpoints>> /\ Replayed(record, key) = projection
               /\ projection \in Projection /\ projection.revision = canonical /\ Bounded(projection, ref)
               /\ projection.state = "complete" => IsComplete(projection, canonical)
            \/ /\ projection' = record /\ version' = version + 1 /\ checkpoints' = checkpoints \cup {key}
               /\ Replayed(record, key) = record /\ ~IsComplete(projection, canonical)
  <1>1. canonical = record.revision
    BY DEF Saves
  <1>2. CASE key \in checkpoints
    <2>1. projection # None /\ projection.revision = canonical
      BY <1>1, <1>2 DEF CrInv
    <2>2. projection \in Projection /\ Bounded(projection, ref)
      BY <2>1 DEF CrInv, ProjectionSound
    <2>3. projection.state = "complete" => IsComplete(projection, canonical)
      BY <2>1 DEF IsComplete
    <2> QED
      BY <1>1, <1>2, <2>1, <2>2, <2>3 DEF Saved, Replayed
  <1>3. CASE key \notin checkpoints
    BY <1>1, <1>3 DEF Saves, Saved, Replayed, IsComplete
  <1> QED
    BY <1>2, <1>3

\* The worker's copy of the record.
LEMMA RecordsAre ==
  ASSUME CrInv, NEW w \in Workers, worker[w] # Idle
  PROVE  LET record == worker[w].record IN
         /\ record \in Projection /\ record.revision \in 1..canonical /\ Bounded(record, ref)
         /\ record.state = "complete" /\ record.revision = canonical => IsComplete(projection, canonical)
  BY CallsAre DEF CallSound

\* sealed:<space> is saved, from the copy of the record the call began with
LEMMA SaveSealedInv ==
  ASSUME CrInv, NEW w \in Workers, worker[w] # Idle, NEW o \in Observation,
         o.generation <= ref[worker[w].i].generation, SaveSealed(w, o),
         UNCHANGED <<canonical, epochOf, ref, wire>>
  PROVE  CrInv'
  <1> DEFINE i == worker[w].i
             old == worker[w].record
             g == o.generation
             f == [old.sealed EXCEPT ![i] = g]
             record == [old EXCEPT !.sealed = f]
             key == <<record.revision, "sealed", i, g>>
  <1>1. /\ old \in Projection /\ old.revision \in 1..canonical /\ Bounded(old, ref) /\ i \in Spaces
        /\ old.state = "complete" /\ old.revision = canonical => IsComplete(projection, canonical)
    BY RecordsAre, CallsAre
  <1>2. g \in Nat /\ g <= ref[i].generation
    BY DEF Observation
  <1>3. SaveSealed(w, o) =>
          \/ /\ worker' = [worker EXCEPT ![w] = IF Current(projection) THEN NextCall(i, projection) ELSE Idle]
             /\ UNCHANGED <<version, projection, checkpoints>>
          \/ /\ Saves(record, key) /\ Saved(record, key)
             /\ worker' = [worker EXCEPT ![w] = NextCall(i, Replayed(record, key))]
          \/ /\ worker' = [worker EXCEPT ![w] = Idle] /\ UNCHANGED <<version, projection, checkpoints>>
    BY DEF SaveSealed
  <1> HIDE DEF i, old, g
  <1>4. f \in [Spaces -> Nat \cup {None}] /\ \A j \in Spaces : f[j] = IF j = i THEN g ELSE old.sealed[j]
    BY <1>1, <1>2 DEF Projection
  <1> HIDE DEF f
  <1>5. record \in Projection /\ record.revision = old.revision /\ record.state = old.state /\ record.sealed = f
    BY <1>1, <1>4 DEF Projection
  <1>6. key[1] = record.revision
    OBVIOUS
  <1> HIDE DEF record, key
  <1>7. Bounded(record, ref)
    BY <1>1, <1>2, <1>4, <1>5 DEF Bounded
  <1>8. CASE /\ worker' = [worker EXCEPT ![w] = IF Current(projection) THEN NextCall(i, projection) ELSE Idle]
             /\ UNCHANGED <<version, projection, checkpoints>>
    <2> DEFINE x == IF Current(projection) THEN NextCall(i, projection) ELSE Idle
    <2>1. Current(projection) =>
            /\ projection \in Projection /\ projection.revision \in 1..canonical /\ Bounded(projection, ref)
            /\ projection.state = "complete" => IsComplete(projection, canonical)
      BY DEF CrInv, ProjectionSound, Current, IsComplete
    <2>2. Current(projection) /\ NextCall(i, projection) # Idle =>
            CallSound(NextCall(i, projection), canonical, epochOf, ref, projection, version)
      BY <1>1, <2>1, NextCallSound
    <2>3. x # Idle => CallSound(x, canonical, epochOf, ref, projection, version)
      BY <2>2
    <2>4. worker' = [worker EXCEPT ![w] = x]
      BY <1>8
    <2> HIDE DEF x
    <2> QED
      BY <1>8, <2>3, <2>4, AuthorityLeft
  <1>9. CASE /\ Saves(record, key) /\ Saved(record, key)
             /\ worker' = [worker EXCEPT ![w] = NextCall(i, Replayed(record, key))]
    <2> DEFINE x == NextCall(i, Replayed(record, key))
    <2>1. record.revision = canonical
      BY <1>5, <1>6, <1>9, SaveIs
    <2>2. CASE /\ UNCHANGED <<version, projection, checkpoints>> /\ Replayed(record, key) = projection
               /\ projection \in Projection /\ projection.revision = canonical /\ Bounded(projection, ref)
               /\ projection.state = "complete" => IsComplete(projection, canonical)
      <3>1. projection.revision \in 1..canonical
        BY <1>1, <1>5, <2>1, <2>2
      <3>2. x # Idle => CallSound(x, canonical, epochOf, ref, projection, version)
        BY <1>1, <2>2, <3>1, NextCallSound
      <3>3. worker' = [worker EXCEPT ![w] = x]
        BY <1>9
      <3> HIDE DEF x
      <3> QED
        BY <2>2, <3>2, <3>3, AuthorityLeft
    <2>3. CASE /\ projection' = record /\ version' = version + 1 /\ checkpoints' = checkpoints \cup {key}
               /\ Replayed(record, key) = record /\ ~IsComplete(projection, canonical)
      <3>1. record.state # "complete" /\ record.revision \in 1..canonical /\ canonical \in 1..canonical
        BY <1>1, <1>5, <2>1, <2>3
      <3>2. x # Idle => CallSound(x, canonical, epochOf, ref, record, version + 1)
        BY <1>1, <1>5, <1>7, <2>3, <3>1, NextCallSound
      <3>3. worker' = [worker EXCEPT ![w] = x]
        BY <1>9
      <3> HIDE DEF x
      <3> QED
        BY <1>5, <1>6, <1>7, <2>1, <2>3, <3>1, <3>2, <3>3, AuthoritySaves
    <2> QED
      BY <1>5, <1>6, <1>9, <2>2, <2>3, SaveIs
  <1>10. CASE worker' = [worker EXCEPT ![w] = Idle] /\ UNCHANGED <<version, projection, checkpoints>>
    BY <1>10, AuthorityLeft
  <1> QED
    BY <1>3, <1>8, <1>9, <1>10

\* The observation a call was answered with.
LEMMA RepliesAre ==
  ASSUME CrInv, NEW w \in Workers, worker[w] # Idle, worker[w].reply # None
  PROVE  worker[w].reply \in Observation /\ worker[w].reply.generation <= ref[worker[w].i].generation
  BY CallsAre DEF CallSound, Suspended

\* The ref was observed: it is repaired, sealed, or found sealed
LEMMA AfterObserveInv ==
  ASSUME CrInv, NEW w \in Workers, AfterObserve(w)
  PROVE  CrInv'
  <1> DEFINE call == worker[w]
             o == call.reply
             repair == Call("reconcile", "repair", call.i, call.record, o, 0)
             seal == Call("reconcile", "seal", call.i, call.record, o, 0)
  <1>1. worker[w] # Idle /\ worker[w].reply # None /\ UNCHANGED <<canonical, epochOf, ref, wire>>
    BY DEF AfterObserve, Replied
  <1>2. /\ call.record \in Projection /\ call.record.revision \in 1..canonical /\ Bounded(call.record, ref)
        /\ call.record.state = "complete" /\ call.record.revision = canonical => IsComplete(projection, canonical)
        /\ call.i \in Spaces /\ o \in Observation /\ o.generation <= ref[call.i].generation
    BY <1>1, RecordsAre, CallsAre, RepliesAre
  <1>3. \/ /\ worker' = [worker EXCEPT ![w] = repair] \/ worker' = [worker EXCEPT ![w] = seal]
           /\ UNCHANGED <<version, projection, checkpoints>>
        \/ SaveSealed(w, o)
        \/ worker' = [worker EXCEPT ![w] = Idle] /\ UNCHANGED <<version, projection, checkpoints>>
    BY DEF AfterObserve
  <1>4. /\ CallSound(repair, canonical, epochOf, ref, projection, version)
        /\ CallSound(seal, canonical, epochOf, ref, projection, version)
    BY <1>2, ReconcileCallSound
  <1>5. CASE SaveSealed(w, o)
    BY <1>1, <1>2, <1>5, SaveSealedInv
  <1> HIDE DEF repair, seal
  <1>6. CASE worker' = [worker EXCEPT ![w] = repair] /\ UNCHANGED <<version, projection, checkpoints>>
    BY <1>1, <1>4, <1>6, AuthorityLeft
  <1>7. CASE worker' = [worker EXCEPT ![w] = seal] /\ UNCHANGED <<version, projection, checkpoints>>
    BY <1>1, <1>4, <1>7, AuthorityLeft
  <1>8. CASE worker' = [worker EXCEPT ![w] = Idle] /\ UNCHANGED <<version, projection, checkpoints>>
    BY <1>1, <1>8, AuthorityLeft
  <1> QED
    BY <1>3, <1>5, <1>6, <1>7, <1>8

\* repaired:<space> is saved, from the copy loaded before the repair
LEMMA AfterRepairInv ==
  ASSUME CrInv, NEW w \in Workers, AfterRepair(w)
  PROVE  CrInv'
  <1> DEFINE call == worker[w]
             o == call.reply
             record == call.record
             key == <<record.revision, "repaired", call.i, o.generation>>
             x == Call("reconcile", "seal", call.i, record, o, 0)
  <1>1. worker[w] # Idle /\ worker[w].reply # None /\ UNCHANGED <<canonical, epochOf, ref, wire>>
    BY DEF AfterRepair, Replied
  <1>2. /\ record \in Projection /\ record.revision \in 1..canonical /\ Bounded(record, ref)
        /\ record.state = "complete" /\ record.revision = canonical => IsComplete(projection, canonical)
        /\ call.i \in Spaces /\ o \in Observation
    BY <1>1, RecordsAre, CallsAre, RepliesAre
  <1>3. \/ Saves(record, key) /\ Saved(record, key) /\ worker' = [worker EXCEPT ![w] = x]
        \/ worker' = [worker EXCEPT ![w] = Idle] /\ UNCHANGED <<version, projection, checkpoints>>
    BY DEF AfterRepair
  <1>4. CASE worker' = [worker EXCEPT ![w] = Idle] /\ UNCHANGED <<version, projection, checkpoints>>
    BY <1>1, <1>4, AuthorityLeft
  <1>5. CASE Saves(record, key) /\ Saved(record, key) /\ worker' = [worker EXCEPT ![w] = x]
    <2>1. key[1] = record.revision
      OBVIOUS
    <2> HIDE DEF key
    <2>2. record.revision = canonical
      BY <1>2, <1>5, <2>1, SaveIs
    <2>3. CASE UNCHANGED <<version, projection, checkpoints>>
      <3>1. CallSound(x, canonical, epochOf, ref, projection, version)
        BY <1>2, ReconcileCallSound
      <3> HIDE DEF x
      <3> QED
        BY <1>1, <1>5, <2>3, <3>1, AuthorityLeft
    <2>4. CASE /\ projection' = record /\ version' = version + 1 /\ checkpoints' = checkpoints \cup {key}
               /\ ~IsComplete(projection, canonical)
      <3>1. record.state # "complete" /\ canonical \in 1..canonical
        BY <1>2, <2>2, <2>4
      <3>2. CallSound(x, canonical, epochOf, ref, record, version + 1)
        BY <1>2, <3>1, ReconcileCallSound
      <3> HIDE DEF x, record
      <3> QED
        BY <1>1, <1>2, <1>5, <2>1, <2>2, <2>4, <3>1, <3>2, AuthoritySaves
    <2> QED
      BY <1>2, <1>5, <2>1, <2>3, <2>4, SaveIs
  <1> QED
    BY <1>3, <1>4, <1>5

\* The ref was sealed
LEMMA AfterSealInv ==
  ASSUME CrInv, NEW w \in Workers, AfterSeal(w)
  PROVE  CrInv'
  <1>1. worker[w] # Idle /\ worker[w].reply # None /\ UNCHANGED <<canonical, epochOf, ref, wire>>
    BY DEF AfterSeal, Replied
  <1>2. SaveSealed(w, worker[w].reply)
    BY DEF AfterSeal
  <1> QED
    BY <1>1, <1>2, RepliesAre, SaveSealedInv

\* A verified reply shows its ref as the record says, and the refs of the Source
\* Spaces before it are so still
LEMMA VerifiedIs ==
  ASSUME CrInv, NEW w \in Workers, worker[w] # Idle, worker[w].at = "verify", worker[w].reply # None,
         Verified(worker[w].reply, worker[w].record, worker[w].i), worker[w].record.revision = canonical
  PROVE  \A j \in Spaces : j <= worker[w].i => SealedAs(ref[j], worker[w].record, j, epochOf)
  <1> DEFINE x == worker[w]
  <1>1. CallSound(x, canonical, epochOf, ref, projection, version) /\ x.i \in Spaces /\ x.reply \in Observation
    BY CallsAre, RepliesAre
  <1>2. SealedAs(x.reply, x.record, x.i, epochOf)
    BY <1>1 DEF Verified, Exact, Epoch, SealedAs, Observation
  <1>3. x.at = "verify" /\ x.record.revision = canonical /\ x.reply # None
    OBVIOUS
  <1> HIDE DEF x
  <1>4. /\ \A j \in Spaces : j < x.i => SealedAs(ref[j], x.record, j, epochOf)
        /\ ref[x.i] = x.reply
    BY <1>1, <1>2, <1>3 DEF CallSound
  <1>5. \A j \in Spaces : j <= x.i => j < x.i \/ j = x.i
    BY <1>1 DEF Spaces
  <1>6. \A j \in Spaces : j <= x.i => SealedAs(ref[j], x.record, j, epochOf)
    BY <1>2, <1>4, <1>5
  <1> QED
    BY <1>6 DEF x

\* assertSealed: the next Source Space is verified, or the last one was and the
\* record is complete
LEMMA AfterVerifyInv ==
  ASSUME CrInv, NEW w \in Workers, AfterVerify(w)
  PROVE  CrInv'
  <1> DEFINE call == worker[w]
             old == call.record
             record == [old EXCEPT !.state = "complete"]
             key == <<old.revision, "complete", 0, 0>>
             x == Call(call.purpose, "verify", call.i + 1, old, None, call.loaded)
  <1>1. /\ worker[w] # Idle /\ worker[w].reply # None /\ worker[w].at = "verify"
        /\ Verified(worker[w].reply, worker[w].record, worker[w].i) /\ UNCHANGED <<ref, wire>>
    BY DEF AfterVerify, Replied
  <1>2. /\ old \in Projection /\ old.revision \in 1..canonical /\ Bounded(old, ref)
        /\ old.state = "complete" /\ old.revision = canonical => IsComplete(projection, canonical)
        /\ call.i \in Spaces
    BY <1>1, RecordsAre, CallsAre
  <1>3. old.revision = canonical => \A j \in Spaces : j <= call.i => SealedAs(ref[j], old, j, epochOf)
    BY <1>1, VerifiedIs
  <1>4. \/ call.i # N /\ worker' = [worker EXCEPT ![w] = x] /\ UNCHANGED authority
        \/ worker' = [worker EXCEPT ![w] = Idle] /\ UNCHANGED authority
        \/ /\ call.i = N /\ worker' = [worker EXCEPT ![w] = Idle] /\ UNCHANGED <<canonical, epochOf>>
           /\ IF Saves(record, key) THEN Saved(record, key)
                                    ELSE UNCHANGED <<version, projection, checkpoints>>
    BY DEF AfterVerify
  <1>5. CASE call.i # N /\ worker' = [worker EXCEPT ![w] = x] /\ UNCHANGED authority
    <2>1. /\ call.purpose \in {"reconcile", "check", "land"} /\ call.loaded \in Nat
          /\ call.purpose = "land" =>
               call.loaded <= version /\ (call.loaded = version => old.revision = canonical /\ old.state = "complete")
      <3>1. CallSound(call, canonical, epochOf, ref, projection, version) /\ call \in Suspended
        BY <1>1, CallsAre
      <3> HIDE DEF call
      <3> QED
        BY <3>1 DEF CallSound, Suspended
    <2>2. call.i + 1 \in Spaces /\ \A j \in Spaces : j < call.i + 1 => j <= call.i
      BY <1>2, <1>5, ConstantsAssumption DEF Spaces
    <2>3. CallSound(x, canonical, epochOf, ref, projection, version)
      <3> HIDE DEF call, old
      <3> QED
        BY <1>2, <1>3, <2>1, <2>2, VerifyCallSound
    <2> HIDE DEF x
    <2> QED
      BY <1>1, <1>5, <2>3, AuthorityLeft DEF authority
  <1>6. CASE worker' = [worker EXCEPT ![w] = Idle] /\ UNCHANGED authority
    BY <1>1, <1>6, AuthorityLeft DEF authority
  <1>7. CASE /\ worker' = [worker EXCEPT ![w] = Idle] /\ UNCHANGED <<canonical, epochOf>>
             /\ UNCHANGED <<version, projection, checkpoints>>
    BY <1>1, <1>7, AuthorityLeft
  <1>8. CASE /\ call.i = N /\ worker' = [worker EXCEPT ![w] = Idle] /\ UNCHANGED <<canonical, epochOf>>
             /\ Saves(record, key) /\ Saved(record, key)
    <2> HIDE DEF old
    <2>1. record \in Projection /\ record.revision = old.revision /\ record.sealed = old.sealed
      BY <1>2 DEF Projection
    <2>2. key[1] = record.revision
      BY <2>1
    <2> HIDE DEF record, key
    <2>3. record.revision = canonical /\ Bounded(record, ref) /\ canonical \in 1..canonical
      BY <1>2, <1>8, <2>1, <2>2, SaveIs DEF Bounded
    <2>4. \A j \in Spaces : SealedAs(ref[j], record, j, epochOf)
      <3>1. \A j \in Spaces : j <= call.i
        BY <1>8 DEF Spaces
      <3>2. \A j \in Spaces : SealedAs(ref[j], old, j, epochOf)
        BY <1>3, <2>1, <2>3, <3>1
      <3> QED
        BY <2>1, <3>2 DEF SealedAs, Desired
    <2>5. CASE UNCHANGED <<version, projection, checkpoints>>
      BY <1>1, <1>8, <2>5, AuthorityLeft
    <2>6. CASE /\ projection' = record /\ version' = version + 1 /\ checkpoints' = checkpoints \cup {key}
               /\ ~IsComplete(projection, canonical)
      BY <1>1, <1>8, <2>1, <2>2, <2>3, <2>4, <2>6, AuthoritySaves
    <2> QED
      BY <1>8, <2>1, <2>2, <2>5, <2>6, SaveIs
  <1> QED
    BY <1>4, <1>5, <1>6, <1>7, <1>8

\* A check that fails ends the call.
LEMMA VerifyFailsInv ==
  ASSUME CrInv, NEW w \in Workers, VerifyFails(w)
  PROVE  CrInv'
  BY AuthorityLeft DEF VerifyFails, authority

\* A Landing that commits finds every ref sealed for the revision it replaces
LEMMA LandIs ==
  ASSUME CrInv, NEW w \in Workers, Land(w), version = worker[w].loaded
  PROVE  /\ canonical # 0 /\ worker[w].record.revision = canonical
         /\ \A i \in Spaces : /\ ref[i].sealed = TRUE /\ ref[i].revision = canonical
                              /\ ref[i].oid = Snapshot[canonical][i]
  <1>1. worker[w] # Idle /\ worker[w].purpose = "land"
    BY DEF Land, Replied
  <1>2. /\ worker[w].record.revision = canonical /\ worker[w].record.state = "complete"
        /\ canonical \in 1..canonical
    BY <1>1, CallsAre DEF CallSound
  <1>3. IsComplete(projection, canonical)
    BY <1>1, <1>2, RecordsAre
  <1>4. \A i \in Spaces : SealedAs(ref[i], projection, i, epochOf)
    BY <1>3 DEF CrInv, ProjectionSound, IsComplete
  <1>5. projection.revision = canonical /\ canonical # 0
    BY <1>2, <1>3 DEF IsComplete
  <1> QED
    BY <1>2, <1>4, <1>5 DEF SealedAs, Desired

\* A later Landing
LEMMA LandInv ==
  ASSUME CrInv, NEW w \in Workers, Land(w)
  PROVE  CrInv'
  <1>1. worker' = [worker EXCEPT ![w] = Idle] /\ UNCHANGED <<ref, wire>>
    BY DEF Land
  <1>2. DOMAIN worker' = Workers /\ \A u \in Workers : worker'[u] \in {Idle, worker[u]}
    BY <1>1 DEF CrInv
  <1>3. CASE version = worker[w].loaded
    <2>1. CommitLanding(worker[w].record.revision)
      BY <1>3 DEF Land
    <2>2. CommitLanding(canonical)
      BY <1>3, <2>1, LandIs
    <2> QED
      BY <1>1, <1>2, <1>3, <2>2, LandIs, LandingMoves DEF CommitLanding
  <1>4. CASE version # worker[w].loaded
    <2>1. UNCHANGED authority
      BY <1>4 DEF Land
    <2> QED
      BY <1>1, <2>1, AuthorityLeft DEF authority
  <1> QED
    BY <1>3, <1>4

\* The first Landing
LEMMA FirstLandingInv ==
  ASSUME CrInv, FirstLanding
  PROVE  CrInv'
  <1>1. canonical = 0 /\ CommitLanding(canonical) /\ UNCHANGED <<ref, worker, wire>>
    BY DEF FirstLanding
  <1>2. DOMAIN worker' = Workers /\ \A u \in Workers : worker'[u] \in {Idle, worker[u]}
    BY <1>1 DEF CrInv
  <1> QED
    BY <1>1, <1>2, LandingMoves DEF CommitLanding

-----------------------------------------------------------------------------
(* The invariant. *)

\* The initial state.
LEMMA CrInitInv == Init => CrInv
  <1> SUFFICES ASSUME Init PROVE CrInv
    OBVIOUS
  <1>1. 0 \in Revisions /\ \A u \in 0..0 : u = 0
    BY ConstantsAssumption DEF Revisions
  <1>2. \A i \in Spaces : Snapshot[0][i] \in Oids
    BY <1>1 DEF Oids
  <1>3. /\ version = 0 /\ canonical = 0 /\ epochOf = [v \in Revisions |-> 0] /\ projection = None
        /\ checkpoints = {} /\ wire = {} /\ worker = [w \in Workers |-> Idle]
    BY DEF Init
  <1>4. ref \in [Spaces -> Observation] /\ \A i \in Spaces : ref[i].epoch = 0 /\ ref[i].sealed = FALSE
    BY <1>2 DEF Init, Observation
  <1>5. \A i \in Spaces : RefSound(ref[i], i, canonical, epochOf)
    BY <1>3, <1>4 DEF RefSound
  <1>6. EpochsRise(canonical, epochOf, version)
    BY <1>1, <1>3 DEF EpochsRise
  <1>7. ProjectionSound(projection, canonical, epochOf, ref)
    BY <1>3 DEF ProjectionSound
  <1> QED
    BY <1>1, <1>3, <1>4, <1>5, <1>6, <1>7 DEF CrInv

\* Every step.
LEMMA CrStepInv ==
  ASSUME CrInv, [Next]_vars
  PROVE  CrInv'
  <1>1. CASE Next
    BY <1>1, FirstLandingInv, BeginLandInv, BeginReconcileInv, AfterObserveInv, AfterRepairInv, AfterSealInv,
       AfterVerifyInv, VerifyFailsInv, LandInv, ProviderObservesInv, ProviderWritesInv, LoseInv, LateWriteInv,
       ExternalMoveInv DEF Next
  <1>2. CASE UNCHANGED vars
    BY <1>2 DEF CrInv, vars, authority
  <1> QED
    BY <1>1, <1>2

\* The invariant holds always.
LEMMA CrAlwaysInv == Spec => []CrInv
  BY CrInitInv, CrStepInv, PTL DEF Spec

\* Every collection holds records of its kind; a complete projection of the
\* canonical revision is true of the repositories; and no ref stays on an older
\* selection, whatever workers were lost or came late (reconcile, assertSealed,
\* FencedCanonicalRefProvider).
THEOREM RefsSoundCorrect == Spec => []RefsSound
  <1>1. CrInv => TypeOK
    <2> SUFFICES ASSUME CrInv PROVE TypeOK
      OBVIOUS
    <2>1. version \in Nat /\ canonical \in Revisions /\ epochOf \in [Revisions -> 0..version]
      BY DEF CrInv
    <2>2. ASSUME projection # None
          PROVE  /\ projection.revision \in 1..canonical /\ projection.state \in {"pending", "complete"}
                 /\ \A i \in Spaces : projection.sealed[i] \in {None} \cup 0..ref[i].generation
      <3>1. projection \in Projection /\ projection.revision \in 1..canonical /\ Bounded(projection, ref)
        BY <2>2 DEF CrInv, ProjectionSound
      <3>2. \A i \in Spaces : ref[i].generation \in Nat
        BY DEF CrInv, Observation
      <3>3. \A i \in Spaces : projection.sealed[i] = None \/ projection.sealed[i] \in Nat
        BY <3>1 DEF Projection
      <3> QED
        BY <3>1, <3>2, <3>3 DEF Projection, Bounded
    <2>3. \A w \in Workers : worker[w].purpose \in {"idle", "reconcile", "check", "land"}
      <3> SUFFICES ASSUME NEW w \in Workers
                   PROVE  worker[w].purpose \in {"idle", "reconcile", "check", "land"}
        OBVIOUS
      <3>1. CASE worker[w] = Idle
        BY <3>1 DEF Idle
      <3>2. CASE worker[w] # Idle
        BY <3>2, CallsAre DEF Suspended
      <3> QED
        BY <3>1, <3>2
    <2>4. \A w \in Workers : worker[w] # Idle => worker[w].i \in Spaces
      BY CallsAre
    <2> QED
      BY <2>1, <2>2, <2>3, <2>4 DEF TypeOK
  <1>2. CrInv => CompleteIsSealed
    BY DEF CrInv, ProjectionSound, SealedAs, CompleteIsSealed, Current, Exact, Epoch
  <1>3. CrInv => NoStaleRef
    BY DEF CrInv, RefSound, NoStaleRef
  <1> QED
    BY <1>1, <1>2, <1>3, CrAlwaysInv, PTL DEF RefsSound

\* A later Landing is committed only while every ref is sealed on the revision it
\* replaces (landCohort behind the version fence).
THEOREM LandingWaitsForRefsCorrect == Spec => LandingWaitsForRefs
  <1> DEFINE Waits == epochOf' # epochOf /\ canonical > 0 =>
                        \A i \in Spaces : /\ ref[i].sealed
                                          /\ ref[i].revision = canonical
                                          /\ ref[i].oid = Snapshot[canonical][i]
  <1>1. CrInv /\ [Next]_vars => [Waits]_vars
    <2> SUFFICES ASSUME CrInv, Next, epochOf' # epochOf, canonical > 0
                 PROVE  \A i \in Spaces : /\ ref[i].sealed
                                          /\ ref[i].revision = canonical
                                          /\ ref[i].oid = Snapshot[canonical][i]
      BY DEF vars, authority
    <2>1. canonical # 0
      BY DEF CrInv, Revisions
    <2>2. \E w \in Workers : Land(w) /\ version = worker[w].loaded
      BY <2>1 DEF Next, FirstLanding, BeginLand, BeginReconcile, AfterObserve, AfterRepair, AfterSeal,
                  AfterVerify, VerifyFails, Land, ProviderObserves, ProviderWrites, Lose, LateWrite,
                  ExternalMove, authority
    <2> QED
      BY <2>2, LandIs
  <1> QED
    BY <1>1, CrAlwaysInv, PTL DEF Spec, LandingWaitsForRefs
=============================================================================
