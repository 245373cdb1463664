---------------------------- MODULE LocalExecution ----------------------------
(* A local Release (execution/local.ts): the Actions of the manifest run in   *)
(* the order they are declared, each once per Verifier, in one directory.     *)
(* A result is kept under its validity key and, without the revision, under   *)
(* its reuse key; a later Release may answer from the cache.  Evidence goes   *)
(* to an append-only ledger that the stage gate (kernel/evidence.ts) reads.   *)
EXTENDS Integers, Sequences, SequencesExt

CONSTANTS
  Sources,          \* source files
  Versions,         \* contents a source file may have
  Revisions,        \* Project Revisions a Release is asked for
  Tasks,            \* sequence of [action, verifier] in manifest order
  ModuleOf,         \* Action -> Module
  ModuleDeps,       \* Module -> the Modules it depends on
  InputPaths,       \* Action -> the paths its inputGlobs match
  RequiredTasks,    \* Tasks whose Verifier is requiredFor "release"
  MaxReleases,      \* bound on Releases
  EditsDuringRun,   \* whether files may change while a Release runs
  Missing           \* a file that does not exist

ExecTasks == Range(Tasks)
ExecActions == DOMAIN ModuleOf
ExecPaths == Sources \cup ExecActions    \* an Action's output is named after it

ASSUME ExecAssumption ==
  /\ Tasks \in Seq([action : ExecActions, verifier : STRING])
  /\ \A i, k \in 1 .. Len(Tasks) : Tasks[i] = Tasks[k] => i = k   \* ids are unique
  /\ RequiredTasks \subseteq ExecTasks
  /\ InputPaths \in [ExecActions -> SUBSET ExecPaths]
  /\ ModuleDeps \in [DOMAIN ModuleDeps -> SUBSET DOMAIN ModuleDeps]
  /\ MaxReleases \in Nat
  /\ EditsDuringRun \in BOOLEAN
  /\ Missing \notin Versions

VARIABLES
  execFiles,     \* path -> content
  execCache,     \* results of LocalExecutionCache, by validity and by reuse key
  execLedger,    \* Evidence in the order appended
  execRelease,   \* the Release that is running
  execReleases   \* the Releases returned

execVars == <<execFiles, execCache, execLedger, execRelease, execReleases>>

Idle == [at |-> 0]

ExecInit ==
  /\ execFiles = [p \in ExecPaths |-> Missing]
  /\ execCache = [exact |-> {}, reusable |-> {}]
  /\ execLedger = << >>
  /\ execRelease = Idle
  /\ execReleases = << >>

\* What the command of Action a writes when it finds these inputs.
Build(a, inputs) == [action |-> a, from |-> inputs]

InputsOf(a) == [p \in InputPaths[a] |-> execFiles[p]]

\* The two cache keys; only the first names the Project Revision.  The rest of
\* the context (toolchain, environment, policy, Target) is fixed here.
ValidityKey(rev, task, inputs) == <<rev, task, inputs>>
ReuseKeyWithoutInputs(task, inputs) == <<task>>   \* mutant: the input closure left out
ReuseKey(task, inputs) == <<task, inputs>>

-----------------------------------------------------------------------------
(* The plan *)

\* A change under a Module's root or inputs affects it and what depends on it.
AffectedModules(changed) ==
  LET direct == {ModuleOf[a] : a \in {b \in ExecActions : InputPaths[b] \cap changed # {}}}
      closed(S) == \A m \in DOMAIN ModuleDeps : ModuleDeps[m] \cap S # {} => m \in S
  IN {m \in DOMAIN ModuleDeps :
        \A S \in SUBSET DOMAIN ModuleDeps : direct \subseteq S /\ closed(S) => m \in S}

\* Every Action is selected when the caller does not say what changed.
SelectedActions(changed) ==
  {a \in ExecActions : ModuleOf[a] \in AffectedModules(changed)}

\* The cache is the caller's; the ledger may be, or is a new one.
ExecStart(rev, selected, newLedger) ==
  /\ execRelease = Idle
  /\ Len(execReleases) < MaxReleases
  /\ execRelease' = [at |-> 1, rev |-> rev, inputs |-> << >>, reading |-> TRUE,
                     results |-> << >>, selected |-> selected]
  /\ execLedger' = IF newLedger THEN << >> ELSE execLedger
  /\ UNCHANGED <<execFiles, execCache, execReleases>>

-----------------------------------------------------------------------------
(* runAction *)

ExecTask == Tasks[execRelease.at]

\* The digests of the inputs are taken first, and everything below uses them.
ExecReadInputs ==
  /\ execRelease # Idle /\ execRelease.reading
  /\ execRelease.at <= Len(Tasks)
  /\ execRelease' = [execRelease EXCEPT !.reading = FALSE,
                                        !.inputs = InputsOf(ExecTask.action)]
  /\ UNCHANGED <<execFiles, execCache, execLedger, execReleases>>

\* The outputs on disk are the bytes of the cached record.
BytesMatch(e) == e.out # Missing /\ execFiles[ExecTask.action] = e.out

Cached ==
  {e \in execCache.exact :
     /\ e.validity = ValidityKey(execRelease.rev, ExecTask, execRelease.inputs)
     /\ BytesMatch(e)}

\* The reusable record is looked for only when the plan skipped the Action.
Reusable ==
  {e \in execCache.reusable :
     /\ ExecTask.action \notin execRelease.selected
     /\ e.reuse = ReuseKey(ExecTask, execRelease.inputs)
     /\ BytesMatch(e)}

\* Only a passed result is kept, in the place of the one under the same key.
Keep(e) ==
  IF e.outcome # "passed" THEN execCache
  ELSE [exact |-> {o \in execCache.exact : o.validity # e.validity} \cup {e},
        reusable |-> {o \in execCache.reusable : o.reuse # e.reuse} \cup {e}]

ExecEvidenceId == <<Len(execReleases) + 1, execRelease.at>>

Returned(e) ==
  execRelease' = [execRelease EXCEPT !.at = @ + 1, !.reading = TRUE,
                                     !.results = Append(@, e)]

ExecRunning ==
  /\ execRelease # Idle /\ ~ execRelease.reading
  /\ execRelease.at <= Len(Tasks)

\* Evidence that is cached but not yet in this ledger is appended again.
ExecExactHit ==
  /\ ExecRunning
  /\ \E e \in Cached :
       /\ execLedger' = IF e \in Range(execLedger) THEN execLedger
                        ELSE Append(execLedger, e)
       /\ Returned(e)
  /\ UNCHANGED <<execFiles, execCache, execReleases>>

\* reuseActionResult: new Evidence for this revision, outputs as cached.
ExecReuse ==
  /\ ExecRunning
  /\ Cached = {}
  /\ \E e \in Reusable :
       LET r == [e EXCEPT
                   !.id = ExecEvidenceId,
                   !.inputs = execRelease.inputs,
                   !.validity = ValidityKey(execRelease.rev, ExecTask, execRelease.inputs)]
       IN /\ execLedger' = Append(execLedger, r)
          /\ execCache' = Keep(r)
          /\ Returned(r)
  /\ UNCHANGED <<execFiles, execReleases>>

\* The command runs on the files as they are now.  It may fail, leaving its
\* output as it was or gone; a missing input or output fails it too.
ExecCommand(ok) ==
  /\ ExecRunning
  /\ Cached = {} /\ Reusable = {}
  /\ LET a == ExecTask.action
         present == \A p \in DOMAIN execRelease.inputs : execRelease.inputs[p] # Missing
         passed == ok /\ present
         e == [id |-> ExecEvidenceId, task |-> ExecTask,
               validity |-> ValidityKey(execRelease.rev, ExecTask, execRelease.inputs),
               reuse |-> ReuseKey(ExecTask, execRelease.inputs),
               inputs |-> execRelease.inputs,
               outcome |-> IF passed THEN "passed" ELSE "failed",
               out |-> IF passed THEN Build(a, InputsOf(a)) ELSE Missing]
     IN /\ \/ /\ passed
              /\ execFiles' = [execFiles EXCEPT ![a] = Build(a, InputsOf(a))]
           \/ /\ ~ passed
              /\ execFiles' \in {execFiles, [execFiles EXCEPT ![a] = Missing]}
        /\ execLedger' = Append(execLedger, e)
        /\ execCache' = Keep(e)
        /\ Returned(e)
  /\ UNCHANGED execReleases

-----------------------------------------------------------------------------
(* The gate and the Release *)

\* The last Evidence of a key decides; Evidence of another context is stale.
GateBlocks(task, validity) ==
  LET of == {i \in 1 .. Len(execLedger) : execLedger[i].task = task} IN
  \/ of = {}
  \/ LET last == execLedger[CHOOSE i \in of : \A n \in of : n <= i] IN
     \/ last.outcome # "passed"
     \/ last.validity # validity

\* Every required Verifier, and every Action that failed, must pass the gate.
ExecFinish ==
  /\ execRelease # Idle
  /\ execRelease.at = Len(Tasks) + 1
  /\ LET results == execRelease.results
         required == {i \in 1 .. Len(results) : \/ results[i].task \in RequiredTasks
                                                \/ results[i].outcome = "failed"}
         blocked == \E i \in required : GateBlocks(results[i].task, results[i].validity)
     IN execReleases' = Append(execReleases,
          [rev |-> execRelease.rev, results |-> results,
           status |-> IF blocked THEN "draft" ELSE "ready"])
  /\ execRelease' = Idle
  /\ UNCHANGED <<execFiles, execCache, execLedger>>

\* The owner of the directory writes a source, or removes an output.
ExecEdit(p, content) ==
  /\ execRelease = Idle \/ EditsDuringRun
  /\ Len(execReleases) < MaxReleases
  /\ execFiles[p] # content
  /\ execFiles' = [execFiles EXCEPT ![p] = content]
  /\ UNCHANGED <<execCache, execLedger, execRelease, execReleases>>

ExecNext ==
  \/ \E rev \in Revisions, newLedger \in BOOLEAN :
       \/ ExecStart(rev, ExecActions, newLedger)
       \/ \E changed \in SUBSET Sources : ExecStart(rev, SelectedActions(changed), newLedger)
  \/ ExecReadInputs
  \/ ExecExactHit
  \/ ExecReuse
  \/ \E ok \in BOOLEAN : ExecCommand(ok)
  \/ ExecFinish
  \/ \E p \in Sources, v \in Versions : ExecEdit(p, v)
  \/ \E a \in ExecActions : ExecEdit(a, Missing)

ExecSpec == ExecInit /\ [][ExecNext]_execVars

-----------------------------------------------------------------------------

ExecTypeOK ==
  /\ DOMAIN execFiles = ExecPaths
  /\ \A e \in execCache.exact \cup execCache.reusable \cup Range(execLedger) :
       e.task \in ExecTasks /\ e.outcome \in {"passed", "failed"}
  /\ execRelease # Idle => execRelease.at \in 1 .. Len(Tasks) + 1
  /\ \A i \in 1 .. Len(execReleases) : execReleases[i].status \in {"ready", "draft"}

\* "A stale or partial match is never reused" (LocalExecutionCache): whatever
\* was declared changed, whatever was edited or removed since, the output a
\* passed Evidence names is what its Action builds from the inputs it names.
ExecEvidenceIsRebuilt ==
  \A e \in execCache.exact \cup execCache.reusable \cup Range(execLedger) :
    e.outcome = "passed" => e.out = Build(e.task.action, e.inputs)

\* A Module comes after those it takes input from.  The manifest may say so or
\* not: normalizeProjectManifest refuses cycles but does not look at the order.
TasksInOrder ==
  \A i, k \in 1 .. Len(Tasks) :
    Tasks[i].action \in InputPaths[Tasks[k].action] => i < k

\* A ready Release is whole: every Verifier of the manifest ran for its
\* revision and passed, and an Action that takes the output of another took
\* the very output the Release names (runLocalRelease, evaluateStageGate).
ExecReadyIsWhole ==
  \A i \in 1 .. Len(execReleases) : LET r == execReleases[i] IN
    r.status = "ready" =>
      /\ Len(r.results) = Len(Tasks)
      /\ \A n \in 1 .. Len(Tasks) :
           /\ r.results[n].task = Tasks[n]
           /\ r.results[n].outcome = "passed"
           /\ r.results[n].validity[1] = r.rev
           /\ TasksInOrder =>
                \A k \in 1 .. n - 1 :
                  Tasks[k].action \in InputPaths[Tasks[n].action] =>
                    r.results[n].inputs[Tasks[k].action] = r.results[k].out

\* What a Release stands on: Evidence of outputs that are what their Actions
\* build, however often it was reused, and for a ready Release the whole
\* manifest (LocalExecutionCache, runLocalRelease).
ExecReleaseIsSound == ExecEvidenceIsRebuilt /\ ExecReadyIsWhole
=============================================================================
