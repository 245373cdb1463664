--------------------------- MODULE ProjectTransfer ---------------------------
(* The export of a Project and its import under an idempotency key           *)
(* (LocalProjectExporter over LocalGitRepositoryDriver).  An import is a     *)
(* process that keeps a checkpoint file, copies the package into quarantine  *)
(* and restores one repository per Source Space; it may die anywhere and is  *)
(* started again with its key.  An import of an existing Git repository      *)
(* first builds a package of its own from a clone.  Repositories go through  *)
(* versions; manifests are the versions their digests name.  Artifacts, LFS  *)
(* objects and the records of the manifest are left out.                     *)
EXTENDS Integers, FiniteSets

CONSTANTS
  PtSpaces,       \* Source Spaces of the Project
  PtKeys,         \* idempotency keys of imports of the exported package
  PtGit,          \* idempotency keys of imports of a Git repository
  PtGitSpace,     \* the Source Space such an import is for
  PtDests,        \* destination directories
  PtDestOf,       \* key -> destination
  PtMaxVersions,  \* bounds: versions of a repository, processes that die
  PtMaxCrashes,
  PtNone, PtTorn

ASSUME PtAssumption ==
  /\ PtKeys \cap PtGit = {} /\ PtGitSpace \in PtSpaces
  /\ PtDestOf \in [PtKeys \cup PtGit -> PtDests]
  /\ PtMaxVersions \in Nat \ {0} /\ PtMaxCrashes \in Nat

VARIABLES
  ptSource,   \* Source Space -> version of the exported repository
  ptExport,   \* the running export: Source Spaces done -> version, or none
  ptPackage,  \* package -> its manifest and bundles
  ptClone,    \* key of a Git import -> its source quarantine
  ptFile,     \* key -> operation.json
  ptQuar,     \* key -> its quarantine
  ptProc,     \* key -> where its process is, and the operation it holds
  ptDest,     \* destination -> Source Space -> repository
  ptCrashes

ptVars == <<ptSource, ptExport, ptPackage, ptClone, ptFile, ptQuar, ptProc, ptDest, ptCrashes>>

PtAll == PtKeys \cup PtGit
PtVersions == 1 .. PtMaxVersions
PtManifests == UNION {[S -> PtVersions] : S \in SUBSET PtSpaces}
PtPackages == {"export"} \cup PtGit
PtPackageSet == [manifest : PtManifests \cup {PtNone, PtTorn}, bundle : [PtSpaces -> 0 .. PtMaxVersions]]
PtEmpty == [manifest |-> PtNone, bundle |-> [s \in PtSpaces |-> 0]]
PtStates == {"preflight", "quarantined", "verified", "activating", "blocked", "activated"}
PtOps == [digest : PtManifests, state : PtStates, completed : SUBSET PtSpaces]
PtRepos == [version : PtVersions, edited : BOOLEAN]
PtProcs == [pc : {"idle", "cloning", "bundling", "package", "import", "copying", "checking", "next",
                  "restoring", "verifying", "finish"},
            op : PtOps \cup {PtNone}, space : PtSpaces \cup {PtNone}, copied : SUBSET (PtSpaces \cup {PtNone})]
PtIdle == [pc |-> "idle", op |-> PtNone, space |-> PtNone, copied |-> {}]
ASSUME PtNoneAssumption ==
  PtNone # PtTorn /\ {PtNone, PtTorn} \cap (PtRepos \cup PtOps \cup PtManifests \cup PtVersions) = {}

PtTypeOK ==
  /\ ptSource \in [PtSpaces -> PtVersions] /\ ptExport \in PtManifests \cup {PtNone}
  /\ ptPackage \in [PtPackages -> PtPackageSet] /\ ptClone \in [PtGit -> PtVersions \cup {PtNone, PtTorn}]
  /\ ptFile \in [PtAll -> PtOps \cup {PtNone, PtTorn}] /\ ptQuar \in [PtAll -> PtPackageSet \cup {PtNone}]
  /\ ptProc \in [PtAll -> PtProcs]
  /\ ptDest \in [PtDests -> [PtSpaces -> PtRepos \cup {PtNone, PtTorn}]]
  /\ ptCrashes \in 0 .. PtMaxCrashes

PtInit ==
  /\ ptSource = [s \in PtSpaces |-> 1] /\ ptExport = PtNone
  /\ ptPackage = [p \in PtPackages |-> PtEmpty] /\ ptClone = [k \in PtGit |-> PtNone]
  /\ ptFile = [k \in PtAll |-> PtNone] /\ ptQuar = [k \in PtAll |-> PtNone]
  /\ ptProc = [k \in PtAll |-> PtIdle]
  /\ ptDest = [d \in PtDests |-> [s \in PtSpaces |-> PtNone]]
  /\ ptCrashes = 0

PtAt(k, pc) == ptProc[k].pc = pc
PtGo(k, pc) == ptProc' = [ptProc EXCEPT ![k].pc = pc]
PtEnd(k) == ptProc' = [ptProc EXCEPT ![k] = PtIdle]
PtPkg(k) == IF k \in PtGit THEN k ELSE "export"

-----------------------------------------------------------------------------
(* Repositories *)

\* commitRepository
PtCommit(s) ==
  /\ ptSource[s] < PtMaxVersions /\ ptSource' = [ptSource EXCEPT ![s] = @ + 1]
  /\ UNCHANGED <<ptExport, ptPackage, ptClone, ptFile, ptQuar, ptProc, ptDest, ptCrashes>>

\* compareAndSwapRefs: one transaction that names the version it replaces.
PtSwap(s, expected) ==
  /\ ptSource[s] = expected /\ expected < PtMaxVersions
  /\ ptSource' = [ptSource EXCEPT ![s] = @ + 1]
  /\ UNCHANGED <<ptExport, ptPackage, ptClone, ptFile, ptQuar, ptProc, ptDest, ptCrashes>>

\* exportRepository: the bundle of the refs as they are.
PtBundle(s) == ptSource[s]

\* Work goes on in a repository of the destination.
PtEdit(d, s) ==
  /\ ptDest[d][s] \in PtRepos /\ ptDest' = [ptDest EXCEPT ![d][s].edited = TRUE]
  /\ UNCHANGED <<ptSource, ptExport, ptPackage, ptClone, ptFile, ptQuar, ptProc, ptCrashes>>

-----------------------------------------------------------------------------
(* exportProject, and the verification of a package *)

PtExportStart ==
  /\ ptExport = PtNone /\ ptExport' = [s \in {} |-> 0]
  /\ UNCHANGED <<ptSource, ptPackage, ptClone, ptFile, ptQuar, ptProc, ptDest, ptCrashes>>

\* exportRepository: the bundle takes the place of an earlier one.
PtExportBundle(s) ==
  /\ ptExport # PtNone /\ s \in PtSpaces \ DOMAIN ptExport
  /\ ptExport' = [t \in DOMAIN ptExport \cup {s} |-> IF t = s THEN PtBundle(s) ELSE ptExport[t]]
  /\ ptPackage' = [ptPackage EXCEPT !["export"].bundle[s] = PtBundle(s)]
  /\ UNCHANGED <<ptSource, ptClone, ptFile, ptQuar, ptProc, ptDest, ptCrashes>>

\* export.json is written last.
PtExportManifest ==
  /\ ptExport # PtNone /\ DOMAIN ptExport = PtSpaces
  /\ ptPackage' = [ptPackage EXCEPT !["export"].manifest = ptExport] /\ ptExport' = PtNone
  /\ UNCHANGED <<ptSource, ptClone, ptFile, ptQuar, ptProc, ptDest, ptCrashes>>

\* The exporting process dies, perhaps while it writes export.json.
PtExportDies(torn) ==
  /\ ptExport # PtNone /\ ptExport' = PtNone
  /\ ptCrashes < PtMaxCrashes /\ ptCrashes' = ptCrashes + 1
  /\ torn => DOMAIN ptExport = PtSpaces
  /\ ptPackage' = IF torn THEN [ptPackage EXCEPT !["export"].manifest = PtTorn] ELSE ptPackage
  /\ UNCHANGED <<ptSource, ptClone, ptFile, ptQuar, ptProc, ptDest>>

\* verifyProjectExportPackage: the manifest reads and names every bundle.
PtVerified(p) ==
  /\ p.manifest \in PtManifests
  /\ \A s \in DOMAIN p.manifest : p.bundle[s] = p.manifest[s]

-----------------------------------------------------------------------------
(* importGitRepository: a package from a clone *)

\* A package that verifies is used again; else the source quarantine is.
PtGitStart(k) ==
  /\ PtAt(k, "idle") /\ k \in PtGit
  /\ PtGo(k, CASE PtVerified(ptPackage[k]) -> "import"
               [] ~PtVerified(ptPackage[k]) /\ ptClone[k] = PtNone -> "cloning"
               [] OTHER -> "bundling")
  /\ UNCHANGED <<ptSource, ptExport, ptPackage, ptClone, ptFile, ptQuar, ptDest, ptCrashes>>

PtGitClone(k, ok) ==
  /\ PtAt(k, "cloning")
  /\ IF ok THEN ptClone' = [ptClone EXCEPT ![k] = ptSource[PtGitSpace]] /\ PtGo(k, "bundling")
           ELSE UNCHANGED ptClone /\ PtEnd(k)
  /\ UNCHANGED <<ptSource, ptExport, ptPackage, ptFile, ptQuar, ptDest, ptCrashes>>

\* A clone that was cut off has no refs to export.
PtGitBundle(k) ==
  /\ PtAt(k, "bundling")
  /\ IF ptClone[k] = PtTorn
       THEN UNCHANGED ptPackage /\ PtEnd(k)
       ELSE ptPackage' = [ptPackage EXCEPT ![k].bundle[PtGitSpace] = ptClone[k]] /\ PtGo(k, "package")
  /\ UNCHANGED <<ptSource, ptExport, ptClone, ptFile, ptQuar, ptDest, ptCrashes>>

\* singleRepositoryProjectExport
PtGitManifest(k) == [s \in {PtGitSpace} |-> ptPackage[k].bundle[s]]

PtGitPackage(k) ==
  /\ PtAt(k, "package")
  /\ ptPackage' = [ptPackage EXCEPT ![k].manifest = PtGitManifest(k)]
  /\ PtGo(k, "import")
  /\ UNCHANGED <<ptSource, ptExport, ptClone, ptFile, ptQuar, ptDest, ptCrashes>>

-----------------------------------------------------------------------------
(* importProject *)

PtResume(k, op) ==
  ptProc' = [ptProc EXCEPT ![k] = [PtIdle EXCEPT !.pc = IF op.state = "preflight" THEN "copying" ELSE "checking",
                                                 !.op = op,
                                                 !.copied = IF ptQuar[k] = PtNone THEN {} ELSE PtSpaces \cup {PtNone}]]

\* The key came to its end: the answer is read from its record.
PtReplayed(k) == ptFile[k].state = "activated"

PtImportAnything(k) ==   \* mutant: the key is not bound to the export's digest
  LET p == ptPackage[PtPkg(k)] IN
  /\ PtAt(k, IF k \in PtGit THEN "import" ELSE "idle")
  /\ CASE ~PtVerified(p) \/ ptFile[k] = PtTorn -> PtEnd(k)
       [] PtVerified(p) /\ ptFile[k] = PtNone ->
            PtResume(k, [digest |-> p.manifest, state |-> "preflight", completed |-> {}])
       [] PtVerified(p) /\ ptFile[k] \notin {PtNone, PtTorn} ->
            IF PtReplayed(k) THEN PtEnd(k) ELSE PtResume(k, [ptFile[k] EXCEPT !.digest = p.manifest])
  /\ UNCHANGED <<ptSource, ptExport, ptPackage, ptClone, ptFile, ptQuar, ptDest, ptCrashes>>

\* The package verifies and the key is new, or is the one this export was
\* imported under and did not come to its end.
PtImport(k) ==
  LET p == ptPackage[PtPkg(k)] IN
  /\ PtAt(k, IF k \in PtGit THEN "import" ELSE "idle")
  /\ CASE ~PtVerified(p) \/ ptFile[k] = PtTorn -> PtEnd(k)
       [] PtVerified(p) /\ ptFile[k] = PtNone ->
            PtResume(k, [digest |-> p.manifest, state |-> "preflight", completed |-> {}])
       [] PtVerified(p) /\ ptFile[k] \notin {PtNone, PtTorn} ->
            IF ptFile[k].digest # p.manifest \/ PtReplayed(k)
              THEN PtEnd(k) ELSE PtResume(k, ptFile[k])
  /\ UNCHANGED <<ptSource, ptExport, ptPackage, ptClone, ptFile, ptQuar, ptDest, ptCrashes>>

\* cp: a file of the package at a time (none stands for export.json).
PtCopy(k, item) ==
  /\ PtAt(k, "copying") /\ item \notin ptProc[k].copied
  /\ LET p == ptPackage[PtPkg(k)]
         q == IF ptQuar[k] = PtNone THEN PtEmpty ELSE ptQuar[k]
     IN ptQuar' = [ptQuar EXCEPT ![k] = IF item = PtNone THEN [q EXCEPT !.manifest = p.manifest]
                                        ELSE [q EXCEPT !.bundle[item] = p.bundle[item]]]
  /\ ptProc' = [ptProc EXCEPT ![k].copied = @ \cup {item}]
  /\ UNCHANGED <<ptSource, ptExport, ptPackage, ptClone, ptFile, ptDest, ptCrashes>>

\* withCheckpoint and writeOperation.
PtWrite(k, op, pc) ==
  /\ ptFile' = [ptFile EXCEPT ![k] = op]
  /\ ptProc' = [ptProc EXCEPT ![k] = IF pc = "idle" THEN PtIdle ELSE [@ EXCEPT !.pc = pc, !.op = op]]
  /\ UNCHANGED <<ptSource, ptExport, ptPackage, ptClone, ptQuar, ptCrashes>>

PtState(k, state) == [ptProc[k].op EXCEPT !.state = state]

PtQuarantined(k) ==
  /\ PtAt(k, "copying") /\ ptProc[k].copied = PtSpaces \cup {PtNone}
  /\ PtWrite(k, PtState(k, "quarantined"), "checking") /\ UNCHANGED ptDest

\* The quarantine must verify as a package.
PtCheck(k) ==
  /\ PtAt(k, "checking")
  /\ IF PtVerified(ptQuar[k]) THEN PtWrite(k, PtState(k, "verified"), "next")
                              ELSE PtWrite(k, PtState(k, "blocked"), "idle")
  /\ UNCHANGED ptDest

PtActivating(k, s) ==
  /\ PtAt(k, "next") /\ s \in DOMAIN ptProc[k].op.digest \ ptProc[k].op.completed
  /\ ptFile' = [ptFile EXCEPT ![k] = PtState(k, "activating")]
  /\ ptProc' = [ptProc EXCEPT ![k].pc = "restoring", ![k].op.state = "activating", ![k].space = s]
  /\ UNCHANGED <<ptSource, ptExport, ptPackage, ptClone, ptQuar, ptDest, ptCrashes>>

\* restoreRepository: a new clone of the bundle, or the refs of a repository
\* that is there and has the objects are set.
PtRestorable(k) ==
  LET s == ptProc[k].space
      r == ptDest[PtDestOf[k]][s]
  IN /\ ptQuar[k].bundle[s] = ptProc[k].op.digest[s]
     /\ r = PtNone \/ (r \in PtRepos /\ r.version >= ptProc[k].op.digest[s])

PtRestore(k) ==
  LET s == ptProc[k].space IN
  /\ PtAt(k, "restoring") /\ PtRestorable(k)
  /\ ptDest' = [ptDest EXCEPT ![PtDestOf[k]][s] = [version |-> ptProc[k].op.digest[s], edited |-> FALSE]]
  /\ PtGo(k, "verifying")
  /\ UNCHANGED <<ptSource, ptExport, ptPackage, ptClone, ptFile, ptQuar, ptCrashes>>

\* It fails, also for a reason of its own.
PtRestoreFails(k) ==
  /\ PtAt(k, "restoring") /\ PtWrite(k, PtState(k, "blocked"), "idle") /\ UNCHANGED ptDest

\* verifyRepository: the refs are the manifest's.
PtIntegrity(k) ==
  LET r == ptDest[PtDestOf[k]][ptProc[k].space] IN
  r.version = ptProc[k].op.digest[ptProc[k].space] /\ ~r.edited

PtVerify(k) ==
  /\ PtAt(k, "verifying")
  /\ IF PtIntegrity(k)
       THEN PtWrite(k, [ptProc[k].op EXCEPT !.completed = @ \cup {ptProc[k].space}], "next")
       ELSE PtWrite(k, PtState(k, "blocked"), "idle")
  /\ UNCHANGED ptDest

PtFinish(k) ==
  /\ PtAt(k, "next") /\ DOMAIN ptProc[k].op.digest \subseteq ptProc[k].op.completed
  /\ PtWrite(k, PtState(k, "activated"), "idle") /\ UNCHANGED ptDest

\* The next step of the process writes operation.json.
PtWriting(k) ==
  \/ ptProc[k].pc \in {"checking", "next", "verifying"}
  \/ PtAt(k, "copying") /\ ptProc[k].copied = PtSpaces \cup {PtNone}

\* The importing process dies: a file it was writing, a clone or a restore it
\* was making may be left half done.
PtDie(k, torn) ==
  /\ ~PtAt(k, "idle") /\ PtEnd(k)
  /\ ptCrashes < PtMaxCrashes /\ ptCrashes' = ptCrashes + 1
  /\ ptClone' = IF torn /\ PtAt(k, "cloning") THEN [ptClone EXCEPT ![k] = PtTorn] ELSE ptClone
  /\ ptPackage' = IF torn /\ PtAt(k, "package") THEN [ptPackage EXCEPT ![k].manifest = PtTorn] ELSE ptPackage
  /\ ptDest' = IF torn /\ PtAt(k, "restoring") /\ ptDest[PtDestOf[k]][ptProc[k].space] = PtNone
                 THEN [ptDest EXCEPT ![PtDestOf[k]][ptProc[k].space] = PtTorn] ELSE ptDest
  /\ ptFile' = IF torn /\ PtWriting(k) THEN [ptFile EXCEPT ![k] = PtTorn] ELSE ptFile
  /\ UNCHANGED <<ptSource, ptExport, ptQuar>>

PtNext ==
  \/ PtExportStart \/ PtExportManifest
  \/ \E s \in PtSpaces : PtCommit(s) \/ PtExportBundle(s)
  \/ \E s \in PtSpaces : (\E d \in PtDests : PtEdit(d, s)) \/ \E v \in PtVersions : PtSwap(s, v)
  \/ \E torn \in BOOLEAN : PtExportDies(torn)
  \/ \E k \in PtGit : PtGitStart(k) \/ PtGitBundle(k) \/ PtGitPackage(k) \/ \E ok \in BOOLEAN : PtGitClone(k, ok)
  \/ \E k \in PtAll :
       \/ PtImport(k) \/ PtQuarantined(k) \/ PtCheck(k) \/ PtRestore(k) \/ PtRestoreFails(k)
       \/ PtVerify(k) \/ PtFinish(k)
       \/ \E item \in PtSpaces \cup {PtNone} : PtCopy(k, item)
       \/ \E s \in PtSpaces : PtActivating(k, s)
       \/ \E torn \in BOOLEAN : PtDie(k, torn)

PtSpec == PtInit /\ [][PtNext]_ptVars

-----------------------------------------------------------------------------
(* Properties *)

\* When an import into a destination of its own is activated, every repository
\* of the manifest is there, whole, and descends from exactly the version the
\* manifest names, whatever was exported again, copied halfway, restored
\* halfway or edited between its attempts (project-export.ts 978-1090).
PtActivatedIsExported ==
  \A k \in PtAll :
    (ptFile[k] \in PtOps /\ ptFile[k].state = "activated") =>
      \A s \in DOMAIN ptFile[k].digest :
        /\ ptDest[PtDestOf[k]][s] \in PtRepos
        /\ ptDest[PtDestOf[k]][s].version = ptFile[k].digest[s]
=============================================================================
