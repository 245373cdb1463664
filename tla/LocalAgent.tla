----------------------------- MODULE LocalAgent -----------------------------
(* The local agent broker (LocalAgentManager) of one Change: Sessions, their *)
(* workloads and the state file that several brokers share under a lock      *)
(* file.  Every operation reads the whole state file inside the lock and     *)
(* writes it back before it releases; a workload runs outside the lock in    *)
(* the custody of the broker that made the Session's boundary.  Grants are   *)
(* one with their Session; audit, findings, revisions and the contents of    *)
(* the Workspace are left out.                                               *)
EXTENDS Integers, FiniteSets, FiniteSetsExt

CONSTANTS
  LaClients,      \* broker processes
  LaMaxSessions,  \* bound: Sessions started
  LaSlowCreator,  \* TRUE: a waiter may time out before the creator of the lock file has written to it
  LaNone

ASSUME LaAssumption == LaMaxSessions \in Nat \ {0} /\ LaSlowCreator \in BOOLEAN

ASSUME LaNoneAssumption == LaNone \notin LaClients \cup [by : LaClients, named : BOOLEAN]

LaSessions == 1 .. LaMaxSessions

VARIABLES
  laFile,   \* the state file
  laLock,   \* the lock file: who created it and whether it names its process
  laClient, \* broker -> where it is, and its copy of the state file
  laOwner,  \* Session -> the broker that holds its boundary
  laWork,   \* Session -> its workload
  laLate    \* Sessions whose lifetime is over

laVars == <<laFile, laLock, laClient, laOwner, laWork, laLate>>

LaFile == [count : 0 .. LaMaxSessions,
           status : [LaSessions -> {"none", "active", "expired", "revoked"}],
           current : {0} \cup LaSessions,   \* currentSessionId
           registered : SUBSET LaSessions,  \* processGroupId is set
           passed : SUBSET LaSessions]      \* a Run of the Session is recorded as passed

\* emptyState
LaEmpty == [count |-> 0, status |-> [s \in LaSessions |-> "none"], current |-> 0,
            registered |-> {}, passed |-> {}]

LaBroker == [pc : {"idle", "waiting", "created", "judged", "inside", "down"}, file : LaFile]

LaIdle == [pc |-> "idle", file |-> LaEmpty]

LaTypeOK ==
  /\ laFile \in LaFile /\ laClient \in [LaClients -> LaBroker]
  /\ laLock \in {LaNone} \cup [by : LaClients, named : BOOLEAN]
  /\ laOwner \in [LaSessions -> LaClients \cup {LaNone}]
  /\ laWork \in [LaSessions -> {"none", "spawned", "registered", "running", "ended", "killed"}]
  /\ laLate \subseteq LaSessions

LaInit ==
  /\ laFile = LaEmpty /\ laLock = LaNone
  /\ laClient = [c \in LaClients |-> LaIdle]
  /\ laOwner = [s \in LaSessions |-> LaNone]
  /\ laWork = [s \in LaSessions |-> "none"] /\ laLate = {}

-----------------------------------------------------------------------------
(* The lock file *)

LaUnlocked == <<laFile, laOwner, laWork, laLate>>

LaWant(c) ==
  /\ laClient[c].pc = "idle"
  /\ laClient' = [laClient EXCEPT ![c].pc = "waiting"]
  /\ UNCHANGED <<LaUnlocked, laLock>>

\* open(lockPath, "wx")
LaCreateLock(c) ==
  /\ laClient[c].pc = "waiting" /\ laLock = LaNone
  /\ laLock' = [by |-> c, named |-> FALSE]
  /\ laClient' = [laClient EXCEPT ![c].pc = "created"]
  /\ UNCHANGED LaUnlocked

\* The process id goes into the file the handle is open on, which may no longer
\* be at the path; then the operation reads the state.
LaEnter(c) ==
  /\ laClient[c].pc = "created"
  /\ laLock' = IF laLock # LaNone /\ laLock.by = c THEN [laLock EXCEPT !.named = TRUE] ELSE laLock
  /\ laClient' = [laClient EXCEPT ![c] = [pc |-> "inside", file |-> laFile]]
  /\ UNCHANGED LaUnlocked

\* A file without a process id, or with that of a dead process, is stale.
LaStale(lock) == ~lock.named \/ laClient[lock.by].pc = "down"

\* The waiter has waited for stateLockTimeoutMs.
LaTimeout(c) ==
  /\ laClient[c].pc = "waiting" /\ laLock # LaNone
  /\ ~laLock.named /\ laClient[laLock.by].pc # "down" => LaSlowCreator
  /\ laClient' = [laClient EXCEPT ![c].pc = IF LaStale(laLock) THEN "judged" ELSE "idle"]
  /\ UNCHANGED <<LaUnlocked, laLock>>

\* It unlinks whatever is at the path by then, and tries again.
LaUnlink(c) ==
  /\ laClient[c].pc = "judged" /\ laLock' = LaNone
  /\ laClient' = [laClient EXCEPT ![c].pc = "waiting"]
  /\ UNCHANGED LaUnlocked

\* The operation ends: its copy is written, or not, and the path is unlinked.
LaFinish(c, file) ==
  /\ laFile' = file /\ laLock' = LaNone
  /\ laClient' = [laClient EXCEPT ![c] = LaIdle]

\* A broker that dies takes its workloads with it: their custodians see the end
\* of the control pipe.
LaCrash(c) ==
  /\ laClient[c].pc # "down"
  /\ Cardinality({d \in LaClients : laClient[d].pc # "down"}) > 1
  /\ laClient' = [laClient EXCEPT ![c] = [LaIdle EXCEPT !.pc = "down"]]
  /\ laWork' = [s \in LaSessions |-> IF laOwner[s] = c THEN "none" ELSE laWork[s]]
  /\ UNCHANGED <<laFile, laLock, laOwner, laLate>>

LaPassTime(s) ==
  /\ laFile.status[s] = "active" /\ laLate' = laLate \cup {s} /\ s \notin laLate
  /\ UNCHANGED <<laFile, laLock, laClient, laOwner, laWork>>

-----------------------------------------------------------------------------
(* Sessions *)

LaLive(f, s) == f.status[s] = "active" /\ s \notin laLate

\* expireIfNeeded for the Sessions of a set
LaExpire(f, set) ==
  [f EXCEPT !.status = [s \in LaSessions |->
     IF s \in set /\ s \in laLate /\ @[s] = "active" THEN "expired" ELSE @[s]]]

\* requireActiveSessionUnlocked of a Session that is not active: its expiry is written.
LaRefused(f, s) ==
  [LaExpire(f, {s}) EXCEPT !.current = IF @ = s THEN 0 ELSE @]

\* The Sessions that startSession looks at before it finds a live one.
LaSearched(f) ==
  LET live == {s \in 1 .. f.count : LaLive(f, s)} IN
  IF live = {} THEN 1 .. f.count ELSE 1 .. Min(live) - 1

LaNewSession(f) ==
  [LaExpire(f, LaSearched(f)) EXCEPT !.count = @ + 1, !.status[f.count + 1] = "active",
                                     !.current = f.count + 1]

\* The live Session of this Change is returned to the same agent; another agent
\* is refused and nothing is written.
LaReuse(c) ==
  LET f == laClient[c].file IN
  /\ laClient[c].pc = "inside" /\ \E s \in 1 .. f.count : LaLive(f, s)
  /\ \E file \in {f, LaExpire(f, LaSearched(f))} : LaFinish(c, file)
  /\ UNCHANGED <<laOwner, laWork, laLate>>

\* A new Session, when there is no live one or the caller asks for a parallel one.
LaStart(c) ==
  LET f == laClient[c].file IN
  /\ laClient[c].pc = "inside" /\ f.count < LaMaxSessions
  /\ LaFinish(c, LaNewSession(f))
  /\ laOwner' = [laOwner EXCEPT ![f.count + 1] = c]
  /\ UNCHANGED <<laWork, laLate>>

LaRevoked(f, s) ==
  [f EXCEPT !.status[s] = "revoked", !.current = IF @ = s THEN 0 ELSE @]

\* The workload that this broker runs, or whose process group the file names.
LaKilled(c, f, s) ==
  IF laWork[s] \in {"spawned", "registered", "running"} /\ (laOwner[s] = c \/ s \in f.registered)
    THEN [laWork EXCEPT ![s] = "killed"] ELSE laWork

LaRevoke(c, s) ==
  LET f == laClient[c].file IN
  /\ laClient[c].pc = "inside" /\ f.status[s] # "none"
  /\ laWork' = LaKilled(c, f, s)
  /\ LaFinish(c, LaRevoked(f, s))
  /\ UNCHANGED <<laOwner, laLate>>

\* handoff: revoke the current Session and start another inside one lock.  A
\* parallel Session of another agent refuses the start; the revocation stays.
LaHandoff(c) ==
  LET f == laClient[c].file
      g == LaRevoked(f, f.current)
      busy == \E s \in 1 .. g.count : LaLive(g, s) IN
  /\ laClient[c].pc = "inside" /\ f.current # 0
  /\ busy \/ g.count < LaMaxSessions
  /\ laWork' = LaKilled(c, f, f.current)
  /\ LaFinish(c, IF busy THEN g ELSE LaNewSession(g))
  /\ laOwner' = IF busy THEN laOwner ELSE [laOwner EXCEPT ![g.count + 1] = c]
  /\ UNCHANGED laLate

\* listSessions, status
LaList(c, set) ==
  LET f == laClient[c].file IN
  /\ laClient[c].pc = "inside"
  /\ LaFinish(c, LaExpire(f, set)) /\ UNCHANGED <<laOwner, laWork, laLate>>

\* Nothing is written: the boundary cannot be made, the source is dirty or its
\* base is stale, the Session is not bound here.
LaRefuse(c) ==
  /\ laClient[c].pc = "inside" /\ LaFinish(c, laFile)
  /\ UNCHANGED <<laOwner, laWork, laLate>>

\* A credential, a finding or a revision is recorded, or a tool denied: the
\* state is written with its audit.
LaTool(c, s) ==
  LET f == laClient[c].file IN
  /\ laClient[c].pc = "inside" /\ f.status[s] # "none"
  /\ LaFinish(c, IF LaLive(f, s) THEN f ELSE LaRefused(f, s))
  /\ UNCHANGED <<laOwner, laWork, laLate>>

\* validateWorkspaceCredential reads the file without the lock.
LaCredentialValid(s) == laFile.status[s] = "active" /\ s \notin laLate

-----------------------------------------------------------------------------
(* Workloads: run.start and launchAgent *)

\* Only the broker that made the boundary runs commands in it, one at a time.
LaBound(c, s) == laOwner[s] = c

\* prepareRunStart, or the Session that launchAgent selects; then the custodian
\* is spawned outside the lock and holds the workload back.
LaPrepare(c, s) ==
  LET f == laClient[c].file IN
  /\ laClient[c].pc = "inside" /\ LaBound(c, s) /\ laWork[s] = "none"
  /\ IF LaLive(f, s)
       THEN laWork' = [laWork EXCEPT ![s] = "spawned"] /\ LaFinish(c, laFile)
       ELSE UNCHANGED laWork /\ LaFinish(c, LaRefused(f, s))
  /\ UNCHANGED <<laOwner, laLate>>

LaRegisterAnyway(c, s) ==   \* mutant: registration does not look at the Session
  LET f == laClient[c].file IN
  /\ laClient[c].pc = "inside" /\ LaBound(c, s) /\ laWork[s] = "spawned"
  /\ laWork' = [laWork EXCEPT ![s] = "registered"]
  /\ LaFinish(c, [f EXCEPT !.registered = @ \cup {s}])
  /\ UNCHANGED <<laOwner, laLate>>

\* registerWorkspaceProcess: a Session that is no longer active has its
\* custodian killed before the workload starts.
LaRegister(c, s) ==
  LET f == laClient[c].file IN
  /\ laClient[c].pc = "inside" /\ LaBound(c, s) /\ laWork[s] = "spawned"
  /\ IF LaLive(f, s)
       THEN /\ laWork' = [laWork EXCEPT ![s] = "registered"]
            /\ LaFinish(c, [f EXCEPT !.registered = @ \cup {s}])
       ELSE /\ laWork' = [laWork EXCEPT ![s] = "none"] /\ LaFinish(c, LaRefused(f, s))
  /\ UNCHANGED <<laOwner, laLate>>

\* "start" on the control pipe, and the end of the workload
LaRelease(s) ==
  /\ laWork[s] = "registered" /\ laWork' = [laWork EXCEPT ![s] = "running"]
  /\ UNCHANGED <<laFile, laLock, laClient, laOwner, laLate>>

LaEnd(s) ==
  /\ laWork[s] = "running" /\ laWork' = [laWork EXCEPT ![s] = "ended"]
  /\ UNCHANGED <<laFile, laLock, laClient, laOwner, laLate>>

\* Its deadline, its output or a resource limit cuts it off.
LaCut(s) ==
  /\ laWork[s] = "running" /\ laWork' = [laWork EXCEPT ![s] = "killed"]
  /\ UNCHANGED <<laFile, laLock, laClient, laOwner, laLate>>

\* The Run is recorded: blocked when its Session was revoked or is over.
LaComplete(c, s, succeeded) ==
  LET f == laClient[c].file
      g == IF f.status[s] = "active" /\ s \in laLate THEN LaRefused(f, s) ELSE f IN
  /\ laClient[c].pc = "inside" /\ LaBound(c, s) /\ laWork[s] \in {"ended", "killed"}
  /\ succeeded => laWork[s] = "ended"
  /\ laWork' = [laWork EXCEPT ![s] = "none"]
  /\ LaFinish(c, [g EXCEPT
       !.registered = @ \ {s},
       !.passed = IF LaLive(f, s) /\ succeeded THEN @ \cup {s} ELSE @])
  /\ UNCHANGED <<laOwner, laLate>>

LaNext ==
  \/ \E c \in LaClients :
       \/ LaWant(c) \/ LaCreateLock(c) \/ LaEnter(c) \/ LaTimeout(c) \/ LaUnlink(c)
       \/ LaCrash(c) \/ LaReuse(c) \/ LaStart(c) \/ LaHandoff(c) \/ LaRefuse(c)
       \/ \E set \in SUBSET LaSessions : LaList(c, set)
       \/ \E s \in LaSessions :
            \/ LaRevoke(c, s) \/ LaTool(c, s) \/ LaPrepare(c, s) \/ LaRegister(c, s)
            \/ \E succeeded \in BOOLEAN : LaComplete(c, s, succeeded)
  \/ \E s \in LaSessions : LaRelease(s) \/ LaEnd(s) \/ LaCut(s) \/ LaPassTime(s)

LaSpec == LaInit /\ [][LaNext]_laVars

-----------------------------------------------------------------------------
(* Properties *)

\* What handoff and revoke promise (ADR 0029): a Session that was revoked never
\* validates a credential again, whatever other brokers write back (agent.ts
\* 955-1014).  It fails when two waiters take over the lock of a dead broker.
LaRevocationSurvives ==
  [][\A s \in LaSessions : laFile.status[s] = "revoked" => ~LaCredentialValid(s)']_laVars

\* With at most one waiter behind a dead broker it holds, and no workload of a
\* revoked Session runs (agent.ts 1342-1377, 1384-1393).
LaRevocationHolds ==
  /\ [](\A s \in LaSessions : laFile.status[s] = "revoked" => laWork[s] # "running")
  /\ LaRevocationSurvives
=============================================================================
