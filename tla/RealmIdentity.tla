---------------------------- MODULE RealmIdentity ----------------------------
(* Sessions, Capability Grants and Credentials of one Realm                  *)
(* (RealmIdentityPolicy in identity/realm.ts).  A human Session gives itself *)
(* Grants and delegates to Agents; a Credential is issued against a Grant.   *)
(* Every use walks the chain from the Credential to the human Session again, *)
(* under the authorization epoch of the day.  Revocation cascades, a policy  *)
(* change starts a new epoch, a restart keeps everything but Credentials,    *)
(* and a recovery loads a snapshot that may be older than a revocation.      *)
(* There is one Principal; a Task lives and ends with its Session.           *)
EXTENDS Integers, FiniteSets

CONSTANTS
  IdAgents,        \* Agents that may be enrolled
  IdCapabilities,  \* includes "agent.delegate"
  IdProhibited,    \* capabilities no Agent is given
  IdActionSets,    \* the sets of actions Grants are asked for with
  IdDeniedSets,    \* the sets of actions a human's Grant denies explicitly
  IdMaxSessions,   \* bounds; ids are given in order
  IdMaxGrants,
  IdMaxCredentials,
  IdMaxEpoch,
  IdNone

ASSUME IdAssumption ==
  /\ IdProhibited \subseteq IdCapabilities
  /\ IdActionSets \subseteq SUBSET IdCapabilities
  /\ IdDeniedSets \subseteq SUBSET IdCapabilities
  /\ "agent.delegate" \in IdCapabilities
  /\ IdNone \notin IdAgents
  /\ {IdMaxSessions, IdMaxGrants, IdMaxCredentials} \subseteq Nat /\ IdMaxEpoch \in Nat \ {0}

IdSessions == 1 .. IdMaxSessions
IdGrants == 1 .. IdMaxGrants
IdCredentials == 1 .. IdMaxCredentials

VARIABLES
  idRealm,       \* [epoch, sessions, grants, agents, role]: what is persisted
  idCredential,  \* Credential -> [status, grant, epoch]: lost at a restart
  idRevoked      \* every Session and Grant that was ever revoked by name

idVars == <<idRealm, idCredential, idRevoked>>

IdSession == [status : {"absent", "active", "revoked", "expired"}, agent : IdAgents \cup {IdNone},
              parent : 0 .. IdMaxSessions, epoch : 0 .. IdMaxEpoch]
IdGrant == [status : {"absent", "active", "revoked", "expired"}, session : 0 .. IdMaxSessions,
            parent : 0 .. IdMaxGrants, actions : SUBSET IdCapabilities,
            denied : SUBSET IdCapabilities, epoch : 0 .. IdMaxEpoch]
IdCredential == [status : {"absent", "active", "revoked", "expired"},
                 grant : 0 .. IdMaxGrants, epoch : 0 .. IdMaxEpoch]
\* Relationships: the capabilities their roles give and the ones they deny.
IdRole == [gives : SUBSET IdCapabilities, denies : SUBSET IdCapabilities]
IdRealm == [epoch : 1 .. IdMaxEpoch, sessions : [IdSessions -> IdSession],
            grants : [IdGrants -> IdGrant], role : IdRole,
            agents : [IdAgents -> {"absent", "active", "revoked"}]]

IdTypeOK ==
  /\ idRealm \in IdRealm
  /\ idCredential \in [IdCredentials -> IdCredential]
  /\ idRevoked \subseteq ({"session"} \X IdSessions) \cup ({"grant"} \X IdGrants)

IdNoSession == [status |-> "absent", agent |-> IdNone, parent |-> 0, epoch |-> 0]
IdNoGrant == [status |-> "absent", session |-> 0, parent |-> 0, actions |-> {},
              denied |-> {}, epoch |-> 0]
IdNoCredential == [status |-> "absent", grant |-> 0, epoch |-> 0]

IdInit ==
  /\ idRealm = [epoch |-> 1, sessions |-> [s \in IdSessions |-> IdNoSession],
                grants |-> [g \in IdGrants |-> IdNoGrant],
                role |-> [gives |-> {}, denies |-> {}],
                agents |-> [a \in IdAgents |-> "absent"]]
  /\ idCredential = [c \in IdCredentials |-> IdNoCredential]
  /\ idRevoked = {}

-----------------------------------------------------------------------------
(* The chains *)

\* sessionChainIsActive: a delegated Session has one parent, a human one.
IdSessionAlone(s) ==
  LET x == idRealm.sessions[s] IN
  /\ x.status = "active" /\ x.epoch = idRealm.epoch
  /\ x.agent # IdNone => idRealm.agents[x.agent] = "active"

IdSessionActive(s) ==
  /\ IdSessionAlone(s)
  /\ idRealm.sessions[s].parent # 0 => IdSessionAlone(idRealm.sessions[s].parent)

\* The Grants from g to the one that was not derived from another.
IdAncestors(g) ==
  {h \in IdGrants : \/ h = g
                    \/ h = idRealm.grants[g].parent
                    \/ \E k \in IdGrants : /\ k = idRealm.grants[g].parent
                                           /\ h = idRealm.grants[k].parent}

\* grantChainIsActive
IdGrantActive(g) ==
  \A h \in IdAncestors(g) : /\ idRealm.grants[h].status = "active"
                            /\ idRealm.grants[h].epoch = idRealm.epoch

IdIsHuman(s) == idRealm.sessions[s].agent = IdNone

\* evaluateDecision: the relationships and the Source Space policy.
IdRoleAllows(capability) == capability \in idRealm.role.gives \ idRealm.role.denies

\* evaluateDecision: the Grant.
IdGrantAllows(g, capability) ==
  IdGrantActive(g) /\ capability \in idRealm.grants[g].actions \ idRealm.grants[g].denied

\* evaluateDecision, for a Session using a Grant of its own: every factor is
\* satisfied.
IdAllows(s, g, capability) ==
  /\ IdSessionActive(s)
  /\ IdRoleAllows(capability)
  /\ idRealm.grants[g].session = s
  /\ IdGrantAllows(g, capability)

\* validateCredential
IdValid(c) ==
  LET x == idCredential[c] IN
  /\ x.status = "active" /\ x.epoch = idRealm.epoch
  /\ IdGrantActive(x.grant)
  /\ IdSessionActive(idRealm.grants[x.grant].session)

-----------------------------------------------------------------------------
(* Enrolment and authentication *)

IdNextSession(s) == idRealm.sessions[s].status = "absent" /\ \A r \in 1 .. s - 1 : idRealm.sessions[r].status # "absent"
IdNextGrant(g) == idRealm.grants[g].status = "absent" /\ \A h \in 1 .. g - 1 : idRealm.grants[h].status # "absent"

\* The one relationship of the Principal; nothing takes it back.
IdAddRelationship(gives, denies) ==
  /\ idRealm.role.gives = {}
  /\ idRealm' = [idRealm EXCEPT !.role = [gives |-> gives, denies |-> denies]]
  /\ UNCHANGED <<idCredential, idRevoked>>

IdRegisterAgent(a) ==
  /\ idRealm.agents[a] = "absent"
  /\ idRealm' = [idRealm EXCEPT !.agents[a] = "active"]
  /\ UNCHANGED <<idCredential, idRevoked>>

\* createHumanSession, after a passkey or an OIDC identity was verified.
IdAuthenticate(s) ==
  /\ IdNextSession(s)
  /\ idRealm' = [idRealm EXCEPT !.sessions[s] =
       [status |-> "active", agent |-> IdNone, parent |-> 0, epoch |-> idRealm.epoch]]
  /\ UNCHANGED <<idCredential, idRevoked>>

-----------------------------------------------------------------------------
(* Grants *)

IdNewGrant(s, parent, actions, denied) ==
  [status |-> "active", session |-> s, parent |-> parent, actions |-> actions,
   denied |-> denied, epoch |-> idRealm.epoch]

\* createCapabilityGrant: a derived Grant stays within what its parent names.
\* The parent's denials are not among it.
IdNarrows(parent, actions) ==
  parent # 0 => IdGrantActive(parent) /\ actions \subseteq idRealm.grants[parent].actions

\* createTask and createCapabilityGrant for a human Session, alone or derived
\* from a Grant of the same Session.
IdGrantToSelf(s, g, parent, actions, denied) ==
  /\ IdNextGrant(g)
  /\ IdSessionActive(s) /\ IdIsHuman(s)
  /\ parent # 0 => idRealm.grants[parent].session = s /\ idRealm.grants[parent].parent = 0
  /\ IdNarrows(parent, actions)
  /\ idRealm' = [idRealm EXCEPT !.grants[g] = IdNewGrant(s, parent, actions, denied)]
  /\ UNCHANGED <<idCredential, idRevoked>>

\* A Grant for an Agent is derived from one of the Session that delegated.
IdGrantToAgent(t, g, parent, actions) ==
  /\ IdNextGrant(g)
  /\ IdSessionActive(t) /\ ~ IdIsHuman(t)
  /\ parent # 0
  /\ idRealm.grants[parent].session = idRealm.sessions[t].parent
  /\ IdNarrows(parent, actions)
  /\ actions \cap IdProhibited = {}
  /\ idRealm' = [idRealm EXCEPT !.grants[g] = IdNewGrant(t, parent, actions, {})]
  /\ UNCHANGED <<idCredential, idRevoked>>

IdDelegateAnything(s, parent, a, t, g, actions) ==   \* mutant: actions are not compared
  /\ IdNextSession(t) /\ IdNextGrant(g)
  /\ IdSessionActive(s) /\ IdIsHuman(s)
  /\ idRealm.agents[a] = "active"
  /\ idRealm.grants[parent].session = s
  /\ IdGrantActive(parent)
  /\ idRealm' = [idRealm EXCEPT
       !.sessions[t] = [status |-> "active", agent |-> a, parent |-> s, epoch |-> idRealm.epoch],
       !.grants[g] = IdNewGrant(t, parent, actions, {})]
  /\ UNCHANGED <<idCredential, idRevoked>>

\* delegateAgent: an Agent's Session, Task and Grant at once.
IdDelegate(s, parent, a, t, g, actions) ==
  /\ IdNextSession(t) /\ IdNextGrant(g)
  /\ IdSessionActive(s) /\ IdIsHuman(s)
  /\ idRealm.agents[a] = "active"
  /\ idRealm.grants[parent].session = s
  /\ IdGrantActive(parent)
  /\ "agent.delegate" \in idRealm.grants[parent].actions
  /\ "agent.delegate" \in idRealm.role.gives \ idRealm.role.denies
  /\ IdNarrows(parent, actions)
  /\ actions \cap IdProhibited = {}
  /\ idRealm' = [idRealm EXCEPT
       !.sessions[t] = [status |-> "active", agent |-> a, parent |-> s, epoch |-> idRealm.epoch],
       !.grants[g] = IdNewGrant(t, parent, actions, {})]
  /\ UNCHANGED <<idCredential, idRevoked>>

-----------------------------------------------------------------------------
(* Credentials *)

IdIssue(c, g) ==
  /\ idCredential[c].status = "absent"
  /\ \A d \in 1 .. c - 1 : idCredential[d].status # "absent"
  /\ idRealm.grants[g].status # "absent"
  /\ IdSessionActive(idRealm.grants[g].session)
  /\ IdGrantActive(g)
  /\ idCredential' = [idCredential EXCEPT ![c] =
       [status |-> "active", grant |-> g, epoch |-> idRealm.epoch]]
  /\ UNCHANGED <<idRealm, idRevoked>>

\* validateCredential marks a Credential whose chain is broken as revoked.
IdValidateStale(c) ==
  /\ idCredential[c].status = "active" /\ ~ IdValid(c)
  /\ idCredential' = [idCredential EXCEPT ![c].status = "revoked"]
  /\ UNCHANGED <<idRealm, idRevoked>>

-----------------------------------------------------------------------------
(* Revocation, expiry and the policy epoch *)

IdMark(records, which, status) ==
  [x \in DOMAIN records |-> IF x \in which THEN [records[x] EXCEPT !.status = status] ELSE records[x]]

\* The Sessions and Grants become revoked, with all that hangs on them.
IdRevoke(sessions, grants) ==
  LET live == {g \in IdGrants : idRealm.grants[g].status = "active"}
      roots == grants \cup {g \in live : idRealm.grants[g].session \in sessions}
      below == {g \in live : IdAncestors(g) \cap roots # {}}
      all == roots \cup below
  IN /\ idRealm' = [idRealm EXCEPT !.sessions = IdMark(@, sessions, "revoked"),
                                   !.grants = IdMark(@, all, "revoked")]
     /\ idCredential' = IdMark(idCredential,
          {c \in IdCredentials : /\ idCredential[c].status = "active"
                                 /\ \/ idCredential[c].grant \in all
                                    \/ idRealm.grants[idCredential[c].grant].session \in sessions},
          "revoked")
     /\ idRevoked' = idRevoked \cup ({"session"} \X sessions) \cup ({"grant"} \X all)

IdRevokeGrant(g) ==
  /\ idRealm.grants[g].status # "absent"
  /\ IdRevoke({}, {g})

\* The Session and the Sessions it delegated.
IdRevokeSession(s) ==
  /\ idRealm.sessions[s].status # "absent"
  /\ IdRevoke({r \in IdSessions : r = s \/ idRealm.sessions[r].parent = s}, {})

\* Every Session of the Agent, and the Agent itself.
IdRevokeAgent(a) ==
  LET sessions == {s \in IdSessions : idRealm.sessions[s].agent = a}
      grants == {g \in IdGrants : idRealm.grants[g].session \in sessions /\ idRealm.grants[g].status = "active"}
  IN /\ idRealm.agents[a] = "active"
     /\ idRealm' = [idRealm EXCEPT !.agents[a] = "revoked",
                                   !.sessions = IdMark(@, sessions, "revoked"),
                                   !.grants = IdMark(@, grants, "revoked")]
     /\ idCredential' = IdMark(idCredential,
          {c \in IdCredentials : /\ idCredential[c].status = "active"
                                 /\ idRealm.grants[idCredential[c].grant].session \in sessions},
          "revoked")
     /\ idRevoked' = idRevoked \cup ({"session"} \X sessions) \cup ({"grant"} \X grants)

IdRevokeCredential(c) ==
  /\ idCredential[c].status = "active"
  /\ idCredential' = [idCredential EXCEPT ![c].status = "revoked"]
  /\ UNCHANGED <<idRealm, idRevoked>>

\* The time of a Session or a Grant runs out.
IdSessionExpires(s) ==
  /\ idRealm.sessions[s].status = "active"
  /\ idRealm' = [idRealm EXCEPT !.sessions[s].status = "expired"]
  /\ UNCHANGED <<idCredential, idRevoked>>

IdGrantExpires(g) ==
  /\ idRealm.grants[g].status = "active"
  /\ idRealm' = [idRealm EXCEPT !.grants[g].status = "expired"]
  /\ UNCHANGED <<idCredential, idRevoked>>

IdActivatePolicy ==
  /\ idRealm.epoch < IdMaxEpoch
  /\ idRealm' = [idRealm EXCEPT !.epoch = @ + 1]
  /\ UNCHANGED <<idCredential, idRevoked>>

-----------------------------------------------------------------------------
(* Restart and recovery *)

IdGiven(records) == {x \in DOMAIN records : records[x].status # "absent"}

IdForgetCredentials == idCredential' = [c \in IdCredentials |->
  IF idCredential[c].status = "absent" THEN idCredential[c]
  ELSE [idCredential[c] EXCEPT !.status = "revoked"]]

\* restoreOperationalSnapshot: the state that was persisted, without Credentials.
IdRestart ==
  /\ \E c \in IdCredentials : idCredential[c].status = "active"
  /\ IdForgetCredentials
  /\ UNCHANGED <<idRealm, idRevoked>>

\* The Agents of a snapshot taken at some earlier time.
IdEarlierAgents == {agents \in [IdAgents -> {"absent", "active", "revoked"}] :
  \A a \in IdAgents : \/ agents[a] = idRealm.agents[a]
                     \/ idRealm.agents[a] = "revoked"
                     \/ agents[a] = "absent"}

IdRecoverAsItWas(agents) ==   \* mutant: the snapshot's Sessions and Grants are active again
  /\ agents \in IdEarlierAgents
  /\ idRealm' = [idRealm EXCEPT
       !.sessions = IdMark(@, IdGiven(@), "active"),
       !.grants = IdMark(@, IdGiven(@), "active"), !.agents = agents]
  /\ IdForgetCredentials
  /\ UNCHANGED idRevoked

\* restoreRecoverySnapshot, of a snapshot of some earlier time: no Session, Task
\* or Grant survives, whether the snapshot has it or not, and the epoch is one
\* that neither side has seen.  The Agents are those of the snapshot, so that
\* one revoked since is enrolled again.
IdRecover(agents) ==
  /\ agents \in IdEarlierAgents
  /\ idRealm.epoch < IdMaxEpoch
  /\ idRealm' = [idRealm EXCEPT
       !.epoch = @ + 1,
       !.sessions = IdMark(@, IdGiven(@), "revoked"),
       !.grants = IdMark(@, IdGiven(@), "revoked"), !.agents = agents]
  /\ IdForgetCredentials
  /\ idRevoked' = ({"session"} \X IdGiven(idRealm.sessions)) \cup ({"grant"} \X IdGiven(idRealm.grants))

IdNext ==
  \/ \E denies \in SUBSET IdProhibited : IdAddRelationship(IdCapabilities, denies)
  \/ \E a \in IdAgents : IdRegisterAgent(a) \/ IdRevokeAgent(a)
  \/ \E s \in IdSessions :
       \/ IdAuthenticate(s) \/ IdRevokeSession(s) \/ IdSessionExpires(s)
       \/ \E g \in IdGrants, actions \in IdActionSets, parent \in 0 .. IdMaxGrants :
            \/ \E denied \in IdDeniedSets :
                 IdGrantToSelf(s, g, parent, actions, denied)
            \/ IdGrantToAgent(s, g, parent, actions)
            \/ \E t \in IdSessions, a \in IdAgents : parent # 0 /\ IdDelegate(s, parent, a, t, g, actions)
  \/ \E g \in IdGrants :
       \/ IdRevokeGrant(g) \/ IdGrantExpires(g)
       \/ \E c \in IdCredentials : IdIssue(c, g)
  \/ \E c \in IdCredentials : IdValidateStale(c) \/ IdRevokeCredential(c)
  \/ IdActivatePolicy \/ IdRestart
  \/ \E agents \in [IdAgents -> {"absent", "active", "revoked"}] : IdRecover(agents)

IdSpec == IdInit /\ [][IdNext]_idVars

-----------------------------------------------------------------------------

\* A Credential that is accepted hangs on no Session and no Grant that was ever
\* revoked, whatever was delegated, expired, restarted or recovered from an
\* older snapshot since (revokeSession, revokeGrant, loadSnapshot).
IdRevokedStaysRevoked ==
  \A c \in IdCredentials : (idCredential[c].status = "active" /\ IdValid(c)) =>
    LET chain == IdAncestors(idCredential[c].grant) IN
    /\ ({"grant"} \X chain) \cap idRevoked = {}
    /\ ({"session"} \X {idRealm.grants[g].session : g \in chain}) \cap idRevoked = {}

\* What an Agent may do is still allowed, at that moment, to the Session that
\* delegated, under the Grant it delegated from; that Grant's explicit denials
\* apart, which a derived Grant does not carry (delegateAgent, evaluate).
IdAgentWithinDelegator ==
  \A g \in IdGrants, capability \in IdCapabilities :
    LET s == idRealm.grants[g].session
        p == idRealm.grants[g].parent
    IN (/\ idRealm.grants[g].status = "active"
        /\ ~ IdIsHuman(s) /\ IdAllows(s, g, capability))
       => /\ capability \notin IdProhibited
          /\ \/ IdAllows(idRealm.sessions[s].parent, p, capability)
             \/ capability \in idRealm.grants[p].denied

\* ADR 0008: "a grant can only narrow it. An explicit deny wins."  What a human
\* Session's Grant denies is denied to the Agent it delegated to
\* (delegateAgent, createCapabilityGrant).
IdDenyIsInherited ==
  \A g \in IdGrants, capability \in IdCapabilities :
    LET s == idRealm.grants[g].session
        p == idRealm.grants[g].parent
    IN (/\ idRealm.grants[g].status = "active"
        /\ ~ IdIsHuman(s) /\ IdAllows(s, g, capability))
       => capability \notin idRealm.grants[p].denied
=============================================================================
