------------------------ MODULE RealmServicesProofs -------------------------
(* Proofs about the services of a Realm: identity, the owner's claim, hosted *)
(* Workspaces, extensions, governance profiles, disclosure, the store of     *)
(* Realms hosted together, the public gateway and the storage of the         *)
(* Authority.  Each part finds the inductive invariant of one service; the   *)
(* last one puts the services side by side.                                  *)
EXTENDS MCRealmServices, TLAPS, FiniteSetTheorems, SequenceTheorems, WellFoundedInduction

\* A set of numbers that is not empty has a least one.
LEMMA FirstPosition ==
  ASSUME NEW S \in SUBSET Nat, S # {}
  PROVE  \E i \in S : \A j \in S : i <= j
  <1>1. \E i \in S : \A j \in S : <<j, i>> \notin OpToRel(<, Nat)
    BY NatLessThanWellFounded, WFMin
  <1>2. PICK i \in S : \A j \in S : <<j, i>> \notin OpToRel(<, Nat)
    BY <1>1
  <1>3. \A j \in S : ~ (j < i)
    BY <1>2 DEF OpToRel
  <1> QED
    BY <1>3

-----------------------------------------------------------------------------
(* Identity of a Realm *)

IdStatus == {"absent", "active", "revoked", "expired"}

\* A human Session stands alone; an Agent's hangs on a human one.
IdSessionSound(S, s) ==
  IF S[s].agent = IdNone THEN S[s].parent = 0
  ELSE /\ S[s].status # "absent"
       /\ S[s].parent \in IdSessions
       /\ S[S[s].parent].agent = IdNone /\ S[S[s].parent].status # "absent"

\* A derived Grant names no more than its parent.  A human's hangs on a root
\* Grant of the same Session, an Agent's on one of the Session that delegated.
IdGrantSound(S, G, g) ==
  LET p == G[g].parent
      s == G[g].session
  IN G[g].status # "absent" =>
       /\ s \in IdSessions /\ S[s].status # "absent"
       /\ p # 0 => /\ p \in IdGrants /\ G[p].status # "absent"
                   /\ G[g].actions \subseteq G[p].actions
       /\ IF S[s].agent = IdNone THEN p # 0 => G[p].session = s /\ G[p].parent = 0
          ELSE p # 0 /\ G[p].session = S[s].parent /\ G[g].actions \cap IdProhibited = {}

\* What is given keeps what its chain is made of.
IdKeep(S, G, T, H) ==
  /\ \A s \in IdSessions : S[s].status # "absent" =>
       T[s].status # "absent" /\ T[s].agent = S[s].agent /\ T[s].parent = S[s].parent
  /\ \A g \in IdGrants : G[g].status # "absent" =>
       /\ H[g].status # "absent" /\ H[g].session = G[g].session /\ H[g].parent = G[g].parent
       /\ H[g].actions = G[g].actions

IdRevokedSound(S, G, R) ==
  /\ \A s \in IdSessions : <<"session", s>> \in R => S[s].status = "revoked"
  /\ \A g \in IdGrants : <<"grant", g>> \in R => G[g].status = "revoked"

IdCredentialSound(G, C) ==
  \A c \in IdCredentials : C[c].status = "active" =>
    C[c].grant \in IdGrants /\ G[C[c].grant].status # "absent"

\* The inductive invariant of the identity of a Realm.
IdInv ==
  /\ IdTypeOK
  /\ \A s \in IdSessions : IdSessionSound(idRealm.sessions, s)
  /\ \A g \in IdGrants : IdGrantSound(idRealm.sessions, idRealm.grants, g)
  /\ IdRevokedSound(idRealm.sessions, idRealm.grants, idRevoked)
  /\ IdCredentialSound(idRealm.grants, idCredential)

IdRevocable == ({"session"} \X IdSessions) \cup ({"grant"} \X IdGrants)

-----------------------------------------------------------------------------

LEMMA IdFields ==
  ASSUME NEW r \in IdRealm
  PROVE  /\ r.epoch \in 1 .. IdMaxEpoch
         /\ r.sessions \in [IdSessions -> IdSession]
         /\ r.grants \in [IdGrants -> IdGrant]
         /\ r.role \in IdRole
         /\ r.agents \in [IdAgents -> {"absent", "active", "revoked"}]
  BY DEF IdRealm

LEMMA IdKeepSession ==
  ASSUME NEW S, NEW G, NEW T, NEW H, IdKeep(S, G, T, H), NEW s \in IdSessions,
         S[s].status # "absent", IdSessionSound(S, s)
  PROVE  IdSessionSound(T, s)
  BY DEF IdKeep, IdSessionSound

LEMMA IdKeepGrant ==
  ASSUME NEW S, NEW G, NEW T, NEW H, IdKeep(S, G, T, H), NEW g \in IdGrants,
         G[g].status # "absent", IdGrantSound(S, G, g)
  PROVE  IdGrantSound(T, H, g)
  BY DEF IdKeep, IdGrantSound

\* A step that keeps what is given and gives only what is sound.
LEMMA IdMoves ==
  ASSUME IdInv, NEW T, NEW H,
         IdKeep(idRealm.sessions, idRealm.grants, T, H),
         \A s \in IdSessions : idRealm.sessions[s].status = "absent" => IdSessionSound(T, s),
         \A g \in IdGrants : idRealm.grants[g].status = "absent" => IdGrantSound(T, H, g),
         idRealm' \in IdRealm, idRealm'.sessions = T, idRealm'.grants = H,
         idCredential' \in [IdCredentials -> IdCredential],
         IdCredentialSound(idRealm.grants, idCredential'),
         idRevoked' \subseteq IdRevocable, IdRevokedSound(T, H, idRevoked')
  PROVE  IdInv'
  <1>1. IdTypeOK'
    BY DEF IdTypeOK, IdRevocable
  <1>2. \A s \in IdSessions : IdSessionSound(T, s)
    BY IdKeepSession DEF IdInv
  <1>3. \A g \in IdGrants : IdGrantSound(T, H, g)
    BY IdKeepGrant DEF IdInv
  <1>4. IdCredentialSound(H, idCredential')
    BY DEF IdCredentialSound, IdKeep
  <1> QED
    BY <1>1, <1>2, <1>3, <1>4 DEF IdInv, IdSessionSound, IdGrantSound, IdRevokedSound, IdCredentialSound

\* Only statuses change, and none from or to absent.
LEMMA IdStatusMoves ==
  ASSUME IdInv, NEW T, NEW H,
         \A s \in IdSessions : /\ (T[s].status = "absent") <=> (idRealm.sessions[s].status = "absent")
                               /\ T[s].agent = idRealm.sessions[s].agent
                               /\ T[s].parent = idRealm.sessions[s].parent,
         \A g \in IdGrants : /\ (H[g].status = "absent") <=> (idRealm.grants[g].status = "absent")
                             /\ H[g].session = idRealm.grants[g].session
                             /\ H[g].parent = idRealm.grants[g].parent
                             /\ H[g].actions = idRealm.grants[g].actions,
         idRealm' \in IdRealm, idRealm'.sessions = T, idRealm'.grants = H,
         idCredential' \in [IdCredentials -> IdCredential],
         IdCredentialSound(idRealm.grants, idCredential'),
         idRevoked' \subseteq IdRevocable, IdRevokedSound(T, H, idRevoked')
  PROVE  IdInv'
  <1>1. IdKeep(idRealm.sessions, idRealm.grants, T, H)
    BY DEF IdKeep
  <1>2. \A s \in IdSessions : idRealm.sessions[s].status = "absent" => IdSessionSound(T, s)
    BY DEF IdSessionSound, IdInv
  <1>3. \A g \in IdGrants : idRealm.grants[g].status = "absent" => IdGrantSound(T, H, g)
    BY DEF IdGrantSound
  <1> QED
    BY <1>1, <1>2, <1>3, IdMoves

\* The Realm changes neither Sessions nor Grants.
LEMMA IdElsewhere ==
  ASSUME IdInv, idRealm' \in IdRealm, idRealm'.sessions = idRealm.sessions,
         idRealm'.grants = idRealm.grants,
         idCredential' \in [IdCredentials -> IdCredential],
         IdCredentialSound(idRealm.grants, idCredential'), UNCHANGED idRevoked
  PROVE  IdInv'
  <1>1. idRevoked' \subseteq IdRevocable
    BY DEF IdInv, IdTypeOK, IdRevocable
  <1>2. IdRevokedSound(idRealm.sessions, idRealm.grants, idRevoked')
    BY DEF IdInv
  <1> QED
    BY <1>1, <1>2, IdStatusMoves

LEMMA IdMarkSessions ==
  ASSUME NEW S \in [IdSessions -> IdSession], NEW W, NEW st \in IdStatus
  PROVE  /\ IdMark(S, W, st) \in [IdSessions -> IdSession]
         /\ \A s \in IdSessions : /\ IdMark(S, W, st)[s].agent = S[s].agent
                                  /\ IdMark(S, W, st)[s].parent = S[s].parent
                                  /\ s \in W => IdMark(S, W, st)[s].status = st
                                  /\ s \notin W => IdMark(S, W, st)[s].status = S[s].status
  <1>1. \A s \in IdSessions : [S[s] EXCEPT !.status = st] \in IdSession
    BY DEF IdSession, IdStatus
  <1>2. \A s \in IdSessions : /\ [S[s] EXCEPT !.status = st].agent = S[s].agent
                              /\ [S[s] EXCEPT !.status = st].parent = S[s].parent
                              /\ [S[s] EXCEPT !.status = st].status = st
    BY DEF IdSession
  <1>3. IdMark(S, W, st) = [s \in IdSessions |-> IF s \in W THEN [S[s] EXCEPT !.status = st] ELSE S[s]]
    BY DEF IdMark
  <1> QED
    BY <1>1, <1>2, <1>3

LEMMA IdMarkGrants ==
  ASSUME NEW G \in [IdGrants -> IdGrant], NEW W, NEW st \in IdStatus
  PROVE  /\ IdMark(G, W, st) \in [IdGrants -> IdGrant]
         /\ \A g \in IdGrants : /\ IdMark(G, W, st)[g].session = G[g].session
                                /\ IdMark(G, W, st)[g].parent = G[g].parent
                                /\ IdMark(G, W, st)[g].actions = G[g].actions
                                /\ g \in W => IdMark(G, W, st)[g].status = st
                                /\ g \notin W => IdMark(G, W, st)[g].status = G[g].status
  <1>1. \A g \in IdGrants : [G[g] EXCEPT !.status = st] \in IdGrant
    BY DEF IdGrant, IdStatus
  <1>2. \A g \in IdGrants : /\ [G[g] EXCEPT !.status = st].session = G[g].session
                            /\ [G[g] EXCEPT !.status = st].parent = G[g].parent
                            /\ [G[g] EXCEPT !.status = st].actions = G[g].actions
                            /\ [G[g] EXCEPT !.status = st].status = st
    BY DEF IdGrant
  <1>3. IdMark(G, W, st) = [g \in IdGrants |-> IF g \in W THEN [G[g] EXCEPT !.status = st] ELSE G[g]]
    BY DEF IdMark
  <1> QED
    BY <1>1, <1>2, <1>3

\* Credentials that are marked are not active any more.
LEMMA IdMarkCredentials ==
  ASSUME NEW C \in [IdCredentials -> IdCredential], NEW W, NEW st \in IdStatus \ {"active"}
  PROVE  /\ IdMark(C, W, st) \in [IdCredentials -> IdCredential]
         /\ \A c \in IdCredentials : IdMark(C, W, st)[c].status = "active" =>
              IdMark(C, W, st)[c] = C[c]
  <1>1. \A c \in IdCredentials : [C[c] EXCEPT !.status = st] \in IdCredential
    BY DEF IdCredential, IdStatus
  <1>2. \A c \in IdCredentials : [C[c] EXCEPT !.status = st].status = st
    BY DEF IdCredential
  <1>3. IdMark(C, W, st) = [c \in IdCredentials |-> IF c \in W THEN [C[c] EXCEPT !.status = st] ELSE C[c]]
    BY DEF IdMark
  <1> QED
    BY <1>1, <1>2, <1>3

LEMMA IdTypes ==
  ASSUME IdInv
  PROVE  /\ idRealm \in IdRealm
         /\ idRealm.epoch \in 1 .. IdMaxEpoch
         /\ idRealm.sessions \in [IdSessions -> IdSession]
         /\ idRealm.grants \in [IdGrants -> IdGrant]
         /\ idRealm.role \in IdRole
         /\ idRealm.agents \in [IdAgents -> {"absent", "active", "revoked"}]
         /\ idCredential \in [IdCredentials -> IdCredential]
         /\ idRevoked \subseteq IdRevocable
  BY IdFields DEF IdInv, IdTypeOK, IdRevocable

\* Sessions and Grants are revoked together, with whatever Credentials and
\* Agents; every one that is marked is given.
LEMMA IdRevokes ==
  ASSUME IdInv, NEW SS \in SUBSET IdSessions, NEW GG \in SUBSET IdGrants, NEW CC,
         \A s \in SS : idRealm.sessions[s].status # "absent",
         \A g \in GG : idRealm.grants[g].status # "absent",
         idRealm' \in IdRealm,
         idRealm'.sessions = IdMark(idRealm.sessions, SS, "revoked"),
         idRealm'.grants = IdMark(idRealm.grants, GG, "revoked"),
         idCredential' = IdMark(idCredential, CC, "revoked"),
         idRevoked' \subseteq idRevoked \cup ({"session"} \X SS) \cup ({"grant"} \X GG)
  PROVE  IdInv'
  <1> DEFINE T == IdMark(idRealm.sessions, SS, "revoked")
             H == IdMark(idRealm.grants, GG, "revoked")
  <1>0. "revoked" \in IdStatus /\ "revoked" # "active"
    BY DEF IdStatus
  <1>1. \A s \in IdSessions : /\ T[s].agent = idRealm.sessions[s].agent
                              /\ T[s].parent = idRealm.sessions[s].parent
                              /\ s \in SS => T[s].status = "revoked"
                              /\ s \notin SS => T[s].status = idRealm.sessions[s].status
    BY <1>0, IdTypes, IdMarkSessions
  <1>2. \A g \in IdGrants : /\ H[g].session = idRealm.grants[g].session
                            /\ H[g].parent = idRealm.grants[g].parent
                            /\ H[g].actions = idRealm.grants[g].actions
                            /\ g \in GG => H[g].status = "revoked"
                            /\ g \notin GG => H[g].status = idRealm.grants[g].status
    BY <1>0, IdTypes, IdMarkGrants
  <1>3. /\ idCredential' \in [IdCredentials -> IdCredential]
        /\ \A c \in IdCredentials : idCredential'[c].status = "active" =>
             idCredential'[c] = idCredential[c]
    BY <1>0, IdTypes, IdMarkCredentials
  <1>4. IdCredentialSound(idRealm.grants, idCredential')
    BY <1>3 DEF IdInv, IdCredentialSound
  <1>5. idRealm'.sessions = T /\ idRealm'.grants = H
    OBVIOUS
  <1> HIDE DEF T, H
  <1>6. IdRevokedSound(T, H, idRevoked')
    BY <1>1, <1>2 DEF IdRevokedSound, IdInv
  <1>7. idRevoked' \subseteq IdRevocable
    BY IdTypes DEF IdRevocable
  <1>8. \A s \in IdSessions : (T[s].status = "absent") <=> (idRealm.sessions[s].status = "absent")
    BY <1>1
  <1>9. \A g \in IdGrants : (H[g].status = "absent") <=> (idRealm.grants[g].status = "absent")
    BY <1>2
  <1> QED
    BY <1>1, <1>2, <1>3, <1>4, <1>5, <1>6, <1>7, <1>8, <1>9, IdStatusMoves

-----------------------------------------------------------------------------
(* The steps *)

LEMMA IdRealmSteps ==
  ASSUME IdInv, NEW T \in [IdSessions -> IdSession], NEW H \in [IdGrants -> IdGrant]
  PROVE  LET r == [idRealm EXCEPT !.sessions = T, !.grants = H]
         IN r \in IdRealm /\ r.sessions = T /\ r.grants = H
  <1>1. idRealm \in IdRealm
    BY IdTypes
  <1> QED
    BY <1>1 DEF IdRealm

LEMMA IdAddRelationshipInv ==
  ASSUME IdInv, NEW denies \in SUBSET IdProhibited, IdAddRelationship(IdCapabilities, denies)
  PROVE  IdInv'
  <1> DEFINE role == [gives |-> IdCapabilities, denies |-> denies]
  <1>1. role \in IdRole
    BY IdAssumption DEF IdRole
  <1>2. idRealm' = [idRealm EXCEPT !.role = role] /\ UNCHANGED <<idCredential, idRevoked>>
    BY DEF IdAddRelationship
  <1> HIDE DEF role
  <1>3. idRealm' \in IdRealm /\ idRealm'.sessions = idRealm.sessions /\ idRealm'.grants = idRealm.grants
    BY <1>1, <1>2, IdTypes DEF IdRealm
  <1>4. IdCredentialSound(idRealm.grants, idCredential') /\ idCredential' \in [IdCredentials -> IdCredential]
    BY <1>2, IdTypes DEF IdInv
  <1> QED
    BY <1>2, <1>3, <1>4, IdElsewhere

LEMMA IdRegisterAgentInv ==
  ASSUME IdInv, NEW a \in IdAgents, IdRegisterAgent(a)
  PROVE  IdInv'
  <1> DEFINE agents == [idRealm.agents EXCEPT ![a] = "active"]
  <1>1. agents \in [IdAgents -> {"absent", "active", "revoked"}]
    BY IdTypes
  <1>2. idRealm' = [idRealm EXCEPT !.agents = agents] /\ UNCHANGED <<idCredential, idRevoked>>
    BY IdTypes DEF IdRegisterAgent, IdRealm
  <1> HIDE DEF agents
  <1>3. idRealm' \in IdRealm /\ idRealm'.sessions = idRealm.sessions /\ idRealm'.grants = idRealm.grants
    BY <1>1, <1>2, IdTypes DEF IdRealm
  <1>4. IdCredentialSound(idRealm.grants, idCredential') /\ idCredential' \in [IdCredentials -> IdCredential]
    BY <1>2, IdTypes DEF IdInv
  <1> QED
    BY <1>2, <1>3, <1>4, IdElsewhere

LEMMA IdActivatePolicyInv ==
  ASSUME IdInv, IdActivatePolicy
  PROVE  IdInv'
  <1> DEFINE e == idRealm.epoch + 1
  <1>1. e \in 1 .. IdMaxEpoch
    BY IdTypes, IdAssumption DEF IdActivatePolicy
  <1>2. idRealm' = [idRealm EXCEPT !.epoch = e] /\ UNCHANGED <<idCredential, idRevoked>>
    BY DEF IdActivatePolicy
  <1> HIDE DEF e
  <1>3. idRealm' \in IdRealm /\ idRealm'.sessions = idRealm.sessions /\ idRealm'.grants = idRealm.grants
    BY <1>1, <1>2, IdTypes DEF IdRealm
  <1>4. IdCredentialSound(idRealm.grants, idCredential') /\ idCredential' \in [IdCredentials -> IdCredential]
    BY <1>2, IdTypes DEF IdInv
  <1> QED
    BY <1>2, <1>3, <1>4, IdElsewhere

\* Credentials change and the Realm does not.
LEMMA IdCredentialMoves ==
  ASSUME IdInv, idCredential' \in [IdCredentials -> IdCredential],
         \A c \in IdCredentials : idCredential'[c].status = "active" =>
           \/ idCredential'[c] = idCredential[c]
           \/ /\ idCredential'[c].grant \in IdGrants
              /\ idRealm.grants[idCredential'[c].grant].status # "absent",
         UNCHANGED <<idRealm, idRevoked>>
  PROVE  IdInv'
  <1>1. IdCredentialSound(idRealm.grants, idCredential')
    BY DEF IdInv, IdCredentialSound
  <1> QED
    BY <1>1, IdTypes, IdElsewhere

LEMMA IdForgets ==
  ASSUME IdInv, IdForgetCredentials
  PROVE  /\ idCredential' \in [IdCredentials -> IdCredential]
         /\ \A c \in IdCredentials : idCredential'[c].status # "active"
  <1>1. idCredential \in [IdCredentials -> IdCredential]
    BY IdTypes
  <1>2. \A c \in IdCredentials : [idCredential[c] EXCEPT !.status = "revoked"] \in IdCredential
    BY <1>1 DEF IdCredential
  <1>3. \A c \in IdCredentials : [idCredential[c] EXCEPT !.status = "revoked"].status = "revoked"
    BY <1>1 DEF IdCredential
  <1> QED
    BY <1>1, <1>2, <1>3 DEF IdForgetCredentials

LEMMA IdIssueInv ==
  ASSUME IdInv, NEW c \in IdCredentials, NEW g \in IdGrants, IdIssue(c, g)
  PROVE  IdInv'
  <1> DEFINE x == [status |-> "active", grant |-> g, epoch |-> idRealm.epoch]
  <1>1. g \in 0 .. IdMaxGrants /\ idRealm.epoch \in 0 .. IdMaxEpoch
    BY IdTypes, IdAssumption DEF IdGrants
  <1>2. x \in IdCredential /\ x.grant = g
    BY <1>1 DEF IdCredential
  <1>3. idCredential' = [idCredential EXCEPT ![c] = x] /\ UNCHANGED <<idRealm, idRevoked>>
        /\ idRealm.grants[g].status # "absent"
    BY DEF IdIssue
  <1> HIDE DEF x
  <1> QED
    BY <1>2, <1>3, IdTypes, IdCredentialMoves

LEMMA IdCredentialEnds ==
  ASSUME IdInv, NEW c \in IdCredentials, IdValidateStale(c) \/ IdRevokeCredential(c)
  PROVE  IdInv'
  <1> DEFINE x == [idCredential[c] EXCEPT !.status = "revoked"]
  <1>1. idCredential[c] \in IdCredential
    BY IdTypes
  <1>2. x \in IdCredential /\ x.status = "revoked"
    BY <1>1 DEF IdCredential
  <1>3. idCredential' = [idCredential EXCEPT ![c] = x] /\ UNCHANGED <<idRealm, idRevoked>>
    BY DEF IdValidateStale, IdRevokeCredential
  <1> HIDE DEF x
  <1> QED
    BY <1>2, <1>3, IdTypes, IdCredentialMoves

LEMMA IdSessionExpiresInv ==
  ASSUME IdInv, NEW s \in IdSessions, IdSessionExpires(s)
  PROVE  IdInv'
  <1> DEFINE x == [idRealm.sessions[s] EXCEPT !.status = "expired"]
             T == [idRealm.sessions EXCEPT ![s] = x]
             H == idRealm.grants
  <1>1. idRealm.sessions[s] \in IdSession
    BY IdTypes
  <1>2. x \in IdSession /\ x.status = "expired" /\ x.agent = idRealm.sessions[s].agent
        /\ x.parent = idRealm.sessions[s].parent
    BY <1>1 DEF IdSession
  <1>3. idRealm' = [idRealm EXCEPT !.sessions = T] /\ UNCHANGED <<idCredential, idRevoked>>
        /\ idRealm.sessions[s].status = "active"
    BY IdTypes DEF IdSessionExpires, IdRealm
  <1> HIDE DEF x
  <1>4. T \in [IdSessions -> IdSession]
    BY <1>2, IdTypes
  <1>5. \A r \in IdSessions : /\ (T[r].status = "absent") <=> (idRealm.sessions[r].status = "absent")
                              /\ T[r].agent = idRealm.sessions[r].agent
                              /\ T[r].parent = idRealm.sessions[r].parent
                              /\ idRealm.sessions[r].status = "revoked" => T[r].status = "revoked"
    BY <1>2, <1>3, IdTypes
  <1> HIDE DEF T
  <1>6. idRealm' \in IdRealm /\ idRealm'.sessions = T /\ idRealm'.grants = H
    BY <1>3, <1>4, IdTypes DEF IdRealm
  <1>7. IdRevokedSound(T, H, idRevoked')
    BY <1>3, <1>5 DEF IdRevokedSound, IdInv
  <1>8. IdCredentialSound(idRealm.grants, idCredential') /\ idCredential' \in [IdCredentials -> IdCredential]
        /\ idRevoked' \subseteq IdRevocable
    BY <1>3, IdTypes DEF IdInv
  <1> QED
    BY <1>5, <1>6, <1>7, <1>8, IdStatusMoves

LEMMA IdGrantExpiresInv ==
  ASSUME IdInv, NEW g \in IdGrants, IdGrantExpires(g)
  PROVE  IdInv'
  <1> DEFINE x == [idRealm.grants[g] EXCEPT !.status = "expired"]
             T == idRealm.sessions
             H == [idRealm.grants EXCEPT ![g] = x]
  <1>1. idRealm.grants[g] \in IdGrant
    BY IdTypes
  <1>2. x \in IdGrant /\ x.status = "expired" /\ x.session = idRealm.grants[g].session
        /\ x.parent = idRealm.grants[g].parent /\ x.actions = idRealm.grants[g].actions
    BY <1>1 DEF IdGrant
  <1>3. idRealm' = [idRealm EXCEPT !.grants = H] /\ UNCHANGED <<idCredential, idRevoked>>
        /\ idRealm.grants[g].status = "active"
    BY IdTypes DEF IdGrantExpires, IdRealm
  <1> HIDE DEF x
  <1>4. H \in [IdGrants -> IdGrant]
    BY <1>2, IdTypes
  <1>5. \A h \in IdGrants : /\ (H[h].status = "absent") <=> (idRealm.grants[h].status = "absent")
                            /\ H[h].session = idRealm.grants[h].session
                            /\ H[h].parent = idRealm.grants[h].parent
                            /\ H[h].actions = idRealm.grants[h].actions
                            /\ idRealm.grants[h].status = "revoked" => H[h].status = "revoked"
    BY <1>2, <1>3, IdTypes
  <1> HIDE DEF H
  <1>6. idRealm' \in IdRealm /\ idRealm'.sessions = T /\ idRealm'.grants = H
    BY <1>3, <1>4, IdTypes DEF IdRealm
  <1>7. IdRevokedSound(T, H, idRevoked')
    BY <1>3, <1>5 DEF IdRevokedSound, IdInv
  <1>8. IdCredentialSound(idRealm.grants, idCredential') /\ idCredential' \in [IdCredentials -> IdCredential]
        /\ idRevoked' \subseteq IdRevocable
    BY <1>3, IdTypes DEF IdInv
  <1> QED
    BY <1>5, <1>6, <1>7, <1>8, IdStatusMoves

\* revokeGrant and revokeSession: what is marked is given.
LEMMA IdRevokeInv ==
  ASSUME IdInv, NEW SS \in SUBSET IdSessions, NEW GG \in SUBSET IdGrants, IdRevoke(SS, GG),
         \A s \in SS : idRealm.sessions[s].status # "absent",
         \A g \in GG : idRealm.grants[g].status # "absent"
  PROVE  IdInv'
  <1> DEFINE live == {g \in IdGrants : idRealm.grants[g].status = "active"}
             roots == GG \cup {g \in live : idRealm.grants[g].session \in SS}
             all == roots \cup {g \in live : IdAncestors(g) \cap roots # {}}
             T == IdMark(idRealm.sessions, SS, "revoked")
             H == IdMark(idRealm.grants, all, "revoked")
             CC == {c \in IdCredentials :
                      /\ idCredential[c].status = "active"
                      /\ \/ idCredential[c].grant \in all
                         \/ idRealm.grants[idCredential[c].grant].session \in SS}
  <1>1. all \in SUBSET IdGrants /\ \A g \in all : idRealm.grants[g].status # "absent"
    OBVIOUS
  <1>2. idRealm' = [idRealm EXCEPT !.sessions = T, !.grants = H]
    BY DEF IdRevoke
  <1>3. idCredential' = IdMark(idCredential, CC, "revoked")
    BY DEF IdRevoke
  <1>4. idRevoked' = idRevoked \cup ({"session"} \X SS) \cup ({"grant"} \X all)
    BY DEF IdRevoke
  <1> HIDE DEF all, CC
  <1>5. "revoked" \in IdStatus
    BY DEF IdStatus
  <1>6. T \in [IdSessions -> IdSession] /\ H \in [IdGrants -> IdGrant]
    BY <1>5, IdTypes, IdMarkSessions, IdMarkGrants
  <1>7. idRealm' \in IdRealm /\ idRealm'.sessions = T /\ idRealm'.grants = H
    BY <1>2, <1>6, IdRealmSteps
  <1> QED
    BY <1>1, <1>3, <1>4, <1>7, IdRevokes

LEMMA IdRevokeAgentInv ==
  ASSUME IdInv, NEW a \in IdAgents, IdRevokeAgent(a)
  PROVE  IdInv'
  <1> DEFINE SS == {s \in IdSessions : idRealm.sessions[s].agent = a}
             GG == {g \in IdGrants : idRealm.grants[g].session \in SS /\ idRealm.grants[g].status = "active"}
             T == IdMark(idRealm.sessions, SS, "revoked")
             H == IdMark(idRealm.grants, GG, "revoked")
             A == [idRealm.agents EXCEPT ![a] = "revoked"]
             CC == {c \in IdCredentials :
                      /\ idCredential[c].status = "active"
                      /\ idRealm.grants[idCredential[c].grant].session \in SS}
  <1>1. /\ SS \in SUBSET IdSessions /\ GG \in SUBSET IdGrants
        /\ \A g \in GG : idRealm.grants[g].status # "absent"
    OBVIOUS
  <1>2. \A s \in SS : idRealm.sessions[s].status # "absent"
    BY IdAssumption DEF IdInv, IdSessionSound
  <1>3. idRealm' = [idRealm EXCEPT !.agents = A, !.sessions = T, !.grants = H]
    BY IdTypes DEF IdRevokeAgent, IdRealm
  <1>4. idCredential' = IdMark(idCredential, CC, "revoked")
    BY DEF IdRevokeAgent
  <1>5. idRevoked' = idRevoked \cup ({"session"} \X SS) \cup ({"grant"} \X GG)
    BY DEF IdRevokeAgent
  <1>6. A \in [IdAgents -> {"absent", "active", "revoked"}]
    BY IdTypes
  <1> HIDE DEF SS, GG, CC, A
  <1>7. "revoked" \in IdStatus
    BY DEF IdStatus
  <1>8. T \in [IdSessions -> IdSession] /\ H \in [IdGrants -> IdGrant]
    BY <1>7, IdTypes, IdMarkSessions, IdMarkGrants
  <1>9. idRealm' \in IdRealm /\ idRealm'.sessions = T /\ idRealm'.grants = H
    <2> HIDE DEF T, H
    <2> QED
      BY <1>3, <1>6, <1>8, IdTypes DEF IdRealm
  <1> QED
    BY <1>1, <1>2, <1>4, <1>5, <1>9, IdRevokes

LEMMA IdRecoverInv ==
  ASSUME IdInv, NEW A \in [IdAgents -> {"absent", "active", "revoked"}], IdRecover(A)
  PROVE  IdInv'
  <1> DEFINE SS == IdGiven(idRealm.sessions)
             GG == IdGiven(idRealm.grants)
             T == IdMark(idRealm.sessions, SS, "revoked")
             H == IdMark(idRealm.grants, GG, "revoked")
             e == idRealm.epoch + 1
  <1>1. /\ SS \in SUBSET IdSessions /\ GG \in SUBSET IdGrants
        /\ \A s \in SS : idRealm.sessions[s].status # "absent"
        /\ \A g \in GG : idRealm.grants[g].status # "absent"
    BY IdTypes DEF IdGiven
  <1>2. idRealm' = [idRealm EXCEPT !.epoch = e, !.sessions = T, !.grants = H, !.agents = A]
    BY DEF IdRecover
  <1>3. e \in 1 .. IdMaxEpoch
    BY IdTypes, IdAssumption DEF IdRecover
  <1>4. idRevoked' = ({"session"} \X SS) \cup ({"grant"} \X GG)
    BY DEF IdRecover
  <1>5. /\ idCredential' \in [IdCredentials -> IdCredential]
        /\ IdCredentialSound(idRealm.grants, idCredential')
    BY IdForgets DEF IdRecover, IdCredentialSound
  <1> HIDE DEF SS, GG, e
  <1>6. "revoked" \in IdStatus
    BY DEF IdStatus
  <1>7. /\ T \in [IdSessions -> IdSession]
        /\ \A s \in IdSessions : /\ T[s].agent = idRealm.sessions[s].agent
                                 /\ T[s].parent = idRealm.sessions[s].parent
                                 /\ s \in SS => T[s].status = "revoked"
                                 /\ s \notin SS => T[s].status = idRealm.sessions[s].status
    BY <1>6, IdTypes, IdMarkSessions
  <1>8. /\ H \in [IdGrants -> IdGrant]
        /\ \A g \in IdGrants : /\ H[g].session = idRealm.grants[g].session
                               /\ H[g].parent = idRealm.grants[g].parent
                               /\ H[g].actions = idRealm.grants[g].actions
                               /\ g \in GG => H[g].status = "revoked"
                               /\ g \notin GG => H[g].status = idRealm.grants[g].status
    BY <1>6, IdTypes, IdMarkGrants
  <1> HIDE DEF T, H
  <1>9. idRealm' \in IdRealm /\ idRealm'.sessions = T /\ idRealm'.grants = H
    BY <1>2, <1>3, <1>7, <1>8, IdTypes DEF IdRealm
  <1>10. IdRevokedSound(T, H, idRevoked') /\ idRevoked' \subseteq IdRevocable
    BY <1>1, <1>4, <1>7, <1>8 DEF IdRevokedSound, IdRevocable
  <1>11. \A s \in IdSessions : (T[s].status = "absent") <=> (idRealm.sessions[s].status = "absent")
    BY <1>1, <1>7
  <1>12. \A g \in IdGrants : (H[g].status = "absent") <=> (idRealm.grants[g].status = "absent")
    BY <1>1, <1>8
  <1> QED
    BY <1>5, <1>7, <1>8, <1>9, <1>10, <1>11, <1>12, IdStatusMoves

\* Something new is given; what was given stays as it is.
LEMMA IdGives ==
  ASSUME IdInv, NEW T \in [IdSessions -> IdSession], NEW H \in [IdGrants -> IdGrant],
         \A s \in IdSessions : idRealm.sessions[s].status # "absent" => T[s] = idRealm.sessions[s],
         \A g \in IdGrants : idRealm.grants[g].status # "absent" => H[g] = idRealm.grants[g],
         \A s \in IdSessions : idRealm.sessions[s].status = "absent" => IdSessionSound(T, s),
         \A g \in IdGrants : idRealm.grants[g].status = "absent" => IdGrantSound(T, H, g),
         idRealm' = [idRealm EXCEPT !.sessions = T, !.grants = H],
         UNCHANGED <<idCredential, idRevoked>>
  PROVE  IdInv'
  <1>1. idRealm' \in IdRealm /\ idRealm'.sessions = T /\ idRealm'.grants = H
    BY IdRealmSteps
  <1>2. IdKeep(idRealm.sessions, idRealm.grants, T, H)
    BY DEF IdKeep
  <1>3. IdRevokedSound(T, H, idRevoked')
    BY DEF IdRevokedSound, IdInv
  <1>4. IdCredentialSound(idRealm.grants, idCredential') /\ idCredential' \in [IdCredentials -> IdCredential]
        /\ idRevoked' \subseteq IdRevocable
    BY IdTypes DEF IdInv
  <1> QED
    BY <1>1, <1>2, <1>3, <1>4, IdMoves

LEMMA IdAuthenticateInv ==
  ASSUME IdInv, NEW s \in IdSessions, IdAuthenticate(s)
  PROVE  IdInv'
  <1> DEFINE x == [status |-> "active", agent |-> IdNone, parent |-> 0, epoch |-> idRealm.epoch]
             T == [idRealm.sessions EXCEPT ![s] = x]
             H == idRealm.grants
  <1>1. idRealm.epoch \in 0 .. IdMaxEpoch /\ 0 \in 0 .. IdMaxSessions
    BY IdTypes, IdAssumption
  <1>2. x \in IdSession /\ x.agent = IdNone /\ x.parent = 0
    BY <1>1 DEF IdSession
  <1>3. idRealm' = [idRealm EXCEPT !.sessions = T, !.grants = H]
        /\ UNCHANGED <<idCredential, idRevoked>>
    BY IdTypes DEF IdAuthenticate, IdRealm
  <1>4. idRealm.sessions[s].status = "absent"
    BY DEF IdAuthenticate, IdNextSession
  <1> HIDE DEF x
  <1>5. T \in [IdSessions -> IdSession] /\ H \in [IdGrants -> IdGrant]
    BY <1>2, IdTypes
  <1>6. T[s] = x /\ \A r \in IdSessions : r # s => T[r] = idRealm.sessions[r]
    BY IdTypes
  <1> HIDE DEF T
  <1>7. \A r \in IdSessions : idRealm.sessions[r].status = "absent" => IdSessionSound(T, r)
    BY <1>2, <1>6 DEF IdSessionSound, IdInv
  <1>8. \A g \in IdGrants : idRealm.grants[g].status = "absent" => IdGrantSound(T, H, g)
    BY DEF IdGrantSound
  <1> QED
    BY <1>3, <1>4, <1>5, <1>6, <1>7, <1>8, IdGives

\* A Grant is given to a Session that is given already.
LEMMA IdNewGrantInv ==
  ASSUME IdInv, NEW s \in IdSessions, NEW g \in IdGrants, NEW parent \in 0 .. IdMaxGrants,
         NEW actions \in SUBSET IdCapabilities, NEW denied \in SUBSET IdCapabilities,
         IdNextGrant(g), idRealm.sessions[s].status # "absent",
         parent # 0 => /\ idRealm.grants[parent].status # "absent"
                       /\ actions \subseteq idRealm.grants[parent].actions,
         IF idRealm.sessions[s].agent = IdNone
           THEN parent # 0 => idRealm.grants[parent].session = s /\ idRealm.grants[parent].parent = 0
           ELSE /\ parent # 0 /\ idRealm.grants[parent].session = idRealm.sessions[s].parent
                /\ actions \cap IdProhibited = {},
         idRealm' = [idRealm EXCEPT !.grants[g] = IdNewGrant(s, parent, actions, denied)],
         UNCHANGED <<idCredential, idRevoked>>
  PROVE  IdInv'
  <1> DEFINE x == IdNewGrant(s, parent, actions, denied)
             T == idRealm.sessions
             H == [idRealm.grants EXCEPT ![g] = x]
  <1>1. idRealm.epoch \in 0 .. IdMaxEpoch /\ s \in 0 .. IdMaxSessions
    BY IdTypes, IdAssumption DEF IdSessions
  <1>2. x \in IdGrant
    BY <1>1 DEF IdGrant, IdNewGrant
  <1>3. x.session = s /\ x.parent = parent /\ x.actions = actions
    BY DEF IdNewGrant
  <1>4. idRealm' = [idRealm EXCEPT !.sessions = T, !.grants = H]
    BY IdTypes DEF IdRealm
  <1> HIDE DEF x
  <1>5. T \in [IdSessions -> IdSession] /\ H \in [IdGrants -> IdGrant]
    BY <1>2, IdTypes
  <1>6. H[g] = x /\ \A h \in IdGrants : h # g => H[h] = idRealm.grants[h]
    BY IdTypes
  <1> HIDE DEF H
  <1>7. idRealm.grants[g].status = "absent"
    BY DEF IdNextGrant
  <1>8. parent # 0 => parent \in IdGrants /\ parent # g
    BY <1>7, IdAssumption DEF IdGrants
  <1>9. IdGrantSound(T, H, g)
    BY <1>3, <1>6, <1>8 DEF IdGrantSound
  <1>10. \A h \in IdGrants : idRealm.grants[h].status = "absent" => IdGrantSound(T, H, h)
    BY <1>6, <1>9 DEF IdGrantSound
  <1>11. \A r \in IdSessions : IdSessionSound(T, r)
    BY DEF IdInv
  <1> QED
    BY <1>4, <1>5, <1>6, <1>7, <1>10, <1>11, IdGives

\* An active Grant is given.
LEMMA IdActiveGiven ==
  ASSUME NEW g \in IdGrants, IdGrantActive(g)
  PROVE  idRealm.grants[g].status = "active"
  BY DEF IdGrantActive, IdAncestors

LEMMA IdNarrowsGiven ==
  ASSUME NEW parent \in 0 .. IdMaxGrants, NEW actions, IdNarrows(parent, actions), parent # 0
  PROVE  /\ parent \in IdGrants /\ idRealm.grants[parent].status # "absent"
         /\ actions \subseteq idRealm.grants[parent].actions
  <1>1. parent \in IdGrants
    BY IdAssumption DEF IdGrants
  <1> QED
    BY <1>1, IdActiveGiven DEF IdNarrows

LEMMA IdGrantToSelfInv ==
  ASSUME IdInv, NEW s \in IdSessions, NEW g \in IdGrants, NEW parent \in 0 .. IdMaxGrants,
         NEW actions \in IdActionSets, NEW denied \in IdDeniedSets,
         IdGrantToSelf(s, g, parent, actions, denied)
  PROVE  IdInv'
  <1>1. actions \in SUBSET IdCapabilities /\ denied \in SUBSET IdCapabilities
    BY IdAssumption
  <1>2. idRealm.sessions[s].status # "absent" /\ idRealm.sessions[s].agent = IdNone
    BY DEF IdGrantToSelf, IdSessionActive, IdSessionAlone, IdIsHuman
  <1> QED
    BY <1>1, <1>2, IdNarrowsGiven, IdNewGrantInv DEF IdGrantToSelf

LEMMA IdGrantToAgentInv ==
  ASSUME IdInv, NEW t \in IdSessions, NEW g \in IdGrants, NEW parent \in 0 .. IdMaxGrants,
         NEW actions \in IdActionSets, IdGrantToAgent(t, g, parent, actions)
  PROVE  IdInv'
  <1>1. actions \in SUBSET IdCapabilities /\ {} \in SUBSET IdCapabilities
    BY IdAssumption
  <1>2. idRealm.sessions[t].status # "absent" /\ idRealm.sessions[t].agent # IdNone
    BY DEF IdGrantToAgent, IdSessionActive, IdSessionAlone, IdIsHuman
  <1> QED
    BY <1>1, <1>2, IdNarrowsGiven, IdNewGrantInv DEF IdGrantToAgent

LEMMA IdDelegateInv ==
  ASSUME IdInv, NEW s \in IdSessions, NEW parent \in 0 .. IdMaxGrants, NEW a \in IdAgents,
         NEW t \in IdSessions, NEW g \in IdGrants, NEW actions \in IdActionSets, parent # 0,
         IdDelegate(s, parent, a, t, g, actions)
  PROVE  IdInv'
  <1> DEFINE x == IdNewGrant(t, parent, actions, {})
             y == [status |-> "active", agent |-> a, parent |-> s, epoch |-> idRealm.epoch]
             T == [idRealm.sessions EXCEPT ![t] = y]
             H == [idRealm.grants EXCEPT ![g] = x]
  <1>1. /\ idRealm.epoch \in 0 .. IdMaxEpoch /\ s \in 0 .. IdMaxSessions /\ t \in 0 .. IdMaxSessions
        /\ actions \in SUBSET IdCapabilities /\ a # IdNone
    BY IdTypes, IdAssumption DEF IdSessions
  <1>2. x \in IdGrant
    BY <1>1 DEF IdGrant, IdNewGrant
  <1>3. x.session = t /\ x.parent = parent /\ x.actions = actions
    BY DEF IdNewGrant
  <1>4. y \in IdSession
    BY <1>1 DEF IdSession
  <1>5. y.status = "active" /\ y.agent = a /\ y.parent = s
    OBVIOUS
  <1>6. idRealm' = [idRealm EXCEPT !.sessions = T, !.grants = H]
        /\ UNCHANGED <<idCredential, idRevoked>>
    BY IdTypes DEF IdRealm, IdDelegate
  <1> HIDE DEF x, y
  <1>7. T \in [IdSessions -> IdSession] /\ H \in [IdGrants -> IdGrant]
    BY <1>2, <1>4, IdTypes
  <1>8. H[g] = x /\ \A h \in IdGrants : h # g => H[h] = idRealm.grants[h]
    BY IdTypes
  <1>9. T[t] = y /\ \A r \in IdSessions : r # t => T[r] = idRealm.sessions[r]
    BY IdTypes
  <1> HIDE DEF H, T
  <1>10. /\ idRealm.grants[g].status = "absent" /\ idRealm.sessions[t].status = "absent"
         /\ idRealm.sessions[s].status # "absent" /\ idRealm.sessions[s].agent = IdNone
         /\ idRealm.grants[parent].session = s /\ actions \cap IdProhibited = {}
    BY DEF IdDelegate, IdNextGrant, IdNextSession, IdSessionActive, IdSessionAlone, IdIsHuman
  <1>11. /\ parent \in IdGrants /\ idRealm.grants[parent].status # "absent"
         /\ actions \subseteq idRealm.grants[parent].actions
    BY IdNarrowsGiven DEF IdDelegate
  <1>12. IdSessionSound(T, t)
    BY <1>1, <1>5, <1>9, <1>10 DEF IdSessionSound
  <1>13. IdGrantSound(T, H, g)
    BY <1>1, <1>3, <1>5, <1>8, <1>9, <1>10, <1>11 DEF IdGrantSound
  <1>14. \A r \in IdSessions : idRealm.sessions[r].status = "absent" => IdSessionSound(T, r)
    BY <1>9, <1>12 DEF IdSessionSound, IdInv
  <1>15. \A h \in IdGrants : idRealm.grants[h].status = "absent" => IdGrantSound(T, H, h)
    BY <1>8, <1>13 DEF IdGrantSound
  <1> QED
    BY <1>6, <1>7, <1>8, <1>9, <1>10, <1>14, <1>15, IdGives

LEMMA IdInitInv == IdInit => IdInv
  <1> SUFFICES ASSUME IdInit PROVE IdInv
    OBVIOUS
  <1>1. 0 \in 0 .. IdMaxSessions /\ 0 \in 0 .. IdMaxGrants /\ 0 \in 0 .. IdMaxEpoch
        /\ 1 \in 1 .. IdMaxEpoch
    BY IdAssumption
  <1>2. IdNoSession \in IdSession /\ IdNoGrant \in IdGrant /\ IdNoCredential \in IdCredential
    BY <1>1 DEF IdNoSession, IdNoGrant, IdNoCredential, IdSession, IdGrant, IdCredential
  <1>3. IdNoSession.agent = IdNone /\ IdNoSession.parent = 0 /\ IdNoGrant.status = "absent"
        /\ IdNoCredential.status = "absent"
    BY DEF IdNoSession, IdNoGrant, IdNoCredential
  <1>4. idRealm \in IdRealm
    BY <1>1, <1>2 DEF IdInit, IdRealm, IdRole
  <1>5. /\ idRealm.sessions = [s \in IdSessions |-> IdNoSession]
        /\ idRealm.grants = [g \in IdGrants |-> IdNoGrant]
        /\ idCredential = [c \in IdCredentials |-> IdNoCredential] /\ idRevoked = {}
    BY DEF IdInit
  <1> QED
    BY <1>2, <1>3, <1>4, <1>5
    DEF IdInv, IdTypeOK, IdSessionSound, IdGrantSound, IdRevokedSound, IdCredentialSound

LEMMA IdStepInv ==
  ASSUME IdInv, [IdNext]_idVars
  PROVE  IdInv'
  <1>1. ASSUME NEW denies \in SUBSET IdProhibited, IdAddRelationship(IdCapabilities, denies)
        PROVE  IdInv'
    BY <1>1, IdAddRelationshipInv
  <1>2. ASSUME NEW a \in IdAgents, IdRegisterAgent(a) PROVE IdInv'
    BY <1>2, IdRegisterAgentInv
  <1>3. ASSUME NEW a \in IdAgents, IdRevokeAgent(a) PROVE IdInv'
    BY <1>3, IdRevokeAgentInv
  <1>4. ASSUME NEW s \in IdSessions, IdAuthenticate(s) PROVE IdInv'
    BY <1>4, IdAuthenticateInv
  <1>5. ASSUME NEW s \in IdSessions, IdRevokeSession(s) PROVE IdInv'
    <2> DEFINE SS == {r \in IdSessions : r = s \/ idRealm.sessions[r].parent = s}
    <2>1. \A r \in SS : idRealm.sessions[r].status # "absent"
      BY <1>5, IdAssumption DEF IdRevokeSession, IdInv, IdSessionSound, IdSessions
    <2>2. IdRevoke(SS, {})
      BY <1>5 DEF IdRevokeSession
    <2> HIDE DEF SS
    <2>3. SS \in SUBSET IdSessions /\ {} \in SUBSET IdGrants
      BY DEF SS
    <2> QED
      BY <2>1, <2>2, <2>3, IdRevokeInv
  <1>6. ASSUME NEW s \in IdSessions, IdSessionExpires(s) PROVE IdInv'
    BY <1>6, IdSessionExpiresInv
  <1>7. ASSUME NEW s \in IdSessions, NEW g \in IdGrants, NEW actions \in IdActionSets,
               NEW parent \in 0 .. IdMaxGrants, NEW denied \in IdDeniedSets,
               IdGrantToSelf(s, g, parent, actions, denied)
        PROVE  IdInv'
    BY <1>7, IdGrantToSelfInv
  <1>8. ASSUME NEW s \in IdSessions, NEW g \in IdGrants, NEW actions \in IdActionSets,
               NEW parent \in 0 .. IdMaxGrants, IdGrantToAgent(s, g, parent, actions)
        PROVE  IdInv'
    BY <1>8, IdGrantToAgentInv
  <1>9. ASSUME NEW s \in IdSessions, NEW g \in IdGrants, NEW actions \in IdActionSets,
               NEW parent \in 0 .. IdMaxGrants, NEW t \in IdSessions, NEW a \in IdAgents,
               parent # 0, IdDelegate(s, parent, a, t, g, actions)
        PROVE  IdInv'
    BY <1>9, IdDelegateInv
  <1>10. ASSUME NEW g \in IdGrants, IdRevokeGrant(g) PROVE IdInv'
    <2>1. {g} \in SUBSET IdGrants /\ {} \in SUBSET IdSessions
          /\ \A h \in {g} : idRealm.grants[h].status # "absent"
      BY <1>10 DEF IdRevokeGrant
    <2> QED
      BY <1>10, <2>1, IdRevokeInv DEF IdRevokeGrant
  <1>11. ASSUME NEW g \in IdGrants, IdGrantExpires(g) PROVE IdInv'
    BY <1>11, IdGrantExpiresInv
  <1>12. ASSUME NEW g \in IdGrants, NEW c \in IdCredentials, IdIssue(c, g) PROVE IdInv'
    BY <1>12, IdIssueInv
  <1>13. ASSUME NEW c \in IdCredentials, IdValidateStale(c) \/ IdRevokeCredential(c) PROVE IdInv'
    BY <1>13, IdCredentialEnds
  <1>14. CASE IdActivatePolicy
    BY <1>14, IdActivatePolicyInv
  <1>15. CASE IdRestart
    BY <1>15, IdForgets, IdCredentialMoves DEF IdRestart
  <1>16. ASSUME NEW A \in [IdAgents -> {"absent", "active", "revoked"}], IdRecover(A) PROVE IdInv'
    BY <1>16, IdRecoverInv
  <1>17. CASE UNCHANGED idVars
    BY <1>17 DEF idVars, IdInv, IdTypeOK, IdSessionSound, IdGrantSound, IdRevokedSound, IdCredentialSound
  <1> QED
    BY <1>1, <1>2, <1>3, <1>4, <1>5, <1>6, <1>7, <1>8, <1>9, <1>10, <1>11, <1>12, <1>13, <1>14,
       <1>15, <1>16, <1>17 DEF IdNext

LEMMA IdAlways == IdSpec => []IdInv
  BY IdInitInv, IdStepInv, PTL DEF IdSpec

\* The records of the identity policy keep their types.
THEOREM IdTypeCorrect == IdSpec => []IdTypeOK
  <1>1. IdInv => IdTypeOK
    BY DEF IdInv
  <1> QED
    BY <1>1, IdAlways, PTL

\* The Sessions of a chain of Grants are the one at its end and the one that
\* delegated to it.
LEMMA IdChainSessions ==
  ASSUME IdInv, NEW g \in IdGrants, idRealm.grants[g].status # "absent", NEW h \in IdAncestors(g)
  PROVE  LET s == idRealm.grants[g].session
         IN /\ s \in IdSessions
            /\ \/ idRealm.grants[h].session = s
               \/ /\ idRealm.sessions[s].parent \in IdSessions
                  /\ idRealm.grants[h].session = idRealm.sessions[s].parent
  <1> DEFINE G == idRealm.grants
             S == idRealm.sessions
             s == G[g].session
             p == G[g].parent
  <1>1. IdGrantSound(S, G, g)
    BY DEF IdInv
  <1>2. s \in IdSessions /\ IdSessionSound(S, s)
    BY <1>1 DEF IdInv, IdGrantSound
  <1>3. CASE h = g
    BY <1>2, <1>3
  <1>4. CASE h = p
    <2>1. p # 0 /\ p \in IdGrants
      BY <1>4, IdAssumption DEF IdGrants, IdAncestors
    <2> QED
      BY <1>1, <1>2, <1>4, <2>1 DEF IdGrantSound, IdSessionSound
  <1>5. CASE p \in IdGrants /\ h = G[p].parent
    <2>1. p # 0 /\ h # 0 /\ h \in IdGrants
      BY <1>5, IdAssumption DEF IdGrants, IdAncestors
    <2>2. S[s].agent # IdNone
      BY <1>1, <1>5, <2>1 DEF IdGrantSound
    <2>3. G[p].status # "absent" /\ G[p].session = S[s].parent
      BY <1>1, <2>1, <2>2 DEF IdGrantSound
    <2>4. S[s].parent \in IdSessions /\ S[S[s].parent].agent = IdNone
      BY <1>2, <2>2 DEF IdSessionSound
    <2>5. G[h].session = G[p].session
      <3>1. IdGrantSound(S, G, p)
        BY <1>5 DEF IdInv
      <3> QED
        BY <1>5, <2>1, <2>3, <2>4, <3>1 DEF IdGrantSound
    <2> QED
      BY <1>2, <2>3, <2>4, <2>5
  <1> QED
    BY <1>3, <1>4, <1>5 DEF IdAncestors

\* For any number of Sessions, Grants, Credentials and epochs, and whatever was
\* delegated, expired, restarted or recovered from an older snapshot: a
\* Credential that is accepted hangs on nothing that was ever revoked
\* (RealmIdentityPolicy.revokeSession, revokeGrant, loadSnapshot).
THEOREM IdRevokedStaysRevokedCorrect == IdSpec => []IdRevokedStaysRevoked
  <1>1. IdInv => IdRevokedStaysRevoked
    <2> SUFFICES ASSUME IdInv, NEW c \in IdCredentials, idCredential[c].status = "active", IdValid(c)
                 PROVE  LET chain == IdAncestors(idCredential[c].grant) IN
                        /\ ({"grant"} \X chain) \cap idRevoked = {}
                        /\ ({"session"} \X {idRealm.grants[g].session : g \in chain}) \cap idRevoked = {}
      BY DEF IdRevokedStaysRevoked
    <2> DEFINE k == idCredential[c].grant
               s == idRealm.grants[k].session
    <2>1. k \in IdGrants /\ idRealm.grants[k].status # "absent"
      BY DEF IdInv, IdCredentialSound
    <2>2. \A h \in IdAncestors(k) : h \in IdGrants /\ idRealm.grants[h].status = "active"
      BY DEF IdValid, IdGrantActive, IdAncestors
    <2>3. \A h \in IdAncestors(k) : <<"grant", h>> \notin idRevoked
      BY <2>2 DEF IdInv, IdRevokedSound
    <2>4. IdSessionActive(s)
      BY DEF IdValid
    <2>5. s \in IdSessions => <<"session", s>> \notin idRevoked
      BY <2>4 DEF IdSessionActive, IdSessionAlone, IdInv, IdRevokedSound
    <2>6. idRealm.sessions[s].parent \in IdSessions =>
            <<"session", idRealm.sessions[s].parent>> \notin idRevoked
      <3>1. idRealm.sessions[s].parent \in IdSessions => idRealm.sessions[s].parent # 0
        BY IdAssumption DEF IdSessions
      <3>2. idRealm.sessions[s].parent \in IdSessions => IdSessionAlone(idRealm.sessions[s].parent)
        BY <2>4, <3>1 DEF IdSessionActive
      <3> QED
        BY <3>2 DEF IdSessionAlone, IdInv, IdRevokedSound
    <2>7. \A h \in IdAncestors(k) : <<"session", idRealm.grants[h].session>> \notin idRevoked
      BY <2>1, <2>5, <2>6, IdChainSessions
    <2> QED
      BY <2>3, <2>7
  <1> QED
    BY <1>1, IdAlways, PTL

\* The ancestors of a Grant's parent are ancestors of the Grant.
LEMMA IdAncestorsOfParent ==
  ASSUME IdInv, NEW g \in IdGrants, idRealm.grants[g].status # "absent",
         idRealm.grants[g].parent # 0
  PROVE  IdAncestors(idRealm.grants[g].parent) \subseteq IdAncestors(g)
  <1> DEFINE G == idRealm.grants
             S == idRealm.sessions
             p == G[g].parent
  <1>1. IdGrantSound(S, G, g) /\ p \in IdGrants /\ G[p].status # "absent"
    BY DEF IdInv, IdGrantSound
  <1>2. SUFFICES ASSUME NEW h \in IdAncestors(p) PROVE h \in IdAncestors(g)
    OBVIOUS
  <1>3. CASE h = p \/ h = G[p].parent
    BY <1>1, <1>3 DEF IdAncestors
  <1>4. CASE G[p].parent \in IdGrants /\ h = G[G[p].parent].parent
    <2>1. G[p].parent # 0 /\ h # 0
      BY <1>4, IdAssumption DEF IdGrants, IdAncestors
    <2>2. IdGrantSound(S, G, p)
      BY <1>1 DEF IdInv
    <2>3. S[G[p].session].agent = IdNone
      <3>1. S[G[g].session].agent # IdNone /\ G[p].session = S[G[g].session].parent
        BY <1>1, <2>1 DEF IdGrantSound
      <3>2. IdSessionSound(S, G[g].session)
        BY <1>1 DEF IdInv, IdGrantSound
      <3> QED
        BY <3>1, <3>2 DEF IdSessionSound
    <2>4. G[G[p].parent].parent = 0
      BY <1>1, <2>1, <2>2, <2>3 DEF IdGrantSound
    <2> QED
      BY <1>4, <2>1, <2>4
  <1> QED
    BY <1>2, <1>3, <1>4 DEF IdAncestors

\* For any number of Sessions, Grants and epochs: what an Agent may do is allowed
\* at that moment to the Session that delegated, under the Grant it delegated
\* from, that Grant's explicit denials apart
\* (RealmIdentityPolicy.delegateAgent, createCapabilityGrant, evaluate).
THEOREM IdAgentWithinDelegatorCorrect == IdSpec => []IdAgentWithinDelegator
  <1>1. IdInv => IdAgentWithinDelegator
    <2> DEFINE G == idRealm.grants
               S == idRealm.sessions
    <2> SUFFICES ASSUME IdInv, NEW g \in IdGrants, NEW capability \in IdCapabilities,
                        G[g].status = "active", ~ IdIsHuman(G[g].session),
                        IdAllows(G[g].session, g, capability)
                 PROVE  /\ capability \notin IdProhibited
                        /\ \/ IdAllows(S[G[g].session].parent, G[g].parent, capability)
                           \/ capability \in G[G[g].parent].denied
      BY DEF IdAgentWithinDelegator
    <2> DEFINE s == G[g].session
               p == G[g].parent
               u == S[s].parent
    <2>1. IdGrantSound(S, G, g) /\ s \in IdSessions /\ IdSessionSound(S, s) /\ S[s].agent # IdNone
      BY DEF IdInv, IdGrantSound, IdIsHuman
    <2>2. p # 0 /\ p \in IdGrants /\ G[p].status # "absent" /\ G[p].session = u
          /\ G[g].actions \subseteq G[p].actions /\ G[g].actions \cap IdProhibited = {}
      BY <2>1 DEF IdGrantSound
    <2>3. u \in IdSessions /\ S[u].agent = IdNone
      BY <2>1 DEF IdSessionSound
    <2>4. S[u].parent = 0
      BY <2>3 DEF IdInv, IdSessionSound
    <2>5. capability \in G[g].actions /\ IdGrantActive(g) /\ IdSessionActive(s) /\ IdRoleAllows(capability)
      BY DEF IdAllows, IdGrantAllows
    <2>6. IdSessionActive(u)
      BY <2>3, <2>4, <2>5, IdAssumption DEF IdSessionActive, IdSessions
    <2>7. IdGrantActive(p)
      BY <2>2, <2>5, IdAncestorsOfParent DEF IdGrantActive
    <2> QED
      BY <2>2, <2>5, <2>6, <2>7 DEF IdAllows, IdGrantAllows
  <1> QED
    BY <1>1, IdAlways, PTL

-----------------------------------------------------------------------------
(* The owner's claim and consents *)

\* A submission that has consumed its consent and was not refused, or that has
\* left a grant at the provider.
OcHolds(submit, grant, f) == submit[f] \in {"consumed", "granted", "handed"} \/ grant[f] # "none"

\* A consent is consumed by one submission, and only that one can leave a grant
\* or have one recorded.
OcOneHolder ==
  /\ \A f \in OcForms : OcHolds(ocSubmit, ocGrant, f) => ocConsent[f[1]] = "consumed"
  /\ \A f, g \in OcForms :
       OcHolds(ocSubmit, ocGrant, f) /\ OcHolds(ocSubmit, ocGrant, g) /\ f[1] = g[1] => f = g
OcRecordsSound ==
  \A f \in OcForms :
    /\ ocSubmit[f] = "handed" <=> ocRecord[f] # "none"
    /\ ocRecord[f] = "revoked" => ocGrant[f] = "revoked"

OcInv == OcTypeOK /\ OcOneHolder /\ OcRecordsSound

LEMMA OcInvStep ==
  ASSUME OcInv, [OcNext]_ocVars
  PROVE  OcInv'
  <1> USE DEF ocClaimVars, ocGrantVars
  <1>1. ASSUME NEW r \in OcCeremonies,
               \/ OcOptions(r) \/ OcConsume(r) \/ OcWriteClaim(r) \/ OcEnroll(r) \/ OcMark(r)
               \/ OcReadOwner(r) \/ OcPersist(r) \/ OcPersisted(r) \/ OcStops(r)
               \/ OcResumeVerified(r) \/ OcResumeEnrolled(r)
        PROVE  OcInv'
    <2>1. UNCHANGED <<ocSession, ocConsent, ocSubmit, ocGrant, ocRecord>>
      BY <1>1 DEF OcOptions, OcConsume, OcWriteClaim, OcEnroll, OcMark, OcReadOwner, OcPersist,
                  OcPersisted, OcStops, OcResumeVerified, OcResumeEnrolled
    <2>2. OcOneHolder' /\ OcRecordsSound'
      BY <2>1 DEF OcInv, OcOneHolder, OcRecordsSound, OcHolds
    <2>3. ocStep' \in [OcCeremonies -> OcSteps] /\ ocResume' \in [OcCeremonies -> OcSteps]
      BY <1>1 DEF OcOptions, OcConsume, OcWriteClaim, OcEnroll, OcMark, OcReadOwner, OcPersist,
                  OcPersisted, OcStops, OcResumeVerified, OcResumeEnrolled, OcInv, OcTypeOK, OcSteps
    <2>4. ocClaim' \in [OcCeremonies -> OcClaimStates]
      BY <1>1 DEF OcOptions, OcConsume, OcWriteClaim, OcEnroll, OcMark, OcReadOwner, OcPersist,
                  OcPersisted, OcStops, OcResumeVerified, OcResumeEnrolled, OcInv, OcTypeOK, OcClaimStates
    <2>5. {ocKernel', ocOwner'} \subseteq OcCeremonies \cup {OcNone} /\ ocPasskeys' \subseteq OcCeremonies
      BY <1>1 DEF OcOptions, OcConsume, OcWriteClaim, OcEnroll, OcMark, OcReadOwner, OcPersist,
                  OcPersisted, OcStops, OcResumeVerified, OcResumeEnrolled, OcInv, OcTypeOK, OcEnrolls
    <2>6. OcTypeOK'
      BY <2>1, <2>3, <2>4, <2>5 DEF OcInv, OcTypeOK
    <2> QED
      BY <2>2, <2>6 DEF OcInv
  <1>2. CASE OcAuthenticate \/ OcRevokeSession
    BY <1>2 DEF OcAuthenticate, OcRevokeSession, OcInv, OcTypeOK, OcOneHolder, OcRecordsSound,
                OcHolds, OcGrantStates
  <1>3. ASSUME NEW c \in OcConsents, OcCreateConsent(c) PROVE OcInv'
    <2>1. /\ ocConsent[c] = "none" /\ ocConsent' = [ocConsent EXCEPT ![c] = "open"]
          /\ UNCHANGED <<ocClaimVars, ocSession, ocSubmit, ocGrant, ocRecord>>
      BY <1>3 DEF OcCreateConsent
    <2>2. OcTypeOK'
      BY <2>1 DEF OcInv, OcTypeOK
    <2>3. \A d \in OcConsents : ocConsent[d] = "consumed" => ocConsent'[d] = "consumed"
      BY <2>1 DEF OcInv, OcTypeOK
    <2>4. \A f \in OcForms : f[1] \in OcConsents
      BY DEF OcForms
    <2> QED
      BY <2>1, <2>2, <2>3, <2>4 DEF OcInv, OcOneHolder, OcRecordsSound, OcHolds
  <1>4. ASSUME NEW f \in OcForms,
               \/ OcSubmitForm(f) \/ OcConsumeConsent(f) \/ OcComplete(f) \/ OcRecordGrant(f)
               \/ OcSubmissionStops(f) \/ OcRevokeAtProvider(f) \/ OcMarkRevoked(f)
        PROVE  OcInv'
    <2> USE DEF OcInv
    <2>1. f[1] \in OcConsents /\ \A g \in OcForms : g[1] \in OcConsents
      BY DEF OcForms
    <2>2. /\ UNCHANGED <<ocClaimVars, ocSession>>
          /\ \A g \in OcForms \ {f} : /\ ocSubmit'[g] = ocSubmit[g] /\ ocGrant'[g] = ocGrant[g]
                                      /\ ocRecord'[g] = ocRecord[g]
          /\ \A c \in OcConsents : ocConsent[c] = "consumed" => ocConsent'[c] = "consumed"
      BY <1>4, <2>1 DEF OcSubmitForm, OcConsumeConsent, OcComplete, OcRecordGrant, OcSubmissionStops,
                  OcRevokeAtProvider, OcMarkRevoked, OcTypeOK
    <2>3. /\ ocConsent' \in [OcConsents -> {"none", "open", "consumed"}]
          /\ ocSubmit' \in [OcForms -> {"idle", "inspected", "consumed", "granted", "handed", "stopped"}]
      BY <1>4, <2>1 DEF OcSubmitForm, OcConsumeConsent, OcComplete, OcRecordGrant, OcSubmissionStops,
                  OcRevokeAtProvider, OcMarkRevoked, OcTypeOK
    <2>4. ocGrant' \in [OcForms -> OcGrantStates] /\ ocRecord' \in [OcForms -> OcGrantStates]
      BY <1>4 DEF OcSubmitForm, OcConsumeConsent, OcComplete, OcRecordGrant, OcSubmissionStops,
                  OcRevokeAtProvider, OcMarkRevoked, OcTypeOK, OcGrantStates
    <2>5. OcTypeOK'
      BY <2>2, <2>3, <2>4 DEF OcTypeOK
    <2>6. OcHolds(ocSubmit', ocGrant', f) =>
            /\ ocConsent'[f[1]] = "consumed"
            /\ OcHolds(ocSubmit, ocGrant, f) \/ ocConsent[f[1]] # "consumed"
      BY <1>4, <2>1 DEF OcSubmitForm, OcConsumeConsent, OcComplete, OcRecordGrant, OcSubmissionStops,
                  OcRevokeAtProvider, OcMarkRevoked, OcTypeOK, OcHolds, OcOneHolder, OcRecordsSound
    <2>7. \A g \in OcForms \ {f} : OcHolds(ocSubmit', ocGrant', g) <=> OcHolds(ocSubmit, ocGrant, g)
      BY <2>2 DEF OcHolds
    <2>8. OcOneHolder'
      BY <2>1, <2>2, <2>6, <2>7 DEF OcOneHolder
    <2>9. /\ ocSubmit'[f] = "handed" <=> ocRecord'[f] # "none"
          /\ ocRecord'[f] = "revoked" => ocGrant'[f] = "revoked"
      BY <1>4, <2>1 DEF OcSubmitForm, OcConsumeConsent, OcComplete, OcRecordGrant, OcSubmissionStops,
                  OcRevokeAtProvider, OcMarkRevoked, OcTypeOK, OcRecordsSound
    <2>10. OcRecordsSound'
      BY <2>2, <2>9 DEF OcRecordsSound
    <2> QED
      BY <2>5, <2>8, <2>10
  <1>5. CASE UNCHANGED ocVars
    BY <1>5 DEF ocVars, OcInv, OcTypeOK, OcOneHolder, OcRecordsSound, OcHolds
  <1> QED
    BY <1>1, <1>2, <1>3, <1>4, <1>5 DEF OcNext

LEMMA OcInvHolds == OcSpec => []OcInv
  <1>1. OcInit => OcInv
    BY DEF OcInit, OcInv, OcTypeOK, OcOneHolder, OcRecordsSound, OcHolds, OcSteps, OcClaimStates,
           OcGrantStates
  <1> QED
    BY <1>1, OcInvStep, PTL DEF OcSpec

\* The three stores of the owner's claim keep their types.
THEOREM OcTypeCorrect == OcSpec => []OcTypeOK
  <1>1. OcInv => OcTypeOK
    BY DEF OcInv
  <1> QED
    BY <1>1, OcInvHolds, PTL

\* However often a consent is submitted and wherever a submission stops, one
\* submission at most leaves a grant; a code in a client's hands has a record,
\* and what the record calls revoked is revoked at the provider.
THEOREM OcGrantsAgreeCorrect == OcSpec => []OcGrantsAgree
  <1>1. ASSUME OcInv, NEW c \in OcConsents
        PROVE  Cardinality({n \in OcSubmissions : ocGrant[<<c, n>>] # "none"}) <= 1
    <2> DEFINE held == {n \in OcSubmissions : ocGrant[<<c, n>>] # "none"}
    <2>1. ASSUME NEW m \in held, NEW n \in held PROVE m = n
      <3>1. <<c, m>> \in OcForms /\ <<c, n>> \in OcForms
        BY DEF OcForms
      <3>2. OcHolds(ocSubmit, ocGrant, <<c, m>>) /\ OcHolds(ocSubmit, ocGrant, <<c, n>>)
        BY DEF OcHolds
      <3>3. <<c, m>> = <<c, n>>
        BY <1>1, <3>1, <3>2 DEF OcInv, OcOneHolder
      <3> QED
        BY <3>3
    <2> HIDE DEF held
    <2>2. held = {} \/ \E n : held = {n}
      BY <2>1
    <2>3. Cardinality(held) <= 1
      <3>1. CASE held = {}
        BY <3>1, FS_EmptySet
      <3>2. CASE \E n : held = {n}
        BY <3>2, FS_Singleton
      <3> QED
        BY <2>2, <3>1, <3>2
    <2> QED
      BY <2>3 DEF held
  <1>2. OcInv => OcGrantsAgree
    BY <1>1 DEF OcInv, OcRecordsSound, OcGrantsAgree
  <1> QED
    BY <1>2, OcInvHolds, PTL

-----------------------------------------------------------------------------
(* Hosted Workspaces *)

HwForkPhase == {"forking", "fork", "forked"}
HwMintPhase == {"mint", "minted", "retire"}

\* What a call that is at a step knows of the record, the provider and the
\* tokens handed out.
HwCallSound(x, rec, provider, returned) ==
  /\ x.pc \in HwForkPhase => ~ rec.context
  /\ x.pc = "forking" => rec.pending = "none" /\ provider = {}
  /\ x.pc = "fork" => rec.pending = "fork" /\ provider = {}
  /\ x.pc = "forked" => rec.pending = "fork" /\ provider \subseteq {x.token}
  /\ x.pc \notin HwForkPhase \cup {"idle"} => rec.context
  /\ x.pc \in HwMintPhase => rec.pending = "mint"
  /\ x.pc \in {"revoke", "revoking"} => rec.blocked
  /\ x.pc = "revoking" => rec.unknown \/ provider \cap returned \subseteq x.ids

\* Before the fork is bound there are no tokens on record; afterwards every token
\* the provider honours is on record, unless the record says that it may not be.
HwRecordSound(rec, provider) ==
  /\ ~ rec.context => rec.tokenIds = {} /\ ~ rec.unknown
  /\ rec.context => rec.pending # "fork"
  /\ rec.pending # "fork" /\ ~ rec.unknown => provider \subseteq rec.tokenIds

\* Nothing is under way that could bring a token out after the revocation.
HwRetiredSound(rec, provider, returned) ==
  rec.blocked /\ rec.pending = "none" /\ ~ rec.unknown /\ provider \cap returned = {}

HwOneAt(phase, call) ==
  \A c, d \in HwCalls : call[c].pc \in phase /\ call[d].pc \in phase => c = d

HwInv ==
  /\ HwTypeOK
  /\ hwProvider \subseteq 1 .. hwMade /\ hwReturned \subseteq 1 .. hwMade
  /\ \A c \in HwCalls : hwCall[c].pc = "minted" => hwCall[c].token \in 1 .. hwMade
  /\ HwOneAt(HwForkPhase, hwCall) /\ HwOneAt(HwMintPhase, hwCall)
  /\ IF hwRecord = HwNone
       THEN hwProvider = {} /\ ~ hwRetired /\ \A c \in HwCalls : hwCall[c].pc = "idle"
       ELSE /\ HwRecordSound(hwRecord, hwProvider)
            /\ hwRetired => HwRetiredSound(hwRecord, hwProvider, hwReturned)
            /\ \A c \in HwCalls : HwCallSound(hwCall[c], hwRecord, hwProvider, hwReturned)

-----------------------------------------------------------------------------
(* What the steps do to a call and to the record *)

HwMoves(c) ==
  hwCall' \in [HwCalls -> HwCall] /\ \A d \in HwCalls \ {c} : hwCall'[d] = hwCall[d]

HwPcs == {"idle", "forking", "fork", "forked", "issuing", "mint", "minted", "retire", "revoke", "revoking"}

LEMMA HwGoIs ==
  ASSUME hwCall \in [HwCalls -> HwCall], NEW c \in HwCalls, NEW pc \in HwPcs, HwGo(c, pc)
  PROVE  /\ HwMoves(c) /\ hwCall'[c].pc = pc
         /\ hwCall'[c].token = hwCall[c].token /\ hwCall'[c].ids = hwCall[c].ids
  <1> DEFINE x == hwCall[c]
             y == [x EXCEPT !.pc = pc]
  <1>1. x \in HwCall
    OBVIOUS
  <1>2. y \in HwCall /\ y.pc = pc /\ y.token = x.token /\ y.ids = x.ids
    BY <1>1 DEF HwCall, HwPcs
  <1>3. hwCall' = [hwCall EXCEPT ![c] = y]
    BY DEF HwGo
  <1> HIDE DEF y
  <1> QED
    BY <1>2, <1>3 DEF HwMoves

LEMMA HwEndIs ==
  ASSUME hwCall \in [HwCalls -> HwCall], NEW c \in HwCalls, HwEnd(c)
  PROVE  HwMoves(c) /\ hwCall'[c].pc = "idle"
  <1>1. HwIdle \in HwCall /\ HwIdle.pc = "idle"
    BY DEF HwIdle, HwCall
  <1> QED
    BY <1>1 DEF HwEnd, HwMoves

LEMMA HwRecordFields ==
  ASSUME NEW x \in HwRecord
  PROVE  /\ x.context \in BOOLEAN /\ x.blocked \in BOOLEAN /\ x.unknown \in BOOLEAN
         /\ x.tokenIds \subseteq HwTokens /\ x.pending \in {"none", "fork", "mint"}
  BY DEF HwRecord

\* The record with another value of one of its fields.
LEMMA HwPendingIs ==
  ASSUME NEW x \in HwRecord, NEW p \in {"none", "fork", "mint"}
  PROVE  LET y == [x EXCEPT !.pending = p] IN
         /\ y \in HwRecord /\ y.pending = p /\ y.tokenIds = x.tokenIds
         /\ y.context = x.context /\ y.blocked = x.blocked /\ y.unknown = x.unknown
  BY DEF HwRecord

LEMMA HwTokenIdsIs ==
  ASSUME NEW x \in HwRecord, NEW ids \in SUBSET HwTokens
  PROVE  LET y == [x EXCEPT !.tokenIds = ids] IN
         /\ y \in HwRecord /\ y.pending = x.pending /\ y.tokenIds = ids
         /\ y.context = x.context /\ y.blocked = x.blocked /\ y.unknown = x.unknown
  BY DEF HwRecord

LEMMA HwBlockedIs ==
  ASSUME NEW x \in HwRecord
  PROVE  LET y == [x EXCEPT !.blocked = TRUE] IN
         /\ y \in HwRecord /\ y.pending = x.pending /\ y.tokenIds = x.tokenIds
         /\ y.context = x.context /\ y.blocked = TRUE /\ y.unknown = x.unknown
  BY DEF HwRecord

-----------------------------------------------------------------------------

\* A call that stays where it is still knows what it knew.
LEMMA HwOtherKeeps ==
  ASSUME NEW x, NEW rec, NEW rec2, NEW provider, NEW provider2, NEW returned, NEW returned2,
         HwCallSound(x, rec, provider, returned),
         rec2.context = rec.context, rec.blocked => rec2.blocked, rec.unknown => rec2.unknown,
         rec2.pending = rec.pending \/ x.pc \notin HwForkPhase \cup HwMintPhase,
         x.pc \in HwForkPhase => provider2 \subseteq provider,
         x.pc = "revoking" => provider2 \cap returned2 \subseteq provider \cap returned
  PROVE  HwCallSound(x, rec2, provider2, returned2)
  BY DEF HwCallSound, HwForkPhase, HwMintPhase

LEMMA HwStep ==
  ASSUME HwInv, NEW c \in HwCalls, HwMoves(c),
         hwRecord' \in HwRecord, hwRecord # HwNone,
         hwMade' \in 0 .. HwMaxTokens, hwMade <= hwMade',
         hwCall'[c].pc = "minted" => hwCall'[c].token \in 1 .. hwMade',
         hwDeaths' = hwDeaths, hwForked' \in BOOLEAN, hwRetired' \in BOOLEAN,
         hwProvider' \subseteq 1 .. hwMade', hwReturned' \subseteq 1 .. hwMade',
         \A d \in HwCalls \ {c} : HwCallSound(hwCall[d], hwRecord', hwProvider', hwReturned'),
         HwCallSound(hwCall'[c], hwRecord', hwProvider', hwReturned'),
         HwRecordSound(hwRecord', hwProvider'),
         hwRetired' => HwRetiredSound(hwRecord', hwProvider', hwReturned'),
         hwCall'[c].pc \in HwForkPhase => hwCall[c].pc \in HwForkPhase,
         hwCall'[c].pc \in HwMintPhase => hwCall[c].pc \in HwMintPhase \/ hwRecord.pending = "none"
  PROVE  HwInv'
  <1>1. hwMade' \in Nat /\ HwMaxTokens \in Nat
    BY HwAssumption
  <1>2. hwProvider' \subseteq HwTokens /\ hwReturned' \subseteq HwTokens
    BY <1>1 DEF HwTokens
  <1>3. HwTypeOK'
    BY <1>2 DEF HwInv, HwTypeOK, HwMoves
  <1>4. HwOneAt(HwForkPhase, hwCall')
    BY DEF HwInv, HwOneAt, HwMoves
  <1>5. HwOneAt(HwMintPhase, hwCall')
    BY DEF HwInv, HwOneAt, HwMoves, HwCallSound
  <1>6. hwRecord' # HwNone
    BY HwRecordAssumption
  <1>7. \A d \in HwCalls : HwCallSound(hwCall'[d], hwRecord', hwProvider', hwReturned')
    BY DEF HwMoves
  <1>8. \A d \in HwCalls : hwCall'[d].pc = "minted" => hwCall'[d].token \in 1 .. hwMade'
    <2>1. hwMade \in Nat
      BY DEF HwInv, HwTypeOK
    <2> QED
      BY <1>1, <2>1 DEF HwInv, HwMoves
  <1> QED
    BY <1>3, <1>4, <1>5, <1>6, <1>7, <1>8 DEF HwInv

LEMMA HwKnown ==
  ASSUME HwInv
  PROVE  /\ hwCall \in [HwCalls -> HwCall] /\ hwMade \in Nat /\ hwMade <= HwMaxTokens
         /\ hwMade \in 0 .. HwMaxTokens /\ HwMaxTokens \in Nat
         /\ hwForked \in BOOLEAN /\ hwRetired \in BOOLEAN
         /\ hwProvider \subseteq 1 .. hwMade /\ hwReturned \subseteq 1 .. hwMade
         /\ hwRecord # HwNone => hwRecord \in HwRecord
  BY HwAssumption DEF HwInv, HwTypeOK

LEMMA HwUnderWay ==
  ASSUME HwInv, hwRecord # HwNone
  PROVE  /\ hwRecord \in HwRecord /\ HwRecordSound(hwRecord, hwProvider)
         /\ hwRetired => HwRetiredSound(hwRecord, hwProvider, hwReturned)
         /\ \A c \in HwCalls : HwCallSound(hwCall[c], hwRecord, hwProvider, hwReturned)
  BY HwKnown DEF HwInv

LEMMA HwBusy ==
  ASSUME HwInv, NEW c \in HwCalls, hwCall[c].pc # "idle"
  PROVE  hwRecord # HwNone
  BY DEF HwInv

\* A call ends, or goes on to where nothing new must be known; the record is as
\* it was and the provider honours no more than before.
LEMMA HwQuietStep ==
  ASSUME HwInv, NEW c \in HwCalls, HwMoves(c), hwRecord # HwNone,
         UNCHANGED <<hwRecord, hwMade, hwReturned, hwRetired, hwDeaths, hwForked>>,
         hwProvider' \subseteq hwProvider,
         \/ hwCall'[c].pc = "idle"
         \/ HwCallSound(hwCall'[c], hwRecord, hwProvider', hwReturned),
         hwCall'[c].pc \in HwForkPhase => hwCall[c].pc \in HwForkPhase,
         hwCall'[c].pc \in HwMintPhase => hwCall[c].pc \in HwMintPhase \/ hwRecord.pending = "none",
         hwCall'[c].pc # "minted"
  PROVE  HwInv'
  <1>1. \A d \in HwCalls \ {c} : HwCallSound(hwCall[d], hwRecord', hwProvider', hwReturned')
    BY HwUnderWay, HwOtherKeeps
  <1>2. HwCallSound(hwCall'[c], hwRecord', hwProvider', hwReturned')
    BY DEF HwCallSound, HwForkPhase, HwMintPhase
  <1>3. HwRecordSound(hwRecord', hwProvider')
    BY HwUnderWay DEF HwRecordSound
  <1>4. hwRetired' => HwRetiredSound(hwRecord', hwProvider', hwReturned')
    BY HwUnderWay DEF HwRetiredSound
  <1>5. hwProvider' \subseteq 1 .. hwMade' /\ hwReturned' \subseteq 1 .. hwMade'
    BY HwKnown
  <1> QED
    BY <1>1, <1>2, <1>3, <1>4, <1>5, HwKnown, HwUnderWay, HwStep

LEMMA HwInvStep ==
  ASSUME HwInv, [HwNext]_hwVars
  PROVE  HwInv'
  <1>1. CASE HwDie
    <2>1. /\ hwDeaths' \in 0 .. HwMaxDeaths /\ hwCall' = [c \in HwCalls |-> HwIdle]
          /\ UNCHANGED <<hwRecord, hwProvider, hwMade, hwForked, hwReturned, hwRetired>>
      BY <1>1, HwAssumption DEF HwDie, HwInv, HwTypeOK
    <2>2. HwIdle \in HwCall /\ HwIdle.pc = "idle"
      BY DEF HwIdle, HwCall
    <2>3. hwCall' \in [HwCalls -> HwCall] /\ \A c \in HwCalls : hwCall'[c].pc = "idle"
      BY <2>1, <2>2
    <2>4. \A c \in HwCalls : HwCallSound(hwCall'[c], hwRecord, hwProvider, hwReturned)
      BY <2>3 DEF HwCallSound, HwForkPhase, HwMintPhase
    <2>5. HwOneAt(HwForkPhase, hwCall') /\ HwOneAt(HwMintPhase, hwCall')
      BY <2>3 DEF HwOneAt, HwForkPhase, HwMintPhase
    <2> QED
      BY <2>1, <2>3, <2>4, <2>5 DEF HwInv, HwTypeOK
  <1>2. ASSUME NEW c \in HwCalls, HwReserve(c) PROVE HwInv'
    <2>1. /\ hwRecord = HwNone /\ hwProvider = {} /\ ~ hwRetired
          /\ \A d \in HwCalls : hwCall[d].pc = "idle"
      BY <1>2 DEF HwReserve, HwInv
    <2>2. hwRecord' = HwReserved
          /\ UNCHANGED <<hwProvider, hwMade, hwForked, hwReturned, hwRetired, hwDeaths>>
      BY <1>2 DEF HwReserve
    <2>3. /\ HwReserved \in HwRecord /\ ~ HwReserved.context /\ HwReserved.tokenIds = {}
          /\ HwReserved.pending = "none" /\ ~ HwReserved.unknown
      BY DEF HwReserved, HwRecord
    <2>4. HwMoves(c) /\ hwCall'[c].pc = "forking"
      BY <1>2, HwKnown, HwGoIs DEF HwReserve, HwPcs
    <2>5. \A d \in HwCalls : HwCallSound(hwCall'[d], HwReserved, {}, hwReturned)
      BY <2>1, <2>3, <2>4 DEF HwMoves, HwCallSound, HwForkPhase, HwMintPhase
    <2>6. HwOneAt(HwForkPhase, hwCall') /\ HwOneAt(HwMintPhase, hwCall')
      BY <2>1, <2>4 DEF HwOneAt, HwMoves, HwForkPhase, HwMintPhase
    <2>7. HwReserved # HwNone /\ HwRecordSound(HwReserved, {})
      BY <2>3, HwRecordAssumption DEF HwRecordSound
    <2>8. HwTypeOK'
      BY <2>2, <2>3, <2>4 DEF HwInv, HwTypeOK, HwMoves
    <2>9. \A d \in HwCalls : hwCall'[d].pc # "minted"
      BY <2>1, <2>4 DEF HwMoves
    <2> QED
      BY <2>1, <2>2, <2>5, <2>6, <2>7, <2>8, <2>9, HwKnown DEF HwInv
  <1>3. ASSUME NEW c \in HwCalls, HwForkDenied(c) PROVE HwInv'
    <2>1. /\ hwCall[c].pc = "forking" /\ HwMoves(c) /\ hwCall'[c].pc = "idle"
          /\ UNCHANGED <<hwProvider, hwMade, hwForked, hwReturned, hwRetired, hwDeaths>>
      BY <1>3, HwKnown, HwEndIs DEF HwForkDenied, HwAt
    <2>2. hwRecord # HwNone
      BY <2>1, HwBusy
    <2>3. CASE hwRecord' = hwRecord
      BY <2>1, <2>2, <2>3, HwQuietStep DEF HwForkPhase, HwMintPhase
    <2>4. CASE ~ hwRecord.blocked /\ hwRecord' = HwNone
      <3>1. ~ hwRecord.context /\ hwProvider = {}
        BY <2>1, <2>2, HwUnderWay DEF HwCallSound, HwForkPhase
      <3>2. \A d \in HwCalls \ {c} : hwCall[d].pc = "idle"
        BY <2>1, <2>2, <3>1, HwUnderWay DEF HwInv, HwOneAt, HwCallSound, HwForkPhase
      <3>3. \A d \in HwCalls : hwCall'[d].pc = "idle"
        BY <2>1, <3>2 DEF HwMoves
      <3>4. ~ hwRetired
        BY <2>2, <2>4, HwUnderWay DEF HwRetiredSound
      <3>5. HwOneAt(HwForkPhase, hwCall') /\ HwOneAt(HwMintPhase, hwCall')
        BY <3>3 DEF HwOneAt, HwForkPhase, HwMintPhase
      <3>6. HwTypeOK'
        BY <2>1, <2>4 DEF HwInv, HwTypeOK, HwMoves
      <3> QED
        BY <2>1, <2>4, <3>1, <3>3, <3>4, <3>5, <3>6, HwKnown DEF HwInv
    <2> QED
      BY <1>3, <2>2, <2>3, <2>4 DEF HwForkDenied
  <1>4. ASSUME NEW c \in HwCalls, HwForkPending(c) PROVE HwInv'
    <2> DEFINE rec == [hwRecord EXCEPT !.pending = "fork"]
    <2>1. /\ hwCall[c].pc = "forking" /\ hwRecord # HwNone /\ ~ hwRecord.blocked /\ hwRecord' = rec
          /\ UNCHANGED <<hwProvider, hwMade, hwForked, hwReturned, hwRetired, hwDeaths>>
      BY <1>4 DEF HwForkPending, HwAt, HwAuthorized
    <2>2. HwMoves(c) /\ hwCall'[c].pc = "fork"
      BY <1>4, HwKnown, HwGoIs DEF HwForkPending, HwPcs
    <2>3. /\ rec \in HwRecord /\ rec.pending = "fork" /\ rec.tokenIds = hwRecord.tokenIds
          /\ rec.context = hwRecord.context /\ rec.blocked = hwRecord.blocked
          /\ rec.unknown = hwRecord.unknown
      BY <2>1, HwKnown, HwPendingIs
    <2> HIDE DEF rec
    <2>4. ~ hwRecord.context /\ hwProvider = {}
      BY <2>1, HwUnderWay DEF HwCallSound, HwForkPhase
    <2>5. \A d \in HwCalls \ {c} : hwCall[d].pc = "idle"
      BY <2>1, <2>4, HwUnderWay DEF HwInv, HwOneAt, HwCallSound, HwForkPhase
    <2>6. \A d \in HwCalls \ {c} : HwCallSound(hwCall[d], rec, hwProvider, hwReturned)
      BY <2>5 DEF HwCallSound, HwForkPhase, HwMintPhase
    <2>7. HwCallSound(hwCall'[c], rec, hwProvider, hwReturned) /\ HwRecordSound(rec, hwProvider)
      BY <2>1, <2>2, <2>3, <2>4, HwUnderWay DEF HwCallSound, HwRecordSound, HwForkPhase, HwMintPhase
    <2>8. ~ hwRetired
      BY <2>1, HwUnderWay DEF HwRetiredSound
    <2> QED
      BY <2>1, <2>2, <2>3, <2>6, <2>7, <2>8, HwKnown, HwStep DEF HwForkPhase, HwMintPhase
  <1>5. ASSUME NEW c \in HwCalls, HwFork(c) PROVE HwInv'
    <2> DEFINE x == hwCall[c]
               y == [x EXCEPT !.pc = "forked", !.token = hwMade + 1]
    <2>1. /\ x.pc = "fork" /\ hwMade < HwMaxTokens /\ hwForked' = TRUE /\ hwMade' = hwMade + 1
          /\ hwProvider' = hwProvider \cup {hwMade + 1} /\ hwCall' = [hwCall EXCEPT ![c] = y]
          /\ UNCHANGED <<hwRecord, hwReturned, hwRetired, hwDeaths>>
      BY <1>5 DEF HwFork, HwAt
    <2>2. hwRecord # HwNone /\ x \in HwCall
      BY <2>1, HwBusy, HwKnown
    <2>3. hwMade + 1 \in HwTokens /\ hwMade + 1 \in 0 .. HwMaxTokens /\ hwMade <= hwMade'
      BY <2>1, HwKnown DEF HwTokens
    <2>4. y \in HwCall /\ y.pc = "forked" /\ y.token = hwMade + 1
      BY <2>2, <2>3 DEF HwCall
    <2> HIDE DEF y
    <2>5. HwMoves(c) /\ hwCall'[c] = y
      BY <2>1, <2>4, HwKnown DEF HwMoves
    <2>6. ~ hwRecord.context /\ hwProvider = {} /\ hwRecord.pending = "fork"
      BY <2>1, <2>2, HwUnderWay DEF HwCallSound, HwForkPhase
    <2>7. \A d \in HwCalls \ {c} : hwCall[d].pc = "idle"
      BY <2>1, <2>2, <2>6, HwUnderWay DEF HwInv, HwOneAt, HwCallSound, HwForkPhase
    <2>8. \A d \in HwCalls \ {c} : HwCallSound(hwCall[d], hwRecord, hwProvider', hwReturned)
      BY <2>7 DEF HwCallSound, HwForkPhase, HwMintPhase
    <2>9. HwCallSound(y, hwRecord, hwProvider', hwReturned) /\ HwRecordSound(hwRecord, hwProvider')
      BY <2>1, <2>2, <2>4, <2>6, HwUnderWay DEF HwCallSound, HwRecordSound, HwForkPhase, HwMintPhase
    <2>10. ~ hwRetired
      BY <2>2, <2>6, HwUnderWay DEF HwRetiredSound
    <2>11. hwProvider' \subseteq 1 .. hwMade' /\ hwReturned' \subseteq 1 .. hwMade'
      BY <2>1, HwKnown
    <2> QED
      BY <2>1, <2>2, <2>3, <2>4, <2>5, <2>8, <2>9, <2>10, <2>11, HwKnown, HwStep
      DEF HwForkPhase, HwMintPhase
  <1>6. ASSUME NEW c \in HwCalls, HwBind(c) PROVE HwInv'
    <2> DEFINE rec == [hwRecord EXCEPT !.context = TRUE, !.pending = "none"]
    <2>1. /\ hwCall[c].pc = "forked" /\ hwProvider' = hwProvider \ {hwCall[c].token}
          /\ hwRecord' = IF hwRecord.blocked THEN hwRecord ELSE rec
          /\ HwMoves(c) /\ hwCall'[c].pc = "idle"
          /\ UNCHANGED <<hwMade, hwForked, hwReturned, hwRetired, hwDeaths>>
      BY <1>6, HwKnown, HwEndIs DEF HwBind, HwAt
    <2>2. hwRecord # HwNone
      BY <2>1, HwBusy
    <2>3. CASE hwRecord.blocked
      BY <2>1, <2>2, <2>3, HwQuietStep DEF HwForkPhase, HwMintPhase
    <2>4. CASE ~ hwRecord.blocked
      <3>1. /\ rec \in HwRecord /\ rec.context = TRUE /\ rec.pending = "none"
            /\ rec.tokenIds = hwRecord.tokenIds
        BY <2>2, HwKnown DEF HwRecord
      <3> HIDE DEF rec
      <3>2. ~ hwRecord.context /\ hwProvider \subseteq {hwCall[c].token}
        BY <2>1, <2>2, HwUnderWay DEF HwCallSound, HwForkPhase
      <3>3. \A d \in HwCalls \ {c} : hwCall[d].pc = "idle"
        BY <2>1, <2>2, <3>2, HwUnderWay DEF HwInv, HwOneAt, HwCallSound, HwForkPhase
      <3>4. \A d \in HwCalls : HwCallSound(hwCall'[d], rec, hwProvider', hwReturned)
        BY <2>1, <3>3 DEF HwMoves, HwCallSound, HwForkPhase, HwMintPhase
      <3>5. hwProvider' = {} /\ hwRecord' = rec
        BY <2>1, <2>4, <3>2
      <3>6. HwRecordSound(rec, hwProvider')
        BY <3>1, <3>5 DEF HwRecordSound
      <3>7. ~ hwRetired
        BY <2>2, <2>4, HwUnderWay DEF HwRetiredSound
      <3> QED
        BY <2>1, <2>2, <3>1, <3>4, <3>5, <3>6, <3>7, HwKnown, HwStep
        DEF HwMoves, HwForkPhase, HwMintPhase
    <2> QED
      BY <2>3, <2>4
  <1>7. ASSUME NEW c \in HwCalls, NEW retired \in BOOLEAN, HwBindFails(c, retired) PROVE HwInv'
    <2>1. /\ hwCall[c].pc = "forked" /\ hwProvider' \subseteq hwProvider
          /\ HwMoves(c) /\ hwCall'[c].pc = "idle"
          /\ UNCHANGED <<hwRecord, hwMade, hwForked, hwReturned, hwRetired, hwDeaths>>
      BY <1>7, HwKnown, HwEndIs DEF HwBindFails, HwAt
    <2> QED
      BY <2>1, HwBusy, HwQuietStep DEF HwForkPhase, HwMintPhase
  <1>8. ASSUME NEW c \in HwCalls, HwIssue(c) PROVE HwInv'
    <2>1. /\ hwRecord # HwNone /\ hwRecord.context /\ UNCHANGED <<hwRecord, hwProvider, hwMade, hwForked,
                                                                  hwReturned, hwRetired, hwDeaths>>
          /\ HwMoves(c) /\ hwCall'[c].pc = "issuing"
      BY <1>8, HwKnown, HwGoIs DEF HwIssue, HwAuthorized, HwPcs
    <2>2. HwCallSound(hwCall'[c], hwRecord, hwProvider, hwReturned)
      BY <2>1 DEF HwCallSound, HwForkPhase, HwMintPhase
    <2> QED
      BY <2>1, <2>2, HwQuietStep DEF HwForkPhase, HwMintPhase
  <1>9. ASSUME NEW c \in HwCalls, HwMintPending(c) PROVE HwInv'
    <2> DEFINE rec == [hwRecord EXCEPT !.pending = "mint"]
    <2>1. /\ hwCall[c].pc = "issuing"
          /\ UNCHANGED <<hwProvider, hwMade, hwForked, hwReturned, hwRetired, hwDeaths>>
      BY <1>9 DEF HwMintPending, HwAt
    <2>2. hwRecord # HwNone
      BY <2>1, HwBusy
    <2>3. CASE UNCHANGED hwRecord /\ HwEnd(c)
      BY <2>1, <2>2, <2>3, HwKnown, HwEndIs, HwQuietStep DEF HwForkPhase, HwMintPhase
    <2>4. CASE ~ hwRecord.blocked /\ hwRecord.pending = "none" /\ hwRecord' = rec /\ HwGo(c, "mint")
      <3>1. HwMoves(c) /\ hwCall'[c].pc = "mint"
        BY <2>4, HwKnown, HwGoIs DEF HwPcs
      <3>2. /\ rec \in HwRecord /\ rec.pending = "mint" /\ rec.tokenIds = hwRecord.tokenIds
            /\ rec.context = hwRecord.context /\ rec.blocked = hwRecord.blocked
            /\ rec.unknown = hwRecord.unknown
        BY <2>2, HwKnown, HwPendingIs
      <3> HIDE DEF rec
      <3>3. hwRecord.context
        BY <2>1, <2>2, HwUnderWay DEF HwCallSound, HwForkPhase
      <3>4. \A d \in HwCalls : hwCall[d].pc \notin HwForkPhase \cup HwMintPhase
        BY <2>2, <2>4, <3>3, HwUnderWay DEF HwCallSound
      <3>5. \A d \in HwCalls \ {c} : HwCallSound(hwCall[d], rec, hwProvider, hwReturned)
        BY <2>2, <3>2, <3>4, HwUnderWay, HwOtherKeeps
      <3>6. HwCallSound(hwCall'[c], rec, hwProvider, hwReturned) /\ HwRecordSound(rec, hwProvider)
        BY <2>2, <2>4, <3>1, <3>2, <3>3, HwUnderWay
        DEF HwCallSound, HwRecordSound, HwForkPhase, HwMintPhase
      <3>7. ~ hwRetired
        BY <2>2, <2>4, HwUnderWay DEF HwRetiredSound
      <3> QED
        BY <2>1, <2>2, <2>4, <3>1, <3>2, <3>5, <3>6, <3>7, HwKnown, HwStep
        DEF HwForkPhase, HwMintPhase
    <2> QED
      BY <1>9, <2>3, <2>4 DEF HwMintPending, HwAuthorized
  <1>10. ASSUME NEW c \in HwCalls, HwMint(c) PROVE HwInv'
    <2> DEFINE x == hwCall[c]
               y == [x EXCEPT !.pc = "minted", !.token = hwMade + 1]
               ids == hwRecord.tokenIds \cup {hwMade + 1}
               rec == [hwRecord EXCEPT !.tokenIds = ids]
    <2>1. /\ x.pc = "mint" /\ hwMade < HwMaxTokens /\ hwMade' = hwMade + 1
          /\ hwProvider' = hwProvider \cup {hwMade + 1} /\ hwCall' = [hwCall EXCEPT ![c] = y]
          /\ hwRecord' = rec
          /\ UNCHANGED <<hwForked, hwReturned, hwRetired, hwDeaths>>
      BY <1>10 DEF HwMint, HwAt
    <2>2. hwRecord # HwNone /\ x \in HwCall /\ hwRecord \in HwRecord
      BY <2>1, HwBusy, HwKnown
    <2>3. /\ hwMade + 1 \in HwTokens /\ hwMade + 1 \in 0 .. HwMaxTokens /\ hwMade <= hwMade'
          /\ ids \in SUBSET HwTokens
      BY <2>1, <2>2, HwKnown, HwRecordFields DEF HwTokens
    <2>4. y \in HwCall /\ y.pc = "minted" /\ y.token = hwMade + 1
      BY <2>2, <2>3 DEF HwCall
    <2>5. /\ rec \in HwRecord /\ rec.tokenIds = ids /\ rec.pending = hwRecord.pending
          /\ rec.context = hwRecord.context /\ rec.blocked = hwRecord.blocked
          /\ rec.unknown = hwRecord.unknown
      BY <2>2, <2>3, HwTokenIdsIs
    <2> HIDE DEF y, rec
    <2>6. HwMoves(c) /\ hwCall'[c] = y
      BY <2>1, <2>4, HwKnown DEF HwMoves
    <2>7. hwRecord.context /\ hwRecord.pending = "mint"
      BY <2>1, <2>2, HwUnderWay DEF HwCallSound, HwForkPhase, HwMintPhase
    <2>8. hwMade + 1 \notin hwReturned /\ hwMade + 1 \in 1 .. hwMade' /\ hwProvider' \subseteq 1 .. hwMade' /\ hwReturned' \subseteq 1 .. hwMade'
      BY <2>1, HwKnown
    <2>9. hwProvider' \cap hwReturned \subseteq hwProvider \cap hwReturned
      BY <2>1, <2>8
    <2>10. \A d \in HwCalls \ {c} : HwCallSound(hwCall[d], rec, hwProvider', hwReturned)
      <3>1. \A d \in HwCalls \ {c} : hwCall[d].pc \notin HwForkPhase
        BY <2>2, <2>7, HwUnderWay DEF HwCallSound
      <3> QED
        BY <2>2, <2>5, <2>9, <3>1, HwUnderWay, HwOtherKeeps
    <2>11. HwCallSound(y, rec, hwProvider', hwReturned) /\ HwRecordSound(rec, hwProvider')
      BY <2>1, <2>2, <2>4, <2>5, <2>7, HwUnderWay
      DEF HwCallSound, HwRecordSound, HwForkPhase, HwMintPhase
    <2>12. ~ hwRetired
      BY <2>2, <2>7, HwUnderWay DEF HwRetiredSound
    <2> QED
      BY <2>1, <2>2, <2>3, <2>4, <2>5, <2>6, <2>8, <2>10, <2>11, <2>12, HwKnown, HwStep
      DEF HwForkPhase, HwMintPhase
  <1>11. ASSUME NEW c \in HwCalls, NEW made \in BOOLEAN, HwMintUnknown(c, made) PROVE HwInv'
    <2> DEFINE rec == [hwRecord EXCEPT !.blocked = TRUE, !.unknown = TRUE]
    <2>1. /\ hwCall[c].pc = "mint" /\ hwRecord' = rec /\ HwMoves(c) /\ hwCall'[c].pc = "idle"
          /\ UNCHANGED <<hwForked, hwReturned, hwRetired, hwDeaths>>
      BY <1>11, HwKnown, HwEndIs DEF HwMintUnknown, HwAt
    <2>2. hwRecord # HwNone /\ hwRecord \in HwRecord
      BY <2>1, HwBusy, HwKnown
    <2>3. /\ rec \in HwRecord /\ rec.blocked = TRUE /\ rec.unknown = TRUE
          /\ rec.context = hwRecord.context /\ rec.pending = hwRecord.pending
          /\ rec.tokenIds = hwRecord.tokenIds
      BY <2>2 DEF HwRecord
    <2> HIDE DEF rec
    <2>4. hwRecord.context /\ hwRecord.pending = "mint"
      BY <2>1, <2>2, HwUnderWay DEF HwCallSound, HwForkPhase, HwMintPhase
    <2>5. /\ hwMade' \in 0 .. HwMaxTokens /\ hwMade <= hwMade'
          /\ hwProvider' \subseteq 1 .. hwMade' /\ hwProvider' \cap hwReturned \subseteq hwProvider \cap hwReturned
      BY <1>11, HwKnown DEF HwMintUnknown
    <2>6. hwReturned' \subseteq 1 .. hwMade'
      BY <2>1, <2>5, HwKnown
    <2>7. \A d \in HwCalls \ {c} : HwCallSound(hwCall[d], rec, hwProvider', hwReturned)
      <3>1. \A d \in HwCalls \ {c} : hwCall[d].pc \notin HwForkPhase
        BY <2>2, <2>4, HwUnderWay DEF HwCallSound
      <3> QED
        BY <2>2, <2>3, <2>5, <3>1, HwUnderWay, HwOtherKeeps
    <2>8. HwCallSound(hwCall'[c], rec, hwProvider', hwReturned) /\ HwRecordSound(rec, hwProvider')
      BY <2>1, <2>3, <2>4 DEF HwCallSound, HwRecordSound, HwForkPhase, HwMintPhase
    <2>9. ~ hwRetired
      BY <2>2, <2>4, HwUnderWay DEF HwRetiredSound
    <2> QED
      BY <2>1, <2>2, <2>3, <2>5, <2>6, <2>7, <2>8, <2>9, HwKnown, HwStep DEF HwForkPhase, HwMintPhase
  <1>12. ASSUME NEW c \in HwCalls, hwCall[c].pc = "minted", HwGo(c, "retire"),
                UNCHANGED <<hwRecord, hwProvider, hwMade, hwForked, hwReturned, hwRetired, hwDeaths>>
         PROVE  HwInv'
    <2>1. HwMoves(c) /\ hwCall'[c].pc = "retire"
      BY <1>12, HwKnown, HwGoIs DEF HwPcs
    <2>2. hwRecord # HwNone
      BY <1>12, HwBusy
    <2>3. HwCallSound(hwCall'[c], hwRecord, hwProvider, hwReturned)
      BY <1>12, <2>1, <2>2, HwUnderWay DEF HwCallSound, HwForkPhase, HwMintPhase
    <2> QED
      BY <1>12, <2>1, <2>2, <2>3, HwQuietStep DEF HwForkPhase, HwMintPhase
  <1>13. ASSUME NEW c \in HwCalls, HwHandOut(c) PROVE HwInv'
    <2> DEFINE rec == [hwRecord EXCEPT !.pending = "none"]
    <2>1. hwCall[c].pc = "minted" /\ UNCHANGED <<hwProvider, hwMade, hwForked, hwRetired, hwDeaths>>
      BY <1>13 DEF HwHandOut, HwAt
    <2>2. hwRecord # HwNone
      BY <2>1, HwBusy
    <2>3. CASE HwGo(c, "retire") /\ UNCHANGED <<hwRecord, hwReturned>>
      BY <1>12, <2>1, <2>3
    <2>4. CASE /\ ~ hwRecord.blocked /\ hwRecord' = rec
               /\ hwReturned' = hwReturned \cup {hwCall[c].token} /\ HwEnd(c)
      <3>1. HwMoves(c) /\ hwCall'[c].pc = "idle"
        BY <2>4, HwKnown, HwEndIs
      <3>2. /\ rec \in HwRecord /\ rec.pending = "none" /\ rec.tokenIds = hwRecord.tokenIds
            /\ rec.context = hwRecord.context /\ rec.blocked = hwRecord.blocked
            /\ rec.unknown = hwRecord.unknown
        BY <2>2, HwKnown, HwPendingIs
      <3> HIDE DEF rec
      <3>3. hwRecord.context /\ hwRecord.pending = "mint"
        BY <2>1, <2>2, HwUnderWay DEF HwCallSound, HwForkPhase, HwMintPhase
      <3>4. \A d \in HwCalls \ {c} : /\ hwCall[d].pc \notin HwForkPhase \cup HwMintPhase
                                     /\ hwCall[d].pc # "revoking"
        BY <2>1, <2>2, <2>4, <3>3, HwUnderWay DEF HwCallSound, HwInv, HwOneAt, HwMintPhase
      <3>5. \A d \in HwCalls \ {c} : HwCallSound(hwCall[d], rec, hwProvider, hwReturned')
        BY <2>2, <3>2, <3>4, HwUnderWay, HwOtherKeeps
      <3>6. HwCallSound(hwCall'[c], rec, hwProvider, hwReturned') /\ HwRecordSound(rec, hwProvider)
        BY <2>2, <3>1, <3>2, <3>3, HwUnderWay DEF HwCallSound, HwRecordSound, HwForkPhase, HwMintPhase
      <3>7. ~ hwRetired
        BY <2>2, <2>4, HwUnderWay DEF HwRetiredSound
      <3>8. hwReturned' \subseteq 1 .. hwMade' /\ hwMade <= hwMade'
        BY <2>1, <2>4, HwKnown DEF HwInv
      <3> QED
        BY <2>1, <2>2, <2>4, <3>1, <3>2, <3>5, <3>6, <3>7, <3>8, HwKnown, HwStep
        DEF HwForkPhase, HwMintPhase
    <2> QED
      BY <1>13, <2>3, <2>4 DEF HwHandOut
  <1>14. ASSUME NEW c \in HwCalls, NEW confirmed \in BOOLEAN, HwRetire(c, confirmed) PROVE HwInv'
    <2> DEFINE token == hwCall[c].token
    <2>1. /\ hwCall[c].pc = "retire" /\ HwMoves(c) /\ hwCall'[c].pc = "idle"
          /\ UNCHANGED <<hwMade, hwForked, hwReturned, hwRetired, hwDeaths>>
      BY <1>14, HwKnown, HwEndIs DEF HwRetire, HwAt
    <2>2. hwRecord # HwNone /\ hwRecord \in HwRecord
      BY <2>1, HwBusy, HwKnown
    <2>3. hwRecord.context /\ hwRecord.pending = "mint"
      BY <2>1, <2>2, HwUnderWay DEF HwCallSound, HwForkPhase, HwMintPhase
    <2>4. /\ hwRecord' \in HwRecord /\ hwRecord'.pending = "none" /\ hwRecord'.context = hwRecord.context
          /\ hwRecord'.unknown = hwRecord.unknown /\ (hwRecord.blocked => hwRecord'.blocked)
          /\ hwProvider' \subseteq hwProvider
          /\ hwProvider \subseteq hwRecord.tokenIds => hwProvider' \subseteq hwRecord'.tokenIds
      <3>1. CASE confirmed \/ token \notin hwRecord.tokenIds
        <4> DEFINE ids == hwRecord.tokenIds \ {token}
                   rec == [hwRecord EXCEPT !.tokenIds = ids, !.pending = "none"]
        <4>1. hwProvider' = hwProvider \ {token} /\ hwRecord' = rec
          BY <1>14, <3>1 DEF HwRetire
        <4>2. ids \subseteq HwTokens
          BY <2>2, HwRecordFields
        <4>3. /\ rec \in HwRecord /\ rec.pending = "none" /\ rec.context = hwRecord.context
              /\ rec.unknown = hwRecord.unknown /\ rec.blocked = hwRecord.blocked /\ rec.tokenIds = ids
          BY <2>2, <4>2 DEF HwRecord
        <4> HIDE DEF rec
        <4> QED
          BY <4>1, <4>3
      <3>2. CASE ~ confirmed /\ token \in hwRecord.tokenIds
        <4> DEFINE ids == hwRecord.tokenIds \cup {token}
                   rec == [hwRecord EXCEPT !.blocked = TRUE, !.pending = "none", !.tokenIds = ids]
        <4>1. hwProvider' \in {hwProvider, hwProvider \ {token}} /\ hwRecord' = rec
          BY <1>14, <3>2 DEF HwRetire
        <4>2. ids \subseteq HwTokens
          BY <2>2, <3>2, HwRecordFields
        <4>3. /\ rec \in HwRecord /\ rec.pending = "none" /\ rec.context = hwRecord.context
              /\ rec.unknown = hwRecord.unknown /\ rec.blocked = TRUE /\ rec.tokenIds = ids
          BY <2>2, <4>2 DEF HwRecord
        <4> HIDE DEF rec
        <4> QED
          BY <4>1, <4>3
      <3> QED
        BY <3>1, <3>2
    <2>5. \A d \in HwCalls \ {c} : hwCall[d].pc \notin HwForkPhase \cup HwMintPhase
      BY <2>1, <2>2, <2>3, HwUnderWay DEF HwCallSound, HwInv, HwOneAt, HwMintPhase
    <2>6. \A d \in HwCalls \ {c} : HwCallSound(hwCall[d], hwRecord', hwProvider', hwReturned)
      BY <2>2, <2>4, <2>5, HwUnderWay, HwOtherKeeps
    <2>7. HwCallSound(hwCall'[c], hwRecord', hwProvider', hwReturned) /\ HwRecordSound(hwRecord', hwProvider')
      BY <2>1, <2>2, <2>3, <2>4, HwUnderWay DEF HwCallSound, HwRecordSound, HwForkPhase, HwMintPhase
    <2>8. ~ hwRetired
      BY <2>2, <2>3, HwUnderWay DEF HwRetiredSound
    <2>9. hwProvider' \subseteq 1 .. hwMade' /\ hwReturned' \subseteq 1 .. hwMade' /\ hwMade <= hwMade'
      BY <2>1, <2>4, HwKnown
    <2> QED
      BY <2>1, <2>2, <2>4, <2>6, <2>7, <2>8, <2>9, HwKnown, HwStep DEF HwForkPhase, HwMintPhase
  <1>15. ASSUME NEW c \in HwCalls, HwRevoke(c) PROVE HwInv'
    <2> DEFINE rec == [hwRecord EXCEPT !.blocked = TRUE]
    <2>1. /\ hwCall[c].pc = "idle" /\ hwRecord # HwNone /\ hwRecord' = rec
          /\ UNCHANGED <<hwProvider, hwMade, hwForked, hwReturned, hwDeaths>>
      BY <1>15 DEF HwRevoke, HwAt
    <2>2. /\ rec \in HwRecord /\ rec.pending = hwRecord.pending /\ rec.tokenIds = hwRecord.tokenIds
          /\ rec.context = hwRecord.context /\ rec.blocked = TRUE /\ rec.unknown = hwRecord.unknown
      BY <2>1, HwKnown, HwBlockedIs
    <2> HIDE DEF rec
    <2>3. \A d \in HwCalls : HwCallSound(hwCall[d], rec, hwProvider, hwReturned)
      BY <2>1, <2>2, HwUnderWay, HwOtherKeeps
    <2>4. HwRecordSound(rec, hwProvider) /\ (hwRetired => HwRetiredSound(rec, hwProvider, hwReturned))
      BY <2>1, <2>2, HwUnderWay DEF HwRecordSound, HwRetiredSound
    <2>5. hwMade <= hwMade' /\ hwProvider' \subseteq 1 .. hwMade' /\ hwReturned' \subseteq 1 .. hwMade'
      BY <2>1, HwKnown
    <2>6. CASE hwRecord.context
      <3>1. HwMoves(c) /\ hwCall'[c].pc = "revoke" /\ UNCHANGED hwRetired
        BY <1>15, <2>6, HwKnown, HwGoIs DEF HwRevoke, HwPcs
      <3>2. HwCallSound(hwCall'[c], rec, hwProvider, hwReturned)
        BY <2>2, <2>6, <3>1 DEF HwCallSound, HwForkPhase, HwMintPhase
      <3> QED
        BY <2>1, <2>2, <2>3, <2>4, <2>5, <3>1, <3>2, HwKnown, HwStep DEF HwForkPhase, HwMintPhase
    <2>7. CASE ~ hwRecord.context
      <3>1. hwRetired' = (hwRetired \/ HwSettled) /\ UNCHANGED hwCall
        BY <1>15, <2>7 DEF HwRevoke
      <3>2. HwSettled => HwRetiredSound(rec, hwProvider, hwReturned)
        BY <2>1, <2>2, <2>7, HwUnderWay DEF HwSettled, HwRecordSound, HwRetiredSound
      <3>3. hwRetired' \in BOOLEAN /\ (hwRetired' => HwRetiredSound(rec, hwProvider, hwReturned))
        BY <2>4, <3>1, <3>2
      <3>4. HwMoves(c) /\ hwCall'[c].pc = "idle"
        BY <2>1, <3>1, HwKnown DEF HwMoves
      <3>5. HwCallSound(hwCall'[c], rec, hwProvider, hwReturned)
        BY <2>3, <3>1
      <3> QED
        BY <2>1, <2>2, <2>3, <2>4, <2>5, <3>3, <3>4, <3>5, HwKnown, HwStep DEF HwForkPhase, HwMintPhase
    <2>8. hwRecord.context \in BOOLEAN
      BY <2>1, HwKnown, HwRecordFields
    <2> QED
      BY <2>6, <2>7
  <1>16. ASSUME NEW c \in HwCalls, HwRevokeReads(c) PROVE HwInv'
    <2>1. /\ hwCall[c].pc = "revoke" /\ UNCHANGED <<hwRecord, hwProvider, hwMade, hwForked, hwReturned, hwDeaths>>
      BY <1>16 DEF HwRevokeReads, HwAt
    <2>2. hwRecord # HwNone /\ hwRecord \in HwRecord
      BY <2>1, HwBusy, HwKnown
    <2>3. hwRecord.context /\ hwRecord.blocked /\ hwRecord.pending # "fork"
      BY <2>1, <2>2, HwUnderWay DEF HwCallSound, HwRecordSound, HwForkPhase
    <2>4. hwMade <= hwMade' /\ hwProvider' \subseteq 1 .. hwMade' /\ hwReturned' \subseteq 1 .. hwMade'
      BY <2>1, HwKnown
    <2>5. CASE hwRecord.tokenIds = {}
      <3>1. HwMoves(c) /\ hwCall'[c].pc = "idle" /\ hwRetired' = (hwRetired \/ HwSettled)
        BY <1>16, <2>5, HwKnown, HwEndIs DEF HwRevokeReads
      <3>2. HwSettled => HwRetiredSound(hwRecord, hwProvider, hwReturned)
        BY <2>2, <2>3, <2>5, HwUnderWay DEF HwSettled, HwRecordSound, HwRetiredSound
      <3>3. hwRetired' \in BOOLEAN /\ (hwRetired' => HwRetiredSound(hwRecord, hwProvider, hwReturned))
        BY <2>2, <3>1, <3>2, HwUnderWay
      <3>4. HwCallSound(hwCall'[c], hwRecord, hwProvider, hwReturned)
        BY <3>1 DEF HwCallSound, HwForkPhase, HwMintPhase
      <3> QED
        BY <2>1, <2>2, <2>4, <3>1, <3>3, <3>4, HwKnown, HwUnderWay, HwStep DEF HwForkPhase, HwMintPhase
    <2>6. CASE hwRecord.tokenIds # {}
      <3> DEFINE y == [hwCall[c] EXCEPT !.pc = "revoking", !.ids = hwRecord.tokenIds]
      <3>1. hwCall' = [hwCall EXCEPT ![c] = y] /\ UNCHANGED hwRetired
        BY <1>16, <2>6 DEF HwRevokeReads
      <3>2. y \in HwCall /\ y.pc = "revoking" /\ y.ids = hwRecord.tokenIds
        <4>1. hwCall[c] \in HwCall /\ hwRecord.tokenIds \subseteq HwTokens
          BY <2>2, HwKnown, HwRecordFields
        <4> QED
          BY <4>1 DEF HwCall
      <3> HIDE DEF y
      <3>3. HwMoves(c) /\ hwCall'[c] = y
        BY <3>1, <3>2, HwKnown DEF HwMoves
      <3>4. HwCallSound(y, hwRecord, hwProvider, hwReturned)
        BY <2>2, <2>3, <3>2, HwUnderWay DEF HwCallSound, HwRecordSound, HwForkPhase, HwMintPhase
      <3> QED
        BY <2>1, <2>2, <3>1, <3>2, <3>3, <3>4, HwQuietStep DEF HwForkPhase, HwMintPhase
    <2> QED
      BY <2>5, <2>6
  <1>17. ASSUME NEW c \in HwCalls, NEW token \in HwTokens, HwRevokeToken(c, token) PROVE HwInv'
    <2> DEFINE x == hwCall[c]
               ids == hwRecord.tokenIds \ {token}
               rec == [hwRecord EXCEPT !.tokenIds = ids]
    <2>1. /\ x.pc = "revoking" /\ hwProvider' = hwProvider \ {token} /\ hwRecord' = rec
          /\ UNCHANGED <<hwMade, hwForked, hwReturned, hwDeaths>>
      BY <1>17 DEF HwRevokeToken, HwAt
    <2>2. hwRecord # HwNone /\ hwRecord \in HwRecord /\ x \in HwCall
      BY <2>1, HwBusy, HwKnown
    <2>3. /\ hwRecord.context /\ hwRecord.blocked
          /\ hwRecord.unknown \/ hwProvider \cap hwReturned \subseteq x.ids
      BY <2>1, <2>2, HwUnderWay DEF HwCallSound, HwForkPhase
    <2>4. /\ rec \in HwRecord /\ rec.pending = hwRecord.pending /\ rec.tokenIds = ids
          /\ rec.context = hwRecord.context /\ rec.blocked = hwRecord.blocked
          /\ rec.unknown = hwRecord.unknown
      <3>1. ids \in SUBSET HwTokens
        BY <2>2, HwRecordFields
      <3> QED
        BY <2>2, <3>1, HwTokenIdsIs
    <2> HIDE DEF rec
    <2>5. \A d \in HwCalls \ {c} : HwCallSound(hwCall[d], rec, hwProvider', hwReturned)
      BY <2>1, <2>2, <2>4, HwUnderWay, HwOtherKeeps
    <2>6. HwRecordSound(rec, hwProvider') /\ (hwRetired => HwRetiredSound(rec, hwProvider', hwReturned))
      BY <2>1, <2>2, <2>3, <2>4, HwUnderWay DEF HwRecordSound, HwRetiredSound
    <2>7. hwMade <= hwMade' /\ hwProvider' \subseteq 1 .. hwMade' /\ hwReturned' \subseteq 1 .. hwMade'
      BY <2>1, HwKnown
    <2>8. CASE x.ids = {token}
      <3>1. HwMoves(c) /\ hwCall'[c].pc = "idle" /\ hwRetired' = (hwRetired \/ HwSettled)
        BY <1>17, <2>8, HwKnown, HwEndIs DEF HwRevokeToken
      <3>2. HwSettled => HwRetiredSound(rec, hwProvider', hwReturned)
        BY <2>1, <2>3, <2>4, <2>8 DEF HwSettled, HwRetiredSound
      <3>3. hwRetired' \in BOOLEAN /\ (hwRetired' => HwRetiredSound(rec, hwProvider', hwReturned))
        BY <2>6, <3>1, <3>2
      <3>4. HwCallSound(hwCall'[c], rec, hwProvider', hwReturned)
        BY <3>1 DEF HwCallSound, HwForkPhase, HwMintPhase
      <3> QED
        BY <2>1, <2>2, <2>4, <2>5, <2>6, <2>7, <3>1, <3>3, <3>4, HwKnown, HwStep DEF HwForkPhase, HwMintPhase
    <2>9. CASE x.ids # {token}
      <3> DEFINE left == x.ids \ {token}
                 y == [x EXCEPT !.ids = left]
      <3>1. hwCall' = [hwCall EXCEPT ![c] = y] /\ UNCHANGED hwRetired
        BY <1>17, <2>9 DEF HwRevokeToken
      <3>2. y \in HwCall /\ y.pc = "revoking" /\ y.ids = left
        BY <2>1, <2>2 DEF HwCall
      <3> HIDE DEF y
      <3>3. HwMoves(c) /\ hwCall'[c] = y
        BY <3>1, <3>2, HwKnown DEF HwMoves
      <3>4. HwCallSound(y, rec, hwProvider', hwReturned)
        BY <2>1, <2>3, <2>4, <3>2 DEF HwCallSound, HwForkPhase, HwMintPhase
      <3> QED
        BY <2>1, <2>2, <2>4, <2>5, <2>6, <2>7, <3>1, <3>2, <3>3, <3>4, HwKnown, HwStep
        DEF HwForkPhase, HwMintPhase
    <2> QED
      BY <2>8, <2>9
  <1>18. ASSUME NEW c \in HwCalls, HwRevokeFails(c) PROVE HwInv'
    <2>1. /\ hwCall[c].pc = "revoking" /\ hwProvider' \subseteq hwProvider
          /\ HwMoves(c) /\ hwCall'[c].pc = "idle"
          /\ UNCHANGED <<hwRecord, hwMade, hwForked, hwReturned, hwRetired, hwDeaths>>
      BY <1>18, HwKnown, HwEndIs DEF HwRevokeFails, HwAt
    <2> QED
      BY <2>1, HwBusy, HwQuietStep DEF HwForkPhase, HwMintPhase
  <1>19. ASSUME NEW c \in HwCalls, HwMintRejected(c) PROVE HwInv'
    BY <1>12, <1>19 DEF HwMintRejected, HwAt
  <1>20. CASE UNCHANGED hwVars
    BY <1>20 DEF hwVars, HwInv, HwTypeOK
  <1> QED
    BY <1>1, <1>2, <1>3, <1>4, <1>5, <1>6, <1>7, <1>8, <1>9, <1>10, <1>11, <1>13, <1>14,
       <1>15, <1>16, <1>17, <1>18, <1>19, <1>20 DEF HwNext

LEMMA HwInvHolds == HwSpec => []HwInv
  <1>1. HwInit => HwInv
    <2> SUFFICES ASSUME HwInit PROVE HwInv
      OBVIOUS
    <2>1. HwIdle \in HwCall /\ HwIdle.pc = "idle"
      BY DEF HwIdle, HwCall
    <2>2. hwCall \in [HwCalls -> HwCall] /\ \A c \in HwCalls : hwCall[c].pc = "idle"
      BY <2>1 DEF HwInit
    <2>3. HwOneAt(HwForkPhase, hwCall) /\ HwOneAt(HwMintPhase, hwCall)
      BY <2>2 DEF HwOneAt, HwForkPhase, HwMintPhase
    <2>4. /\ hwRecord = HwNone /\ hwProvider = {} /\ hwReturned = {} /\ hwForked \in BOOLEAN
          /\ ~ hwRetired /\ hwRetired \in BOOLEAN
      BY DEF HwInit
    <2>5. hwMade \in 0 .. HwMaxTokens /\ hwDeaths \in 0 .. HwMaxDeaths
      BY HwAssumption DEF HwInit
    <2>6. HwTypeOK
      BY <2>2, <2>4, <2>5 DEF HwTypeOK
    <2> QED
      BY <2>2, <2>3, <2>4, <2>6 DEF HwInv
  <1> QED
    BY <1>1, HwInvStep, PTL DEF HwSpec

\* The record, the provider's tokens and the calls under way have their types.
THEOREM HwTypeCorrect == HwSpec => []HwTypeOK
  <1>1. HwInv => HwTypeOK
    BY DEF HwInv
  <1> QED
    BY <1>1, HwInvHolds, PTL

\* Once revokeWorkspace has returned, no token that was handed out is honoured,
\* whatever forks, mints and retirements were under way, failed half way or
\* were cut off by a death, for any number of calls and tokens.
THEOREM HwRevokedHasNoTokenCorrect == HwSpec => []HwRevokedHasNoToken
  <1>1. ASSUME HwInv, hwRetired
        PROVE  hwProvider \cap hwReturned = {} /\ hwProvider \subseteq hwRecord.tokenIds
    <2>1. hwRecord # HwNone
      BY <1>1 DEF HwInv
    <2> QED
      BY <1>1, <2>1, HwUnderWay DEF HwRetiredSound, HwRecordSound
  <1>2. HwInv => HwRevokedHasNoToken
    BY <1>1 DEF HwRevokedHasNoToken
  <1> QED
    BY <1>2, HwInvHolds, PTL

-----------------------------------------------------------------------------
(* Extensions *)

\* Nothing of high risk is asked for by an unverified package.
ExLowRisk(m) ==
  m.trust = "unverified" =>
    \A r \in m.requested : r[2] \notin ExHighRisk

\* One digest per id, and an unverified package that asks for a high-risk right
\* is blocked.
ExManifestsSound ==
  /\ \A m, n \in exManifests : m.id = n.id => m = n
  /\ \A m \in exManifests : m.lifecycle # "blocked" => ExLowRisk(m)

\* An installation is one of a registered package, with no more than it asked for.
ExInstallationSound(x) ==
  /\ x.manifest \in exManifests /\ ExLowRisk(x.manifest)
  /\ x.granted \subseteq x.manifest.requested
  /\ <<"effect", "canonical.write">> \notin x.granted

ExRunSound(run) ==
  /\ run.installation \in DOMAIN exInstallations
  /\ run.rights \subseteq exInstallations[run.installation].granted
  /\ ExNamed(run.rights, "capability") \cap ExKernel # {} => run.status = "proposal"
  /\ <<"capability", "secret.value.read">> \notin run.rights

\* The inductive invariant of the registry of extensions.
ExInv ==
  /\ ExTypeOK
  /\ ExManifestsSound
  /\ \A i \in DOMAIN exInstallations : ExInstallationSound(exInstallations[i])
  /\ \A run \in exRuns : ExRunSound(run)

LEMMA ExRightNamed ==
  ASSUME NEW R \in SUBSET ExRights, NEW k \in {"effect", "capability"}, NEW n, <<k, n>> \in R
  PROVE  n \in ExNamed(R, k)
  <1>1. <<k, n>> \in {"effect", "capability"} \X ExNames
    BY DEF ExRights
  <1> QED
    BY <1>1 DEF ExNamed

LEMMA ExRightName ==
  ASSUME NEW R \in SUBSET ExRights, NEW r \in R
  PROVE  r[2] \in ExNamed(R, "effect") \cup ExNamed(R, "capability")
  <1>1. r \in {"effect", "capability"} \X ExNames
    BY DEF ExRights
  <1>2. r = <<r[1], r[2]>> /\ r[1] \in {"effect", "capability"} /\ r[2] \in ExNames
    BY <1>1
  <1> QED
    BY <1>2 DEF ExNamed

\* Installations keep what they were installed with.
ExKept ==
  /\ \A m \in exManifests : m \in exManifests'
  /\ \A j \in DOMAIN exInstallations :
       /\ j \in DOMAIN exInstallations'
       /\ exInstallations'[j].manifest = exInstallations[j].manifest
       /\ exInstallations'[j].granted = exInstallations[j].granted

LEMMA ExKeptSound ==
  ASSUME ExInv, ExKept
  PROVE  /\ \A j \in DOMAIN exInstallations : ExInstallationSound(exInstallations[j])'
         /\ \A run \in exRuns : ExRunSound(run)'
  BY DEF ExInv, ExKept, ExInstallationSound, ExRunSound

LEMMA ExInitInv == ExInit => ExInv
  <1> SUFFICES ASSUME ExInit PROVE ExInv
    OBVIOUS
  <1>1. ExTypeOK
    <2>1. Len(<<>>) = 0 /\ <<>> \in Seq(ExInstallation)
      OBVIOUS
    <2> QED
      BY <2>1, ExAssumption DEF ExInit, ExTypeOK
  <1> QED
    BY <1>1 DEF ExInit, ExInv, ExManifestsSound

LEMMA ExRegisterInv ==
  ASSUME ExInv, NEW package \in ExPackages, ExRegister(package)
  PROVE  ExInv'
  <1> DEFINE m == [package EXCEPT !.lifecycle = ExRegisteredAs(package)]
  <1>1. package \in ExManifest
    BY ExPackageAssumption
  <1>2. ExRegisteredAs(package) \in ExLifecycle
    BY <1>1 DEF ExRegisteredAs, ExLifecycle
  <1>3. m \in ExManifest
    BY <1>1, <1>2 DEF ExManifest
  <1>4. m.id = package.id /\ m.lifecycle = ExRegisteredAs(package) /\ m.trust = package.trust
        /\ m.requested = package.requested
    BY <1>1 DEF ExManifest
  <1>5. m.lifecycle # "blocked" => ExLowRisk(m)
    <2>1. SUFFICES ASSUME m.lifecycle # "blocked", m.trust = "unverified", NEW r \in m.requested
                   PROVE  r[2] \notin ExHighRisk
      BY DEF ExLowRisk
    <2>2. m.requested \in SUBSET ExRights
      BY <1>1, <1>4 DEF ExManifest
    <2>3. r[2] \in ExNamed(m.requested, "effect") \cup ExNamed(m.requested, "capability")
      BY <2>2, ExRightName
    <2> QED
      BY <2>1, <2>3, <1>4 DEF ExRegisteredAs
  <1>6. exManifests' = exManifests \cup {m} /\ UNCHANGED <<exInstallations, exPolicy, exRuns>>
        /\ \A n \in exManifests : n.id # m.id
    BY <1>4 DEF ExRegister
  <1> HIDE DEF m
  <1>7. ExTypeOK'
    BY <1>3, <1>6 DEF ExInv, ExTypeOK
  <1>8. ExManifestsSound'
    BY <1>5, <1>6 DEF ExInv, ExManifestsSound
  <1>9. ExKept
    BY <1>6 DEF ExKept
  <1> QED
    BY <1>6, <1>7, <1>8, <1>9, ExKeptSound DEF ExInv

\* A new installation of a package that may be installed is sound.
LEMMA ExInstalledSound ==
  ASSUME ExInv, NEW m, NEW granted, ExInstallable(m, granted), NEW scope \in ExScopes,
         NEW replaces \in 0 .. Len(exInstallations), Len(exInstallations) < ExMaxInstallations
  PROVE  /\ ExInstalled(m, scope, granted, replaces) \in ExInstallation
         /\ ExInstallationSound(ExInstalled(m, scope, granted, replaces))
  <1>1. m \in ExManifest /\ m \in exManifests /\ ExLowRisk(m) /\ granted \subseteq m.requested
    BY DEF ExInstallable, ExInv, ExTypeOK, ExManifestsSound
  <1>2. granted \in SUBSET ExRights
    BY <1>1 DEF ExManifest
  <1>3. <<"effect", "canonical.write">> \notin granted
    BY <1>2, ExRightNamed DEF ExInstallable
  <1> DEFINE n == Len(exInstallations)
             l == IF replaces = 0 THEN n + 1 ELSE exInstallations[replaces].lineage
  <1>4. n \in Nat /\ n < ExMaxInstallations /\ ExMaxInstallations \in Nat
        /\ exInstallations \in Seq(ExInstallation)
    BY ExAssumption DEF ExInv, ExTypeOK
  <1>5. l \in 1 .. ExMaxInstallations
    <2>1. CASE replaces = 0
      BY <2>1, <1>4
    <2>2. CASE replaces # 0
      <3>1. replaces \in 1 .. Len(exInstallations)
        BY <2>2, <1>4
      <3>2. exInstallations[replaces] \in ExInstallation
        BY <3>1, <1>4
      <3> QED
        BY <2>2, <3>2 DEF ExInstallation
    <2> QED
      BY <2>1, <2>2
  <1>6. replaces \in 0 .. ExMaxInstallations
    BY <1>4
  <1>7. ExInstalled(m, scope, granted, replaces) =
          [manifest |-> m, scope |-> scope, granted |-> granted, lifecycle |-> "enabled",
           replaces |-> replaces, lineage |-> l]
    BY DEF ExInstalled
  <1>8. "enabled" \in ExLifecycle
    BY DEF ExLifecycle
  <1> HIDE DEF l
  <1> QED
    BY <1>1, <1>2, <1>3, <1>5, <1>6, <1>7, <1>8 DEF ExInstallation, ExInstallationSound

\* One installation more.
LEMMA ExAppends ==
  ASSUME ExInv, NEW s \in Seq(ExInstallation), Len(s) = Len(exInstallations),
         Len(exInstallations) < ExMaxInstallations,
         NEW x \in ExInstallation, ExInstallationSound(x),
         \A j \in DOMAIN s : /\ s[j].manifest = exInstallations[j].manifest
                             /\ s[j].granted = exInstallations[j].granted,
         exInstallations' = Append(s, x), UNCHANGED <<exManifests, exPolicy, exRuns>>
  PROVE  ExInv'
  <1>1. exInstallations \in Seq(ExInstallation) /\ ExMaxInstallations \in Nat
    BY ExAssumption DEF ExInv, ExTypeOK
  <1>2. /\ exInstallations' \in Seq(ExInstallation)
        /\ Len(exInstallations') = Len(exInstallations) + 1
        /\ DOMAIN exInstallations = 1 .. Len(exInstallations)
        /\ DOMAIN s = 1 .. Len(exInstallations)
        /\ DOMAIN exInstallations' = 1 .. Len(exInstallations) + 1
        /\ \A j \in 1 .. Len(exInstallations) : exInstallations'[j] = s[j]
        /\ exInstallations'[Len(exInstallations) + 1] = x
    BY <1>1
  <1>3. ExTypeOK'
    BY <1>1, <1>2 DEF ExInv, ExTypeOK
  <1>4. ExKept
    BY <1>1, <1>2 DEF ExKept
  <1>5. \A j \in DOMAIN exInstallations' : ExInstallationSound(exInstallations[j])'
    <2>1. SUFFICES ASSUME NEW j \in DOMAIN exInstallations'
                   PROVE  ExInstallationSound(exInstallations[j])'
      OBVIOUS
    <2>2. CASE j \in DOMAIN exInstallations
      BY <2>2, <1>4, ExKeptSound
    <2>3. CASE j = Len(exInstallations) + 1
      BY <2>3, <1>2 DEF ExInstallationSound
    <2> QED
      BY <2>1, <2>2, <2>3, <1>1, <1>2
  <1> QED
    BY <1>3, <1>4, <1>5, ExKeptSound DEF ExInv, ExManifestsSound

LEMMA ExInstallInv ==
  ASSUME ExInv, NEW m, NEW granted, NEW scope \in ExScopes, ExInstall(m, scope, granted)
  PROVE  ExInv'
  <1>1. ExInstallable(m, granted) /\ Len(exInstallations) < ExMaxInstallations
        /\ exInstallations \in Seq(ExInstallation)
    BY DEF ExInstall, ExInv, ExTypeOK
  <1>2. 0 \in 0 .. Len(exInstallations)
    BY <1>1
  <1> DEFINE x == ExInstalled(m, scope, granted, 0)
  <1>3. x \in ExInstallation /\ ExInstallationSound(x)
    BY <1>1, <1>2, ExInstalledSound
  <1>4. exInstallations' = Append(exInstallations, x) /\ UNCHANGED <<exManifests, exPolicy, exRuns>>
    BY DEF ExInstall
  <1> HIDE DEF x
  <1> QED
    BY <1>1, <1>3, <1>4, ExAppends

\* The lifecycle of an installation changes, nothing else of it.
LEMMA ExLifecycleOnly ==
  ASSUME exInstallations \in Seq(ExInstallation), NEW i \in DOMAIN exInstallations,
         NEW l \in ExLifecycle, NEW s, s = [exInstallations EXCEPT ![i].lifecycle = l]
  PROVE  /\ s \in Seq(ExInstallation) /\ Len(s) = Len(exInstallations)
         /\ DOMAIN s = DOMAIN exInstallations
         /\ \A j \in DOMAIN s : /\ s[j].manifest = exInstallations[j].manifest
                                /\ s[j].granted = exInstallations[j].granted
  <1> DEFINE x == exInstallations[i]
             y == [x EXCEPT !.lifecycle = l]
  <1>1. x \in ExInstallation
    OBVIOUS
  <1>2. y \in ExInstallation
    BY <1>1 DEF ExInstallation
  <1>3. y.manifest = x.manifest /\ y.granted = x.granted
    BY <1>1 DEF ExInstallation
  <1>4. s = [exInstallations EXCEPT ![i] = y]
    OBVIOUS
  <1> HIDE DEF y
  <1> QED
    BY <1>2, <1>3, <1>4

LEMMA ExReplaceInv ==
  ASSUME ExInv, NEW m, NEW granted, NEW i \in DOMAIN exInstallations, ExReplace(i, m, granted)
  PROVE  ExInv'
  <1>1. ExInstallable(m, granted) /\ Len(exInstallations) < ExMaxInstallations
        /\ exInstallations \in Seq(ExInstallation)
    BY DEF ExReplace, ExInv, ExTypeOK
  <1>2. i \in 0 .. Len(exInstallations)
    BY <1>1
  <1>3. exInstallations[i].scope \in ExScopes
    <2>1. exInstallations[i] \in ExInstallation
      BY <1>1
    <2> QED
      BY <2>1 DEF ExInstallation
  <1> DEFINE x == ExInstalled(m, exInstallations[i].scope, granted, i)
             s == [exInstallations EXCEPT ![i].lifecycle = "replaced"]
  <1>4. x \in ExInstallation /\ ExInstallationSound(x)
    BY <1>1, <1>2, <1>3, ExInstalledSound
  <1>5. "replaced" \in ExLifecycle
    BY DEF ExLifecycle
  <1>6. exInstallations' = Append(s, x) /\ UNCHANGED <<exManifests, exPolicy, exRuns>>
        /\ s = [exInstallations EXCEPT ![i].lifecycle = "replaced"]
    BY DEF ExReplace
  <1> HIDE DEF x, s
  <1>7. /\ s \in Seq(ExInstallation) /\ Len(s) = Len(exInstallations)
        /\ \A j \in DOMAIN s : /\ s[j].manifest = exInstallations[j].manifest
                               /\ s[j].granted = exInstallations[j].granted
    BY <1>1, <1>5, <1>6, ExLifecycleOnly
  <1> QED
    BY <1>1, <1>4, <1>6, <1>7, ExAppends

LEMMA ExTransitionInv ==
  ASSUME ExInv, NEW i \in DOMAIN exInstallations,
         NEW l \in {"deprecated", "suspended", "revoked"}, ExTransition(i, l)
  PROVE  ExInv'
  <1>1. exInstallations \in Seq(ExInstallation) /\ l \in ExLifecycle
        /\ exInstallations' = [exInstallations EXCEPT ![i].lifecycle = l]
        /\ UNCHANGED <<exManifests, exPolicy, exRuns>>
    BY DEF ExTransition, ExInv, ExTypeOK, ExLifecycle
  <1>2. /\ exInstallations' \in Seq(ExInstallation) /\ Len(exInstallations') = Len(exInstallations)
        /\ DOMAIN exInstallations' = DOMAIN exInstallations
        /\ \A j \in DOMAIN exInstallations' :
             /\ exInstallations'[j].manifest = exInstallations[j].manifest
             /\ exInstallations'[j].granted = exInstallations[j].granted
    BY <1>1, ExLifecycleOnly
  <1>3. ExTypeOK'
    BY <1>1, <1>2 DEF ExInv, ExTypeOK
  <1>4. ExKept
    BY <1>1, <1>2 DEF ExKept
  <1> QED
    BY <1>1, <1>2, <1>3, <1>4, ExKeptSound DEF ExInv, ExManifestsSound

LEMMA ExInvokeInv ==
  ASSUME ExInv, NEW i \in DOMAIN exInstallations, NEW rights, ExInvoke(i, rights)
  PROVE  ExInv'
  <1> DEFINE capabilities == ExNamed(rights, "capability")
             status == IF capabilities \cap ExKernel # {} THEN "proposal" ELSE "allowed"
             denied == {r[2] : r \in rights} \ exPolicy
             run == [installation |-> i, rights |-> rights, status |-> status, denied |-> denied]
  <1>1. /\ exInstallations \in Seq(ExInstallation) /\ Len(exInstallations) <= ExMaxInstallations
        /\ ExMaxInstallations \in Nat
    BY ExAssumption DEF ExInv, ExTypeOK
  <1>2. i \in 1 .. ExMaxInstallations /\ exInstallations[i] \in ExInstallation
    BY <1>1
  <1>3. rights \subseteq exInstallations[i].granted /\ rights \in SUBSET ExRights
    BY <1>2 DEF ExInvoke, ExInstallation
  <1>4. denied \in SUBSET ExNames
    <2>1. \A r \in rights : r[2] \in ExNames
      BY <1>3 DEF ExRights
    <2> QED
      BY <2>1
  <1>5. status \in {"allowed", "proposal"} /\ (capabilities \cap ExKernel # {} => status = "proposal")
    OBVIOUS
  <1>6. <<"capability", "secret.value.read">> \notin rights
    BY <1>3, ExRightNamed DEF ExInvoke
  <1>7. exRuns' = exRuns \cup {run} /\ UNCHANGED <<exManifests, exInstallations, exPolicy>>
    BY DEF ExInvoke
  <1> HIDE DEF status, denied
  <1>8. run \in ExRun
    BY <1>2, <1>3, <1>4, <1>5 DEF ExRun
  <1>9. ExRunSound(run)
    BY <1>3, <1>5, <1>6 DEF ExRunSound
  <1> HIDE DEF run
  <1>10. ExTypeOK'
    BY <1>7, <1>8 DEF ExInv, ExTypeOK
  <1>11. ExKept
    BY <1>7 DEF ExKept
  <1>12. \A r \in exRuns' : ExRunSound(r)'
    BY <1>7, <1>9, <1>11, ExKeptSound DEF ExRunSound
  <1> QED
    BY <1>7, <1>10, <1>11, <1>12, ExKeptSound DEF ExInv, ExManifestsSound

LEMMA ExStepInv ==
  ASSUME ExInv, [ExNext]_exVars
  PROVE  ExInv'
  <1>1. ASSUME NEW package \in ExPackages, ExRegister(package) PROVE ExInv'
    BY <1>1, ExRegisterInv
  <1>2. ASSUME NEW m \in exManifests, NEW granted \in SUBSET m.requested, NEW scope \in ExScopes,
               ExInstall(m, scope, granted)
        PROVE  ExInv'
    BY <1>2, ExInstallInv
  <1>3. ASSUME NEW m \in exManifests, NEW granted \in SUBSET m.requested,
               NEW i \in DOMAIN exInstallations, ExReplace(i, m, granted)
        PROVE  ExInv'
    BY <1>3, ExReplaceInv
  <1>4. ASSUME NEW i \in DOMAIN exInstallations,
               NEW l \in {"deprecated", "suspended", "revoked"}, ExTransition(i, l)
        PROVE  ExInv'
    BY <1>4, ExTransitionInv
  <1>5. ASSUME NEW i \in DOMAIN exInstallations,
               NEW rights \in SUBSET exInstallations[i].granted \ {{}}, ExInvoke(i, rights)
        PROVE  ExInv'
    BY <1>5, ExInvokeInv
  <1>6. ASSUME NEW name \in ExNames, ExPolicyChanges(name) PROVE ExInv'
    BY <1>6 DEF ExPolicyChanges, ExInv, ExTypeOK, ExManifestsSound, ExInstallationSound, ExRunSound
  <1>7. CASE UNCHANGED exVars
    BY <1>7 DEF exVars, ExInv, ExTypeOK, ExManifestsSound, ExInstallationSound, ExRunSound
  <1> QED
    BY <1>1, <1>2, <1>3, <1>4, <1>5, <1>6, <1>7 DEF ExNext

LEMMA ExAlways == ExSpec => []ExInv
  BY ExInitInv, ExStepInv, PTL DEF ExSpec

\* The records of the registry of extensions keep their types.
THEOREM ExTypeCorrect == ExSpec => []ExTypeOK
  <1>1. ExInv => ExTypeOK
    BY DEF ExInv
  <1> QED
    BY <1>1, ExAlways, PTL

\* Whatever the order of registrations, replacements, policy changes and
\* revocations: an invocation used what was reviewed of the one package its
\* installation stands for, and no right that is reserved
\* (ExtensionRegistry.registerManifest, install, replace, invoke).
THEOREM ExRunsWhatWasReviewedCorrect == ExSpec => []ExRunsWhatWasReviewed
  <1>1. ExInv => ExRunsWhatWasReviewed
    <2> SUFFICES ASSUME ExInv, NEW run \in exRuns
                 PROVE  LET i == exInstallations[run.installation]
                            names == {r[2] : r \in run.rights}
                        IN /\ run.rights \subseteq i.granted
                           /\ {m \in exManifests : m.id = i.manifest.id} = {i.manifest}
                           /\ i.manifest.trust = "unverified" => names \cap ExHighRisk = {}
                           /\ ExNamed(run.rights, "capability") \cap ExKernel # {}
                                => run.status = "proposal"
                           /\ <<"effect", "canonical.write">> \notin run.rights
                           /\ <<"capability", "secret.value.read">> \notin run.rights
      BY DEF ExRunsWhatWasReviewed
    <2> DEFINE i == exInstallations[run.installation]
    <2>1. ExRunSound(run) /\ ExInstallationSound(i)
      BY DEF ExInv, ExRunSound
    <2>2. {m \in exManifests : m.id = i.manifest.id} = {i.manifest}
      BY <2>1 DEF ExInv, ExManifestsSound, ExInstallationSound
    <2>3. i.manifest.trust = "unverified" => \A r \in run.rights : r[2] \notin ExHighRisk
      BY <2>1 DEF ExRunSound, ExInstallationSound, ExLowRisk
    <2> QED
      BY <2>1, <2>2, <2>3 DEF ExRunSound, ExInstallationSound
  <1> QED
    BY <1>1, ExAlways, PTL

-----------------------------------------------------------------------------
(* Governance profiles *)

GpEntry == [profile : GpProfiles, retired : BOOLEAN]

\* What is active is registered and not retired.
GpActiveSound ==
  \A a \in gpActive : \E i \in DOMAIN gpRegistered :
    gpRegistered[i].profile = a[1] /\ gpRegistered[i].retired = FALSE

\* An evaluation speaks of an active profile and reports what its observations say.
GpEvaluationSound(e) ==
  /\ <<e.profile, e.scope>> \in gpActive
  /\ e.status = GpStatus(e.profile, e.observations)

\* The inductive invariant of the registry of profiles.
GpInv == GpTypeOK /\ GpActiveSound /\ \A e \in gpEvaluations : GpEvaluationSound(e)

\* requireProfile finds an entry of the id that was asked for.
LEMMA GpRequireFinds ==
  ASSUME NEW registered \in Seq(GpEntry), NEW id,
         \E i \in DOMAIN registered : registered[i].profile.id = id
  PROVE  \E i \in DOMAIN registered : /\ GpRequire(registered, id) = registered[i]
                                      /\ registered[i].profile.id = id
  <1> DEFINE S == {i \in DOMAIN registered : registered[i].profile.id = id}
             First(i) == /\ registered[i].profile.id = id
                         /\ \A j \in 1 .. i - 1 : registered[j].profile.id # id
  <1>1. S \in SUBSET Nat /\ S # {} /\ DOMAIN registered = 1 .. Len(registered) /\ Len(registered) \in Nat
    OBVIOUS
  <1>2. PICK i \in S : \A j \in S : i <= j
    BY <1>1, FirstPosition
  <1>3. i \in DOMAIN registered /\ First(i)
    BY <1>1, <1>2
  <1>4. (CHOOSE k \in DOMAIN registered : First(k)) \in DOMAIN registered
        /\ First(CHOOSE k \in DOMAIN registered : First(k))
    BY <1>3
  <1> QED
    BY <1>4 DEF GpRequire

\* registerProfile keeps what is there and has the profile afterwards.
LEMMA GpWithKeeps ==
  ASSUME GpInv, NEW profile \in GpProfiles, NEW retired \in BOOLEAN
  PROVE  /\ GpWith(profile, retired) \in Seq(GpEntry)
         /\ \A i \in DOMAIN gpRegistered : /\ i \in DOMAIN GpWith(profile, retired)
                                           /\ GpWith(profile, retired)[i] = gpRegistered[i]
         /\ \E i \in DOMAIN GpWith(profile, retired) : GpWith(profile, retired)[i].profile = profile
  <1> DEFINE e == [profile |-> profile, retired |-> retired]
  <1>1. gpRegistered \in Seq(GpEntry) /\ e \in GpEntry /\ e.profile = profile
    BY DEF GpInv, GpTypeOK, GpEntry
  <1>2. CASE \E i \in DOMAIN gpRegistered : gpRegistered[i].profile = profile
    BY <1>1, <1>2 DEF GpWith
  <1>3. CASE ~ \E i \in DOMAIN gpRegistered : gpRegistered[i].profile = profile
    <2>1. GpWith(profile, retired) = Append(gpRegistered, e)
      BY <1>3 DEF GpWith
    <2> HIDE DEF e
    <2>2. /\ Append(gpRegistered, e) \in Seq(GpEntry)
          /\ DOMAIN Append(gpRegistered, e) = 1 .. Len(gpRegistered) + 1
          /\ DOMAIN gpRegistered = 1 .. Len(gpRegistered) /\ Len(gpRegistered) \in Nat
          /\ \A i \in DOMAIN gpRegistered : Append(gpRegistered, e)[i] = gpRegistered[i]
          /\ Append(gpRegistered, e)[Len(gpRegistered) + 1] = e
      BY <1>1
    <2> QED
      BY <1>1, <2>1, <2>2
  <1> QED
    BY <1>2, <1>3

\* What the registry evaluates is sound where the profile is active.
LEMMA GpEvaluatedSound ==
  ASSUME NEW profile \in GpProfiles, NEW scope \in GpScopes, NEW observations \in GpObservations,
         NEW asked \in GpProfiles, <<profile, scope>> \in gpActive
  PROVE  /\ GpEvaluated(profile, scope, observations, asked) \in GpEvaluation
         /\ GpEvaluationSound(GpEvaluated(profile, scope, observations, asked))
  <1>1. GpStatus(profile, observations) \in {"ready", "blocked", "indeterminate"}
    BY DEF GpStatus
  <1> DEFINE st == GpStatus(profile, observations)
  <1>2. GpEvaluated(profile, scope, observations, asked) =
          [profile |-> profile, scope |-> scope, observations |-> observations, asked |-> asked,
           status |-> st]
    BY DEF GpEvaluated
  <1>3. GpEvaluated(profile, scope, observations, asked) \in GpEvaluation
    <2> HIDE DEF st
    <2> QED
      BY <1>1, <1>2 DEF GpEvaluation, st
  <1> QED
    BY <1>2, <1>3 DEF GpEvaluationSound

\* The profile an id stands for.
LEMMA GpFound ==
  ASSUME GpInv, NEW id, GpKnown(id)
  PROVE  \E i \in DOMAIN gpRegistered : /\ GpRequire(gpRegistered, id) = gpRegistered[i]
                                        /\ gpRegistered[i] \in GpEntry
  <1>1. gpRegistered \in Seq(GpEntry)
    BY DEF GpInv, GpTypeOK, GpEntry
  <1> QED
    BY <1>1, GpRequireFinds DEF GpKnown

LEMMA GpEvaluatesInv ==
  ASSUME GpInv, NEW profile \in GpProfiles, NEW scope \in GpScopes,
         NEW observations \in GpObservations, GpEvaluates(profile.id, scope, observations),
         gpBundles' \subseteq gpBundles \cup {<<GpRequire(gpRegistered, profile.id).profile, observations>>}
  PROVE  GpInv'
  <1> DEFINE found == GpRequire(gpRegistered, profile.id).profile
             e == GpEvaluated(found, scope, observations, found)
  <1>1. found \in GpProfiles
    BY GpFound DEF GpEvaluates, GpEntry
  <1>2. <<found, scope>> \in gpActive
    BY DEF GpEvaluates
  <1>3. gpEvaluations' = gpEvaluations \cup {e} /\ UNCHANGED <<gpRegistered, gpActive>>
    BY DEF GpEvaluates
  <1>4. gpBundles' \subseteq gpBundles \cup {<<found, observations>>}
    OBVIOUS
  <1> HIDE DEF found
  <1>5. e \in GpEvaluation /\ GpEvaluationSound(e)
    BY <1>1, <1>2, GpEvaluatedSound
  <1> HIDE DEF e
  <1> QED
    BY <1>1, <1>3, <1>4, <1>5 DEF GpInv, GpTypeOK, GpActiveSound, GpEvaluationSound

LEMMA GpReplayInv ==
  ASSUME GpInv, NEW bundle \in gpBundles, NEW scope \in GpScopes, GpReplay(bundle, scope)
  PROVE  GpInv'
  <1> DEFINE registered == GpWith(bundle[1], FALSE)
             found == GpRequire(registered, bundle[1].id)
             active == IF <<bundle[1], scope>> \in gpActive \/ found.retired
                         THEN gpActive ELSE gpActive \cup {<<found.profile, scope>>}
             e == GpEvaluated(found.profile, scope, bundle[2], bundle[1])
  <1>1. bundle \in GpProfiles \X GpObservations /\ bundle[1] \in GpProfiles
        /\ bundle[2] \in GpObservations
    BY DEF GpInv, GpTypeOK
  <1>2. /\ registered \in Seq(GpEntry)
        /\ \A i \in DOMAIN gpRegistered : i \in DOMAIN registered /\ registered[i] = gpRegistered[i]
        /\ \E i \in DOMAIN registered : registered[i].profile = bundle[1]
    BY <1>1, GpWithKeeps
  <1>3. gpRegistered' = registered /\ gpActive' = active /\ UNCHANGED gpBundles
    BY DEF GpReplay
  <1>4. gpEvaluations' = gpEvaluations
        \/ (<<found.profile, scope>> \in active /\ gpEvaluations' = gpEvaluations \cup {e})
    BY DEF GpReplay
  <1> HIDE DEF registered
  <1>5. PICK i \in DOMAIN registered : found = registered[i]
    BY <1>2, GpRequireFinds
  <1>6. found \in GpEntry /\ found.profile \in GpProfiles /\ found.retired \in BOOLEAN
    <2>1. found \in GpEntry
      BY <1>2, <1>5
    <2> QED
      BY <2>1 DEF GpEntry
  <1> HIDE DEF found
  <1>7. gpActive \subseteq active /\ \A a \in active : a \in gpActive \/ (a[1] = found.profile /\ found.retired = FALSE)
    BY <1>6
  <1>8. active \subseteq GpProfiles \X GpScopes
    BY <1>6 DEF GpInv, GpTypeOK
  <1> HIDE DEF active
  <1>9. GpActiveSound'
    BY <1>2, <1>3, <1>5, <1>7 DEF GpInv, GpActiveSound
  <1>10. e \in GpEvaluation /\ <<e.profile, e.scope>> = <<found.profile, scope>>
         /\ e.status = GpStatus(e.profile, e.observations)
    <2>2. GpStatus(found.profile, bundle[2]) \in {"ready", "blocked", "indeterminate"}
      BY DEF GpStatus
    <2>3. e \in GpEvaluation
      BY <1>1, <1>6, <2>2 DEF GpEvaluated, GpEvaluation
    <2>4. e.profile = found.profile /\ e.scope = scope /\ e.observations = bundle[2]
          /\ e.status = GpStatus(found.profile, bundle[2])
      BY DEF GpEvaluated
    <2> HIDE DEF e
    <2> QED
      BY <2>3, <2>4
  <1> HIDE DEF e
  <1>11. GpTypeOK'
    BY <1>2, <1>3, <1>4, <1>8, <1>10 DEF GpInv, GpTypeOK, GpEntry
  <1>12. \A x \in gpEvaluations' : GpEvaluationSound(x)'
    <2>1. SUFFICES ASSUME NEW x \in gpEvaluations'
                   PROVE  <<x.profile, x.scope>> \in gpActive'
                          /\ x.status = GpStatus(x.profile, x.observations)
      BY DEF GpEvaluationSound, GpStatus
    <2>2. CASE x \in gpEvaluations
      BY <2>2, <1>3, <1>7 DEF GpInv, GpEvaluationSound
    <2>3. CASE x = e /\ <<found.profile, scope>> \in active
      BY <2>3, <1>3, <1>10
    <2> QED
      BY <1>4, <2>2, <2>3
  <1> QED
    BY <1>9, <1>11, <1>12 DEF GpInv

LEMMA GpInitInv == GpInit => GpInv
  <1>1. <<>> \in Seq([profile : GpProfiles, retired : BOOLEAN])
    OBVIOUS
  <1> QED
    BY <1>1 DEF GpInit, GpInv, GpTypeOK, GpActiveSound

LEMMA GpStepInv ==
  ASSUME GpInv, [GpNext]_gpVars
  PROVE  GpInv'
  <1>1. ASSUME NEW profile \in GpProfiles, NEW retired \in BOOLEAN, GpRegister(profile, retired)
        PROVE  GpInv'
    <2>1. /\ gpRegistered' \in Seq(GpEntry)
          /\ \A i \in DOMAIN gpRegistered : /\ i \in DOMAIN gpRegistered'
                                            /\ gpRegistered'[i] = gpRegistered[i]
          /\ UNCHANGED <<gpActive, gpBundles, gpEvaluations>>
      BY <1>1, GpWithKeeps DEF GpRegister
    <2> QED
      BY <2>1 DEF GpInv, GpTypeOK, GpActiveSound, GpEvaluationSound, GpEntry
  <1>2. ASSUME NEW profile \in GpProfiles, NEW scope \in GpScopes, GpActivate(profile.id, scope)
        PROVE  GpInv'
    <2> DEFINE found == GpRequire(gpRegistered, profile.id)
    <2>1. PICK i \in DOMAIN gpRegistered : found = gpRegistered[i] /\ gpRegistered[i] \in GpEntry
      BY <1>2, GpFound DEF GpActivate
    <2>2. ~ found.retired /\ gpActive' = gpActive \cup {<<found.profile, scope>>}
          /\ UNCHANGED <<gpRegistered, gpBundles, gpEvaluations>>
      BY <1>2 DEF GpActivate
    <2> HIDE DEF found
    <2>3. found.profile \in GpProfiles /\ gpRegistered[i].profile = found.profile
          /\ gpRegistered[i].retired = FALSE
      BY <2>1, <2>2 DEF GpEntry
    <2> QED
      BY <2>2, <2>3 DEF GpInv, GpTypeOK, GpActiveSound, GpEvaluationSound
  <1>3. ASSUME NEW profile \in GpProfiles, NEW scope \in GpScopes, NEW observations \in GpObservations,
               GpEvaluate(profile.id, scope, observations)
        PROVE  GpInv'
    BY <1>3, GpEvaluatesInv DEF GpEvaluate
  <1>4. ASSUME NEW profile \in GpProfiles, NEW scope \in GpScopes, NEW observations \in GpObservations,
               GpExport(profile.id, scope, observations)
        PROVE  GpInv'
    BY <1>4, GpEvaluatesInv DEF GpExport
  <1>5. ASSUME NEW profile \in GpProfiles, NEW observations \in GpObservations,
               GpReceive(profile, observations)
        PROVE  GpInv'
    BY <1>5 DEF GpReceive, GpInv, GpTypeOK, GpActiveSound, GpEvaluationSound
  <1>6. ASSUME NEW bundle \in gpBundles, NEW scope \in GpScopes, GpReplay(bundle, scope)
        PROVE  GpInv'
    BY <1>6, GpReplayInv
  <1>7. CASE UNCHANGED gpVars
    BY <1>7 DEF gpVars, GpInv, GpTypeOK, GpActiveSound, GpEvaluationSound
  <1> QED
    BY <1>1, <1>2, <1>3, <1>4, <1>5, <1>6, <1>7 DEF GpNext

LEMMA GpAlways == GpSpec => []GpInv
  BY GpInitInv, GpStepInv, PTL DEF GpSpec

\* The records of the registry of Governance Profiles keep their types.
THEOREM GpTypeCorrect == GpSpec => []GpTypeOK
  <1>1. GpInv => GpTypeOK
    BY DEF GpInv
  <1> QED
    BY <1>1, GpAlways, PTL

\* Whatever versions were registered, retired, activated, exported and
\* replayed: an evaluation that reports ready is one of an active, registered
\* profile that is not retired, with all that it requires satisfied
\* (GovernanceProfileRegistry.evaluate, replay).
THEOREM GpReadyIsMetCorrect == GpSpec => []GpReadyIsMet
  <1>1. GpInv => GpReadyIsMet
    <2> SUFFICES ASSUME GpInv, NEW e \in gpEvaluations, e.status = "ready"
                 PROVE  /\ <<e.profile, e.scope>> \in gpActive
                        /\ [profile |-> e.profile, retired |-> FALSE]
                             \in {gpRegistered[i] : i \in DOMAIN gpRegistered}
                        /\ \A c \in e.profile.required : e.observations[c] = "satisfied"
      BY DEF GpReadyIsMet
    <2>1. <<e.profile, e.scope>> \in gpActive /\ e.status = GpStatus(e.profile, e.observations)
      BY DEF GpInv, GpEvaluationSound
    <2>2. PICK i \in DOMAIN gpRegistered :
            gpRegistered[i].profile = e.profile /\ gpRegistered[i].retired = FALSE
      BY <2>1 DEF GpInv, GpActiveSound
    <2>3. gpRegistered[i] \in [profile : GpProfiles, retired : BOOLEAN]
      <3>1. gpRegistered \in Seq(GpEntry)
        BY DEF GpInv, GpTypeOK, GpEntry
      <3>2. gpRegistered[i] \in GpEntry
        BY <3>1
      <3> QED
        BY <3>2 DEF GpEntry
    <2>4. gpRegistered[i] = [profile |-> e.profile, retired |-> FALSE]
      BY <2>2, <2>3
    <2>5. \A c \in e.profile.required : e.observations[c] = "satisfied"
      BY <2>1 DEF GpStatus
    <2> QED
      BY <2>1, <2>4, <2>5
  <1> QED
    BY <1>1, GpAlways, PTL

-----------------------------------------------------------------------------
(* Disclosure and public intake *)

DsStates == {"draft", "previewed", "approved", "landed", "revoked"}
DsPublication == [projection : DsProjectionSet, state : DsStates]

\* What a caller got of a Sealed Verifier.
DsSealedSound(r) ==
  r.audience = "public" =>
    /\ "restricted" \notin {r.summary, r.findings}
    /\ r.level = "status" => r.summary = "none" /\ r.findings = "none"

\* The inductive invariant of disclosure.
DsInv ==
  /\ dsWorld \in DsWorldSet
  /\ dsPublications \in Seq(DsPublication)
  /\ \A i \in DOMAIN dsPublications : DOMAIN dsPublications[i].projection \subseteq DsPublic
  /\ dsSealed \subseteq DsResult /\ \A r \in dsSealed : DsSealedSound(r)
  /\ dsClone \in [kind : {"empty", "private", "partial", "public"}, holds : DsProjectionSet]
  /\ dsClone.kind # "private" => DOMAIN dsClone.holds \subseteq DsPublic

\* ... and of the intake.
DiInv ==
  /\ diIntake \in DiIntakeSet
  /\ diIntake.accepted + diIntake.denied + diIntake.pending <= diIntake.requests

-----------------------------------------------------------------------------
(* What the public can ask for does not depend on what is private *)

LEMMA DsErasedWorld ==
  ASSUME NEW w
  PROVE  /\ DsErased(w).snapshots = [s \in DsSpaces |-> IF s \in DsPublic THEN w.snapshots[s] ELSE 1]
         /\ DsErased(w).affected = w.affected \cap DsPublic
         /\ DsErased(w).effects = w.effects \cap DsPublic
         /\ DsErased(w).evidence = DsVisible(w.evidence, "public")
         /\ DsErased(w).intents = DsVisible(w.intents, "public")
         /\ DsErased(w).requests = DsVisible(w.requests, "public")
  BY DEF DsErased

LEMMA DsSameProjections ==
  ASSUME NEW w \in DsWorldSet
  PROVE  DsProjections(w) = DsProjections(DsErased(w))
  <1>1. ASSUME NEW ids \in SUBSET DsSpaces, DsDisclosable(ids)
        PROVE  DsProjection(w, ids) = DsProjection(DsErased(w), ids)
    <2>1. \A s \in ids : DsErased(w).snapshots[s] = w.snapshots[s]
      BY <1>1, DsErasedWorld DEF DsDisclosable
    <2> QED
      BY <2>1 DEF DsProjection, Restrict
  <1> QED
    BY <1>1 DEF DsProjections

LEMMA DsVisibleTwice ==
  ASSUME NEW items
  PROVE  /\ DsVisible(DsVisible(items, "public"), "public") = DsVisible(items, "public")
         /\ {e \in DsVisible(items, "public") : e.class = "public"} = {e \in items : e.class = "public"}
  <1>1. DsRank("public") = 0
    BY DEF DsRank
  <1> QED
    BY <1>1 DEF DsVisible

LEMMA DsSameChange ==
  ASSUME NEW w, NEW p
  PROVE  DsChangeSummary(w, "public", p) = DsChangeSummary(DsErased(w), "public", p)
  <1>1. /\ DsErased(w).effects \cap DsPublic = w.effects \cap DsPublic
        /\ DsErased(w).affected \cap DsPublic = w.affected \cap DsPublic
        /\ {e \in DsErased(w).evidence : e.class = "public"} = {e \in w.evidence : e.class = "public"}
    BY DsErasedWorld, DsVisibleTwice
  <1> DEFINE v == w.effects \cap DsPublic
             a == w.affected \cap DsPublic
             e == {x \in w.evidence : x.class = "public"}
  <1>2. DsChangeSummary(w, "public", p) =
          [affected |-> a \cup v, effects |-> v, evidence |-> e,
           change |-> <<"public-change", p, "change">>]
    BY DEF DsChangeSummary
  <1>3. DsChangeSummary(DsErased(w), "public", p) =
          [affected |-> a \cup v, effects |-> v, evidence |-> e,
           change |-> <<"public-change", p, "change">>]
    <2> DEFINE u == DsErased(w)
               v1 == u.effects \cap DsPublic
               a1 == u.affected \cap DsPublic
               e1 == {x \in u.evidence : x.class = "public"}
    <2>1. v1 = v /\ a1 = a /\ e1 = e
      BY <1>1
    <2>2. DsChangeSummary(u, "public", p) =
            [affected |-> a1 \cup v1, effects |-> v1, evidence |-> e1,
             change |-> <<"public-change", p, "change">>]
      BY DEF DsChangeSummary
    <2> HIDE DEF v1, a1, e1, v, a, e
    <2> QED
      BY <2>1, <2>2
  <1> QED
    BY <1>2, <1>3

LEMMA DsSameView ==
  ASSUME NEW w \in DsWorldSet
  PROVE  DsPublicView(w) = DsPublicView(DsErased(w))
  <1>1. DsProjections(w) = DsProjections(DsErased(w))
    BY DsSameProjections
  <1>2. DsIntentSummaries(w, "public") = DsIntentSummaries(DsErased(w), "public")
    BY DsErasedWorld, DsVisibleTwice DEF DsIntentSummaries
  <1>3. DsRequestSummaries(w, "public") = DsRequestSummaries(DsErased(w), "public")
    <2>1. DsVisible(w.requests, "public") = DsVisible(DsErased(w).requests, "public")
      BY DsErasedWorld, DsVisibleTwice
    <2> QED
      BY <2>1 DEF DsRequestSummaries
  <1>4. {DsChangeSummary(w, "public", p) : p \in DsProjections(w)} =
          {DsChangeSummary(DsErased(w), "public", p) : p \in DsProjections(DsErased(w))}
    BY <1>1, DsSameChange
  <1> QED
    BY <1>1, <1>2, <1>3, <1>4 DEF DsPublicView

-----------------------------------------------------------------------------
(* The steps *)

LEMMA DsProjectionOf ==
  ASSUME NEW w \in DsWorldSet, NEW ids \in SUBSET DsSpaces
  PROVE  DsProjection(w, ids) \in DsProjectionSet /\ DOMAIN DsProjection(w, ids) = ids
  <1>1. w.snapshots \in [DsSpaces -> 1 .. DsMaxSnapshot]
    BY DEF DsWorldSet
  <1>2. DsProjection(w, ids) = [s \in ids |-> w.snapshots[s]]
    BY DEF DsProjection, Restrict
  <1>3. DsProjection(w, ids) \in [ids -> 1 .. DsMaxSnapshot]
    BY <1>1, <1>2
  <1> QED
    BY <1>2, <1>3 DEF DsProjectionSet

LEMMA DsEmptyProjection == <<>> \in DsProjectionSet /\ DOMAIN <<>> = {}
  <1>1. <<>> \in [{} -> 1 .. DsMaxSnapshot]
    OBVIOUS
  <1>2. {} \in SUBSET DsSpaces
    OBVIOUS
  <1> QED
    BY <1>1, <1>2 DEF DsProjectionSet

LEMMA DsInitInv == DsInit => DsInv
  <1> SUFFICES ASSUME DsInit PROVE DsInv
    OBVIOUS
  <1>1. [s \in DsSpaces |-> 1] \in [DsSpaces -> 1 .. DsMaxSnapshot]
    BY DsAssumption
  <1>2. dsWorld \in DsWorldSet
    BY <1>1 DEF DsInit, DsWorldSet
  <1>3. dsClone \in [kind : {"empty", "private", "partial", "public"}, holds : DsProjectionSet]
        /\ DOMAIN dsClone.holds \subseteq DsPublic
    BY DsEmptyProjection DEF DsInit
  <1>4. dsPublications \in Seq(DsPublication) /\ DOMAIN dsPublications = {}
    BY DEF DsInit
  <1> QED
    BY <1>2, <1>3, <1>4 DEF DsInit, DsInv

LEMMA DsEditInv ==
  ASSUME DsInv, NEW s \in DsSpaces, DsEdit(s)
  PROVE  DsInv'
  <1> DEFINE S == [dsWorld.snapshots EXCEPT ![s] = dsWorld.snapshots[s] + 1]
             A == dsWorld.affected \cup {s}
  <1>1. dsWorld.snapshots \in [DsSpaces -> 1 .. DsMaxSnapshot] /\ dsWorld.affected \in SUBSET DsSpaces
    BY DEF DsInv, DsWorldSet
  <1>2. S \in [DsSpaces -> 1 .. DsMaxSnapshot] /\ A \in SUBSET DsSpaces
    BY <1>1, DsAssumption DEF DsEdit
  <1>3. dsWorld' = [dsWorld EXCEPT !.snapshots = S, !.affected = A]
    BY DEF DsEdit, DsInv, DsWorldSet
  <1> HIDE DEF S, A
  <1>4. dsWorld' \in DsWorldSet
    BY <1>2, <1>3 DEF DsInv, DsWorldSet
  <1> QED
    BY <1>4 DEF DsInv, DsEdit

LEMMA DsRecordInv ==
  ASSUME DsInv, dsWorld' \in DsWorldSet, UNCHANGED <<dsPublications, dsSealed, dsClone>>
  PROVE  DsInv'
  BY DEF DsInv

LEMMA DsAddItemInv ==
  ASSUME DsInv, NEW item \in DsItem, DsAddItem(item)
  PROVE  DsInv'
  <1>1. dsWorld \in DsWorldSet
    BY DEF DsInv
  <1>2. PICK part \in {"evidence", "intents", "requests"} :
          dsWorld' = [dsWorld EXCEPT ![part] = @ \cup {item}]
    BY DEF DsAddItem
  <1>3. CASE part = "evidence"
    <2>1. dsWorld' = [dsWorld EXCEPT !.evidence = @ \cup {item}]
      BY <1>2, <1>3
    <2> QED
      BY <1>1, <2>1, DsRecordInv DEF DsWorldSet, DsAddItem
  <1>4. CASE part = "intents"
    <2>1. dsWorld' = [dsWorld EXCEPT !.intents = @ \cup {item}]
      BY <1>2, <1>4
    <2> QED
      BY <1>1, <2>1, DsRecordInv DEF DsWorldSet, DsAddItem
  <1>5. CASE part = "requests"
    <2>1. dsWorld' = [dsWorld EXCEPT !.requests = @ \cup {item}]
      BY <1>2, <1>5
    <2> QED
      BY <1>1, <2>1, DsRecordInv DEF DsWorldSet, DsAddItem
  <1> QED
    BY <1>3, <1>4, <1>5

DsLevels == {"status", "safe-summary", "redacted-findings", "authorized-detail"}
DsMarks == {"none", "safe", "restricted"}

LEMMA DsRunSealedInv ==
  ASSUME DsInv, NEW audience \in DsClass, NEW id \in DsItems, NEW level \in DsLevels,
         NEW payload \in [summary : DsMarks, findings : DsMarks],
         DsRunSealed(audience, level, payload, id)
  PROVE  DsInv'
  <1> DEFINE u == DsDisclosed(level, payload).summary
             f == DsDisclosed(level, payload).findings
             r == [audience |-> audience, level |-> level, summary |-> u, findings |-> f]
             item == [id |-> id, class |-> audience]
  <1>1. /\ u = IF level = "status" THEN "none" ELSE payload.summary
        /\ f = IF level \in {"redacted-findings", "authorized-detail"} THEN payload.findings ELSE "none"
    BY DEF DsDisclosed
  <1>2. u \in DsMarks /\ f \in DsMarks
    BY <1>1 DEF DsMarks
  <1>3. audience = "public" => u # "restricted" /\ f # "restricted"
    BY <1>1 DEF DsRunSealed, DsRestricted
  <1>4. level = "status" => u = "none" /\ f = "none"
    BY <1>1
  <1>5. dsSealed' = dsSealed \cup {r} /\ UNCHANGED <<dsPublications, dsClone>>
        /\ dsWorld' = [dsWorld EXCEPT !.evidence = @ \cup {item}]
    BY DEF DsRunSealed
  <1> HIDE DEF u, f
  <1>6. r \in DsResult
    BY <1>2 DEF DsResult, DsLevels, DsMarks
  <1>7. DsSealedSound(r)
    BY <1>3, <1>4 DEF DsSealedSound
  <1>8. item \in DsItem
    BY DEF DsItem
  <1> HIDE DEF r, item
  <1>9. dsWorld' \in DsWorldSet
    BY <1>5, <1>8 DEF DsInv, DsWorldSet
  <1> QED
    BY <1>5, <1>6, <1>7, <1>9 DEF DsInv

LEMMA DsPublishInv ==
  ASSUME DsInv, NEW ids \in SUBSET DsSpaces, DsPublish(ids)
  PROVE  DsInv'
  <1> DEFINE p == DsProjection(dsWorld, ids)
             x == [projection |-> p, state |-> "draft"]
  <1>1. p \in DsProjectionSet /\ DOMAIN p \subseteq DsPublic
    BY DsProjectionOf DEF DsInv, DsPublish, DsDisclosable
  <1>2. dsPublications' = Append(dsPublications, x) /\ UNCHANGED <<dsWorld, dsSealed, dsClone>>
    BY DEF DsPublish
  <1> HIDE DEF p
  <1>3. x \in DsPublication /\ x.projection = p
    BY <1>1 DEF DsPublication, DsStates
  <1> HIDE DEF x
  <1>4. dsPublications \in Seq(DsPublication)
    BY DEF DsInv
  <1>5. /\ dsPublications' \in Seq(DsPublication)
        /\ DOMAIN dsPublications = 1 .. Len(dsPublications) /\ Len(dsPublications) \in Nat
        /\ DOMAIN dsPublications' = 1 .. Len(dsPublications) + 1
        /\ \A i \in DOMAIN dsPublications : dsPublications'[i] = dsPublications[i]
        /\ dsPublications'[Len(dsPublications) + 1] = x
    BY <1>2, <1>3, <1>4
  <1>6. \A i \in DOMAIN dsPublications' : DOMAIN dsPublications'[i].projection \subseteq DsPublic
    BY <1>1, <1>3, <1>5 DEF DsInv
  <1> QED
    BY <1>2, <1>5, <1>6 DEF DsInv

LEMMA DsMoveInv ==
  ASSUME DsInv, NEW i \in DOMAIN dsPublications, NEW from, NEW to \in DsStates, DsMove(i, from, to)
  PROVE  DsInv'
  <1> DEFINE x == dsPublications[i]
             y == [x EXCEPT !.state = to]
  <1>1. dsPublications \in Seq(DsPublication)
    BY DEF DsInv
  <1>2. x \in DsPublication
    BY <1>1
  <1>3. y \in DsPublication /\ y.projection = x.projection
    BY <1>2 DEF DsPublication
  <1>4. dsPublications' = [dsPublications EXCEPT ![i] = y] /\ UNCHANGED <<dsWorld, dsSealed, dsClone>>
    BY DEF DsMove
  <1> HIDE DEF y
  <1>5. dsPublications' \in Seq(DsPublication) /\ DOMAIN dsPublications' = DOMAIN dsPublications
        /\ \A k \in DOMAIN dsPublications : dsPublications'[k].projection = dsPublications[k].projection
    BY <1>1, <1>3, <1>4
  <1> QED
    BY <1>4, <1>5 DEF DsInv

LEMMA DsCloneInv ==
  ASSUME DsInv, NEW kind \in {"empty", "private", "partial", "public"}, NEW holds \in DsProjectionSet,
         kind # "private" => DOMAIN holds \subseteq DsPublic,
         dsClone' = [kind |-> kind, holds |-> holds],
         UNCHANGED <<dsWorld, dsPublications, dsSealed>>
  PROVE  DsInv'
  <1>1. dsClone' \in [kind : {"empty", "private", "partial", "public"}, holds : DsProjectionSet]
        /\ dsClone'.kind = kind /\ dsClone'.holds = holds
    OBVIOUS
  <1> QED
    BY <1>1 DEF DsInv

LEMMA DsMaterializeInv ==
  ASSUME DsInv, NEW ids \in SUBSET DsSpaces, NEW succeeds \in BOOLEAN, DsMaterialize(ids, succeeds)
  PROVE  DsInv'
  <1> DEFINE p == DsProjection(dsWorld, ids)
             kind == IF succeeds THEN "public" ELSE "partial"
  <1>1. p \in DsProjectionSet /\ DOMAIN p \subseteq DsPublic
    BY DsProjectionOf DEF DsInv, DsMaterialize, DsDisclosable
  <1>2. dsClone' = [kind |-> kind, holds |-> p] /\ UNCHANGED <<dsWorld, dsPublications, dsSealed>>
    BY DEF DsMaterialize
  <1>3. kind \in {"empty", "private", "partial", "public"}
    OBVIOUS
  <1> HIDE DEF p, kind
  <1> QED
    BY <1>1, <1>2, <1>3, DsCloneInv

LEMMA DsDirectoryInv ==
  ASSUME DsInv, NEW kind \in {"empty", "private"}, DsDirectory(kind)
  PROVE  DsInv'
  <1> DEFINE p == IF kind = "empty" THEN <<>> ELSE DsProjection(dsWorld, DsSpaces)
  <1>1. DsProjection(dsWorld, DsSpaces) \in DsProjectionSet
    BY DsProjectionOf DEF DsInv
  <1>2. p \in DsProjectionSet /\ (kind # "private" => DOMAIN p \subseteq DsPublic)
    BY <1>1, DsEmptyProjection
  <1>3. dsClone' = [kind |-> kind, holds |-> p] /\ UNCHANGED <<dsWorld, dsPublications, dsSealed>>
    BY DEF DsDirectory
  <1> HIDE DEF p
  <1> QED
    BY <1>2, <1>3, DsCloneInv

LEMMA DsStepInv ==
  ASSUME DsInv, [DsNext]_dsVars
  PROVE  DsInv'
  <1>1. ASSUME NEW s \in DsSpaces, DsEdit(s) PROVE DsInv'
    BY <1>1, DsEditInv
  <1>2. ASSUME NEW s \in DsSpaces, DsDeclareEffect(s) PROVE DsInv'
    <2>1. dsWorld' \in DsWorldSet
      BY <1>2 DEF DsDeclareEffect, DsInv, DsWorldSet
    <2> QED
      BY <1>2, <2>1, DsRecordInv DEF DsDeclareEffect
  <1>3. ASSUME NEW item \in DsItem, DsAddItem(item) PROVE DsInv'
    BY <1>3, DsAddItemInv
  <1>4. ASSUME NEW audience \in DsClass, NEW id \in DsItems,
               NEW level \in {"status", "safe-summary", "redacted-findings", "authorized-detail"},
               NEW payload \in [summary : {"none", "safe", "restricted"},
                                findings : {"none", "safe", "restricted"}],
               DsRunSealed(audience, level, payload, id)
        PROVE  DsInv'
    BY <1>4, DsRunSealedInv DEF DsLevels, DsMarks
  <1>5. ASSUME NEW ids \in SUBSET DsSpaces, DsPublish(ids) PROVE DsInv'
    BY <1>5, DsPublishInv
  <1>6. ASSUME NEW ids \in SUBSET DsSpaces, NEW succeeds \in BOOLEAN, DsMaterialize(ids, succeeds)
        PROVE  DsInv'
    BY <1>6, DsMaterializeInv
  <1>7. ASSUME NEW i \in DOMAIN dsPublications, DsPreview(i) \/ DsApprove(i) \/ DsLand(i) \/ DsRevoke(i)
        PROVE  DsInv'
    <2>1. {"previewed", "approved", "landed", "revoked"} \subseteq DsStates
      BY DEF DsStates
    <2> QED
      BY <1>7, <2>1, DsMoveInv DEF DsPreview, DsApprove, DsLand, DsRevoke
  <1>8. ASSUME NEW kind \in {"empty", "private"}, DsDirectory(kind) PROVE DsInv'
    BY <1>8, DsDirectoryInv
  <1>9. CASE UNCHANGED dsVars
    BY <1>9 DEF dsVars, DsInv
  <1> QED
    BY <1>1, <1>2, <1>3, <1>4, <1>5, <1>6, <1>7, <1>8, <1>9 DEF DsNext

LEMMA DiInitInv == DiInit => DiInv
  BY DsAssumption DEF DiInit, DiInv, DiIntakeSet

\* The counts of the intake after a step.
LEMMA DiCounts ==
  ASSUME DiInv, NEW q \in 0 .. DiMaxRequests, NEW a \in 0 .. DiLimit, NEW d \in 0 .. DiMaxRequests,
         NEW p \in 0 .. DiMaxRequests, a + d + p <= q,
         NEW st \in {"closed", "open", "suspended"},
         diIntake' = [diIntake EXCEPT !.status = st, !.requests = q, !.accepted = a, !.denied = d,
                                      !.pending = p]
  PROVE  DiInv'
  <1>1. diIntake \in DiIntakeSet
    BY DEF DiInv
  <1>2. diIntake' \in DiIntakeSet
    BY <1>1 DEF DiIntakeSet
  <1>3. diIntake'.requests = q /\ diIntake'.accepted = a /\ diIntake'.denied = d /\ diIntake'.pending = p
    BY <1>1 DEF DiIntakeSet
  <1> QED
    BY <1>2, <1>3 DEF DiInv

LEMMA DiStepInv ==
  ASSUME DiInv, [DiNext]_diVars
  PROVE  DiInv'
  <1> DEFINE q == diIntake.requests
             a == diIntake.accepted
             d == diIntake.denied
             p == diIntake.pending
             st == diIntake.status
  <1>0. /\ diIntake \in DiIntakeSet
        /\ q \in 0 .. DiMaxRequests /\ a \in 0 .. DiLimit /\ d \in 0 .. DiMaxRequests
        /\ p \in 0 .. DiMaxRequests /\ st \in {"closed", "open", "suspended"}
        /\ a + d + p <= q
    BY DEF DiInv, DiIntakeSet
  <1>1. CASE DiOpen \/ DiSuspend \/ DiReopen \/ DiOtherMode
    BY <1>1 DEF DiOpen, DiSuspend, DiReopen, DiOtherMode, DiInv, DiIntakeSet
  <1>2. CASE DiCleanup
    <2>1. 0 \in 0 .. DiMaxRequests /\ a + d + 0 <= q
      BY <1>0, DsAssumption
    <2>2. diIntake' = [diIntake EXCEPT !.status = "closed", !.requests = q, !.accepted = a,
                                       !.denied = d, !.pending = 0]
      BY <1>2, <1>0 DEF DiCleanup, DiIntakeSet
    <2> HIDE DEF q, a, d
    <2> QED
      BY <1>0, <2>1, <2>2, DiCounts
  <1>3. CASE DiSubmit
    <2> DEFINE Becomes(q2, a2, d2, p2) ==
                 diIntake' = [diIntake EXCEPT !.status = st, !.requests = q2, !.accepted = a2,
                                              !.denied = d2, !.pending = p2]
    <2>1. \/ Becomes(q + 1, a, d + 1, p)
          \/ Becomes(q + 1, a, d, p + 1)
          \/ q + 1 <= DiLimit /\ Becomes(q + 1, a + 1, d, p)
      <3>1. CASE diIntake.status # "open"
        BY <1>0, <1>3, <3>1 DEF DiSubmit, DiIntakeSet
      <3>2. CASE diIntake.status = "open" /\ diIntake.mode = "approval-only"
        BY <1>0, <1>3, <3>2 DEF DiSubmit, DiIntakeSet
      <3>3. CASE diIntake.status = "open" /\ diIntake.mode # "approval-only"
        <4>1. diIntake' = LET counted == [diIntake EXCEPT !.requests = q + 1] IN
                          IF counted.requests > DiLimit THEN [counted EXCEPT !.denied = @ + 1]
                          ELSE [counted EXCEPT !.accepted = @ + 1]
          BY <1>3, <3>3 DEF DiSubmit
        <4>2. diIntake' = IF q + 1 > DiLimit
                          THEN [diIntake EXCEPT !.requests = q + 1, !.denied = d + 1]
                          ELSE [diIntake EXCEPT !.requests = q + 1, !.accepted = a + 1]
          BY <1>0, <4>1 DEF DiIntakeSet
        <4>3. CASE q + 1 > DiLimit
          BY <1>0, <4>2, <4>3 DEF DiIntakeSet
        <4>4. CASE q + 1 <= DiLimit
          BY <1>0, <4>2, <4>4, DsAssumption DEF DiIntakeSet
        <4> QED
          BY <1>0, <4>3, <4>4, DsAssumption
      <3> QED
        BY <3>1, <3>2, <3>3
    <2>2. q < DiMaxRequests
      BY <1>3 DEF DiSubmit
    <2> HIDE DEF q, a, d, p, st
    <2>3. CASE Becomes(q + 1, a, d + 1, p)
      <3>1. q + 1 \in 0 .. DiMaxRequests /\ d + 1 \in 0 .. DiMaxRequests /\ a + (d + 1) + p <= q + 1
        BY <1>0, <2>2, DsAssumption
      <3> QED
        BY <1>0, <2>3, <3>1, DiCounts
    <2>4. CASE Becomes(q + 1, a, d, p + 1)
      <3>1. q + 1 \in 0 .. DiMaxRequests /\ p + 1 \in 0 .. DiMaxRequests /\ a + d + (p + 1) <= q + 1
        BY <1>0, <2>2, DsAssumption
      <3> QED
        BY <1>0, <2>4, <3>1, DiCounts
    <2>5. CASE q + 1 <= DiLimit /\ Becomes(q + 1, a + 1, d, p)
      <3>1. q + 1 \in 0 .. DiMaxRequests /\ a + 1 \in 0 .. DiLimit /\ (a + 1) + d + p <= q + 1
        BY <1>0, <2>2, <2>5, DsAssumption
      <3> QED
        BY <1>0, <2>5, <3>1, DiCounts
    <2> QED
      BY <2>1, <2>3, <2>4, <2>5
  <1>4. CASE UNCHANGED diVars
    BY <1>4 DEF diVars, DiInv
  <1> QED
    BY <1>1, <1>2, <1>3, <1>4 DEF DiNext

LEMMA DsAlways == DsSpec => [](DsInv /\ DiInv)
  <1>1. DsInit /\ DiInit => DsInv /\ DiInv
    BY DsInitInv, DiInitInv
  <1>2. DsInv /\ DiInv
        /\ [(DsNext /\ UNCHANGED diVars) \/ (DiNext /\ UNCHANGED dsVars)]_<<dsVars, diVars>>
        => DsInv' /\ DiInv'
    BY DsStepInv, DiStepInv
  <1> QED
    BY <1>1, <1>2, PTL DEF DsSpec

\* The records of disclosure and of the public intake keep their types, and the
\* intake's decisions are no more than its requests.
THEOREM DsTypeCorrect == DsSpec => []DsTypeOK
  <1>1. DsInv /\ DiInv => DsTypeOK
    <2> SUFFICES ASSUME DsInv, DiInv PROVE DsTypeOK
      OBVIOUS
    <2>1. \A i \in DOMAIN dsPublications : dsPublications[i] \in DsPublication
      BY DEF DsInv
    <2> QED
      BY <2>1 DEF DsInv, DiInv, DsTypeOK, DsPublication, DsStates
  <1> QED
    BY <1>1, DsAlways, PTL

\* For any Source Spaces and any history of edits, effects, Evidence, Intents,
\* Pull Requests, sealed verifications, publications and clones: what the public
\* can ask for is the same as if the private part of the record did not exist,
\* and nothing private was put into the open
\* (createPublicProjection, the summaries, runSealedVerifier, materialize).
THEOREM DsPublicIsPublicCorrect == DsSpec => []DsPublicIsPublic
  <1>1. DsInv => DsPublicIsPublic
    BY DsSameView DEF DsInv, DsSealedSound, DsPublicIsPublic
  <1> QED
    BY <1>1, DsAlways, PTL

-----------------------------------------------------------------------------
(* Realms hosted together *)

SaWrites(records, k) == {x \in records : x.key = k /\ x.write}

\* A store by itself: numbers tell messages and events apart, every change left
\* its message and its event, and a project that was changed has been so by
\* events with numbers at least as high as its revision.
SaSound(st, silent) ==
  /\ st \in SaStore
  /\ IsFiniteSet(st.queue) /\ IsFiniteSet(st.events)
  /\ \A x, y \in st.queue \cup st.events : x.id = y.id => x = y
  /\ st.queue \cap st.events = {}
  /\ \A k \in SaKeys :
       /\ st.cache[k] = st.projects[k] /\ st.exports[k] <= st.projects[k]
       /\ k \notin silent => /\ Cardinality(SaWrites(st.queue, k)) = st.projects[k]
                             /\ Cardinality(SaWrites(st.events, k)) = st.projects[k]
       /\ st.projects[k] <= 1 \/ \E x \in st.queue \cup st.events : st.projects[k] <= x.id

\* The inductive invariant of the store that Realms share.
SaInv ==
  /\ SaTypeOK
  /\ SaSound(saStore, saSilent)
  /\ \A s \in saSnapshot : SaSound(s, saSilent)
  /\ \A x \in saStore.queue \cup saStore.events : x.id <= saSequence

LEMMA SaFields ==
  ASSUME NEW st \in SaStore
  PROVE  /\ st.realms \in Seq(SaRealm)
         /\ st.projects \in [SaKeys -> 0 .. SaMaxSequence]
         /\ st.cache \in [SaKeys -> 0 .. SaMaxSequence]
         /\ st.exports \in [SaKeys -> 0 .. SaMaxSequence]
         /\ st.queue \in SUBSET SaRecord /\ st.events \in SUBSET SaRecord
  BY DEF SaStore, SaRevision

\* One record more is one more among the writes of its key, if it is a write.
LEMMA SaWritesMore ==
  ASSUME NEW R, IsFiniteSet(R), NEW x, x \notin R, x.write = TRUE
  PROVE  Cardinality(SaWrites(R \cup {x}, x.key)) = Cardinality(SaWrites(R, x.key)) + 1
  <1>1. SaWrites(R, x.key) \subseteq R /\ x \notin SaWrites(R, x.key)
    BY DEF SaWrites
  <1>2. IsFiniteSet(SaWrites(R, x.key))
    BY <1>1, FS_Subset
  <1>3. SaWrites(R \cup {x}, x.key) = SaWrites(R, x.key) \cup {x}
    BY DEF SaWrites
  <1> QED
    BY <1>1, <1>2, <1>3, FS_AddElement

LEMMA SaSilentMore ==
  ASSUME NEW st, NEW silent, NEW more, silent \subseteq more, SaSound(st, silent)
  PROVE  SaSound(st, more)
  BY DEF SaSound

\* What a call leaves: its message and its event.
SaNote(i, key, write) == [id |-> saSequence + i, key |-> key, write |-> write]

\* Only an export of key may change, to the revision the Project has.
SaExported(E, P, key) ==
  \A k \in SaKeys : E[k] = saStore.exports[k] \/ (k = key /\ E[k] = P[k])

\* A message and an event of a call, and what the call did to a project.
LEMMA SaCallSound ==
  ASSUME SaInv, saSequence + 2 <= SaMaxSequence, NEW key \in SaKeys, NEW write \in BOOLEAN,
         NEW P \in [SaKeys -> Nat], NEW C \in [SaKeys -> Nat], NEW E \in [SaKeys -> 0 .. SaMaxSequence],
         P[key] = saStore.projects[key] + (IF write THEN 1 ELSE 0),
         \A k \in SaKeys \ {key} : P[k] = saStore.projects[k],
         \A k \in SaKeys : C[k] = P[k],
         SaExported(E, P, key),
         NEW Q, NEW V, Q = saStore.queue \cup {SaNote(1, key, write)},
         V = saStore.events \cup {SaNote(2, key, write)},
         saStore' = [saStore EXCEPT !.projects = P, !.cache = C, !.exports = E, !.queue = Q, !.events = V]
  PROVE  /\ SaSound(saStore', saSilent)
         /\ \A x \in saStore'.queue \cup saStore'.events : x.id <= saSequence + 2
  <1> DEFINE a == SaNote(1, key, write)
             b == SaNote(2, key, write)
             n1 == saSequence + 1
             n2 == saSequence + 2
  <1>1. SaSound(saStore, saSilent) /\ saStore \in SaStore /\ saSequence \in Nat
    BY SaAssumption DEF SaInv, SaTypeOK, SaSound
  <1>2. n1 \in 1 .. SaMaxSequence /\ n2 \in 1 .. SaMaxSequence /\ n1 \in Nat /\ n2 \in Nat /\ n1 # n2
    BY <1>1, SaAssumption
  <1>3. /\ a = [id |-> n1, key |-> key, write |-> write] /\ b = [id |-> n2, key |-> key, write |-> write]
        /\ \A x \in saStore.queue \cup saStore.events : x.id < n1 /\ x.id < n2
        /\ \A x \in saStore.queue \cup saStore.events : x \in SaRecord /\ x.id \in Nat
    <2>1. \A x \in saStore.queue \cup saStore.events : x \in SaRecord
      BY <1>1, SaFields
    <2>2. \A x \in SaRecord : x.id \in 1 .. SaMaxSequence
      BY DEF SaRecord
    <2>3. \A x \in saStore.queue \cup saStore.events : x.id \in Nat /\ x.id <= saSequence
      BY <2>1, <2>2 DEF SaInv
    <2> QED
      BY <1>1, <2>1, <2>3 DEF SaNote
  <1>4. n2 = n1 + 1
    BY <1>1
  <1> HIDE DEF n1, n2
  <1>5. a \in SaRecord /\ b \in SaRecord /\ a.id = n1 /\ b.id = n2 /\ a.key = key /\ b.key = key
        /\ a.write = write /\ b.write = write
    BY <1>2, <1>3 DEF SaRecord
  <1>6. Q = saStore.queue \cup {a} /\ V = saStore.events \cup {b}
    OBVIOUS
  <1> HIDE DEF a, b
  <1>7. a \notin saStore.queue \cup saStore.events /\ b \notin saStore.queue \cup saStore.events /\ a # b
    BY <1>2, <1>3, <1>5
  <1>8. \A k \in SaKeys : saStore.projects[k] \in 0 .. SaMaxSequence
                          /\ saStore.cache[k] = saStore.projects[k]
                          /\ saStore.exports[k] <= saStore.projects[k]
    BY <1>1, SaFields DEF SaSound
  <1>9. saStore.projects[key] < n2
    <2>1. saStore.projects[key] <= 1
          \/ \E x \in saStore.queue \cup saStore.events : saStore.projects[key] <= x.id
      BY <1>1 DEF SaSound
    <2>2. n2 >= 2
      BY <1>1 DEF n2
    <2>3. saStore.projects[key] \in Nat
      BY <1>8
    <2> QED
      BY <1>2, <1>3, <2>1, <2>2, <2>3
  <1>10. P \in [SaKeys -> 0 .. SaMaxSequence]
         /\ P[key] = (IF write THEN saStore.projects[key] + 1 ELSE saStore.projects[key])
         /\ \A k \in SaKeys : k # key => P[k] = saStore.projects[k]
    <2>1. \A k \in SaKeys : saStore.projects[k] \in 0 .. SaMaxSequence
      BY <1>8
    <2>2. P[key] = (IF write THEN saStore.projects[key] + 1 ELSE saStore.projects[key])
          /\ P[key] \in 0 .. SaMaxSequence
      <3>1. saStore.projects[key] \in 0 .. SaMaxSequence /\ saStore.projects[key] + 1 \in 0 .. SaMaxSequence
        BY <1>2, <1>8, <1>9, SaAssumption
      <3> QED
        BY <3>1
    <2> QED
      BY <2>1, <2>2
  <1>11. C \in [SaKeys -> 0 .. SaMaxSequence] /\ \A k \in SaKeys : C[k] = P[k]
    BY <1>10
  <1>12. \A k \in SaKeys : E[k] <= P[k]
    <2>1. \A k \in SaKeys : saStore.projects[k] <= P[k] /\ P[k] \in Nat /\ saStore.exports[k] \in Nat
      <3>1. saStore.exports \in [SaKeys -> 0 .. SaMaxSequence]
        BY <1>1, SaFields
      <3>2. saStore.projects[key] <= P[key]
        BY <1>8, <1>10
      <3> QED
        BY <1>8, <1>10, <3>1, <3>2
    <2> QED
      BY <1>8, <2>1 DEF SaExported
  <1>13. Q \in SUBSET SaRecord /\ V \in SUBSET SaRecord
    BY <1>1, <1>5, <1>6, SaFields
  <1>14. /\ saStore' \in SaStore /\ saStore'.projects = P /\ saStore'.cache = C /\ saStore'.exports = E
         /\ saStore'.queue = Q /\ saStore'.events = V
    BY <1>1, <1>10, <1>11, <1>13 DEF SaStore, SaRevision
  <1>15. IsFiniteSet(Q) /\ IsFiniteSet(V)
    <2>1. IsFiniteSet(saStore.queue) /\ IsFiniteSet(saStore.events)
      BY <1>1 DEF SaSound
    <2>2. IsFiniteSet(saStore.queue \cup {a}) /\ IsFiniteSet(saStore.events \cup {b})
      BY <2>1, FS_AddElement
    <2> QED
      BY <1>6, <2>2
  <1>16. /\ \A x, y \in Q \cup V : x.id = y.id => x = y
         /\ Q \cap V = {}
         /\ \A x \in Q \cup V : x.id <= n2
    BY <1>1, <1>2, <1>3, <1>4, <1>5, <1>6, <1>7 DEF SaSound
  <1>17. ASSUME NEW k \in SaKeys, k \notin saSilent
         PROVE  Cardinality(SaWrites(Q, k)) = P[k] /\ Cardinality(SaWrites(V, k)) = P[k]
    <2>1. /\ Cardinality(SaWrites(saStore.queue, k)) = saStore.projects[k]
          /\ Cardinality(SaWrites(saStore.events, k)) = saStore.projects[k]
      BY <1>1, <1>17 DEF SaSound
    <2>2. IsFiniteSet(saStore.queue) /\ IsFiniteSet(saStore.events)
      BY <1>1 DEF SaSound
    <2>3. CASE k = key /\ write = TRUE
      <3>1. Cardinality(SaWrites(Q, k)) = Cardinality(SaWrites(saStore.queue, k)) + 1
        <4>1. a.write = TRUE /\ a.key = k /\ a \notin saStore.queue /\ Q = saStore.queue \cup {a}
          BY <1>5, <1>6, <1>7, <2>3
        <4>2. Cardinality(SaWrites(saStore.queue \cup {a}, a.key)) =
                Cardinality(SaWrites(saStore.queue, a.key)) + 1
          BY <2>2, <4>1, SaWritesMore
        <4> QED
          BY <4>1, <4>2
      <3>2. Cardinality(SaWrites(V, k)) = Cardinality(SaWrites(saStore.events, k)) + 1
        <4>1. b.write = TRUE /\ b.key = k /\ b \notin saStore.events /\ V = saStore.events \cup {b}
          BY <1>5, <1>6, <1>7, <2>3
        <4>2. Cardinality(SaWrites(saStore.events \cup {b}, b.key)) =
                Cardinality(SaWrites(saStore.events, b.key)) + 1
          BY <2>2, <4>1, SaWritesMore
        <4> QED
          BY <4>1, <4>2
      <3> QED
        BY <1>10, <2>1, <2>3, <3>1, <3>2
    <2>4. CASE k # key \/ write = FALSE
      <3>1. SaWrites(Q, k) = SaWrites(saStore.queue, k)
        <4>1. (a.write = FALSE \/ a.key # k) /\ Q = saStore.queue \cup {a}
          BY <1>5, <1>6, <2>4
        <4> QED
          BY <4>1 DEF SaWrites
      <3>2. SaWrites(V, k) = SaWrites(saStore.events, k)
        <4>1. (b.write = FALSE \/ b.key # k) /\ V = saStore.events \cup {b}
          BY <1>5, <1>6, <2>4
        <4> QED
          BY <4>1 DEF SaWrites
      <3> QED
        BY <1>10, <2>1, <2>4, <3>1, <3>2
    <2> QED
      BY <2>3, <2>4
  <1>18. ASSUME NEW k \in SaKeys
         PROVE  P[k] <= 1 \/ \E x \in Q \cup V : P[k] <= x.id
    <2>1. CASE k = key
      <3>1. b \in V /\ P[k] <= b.id
        BY <1>2, <1>5, <1>6, <1>8, <1>9, <1>10, <2>1
      <3> QED
        BY <3>1
    <2>2. CASE k # key
      BY <1>1, <1>6, <1>10, <2>2 DEF SaSound
    <2> QED
      BY <2>1, <2>2
  <1> QED
    BY <1>11, <1>12, <1>14, <1>15, <1>16, <1>17, <1>18 DEF SaSound, n2

\* A step after which the store is sound under a count that covers its numbers.
LEMMA SaMoves ==
  ASSUME SaInv, saSilent \subseteq saSilent', SaSound(saStore', saSilent'),
         \A x \in saStore'.queue \cup saStore'.events : x.id <= saSequence',
         saSequence' \in 0 .. SaMaxSequence, saSilent' \subseteq SaKeys, saTokens' \subseteq SaRealms,
         saRequest' \in [SaRequests -> {"none"} \cup SaRealms], UNCHANGED saSnapshot
  PROVE  SaInv'
  <1>1. SaTypeOK'
    BY DEF SaInv, SaTypeOK, SaSound
  <1>2. \A s \in saSnapshot' : SaSound(s, saSilent')
    BY SaSilentMore DEF SaInv
  <1>3. SaSound(saStore, saSilent)'
    BY DEF SaSound, SaWrites
  <1>4. \A s \in saSnapshot' : SaSound(s, saSilent)'
    BY <1>2 DEF SaSound, SaWrites
  <1> QED
    BY <1>1, <1>3, <1>4 DEF SaInv

LEMMA SaTypes ==
  ASSUME SaInv
  PROVE  /\ saStore \in SaStore /\ SaSound(saStore, saSilent)
         /\ saSequence \in 0 .. SaMaxSequence /\ saSilent \subseteq SaKeys
         /\ saTokens \subseteq SaRealms /\ saRequest \in [SaRequests -> {"none"} \cup SaRealms]
         /\ \A x \in saStore.queue \cup saStore.events : x.id <= saSequence
  BY DEF SaInv, SaTypeOK

LEMMA SaAnsweredType ==
  ASSUME SaInv, NEW q \in SaRequests, SaAnswered(q)
  PROVE  saRequest' \in [SaRequests -> {"none"} \cup SaRealms]
  BY SaTypes DEF SaAnswered

LEMMA SaEmptySound == \A silent : SaSound(SaEmpty, silent)
  <1> SUFFICES ASSUME NEW silent PROVE SaSound(SaEmpty, silent)
    OBVIOUS
  <1>1. 0 \in 0 .. SaMaxSequence /\ <<>> \in Seq(SaRealm)
    BY SaAssumption
  <1>2. SaEmpty \in SaStore
    BY <1>1 DEF SaEmpty, SaStore, SaRevision
  <1>3. /\ SaEmpty.queue = {} /\ SaEmpty.events = {}
        /\ \A k \in SaKeys : SaEmpty.projects[k] = 0 /\ SaEmpty.cache[k] = 0 /\ SaEmpty.exports[k] = 0
    BY DEF SaEmpty
  <1>4. \A k \in SaKeys : SaWrites({}, k) = {}
    BY DEF SaWrites
  <1> QED
    BY <1>2, <1>3, <1>4, FS_EmptySet DEF SaSound

LEMMA SaInitInv == SaInit => SaInv
  <1> SUFFICES ASSUME SaInit PROVE SaInv
    OBVIOUS
  <1>1. SaEmpty.queue = {} /\ SaEmpty.events = {}
    BY DEF SaEmpty
  <1>2. SaSound(saStore, saSilent)
    BY SaEmptySound DEF SaInit
  <1>3. SaTypeOK
    BY <1>2, SaAssumption DEF SaInit, SaTypeOK, SaSound
  <1> QED
    BY <1>1, <1>2, <1>3 DEF SaInit, SaInv

LEMMA SaRegisterInv ==
  ASSUME SaInv, NEW r \in SaRealms, NEW h \in SaHosts, SaRegisterRealm(r, h)
  PROVE  SaInv'
  <1> DEFINE R == Append(saStore.realms, [realm |-> r, host |-> h])
  <1>1. R \in Seq(SaRealm)
    <2>1. saStore.realms \in Seq(SaRealm) /\ [realm |-> r, host |-> h] \in SaRealm
      BY SaTypes, SaFields DEF SaRealm
    <2> QED
      BY <2>1
  <1>2. saStore' = [saStore EXCEPT !.realms = R]
        /\ UNCHANGED <<saTokens, saSequence, saSnapshot, saRequest, saSilent>>
    BY DEF SaRegisterRealm
  <1> HIDE DEF R
  <1>3. /\ saStore' \in SaStore /\ saStore'.projects = saStore.projects
        /\ saStore'.cache = saStore.cache /\ saStore'.exports = saStore.exports
        /\ saStore'.queue = saStore.queue /\ saStore'.events = saStore.events
    BY <1>1, <1>2, SaTypes DEF SaStore
  <1>4. SaSound(saStore', saSilent')
    BY <1>2, <1>3, SaTypes DEF SaSound
  <1> QED
    BY <1>2, <1>3, <1>4, SaTypes, SaMoves

\* Steps that leave the store, the count and the snapshots alone.
LEMMA SaBeside ==
  ASSUME SaInv, UNCHANGED <<saStore, saSequence, saSnapshot, saSilent>>,
         saTokens' \subseteq SaRealms, saRequest' \in [SaRequests -> {"none"} \cup SaRealms]
  PROVE  SaInv'
  BY SaTypes, SaMoves

LEMMA SaRouteType ==
  ASSUME SaInv, NEW h, SaRoute(h) # "none"
  PROVE  SaRoute(h) \in SaRealms
  <1> DEFINE at == {i \in 1 .. Len(saStore.realms) : saStore.realms[i].host = h}
             First == CHOOSE i \in at : \A j \in at : i <= j
  <1>1. saStore.realms \in Seq(SaRealm)
    BY SaTypes, SaFields
  <1>2. at # {} /\ SaRoute(h) = saStore.realms[First].realm
    BY DEF SaRoute
  <1>3. at \in SUBSET Nat
    BY <1>1
  <1>4. \E i \in at : \A j \in at : i <= j
    BY <1>2, <1>3, FirstPosition
  <1>5. First \in at
    BY <1>4
  <1> HIDE DEF First
  <1>6. First \in 1 .. Len(saStore.realms)
    BY <1>5
  <1>7. saStore.realms[First] \in SaRealm
    BY <1>1, <1>6
  <1> QED
    BY <1>2, <1>7 DEF SaRealm

LEMMA SaKeyOf ==
  ASSUME SaInv, NEW q \in SaRequests, saRequest[q] # "none", NEW p \in SaProjects
  PROVE  <<saRequest[q], p>> \in SaKeys
  BY SaTypes DEF SaKeys

LEMMA SaCreateInv ==
  ASSUME SaInv, NEW q \in SaRequests, NEW p \in SaProjects, NEW correlated \in BOOLEAN,
         SaCreateProject(q, p, correlated)
  PROVE  SaInv'
  <1> DEFINE key == <<saRequest[q], p>>
             stored == [saStore EXCEPT !.projects[key] = 1, !.cache[key] = 1]
             P == [saStore.projects EXCEPT ![key] = 1]
             C == [saStore.cache EXCEPT ![key] = 1]
             E == saStore.exports
             Q == saStore.queue \cup {SaNote(1, key, TRUE)}
             V == saStore.events \cup {SaNote(2, key, TRUE)}
  <1>1. key \in SaKeys
    BY SaKeyOf DEF SaCreateProject
  <1>2. saRequest' \in [SaRequests -> {"none"} \cup SaRealms] /\ UNCHANGED <<saTokens, saSnapshot>>
    BY SaAnsweredType DEF SaCreateProject
  <1>3. stored = [saStore EXCEPT !.projects = P, !.cache = C]
    BY SaTypes DEF SaStore
  <1>4. /\ saStore.projects \in [SaKeys -> 0 .. SaMaxSequence]
        /\ saStore.cache \in [SaKeys -> 0 .. SaMaxSequence]
        /\ saStore.exports \in [SaKeys -> 0 .. SaMaxSequence]
    BY SaTypes, SaFields
  <1>5. CASE ~ SaHas(saRequest[q]) \/ saStore.projects[key] # 0
    <2>1. UNCHANGED <<saStore, saSequence, saSilent>>
      BY <1>5 DEF SaCreateProject
    <2> QED
      BY <1>2, <2>1, SaTypes, SaBeside
  <1>6. CASE saStore.projects[key] = 0 /\ SaHas(saRequest[q]) /\ correlated
    <2>1. saStore' = SaObserved(stored, key, TRUE) /\ SaObserve /\ UNCHANGED saSilent
      BY <1>6 DEF SaCreateProject
    <2>2. saSequence + 2 <= SaMaxSequence /\ saSequence' = saSequence + 2
      BY <2>1 DEF SaObserve
    <2>3. P \in [SaKeys -> Nat] /\ P[key] = saStore.projects[key] + 1
          /\ \A k \in SaKeys \ {key} : P[k] = saStore.projects[k]
      BY <1>1, <1>4, <1>6
    <2>4. C \in [SaKeys -> Nat] /\ \A k \in SaKeys : C[k] = P[k]
      BY <1>1, <1>4, SaTypes DEF SaSound
    <2>5. saStore' = [saStore EXCEPT !.projects = P, !.cache = C, !.exports = E, !.queue = Q, !.events = V]
      <3> HIDE DEF P, C, key
      <3> QED
        BY <1>3, <2>1, SaTypes DEF SaObserved, SaStore, SaNote
    <2>a. /\ Q = saStore.queue \cup {SaNote(1, key, TRUE)}
          /\ V = saStore.events \cup {SaNote(2, key, TRUE)} /\ TRUE \in BOOLEAN
      OBVIOUS
    <2>b. E \in [SaKeys -> 0 .. SaMaxSequence] /\ SaExported(E, P, key)
      BY <1>4 DEF SaExported
    <2> HIDE DEF P, C, E, Q, V, key
    <2>6. /\ SaSound(saStore', saSilent)
          /\ \A x \in saStore'.queue \cup saStore'.events : x.id <= saSequence + 2
      BY <1>1, <2>2, <2>3, <2>4, <2>5, <2>a, <2>b, SaCallSound
    <2>7. saSequence' \in 0 .. SaMaxSequence
      BY <2>2, SaTypes, SaAssumption
    <2> QED
      BY <1>2, <2>1, <2>2, <2>6, <2>7, SaTypes, SaMoves
  <1>7. CASE saStore.projects[key] = 0 /\ SaHas(saRequest[q]) /\ ~ correlated
    <2>1. saStore' = stored /\ saSilent' = saSilent \cup {key} /\ UNCHANGED saSequence
      BY <1>7 DEF SaCreateProject
    <2>2. 1 \in 0 .. SaMaxSequence
      BY SaAssumption
    <2>3. P \in [SaKeys -> 0 .. SaMaxSequence] /\ C \in [SaKeys -> 0 .. SaMaxSequence]
      BY <1>4, <2>2
    <2>4. P[key] = 1 /\ C[key] = 1 /\ \A k \in SaKeys : k # key =>
            P[k] = saStore.projects[k] /\ C[k] = saStore.cache[k]
      BY <1>1, <1>4
    <2> HIDE DEF P, C, key
    <2>5. saStore' \in SaStore /\ saStore'.projects = P /\ saStore'.cache = C
          /\ saStore'.exports = saStore.exports /\ saStore'.queue = saStore.queue
          /\ saStore'.events = saStore.events
      BY <1>3, <2>1, <2>3, SaTypes DEF SaStore, SaRevision
    <2>6. SaSound(saStore, saSilent)
      BY SaTypes
    <2>7. saStore.exports[key] <= 1
      BY <1>1, <1>4, <1>7, <2>6 DEF SaSound
    <2>8. ASSUME NEW k \in SaKeys
          PROVE  /\ C[k] = P[k] /\ saStore.exports[k] <= P[k]
                 /\ P[k] <= 1 \/ \E x \in saStore.queue \cup saStore.events : P[k] <= x.id
                 /\ k \notin saSilent \cup {key} =>
                      /\ Cardinality(SaWrites(saStore.queue, k)) = P[k]
                      /\ Cardinality(SaWrites(saStore.events, k)) = P[k]
      <3>1. CASE k = key
        BY <2>4, <2>7, <3>1
      <3>2. CASE k # key
        BY <2>4, <2>6, <3>2 DEF SaSound
      <3> QED
        BY <3>1, <3>2
    <2>9. SaSound(saStore', saSilent')
      BY <2>1, <2>5, <2>6, <2>8 DEF SaSound
    <2>10. /\ saSilent' \subseteq SaKeys /\ saSilent \subseteq saSilent'
           /\ \A x \in saStore'.queue \cup saStore'.events : x.id <= saSequence'
           /\ saSequence' \in 0 .. SaMaxSequence /\ saTokens' \subseteq SaRealms
      BY <1>1, <1>2, <2>1, <2>5, SaTypes
    <2> QED
      BY <1>2, <2>9, <2>10, SaMoves
  <1> QED
    BY <1>5, <1>6, <1>7

LEMMA SaReadInv ==
  ASSUME SaInv, NEW q \in SaRequests, NEW p \in SaProjects, NEW export \in BOOLEAN,
         SaReadProject(q, p, export)
  PROVE  SaInv'
  <1> DEFINE key == <<saRequest[q], p>>
             seen == SaObserved(saStore, key, FALSE)
             P == saStore.projects
             C == saStore.cache
             E == IF export /\ saStore.projects[key] # 0
                  THEN [saStore.exports EXCEPT ![key] = saStore.projects[key]] ELSE saStore.exports
             Q == saStore.queue \cup {SaNote(1, key, FALSE)}
             V == saStore.events \cup {SaNote(2, key, FALSE)}
  <1>1. key \in SaKeys
    BY SaKeyOf DEF SaReadProject
  <1>2. saRequest' \in [SaRequests -> {"none"} \cup SaRealms] /\ UNCHANGED <<saTokens, saSnapshot, saSilent>>
    BY SaAnsweredType DEF SaReadProject
  <1>3. /\ saStore.projects \in [SaKeys -> 0 .. SaMaxSequence]
        /\ saStore.cache \in [SaKeys -> 0 .. SaMaxSequence]
        /\ saStore.exports \in [SaKeys -> 0 .. SaMaxSequence]
        /\ saStore.cache[key] = saStore.projects[key]
    BY <1>1, SaTypes, SaFields DEF SaSound
  <1>4. saSequence + 2 <= SaMaxSequence /\ saSequence' = saSequence + 2
    BY DEF SaReadProject, SaObserve
  <1>5. /\ P \in [SaKeys -> Nat] /\ \A k \in SaKeys \ {key} : P[k] = saStore.projects[k]
        /\ C \in [SaKeys -> Nat] /\ \A k \in SaKeys : C[k] = P[k]
    BY <1>1, <1>3, SaTypes DEF SaSound
  <1>6. /\ E \in [SaKeys -> 0 .. SaMaxSequence]
        /\ \A k \in SaKeys : E[k] = saStore.exports[k] \/ (k = key /\ E[k] = P[k])
    BY <1>1, <1>3
  <1>7. saStore' = IF export /\ saStore.projects[key] # 0
                   THEN [seen EXCEPT !.exports[key] = saStore.projects[key]] ELSE seen
    BY DEF SaReadProject
  <1>8. saStore' = [saStore EXCEPT !.projects = P, !.cache = C, !.exports = E, !.queue = Q, !.events = V]
    <2> HIDE DEF key
    <2>1. CASE export /\ saStore.projects[key] # 0
      BY <1>7, <2>1, SaTypes DEF SaObserved, SaStore, SaNote
    <2>2. CASE ~ (export /\ saStore.projects[key] # 0)
      BY <1>7, <2>2, SaTypes DEF SaObserved, SaStore, SaNote
    <2> QED
      BY <2>1, <2>2
  <1>w. PICK write \in BOOLEAN : write = FALSE
    OBVIOUS
  <1>a. /\ Q = saStore.queue \cup {SaNote(1, key, write)}
        /\ V = saStore.events \cup {SaNote(2, key, write)}
    BY <1>w
  <1>b. P[key] = saStore.projects[key] + (IF write THEN 1 ELSE 0)
    <2>1. saStore.projects[key] \in Int
      BY <1>1, <1>3
    <2> QED
      BY <1>w, <2>1
  <1> HIDE DEF P, C, E, Q, V, key, seen
  <1>9. /\ SaSound(saStore', saSilent)
        /\ \A x \in saStore'.queue \cup saStore'.events : x.id <= saSequence + 2
    <2>1. saSequence + 2 <= SaMaxSequence
      BY <1>4
    <2>2. P \in [SaKeys -> Nat] /\ C \in [SaKeys -> Nat] /\ E \in [SaKeys -> 0 .. SaMaxSequence]
      BY <1>5, <1>6
    <2>3. \A k \in SaKeys \ {key} : P[k] = saStore.projects[k]
      BY <1>5
    <2>4. \A k \in SaKeys : C[k] = P[k]
      BY <1>5
    <2>5. SaExported(E, P, key)
      BY <1>6 DEF SaExported
    <2> QED
      BY <1>1, <1>8, <1>a, <1>b, <2>1, <2>2, <2>3, <2>4, <2>5, SaCallSound
  <1>10. saSequence' \in 0 .. SaMaxSequence
    BY <1>4, SaTypes, SaAssumption
  <1> QED
    BY <1>2, <1>4, <1>9, <1>10, SaTypes, SaMoves

LEMMA SaMutateInv ==
  ASSUME SaInv, NEW q \in SaRequests, NEW p \in SaProjects, SaMutateProject(q, p)
  PROVE  SaInv'
  <1> DEFINE key == <<saRequest[q], p>>
             next == saStore.projects[key] + 1
             write == next > 1
             seen == SaObserved(saStore, key, write)
             P == IF write THEN [saStore.projects EXCEPT ![key] = next] ELSE saStore.projects
             C == IF write THEN [saStore.cache EXCEPT ![key] = next] ELSE saStore.cache
             E == saStore.exports
             Q == saStore.queue \cup {SaNote(1, key, write)}
             V == saStore.events \cup {SaNote(2, key, write)}
  <1>1. key \in SaKeys
    BY SaKeyOf DEF SaMutateProject
  <1>2. saRequest' \in [SaRequests -> {"none"} \cup SaRealms] /\ UNCHANGED <<saTokens, saSnapshot, saSilent>>
    BY SaAnsweredType DEF SaMutateProject
  <1>3. /\ saStore.projects \in [SaKeys -> 0 .. SaMaxSequence]
        /\ saStore.cache \in [SaKeys -> 0 .. SaMaxSequence]
        /\ saStore.exports \in [SaKeys -> 0 .. SaMaxSequence]
        /\ saStore.cache[key] = saStore.projects[key]
    BY <1>1, SaTypes, SaFields DEF SaSound
  <1>4. saSequence + 2 <= SaMaxSequence /\ saSequence' = saSequence + 2
    BY DEF SaMutateProject, SaObserve
  <1>5. saStore' = IF next = 1 THEN seen ELSE [seen EXCEPT !.projects[key] = next, !.cache[key] = next]
    BY DEF SaMutateProject
  <1>6. write \in BOOLEAN /\ (next = 1 <=> ~ write)
    BY <1>1, <1>3
  <1>7. /\ P \in [SaKeys -> Nat] /\ P[key] = saStore.projects[key] + (IF write THEN 1 ELSE 0)
        /\ \A k \in SaKeys \ {key} : P[k] = saStore.projects[k]
        /\ C \in [SaKeys -> Nat] /\ \A k \in SaKeys : C[k] = P[k]
    BY <1>1, <1>3, SaTypes DEF SaSound
  <1>8. saStore' = [saStore EXCEPT !.projects = P, !.cache = C, !.exports = E, !.queue = Q, !.events = V]
    <2> HIDE DEF key, next, write
    <2>1. CASE write
      BY <1>5, <1>6, <2>1, SaTypes DEF SaObserved, SaStore, SaNote
    <2>2. CASE ~ write
      BY <1>5, <1>6, <2>2, SaTypes DEF SaObserved, SaStore, SaNote
    <2> QED
      BY <2>1, <2>2
  <1>9. E \in [SaKeys -> 0 .. SaMaxSequence] /\ SaExported(E, P, key)
    BY <1>3 DEF SaExported
  <1>a. /\ Q = saStore.queue \cup {SaNote(1, key, write)}
        /\ V = saStore.events \cup {SaNote(2, key, write)}
    OBVIOUS
  <1> HIDE DEF P, C, E, Q, V, key, next, write
  <1>10. /\ SaSound(saStore', saSilent)
         /\ \A x \in saStore'.queue \cup saStore'.events : x.id <= saSequence + 2
    BY <1>1, <1>4, <1>6, <1>7, <1>8, <1>9, <1>a, SaCallSound
  <1>11. saSequence' \in 0 .. SaMaxSequence
    BY <1>4, SaTypes, SaAssumption
  <1> QED
    BY <1>2, <1>4, <1>10, <1>11, SaTypes, SaMoves

LEMMA SaSnapshotInv ==
  ASSUME SaInv, SaTakeSnapshot
  PROVE  SaInv'
  <1>1. saSnapshot' = {saStore} /\ UNCHANGED <<saStore, saTokens, saSequence, saRequest, saSilent>>
    BY DEF SaTakeSnapshot
  <1>2. SaTypeOK'
    BY <1>1 DEF SaInv, SaTypeOK
  <1>3. \A s \in saSnapshot' : SaSound(s, saSilent)'
    BY <1>1 DEF SaInv, SaSound, SaWrites
  <1>4. SaSound(saStore, saSilent)'
    BY <1>1 DEF SaInv, SaSound, SaWrites
  <1> QED
    BY <1>1, <1>2, <1>3, <1>4 DEF SaInv

LEMMA SaCleanupInv ==
  ASSUME SaInv, SaCleanup
  PROVE  SaInv'
  <1>1. saStore' = SaEmpty /\ saTokens' = {} /\ UNCHANGED <<saSequence, saSnapshot, saRequest, saSilent>>
    BY DEF SaCleanup
  <1>2. SaEmpty.queue = {} /\ SaEmpty.events = {}
    BY DEF SaEmpty
  <1> QED
    BY <1>1, <1>2, SaEmptySound, SaTypes, SaMoves

\* The highest of the numbers of finitely many records.
LEMMA SaHighest ==
  ASSUME NEW R \in SUBSET SaRecord, R # {}
  PROVE  \E n \in {x.id : x \in R} : \A m \in {x.id : x \in R} : m <= n
  <1> DEFINE N == {x.id : x \in R}
             D == {d \in Nat : SaMaxSequence - d \in N}
  <1>1. N \subseteq 1 .. SaMaxSequence /\ N # {}
    BY DEF SaRecord
  <1> HIDE DEF N
  <1>2. D \in SUBSET Nat /\ D # {}
    <2>1. PICK n \in N : TRUE
      BY <1>1
    <2>2. SaMaxSequence - n \in Nat /\ SaMaxSequence - (SaMaxSequence - n) = n
      BY <1>1, SaAssumption
    <2> QED
      BY <2>1, <2>2
  <1>3. PICK d \in D : \A e \in D : d <= e
    BY <1>2, FirstPosition
  <1>4. SaMaxSequence - d \in N /\ d \in Nat
    BY <1>3
  <1>5. ASSUME NEW m \in N PROVE m <= SaMaxSequence - d
    <2>1. m \in 1 .. SaMaxSequence
      BY <1>1
    <2>2. SaMaxSequence - m \in Nat /\ SaMaxSequence - (SaMaxSequence - m) = m
      BY <2>1, SaAssumption
    <2>3. SaMaxSequence - m \in D
      BY <2>2
    <2>4. d <= SaMaxSequence - m
      BY <1>3, <2>3
    <2> QED
      BY <1>4, <2>1, <2>4, SaAssumption
  <1> QED
    BY <1>4, <1>5 DEF N

LEMMA SaRestoreInv ==
  ASSUME SaInv, NEW s \in saSnapshot, SaRestore(s)
  PROVE  SaInv'
  <1> DEFINE R == s.queue \cup s.events
             numbers == {x.id : x \in R}
             top == IF numbers = {} THEN 0 ELSE CHOOSE n \in numbers : \A m \in numbers : m <= n
  <1>1. SaSound(s, saSilent) /\ s \in SaStore /\ R \in SUBSET SaRecord
    BY SaFields DEF SaInv, SaSound
  <1>2. saStore' = s /\ saTokens' = {} /\ saSequence' = top /\ UNCHANGED <<saSnapshot, saRequest, saSilent>>
    BY DEF SaRestore
  <1>3. top \in 0 .. SaMaxSequence /\ \A x \in R : x.id <= top
    <2>1. CASE R = {}
      BY <2>1, SaAssumption
    <2>2. CASE R # {}
      <3>1. numbers # {} /\ numbers \subseteq 1 .. SaMaxSequence
        BY <1>1, <2>2 DEF SaRecord
      <3>2. \E k \in numbers : \A m \in numbers : m <= k
        BY <1>1, <2>2, SaHighest
      <3>3. top \in numbers /\ \A m \in numbers : m <= top
        BY <3>1, <3>2
      <3>4. \A x \in R : x.id \in numbers
        OBVIOUS
      <3> HIDE DEF top, numbers, R
      <3>5. top \in 1 .. SaMaxSequence
        BY <3>1, <3>3
      <3>6. top \in 0 .. SaMaxSequence
        BY <3>5, SaAssumption
      <3>7. \A x \in R : x.id <= top
        BY <3>3, <3>4
      <3> QED
        BY <3>6, <3>7
    <2> QED
      BY <2>1, <2>2
  <1> HIDE DEF top
  <1> QED
    BY <1>1, <1>2, <1>3, SaTypes, SaMoves

LEMMA SaStepInv ==
  ASSUME SaInv, [SaNext]_saVars
  PROVE  SaInv'
  <1>1. ASSUME NEW site \in SaSites, SaRegisterRealm(site[1], site[2]) PROVE SaInv'
    <2>1. site[1] \in SaRealms /\ site[2] \in SaHosts
      BY SaAssumption
    <2> QED
      BY <1>1, <2>1, SaRegisterInv
  <1>2. ASSUME NEW r \in SaRealms, SaIssueCredential(r) \/ SaRevokeRealm(r) PROVE SaInv'
    BY <1>2, SaTypes, SaBeside DEF SaIssueCredential, SaRevokeRealm
  <1>3. ASSUME NEW q \in SaRequests, NEW h \in SaHosts, SaAuthenticate(q, h) PROVE SaInv'
    BY <1>3, SaTypes, SaRouteType, SaBeside DEF SaAuthenticate
  <1>4. ASSUME NEW q \in SaRequests, NEW p \in SaProjects, NEW correlated \in BOOLEAN,
               SaCreateProject(q, p, correlated)
        PROVE  SaInv'
    BY <1>4, SaCreateInv
  <1>5. ASSUME NEW q \in SaRequests, NEW p \in SaProjects, NEW export \in BOOLEAN,
               SaReadProject(q, p, export)
        PROVE  SaInv'
    BY <1>5, SaReadInv
  <1>6. ASSUME NEW q \in SaRequests, NEW p \in SaProjects, SaMutateProject(q, p) PROVE SaInv'
    BY <1>6, SaMutateInv
  <1>7. CASE SaTakeSnapshot
    BY <1>7, SaSnapshotInv
  <1>8. CASE SaCleanup
    BY <1>8, SaCleanupInv
  <1>9. ASSUME NEW s \in saSnapshot, SaRestore(s) PROVE SaInv'
    BY <1>9, SaRestoreInv
  <1>10. CASE UNCHANGED saVars
    BY <1>10, SaTypes, SaBeside DEF saVars
  <1> QED
    BY <1>1, <1>2, <1>3, <1>4, <1>5, <1>6, <1>7, <1>8, <1>9, <1>10 DEF SaNext

LEMMA SaAlways == SaSpec => []SaInv
  BY SaInitInv, SaStepInv, PTL DEF SaSpec

\* The maps and lists of the shared store keep their types.
THEOREM SaTypeCorrect == SaSpec => []SaTypeOK
  <1>1. SaInv => SaTypeOK
    BY DEF SaInv
  <1> QED
    BY <1>1, SaAlways, PTL

\* For any Realms, projects, requests and snapshots: no number is given out
\* twice, not even after a restore or a clean-up, the cache agrees with the
\* projects, and every revision has left its message and its event, except where
\* the call that created the project failed after it had stored it
\* (HostedSaaSIsolationStore.createProject, mutateProject, restore, nextId).
THEOREM SaStoreAgreesCorrect == SaSpec => []SaStoreAgrees
  <1>1. SaInv => SaStoreAgrees
    BY DEF SaInv, SaSound, SaWrites, SaStoreAgrees, SaNumbersAreFresh, SaChangesAreObserved
  <1> QED
    BY <1>1, SaAlways, PTL

-----------------------------------------------------------------------------
(* The public gateway *)

\* A denial that may be retried leaves the records no later than a terminal one.
GwRetriesLeaveFirst == GwRetention[TRUE] <= GwRetention[FALSE]

\* Entries that an order of the code's arrays can be read from.
GwOrdered(entries) == \A e \in entries : e.at \in 0 .. GwMaxTime /\ e.no \in 1 .. GwMaxSubmissions

LEMMA GwAreOrdered ==
  ASSUME GwTypeOK
  PROVE  GwOrdered(gwRecords) /\ GwOrdered(gwTombs)
  BY DEF GwTypeOK, GwOrdered, GwRecord, GwTomb

LEMMA GwOldestIs ==
  ASSUME NEW entries, GwOrdered(entries), NEW r, GwOf(entries, r) # {}
  PROVE  \E t \in GwOf(entries, r) : \A u \in GwOf(entries, r) : ~ GwBefore(u, t)
  <1> DEFINE mine == GwOf(entries, r)
             times == {e.at : e \in mine}
  <1>1. \A e \in mine : e.at \in Nat /\ e.no \in Nat
    BY GwAssumption DEF GwOf, GwOrdered
  <1>2. times \in SUBSET Nat /\ times # {}
    BY <1>1
  <1>3. PICK a \in times : \A b \in times : a <= b
    BY <1>2, FirstPosition
  <1> DEFINE places == {e.no : e \in {f \in mine : f.at = a}}
  <1>4. places \in SUBSET Nat /\ places # {}
    BY <1>1, <1>3
  <1>5. PICK n \in places : \A m \in places : n <= m
    BY <1>4, FirstPosition
  <1>6. PICK t \in mine : t.at = a /\ t.no = n
    BY <1>5
  <1>7. ASSUME NEW u \in mine PROVE ~ GwBefore(u, t)
    <2>1. a <= u.at /\ (u.at = a => n <= u.no)
      BY <1>3, <1>5, <1>7
    <2>2. a \in Nat /\ n \in Nat /\ u.at \in Nat /\ u.no \in Nat
      BY <1>1, <1>2, <1>4, <1>7
    <2> QED
      BY <1>6, <2>1, <2>2 DEF GwBefore
  <1> QED
    BY <1>6, <1>7

LEMMA GwNewestIs ==
  ASSUME NEW entries, GwOrdered(entries), NEW r, GwOf(entries, r) # {}
  PROVE  /\ GwNewest(entries, r) \in GwOf(entries, r)
         /\ \A f \in GwOf(entries, r) : ~ GwBefore(GwNewest(entries, r), f)
  <1> DEFINE mine == GwOf(entries, r)
             times == {GwMaxTime - e.at : e \in mine}
  <1>1. \A e \in mine : e.at \in 0 .. GwMaxTime /\ e.no \in 1 .. GwMaxSubmissions
    BY DEF GwOf, GwOrdered
  <1>2. times \in SUBSET Nat /\ times # {}
    BY <1>1, GwAssumption
  <1>3. PICK a \in times : \A b \in times : a <= b
    BY <1>2, FirstPosition
  <1> DEFINE places == {GwMaxSubmissions - e.no : e \in {f \in mine : GwMaxTime - f.at = a}}
  <1>4. places \in SUBSET Nat /\ places # {}
    BY <1>1, <1>3, GwAssumption
  <1>5. PICK n \in places : \A m \in places : n <= m
    BY <1>4, FirstPosition
  <1>6. PICK t \in mine : GwMaxTime - t.at = a /\ GwMaxSubmissions - t.no = n
    BY <1>5
  <1>7. ASSUME NEW u \in mine PROVE ~ GwBefore(t, u)
    <2>1. a <= GwMaxTime - u.at /\ (GwMaxTime - u.at = a => n <= GwMaxSubmissions - u.no)
      BY <1>3, <1>5, <1>7
    <2>2. u.at \in 0 .. GwMaxTime /\ u.no \in 1 .. GwMaxSubmissions
          /\ t.at \in 0 .. GwMaxTime /\ t.no \in 1 .. GwMaxSubmissions
      BY <1>1, <1>6, <1>7
    <2> QED
      BY <1>6, <2>1, <2>2, GwAssumption DEF GwBefore
  <1>8. GwNewest(entries, r) = CHOOSE e \in mine : \A f \in mine : ~ GwBefore(e, f)
    BY DEF GwNewest
  <1> QED
    BY <1>6, <1>7, <1>8

\* What a lookup finds.
LEMMA GwFound ==
  ASSUME GwTypeOK, NEW r \in GwRequests
  PROVE  /\ GwFindRecord(r) = GwNone <=> GwOf(gwRecords, r) = {}
         /\ GwFindRecord(r) # GwNone =>
              /\ GwFindRecord(r) \in GwOf(gwRecords, r) /\ GwFindRecord(r) \in GwRecord
              /\ \A f \in GwOf(gwRecords, r) : ~ GwBefore(GwFindRecord(r), f)
         /\ GwFindTomb(r) = GwNone <=> GwOf(gwTombs, r) = {} /\ gwArchive[r] = GwNone
         /\ GwFindTomb(r) # GwNone => GwFindTomb(r) \in GwTomb
  <1>1. GwOf(gwRecords, r) = {} => GwFindRecord(r) = GwNone
    BY DEF GwFindRecord, GwNewest
  <1>2. ASSUME GwOf(gwRecords, r) # {}
        PROVE  /\ GwFindRecord(r) \in GwOf(gwRecords, r) /\ GwFindRecord(r) \in GwRecord
               /\ GwFindRecord(r) # GwNone
               /\ \A f \in GwOf(gwRecords, r) : ~ GwBefore(GwFindRecord(r), f)
    <2>1. GwFindRecord(r) \in GwOf(gwRecords, r)
          /\ \A f \in GwOf(gwRecords, r) : ~ GwBefore(GwFindRecord(r), f)
      BY <1>2, GwAreOrdered, GwNewestIs DEF GwFindRecord
    <2>2. GwFindRecord(r) \in GwRecord
      BY <2>1 DEF GwOf, GwTypeOK
    <2> QED
      BY <2>1, <2>2, GwNoneAssumption
  <1>3. GwNewest(gwTombs, r) = GwNone <=> GwOf(gwTombs, r) = {}
    <2>1. GwOf(gwTombs, r) = {} => GwNewest(gwTombs, r) = GwNone
      BY DEF GwNewest
    <2>2. GwOf(gwTombs, r) # {} => GwNewest(gwTombs, r) \in GwTomb
      BY GwAreOrdered, GwNewestIs DEF GwOf, GwTypeOK
    <2> QED
      BY <2>1, <2>2, GwNoneAssumption
  <1>4. GwOf(gwTombs, r) # {} => GwNewest(gwTombs, r) \in GwTomb
    BY GwAreOrdered, GwNewestIs DEF GwOf, GwTypeOK
  <1>5. gwArchive[r] \in GwTomb \cup {GwNone}
    BY DEF GwTypeOK
  <1> QED
    BY <1>1, <1>2, <1>3, <1>4, <1>5 DEF GwFindTomb

-----------------------------------------------------------------------------
(* The types *)

LEMMA GwArchivedType ==
  ASSUME GwTypeOK, NEW T, T \subseteq GwTomb
  PROVE  GwArchived(T) \in [GwRequests -> GwTomb \cup {GwNone}]
  <1>1. GwOrdered(T)
    BY DEF GwOrdered, GwTomb
  <1>2. ASSUME NEW r \in GwRequests, GwOf(T, r) # {}
        PROVE  (CHOOSE t \in GwOf(T, r) : \A u \in GwOf(T, r) : ~ GwBefore(u, t)) \in GwTomb
    BY <1>1, <1>2, GwOldestIs DEF GwOf
  <1> QED
    BY <1>2 DEF GwArchived, GwTypeOK

LEMMA GwPromisesType ==
  ASSUME GwTypeOK, NEW T, T \subseteq GwTomb
  PROVE  GwPromises(T) \in [GwRequests -> 0 .. GwMaxTime + GwWindow]
  <1>1. ASSUME NEW t \in T PROVE GwUntil(t) \in 0 .. GwMaxTime + GwWindow
    BY GwAssumption DEF GwTomb, GwUntil
  <1>2. ASSUME NEW r \in GwRequests, {t \in GwOf(T, r) : ~ t.retryable} # {}
        PROVE  (CHOOSE t \in {t \in GwOf(T, r) : ~ t.retryable} : TRUE) \in T
    BY <1>2 DEF GwOf
  <1> QED
    BY <1>1, <1>2 DEF GwPromises, GwTypeOK

LEMMA GwCompactedType ==
  ASSUME GwTypeOK
  PROVE  GwCompacted \subseteq GwTomb
  <1>1. ASSUME NEW e \in GwCompactable PROVE GwTombOf(e) \in GwTomb
    <2>1. e \in GwRecord /\ gwNow \in 0 .. GwMaxTime
      BY DEF GwCompactable, GwTypeOK
    <2> QED
      BY <2>1 DEF GwRecord, GwTomb, GwTombOf
  <1> QED
    BY <1>1 DEF GwCompacted, GwTypeOK

LEMMA GwTypeStep ==
  ASSUME GwTypeOK, [GwNext]_gwVars
  PROVE  GwTypeOK'
  <1>1. CASE GwOpen \/ GwSuspend \/ GwReopen \/ GwCleanup \/ GwExport \/ UNCHANGED gwVars
    BY <1>1 DEF GwTypeOK, GwOpen, GwSuspend, GwReopen, GwCleanup, GwExport, gwVars
  <1>2. CASE GwTick
    BY <1>2, GwAssumption DEF GwTypeOK, GwTick
  <1>3. CASE GwCompact
    <2>1. gwTombs' \subseteq GwTomb
      BY <1>3, GwCompactedType DEF GwCompact
    <2>2. gwArchive' \in [GwRequests -> GwTomb \cup {GwNone}]
      BY <1>3, GwCompactedType, GwArchivedType DEF GwCompact, GwTypeOK
    <2>3. gwPromise' \in [GwRequests -> 0 .. GwMaxTime + GwWindow]
      BY <1>3, GwCompactedType, GwPromisesType DEF GwCompact
    <2> QED
      BY <1>3, <2>1, <2>2, <2>3 DEF GwTypeOK, GwCompact
  <1>4. CASE \E r \in GwRequests, payload \in GwPayloads : GwMismatch(r, payload)
    <2>1. /\ gwCount < GwMaxSubmissions /\ gwCount' = gwCount + 1 /\ gwExported' = FALSE
          /\ UNCHANGED <<gwStatus, gwRecords, gwTombs, gwArchive, gwNow, gwAccepted, gwPromise>>
      BY <1>4 DEF GwMismatch
    <2>2. gwCount' \in 0 .. GwMaxSubmissions
      BY <2>1, GwAssumption DEF GwTypeOK
    <2> QED
      BY <2>1, <2>2 DEF GwTypeOK
  <1>5. ASSUME NEW r \in GwRequests, NEW payload \in GwPayloads,
               NEW provider \in {"ready", "timeout", "abuse-retryable", "abuse-final"},
               GwSubmit(r, payload, provider)
        PROVE  GwTypeOK'
    <2> DEFINE status == IF provider = "ready" THEN GwDecide(gwCount + 1) ELSE "denied"
               made == [request |-> r, payload |-> payload, status |-> status, at |-> gwNow,
                        no |-> gwCount + 1, retryable |-> provider \in {"timeout", "abuse-retryable"}]
    <2>1. status \in {"accepted", "denied", "approval_required"}
      BY DEF GwDecide
    <2>2. gwCount + 1 \in 1 .. GwMaxSubmissions /\ gwNow \in 0 .. GwMaxTime
      BY <1>5, GwAssumption DEF GwTypeOK, GwSubmit
    <2>3. (provider \in {"timeout", "abuse-retryable"}) \in BOOLEAN
      OBVIOUS
    <2>4. made \in GwRecord
      BY <2>1, <2>2, <2>3 DEF GwRecord
    <2>5. gwRecords' = gwRecords \cup {made}
      BY <1>5 DEF GwSubmit
    <2>6. gwAccepted' \in [GwRequests -> Nat]
      BY <1>5 DEF GwSubmit, GwTypeOK
    <2> QED
      <3>1. /\ gwCount' = gwCount + 1 /\ gwExported' = FALSE
            /\ UNCHANGED <<gwStatus, gwTombs, gwArchive, gwNow, gwPromise>>
        BY <1>5 DEF GwSubmit
      <3>2. gwCount' \in 0 .. GwMaxSubmissions
        BY <2>2, <3>1, GwAssumption
      <3> HIDE DEF made
      <3>3. gwRecords' \subseteq GwRecord
        BY <2>4, <2>5 DEF GwTypeOK
      <3> QED
        BY <2>6, <3>1, <3>2, <3>3 DEF GwTypeOK
  <1>6. CASE \E n \in 1 .. GwMaxSubmissions : GwCompactFails(n)
    <2>1. PICK n \in 1 .. GwMaxSubmissions : GwCompactFails(n)
      BY <1>6
    <2>2. GwFirst(n) \subseteq GwTomb
      BY GwCompactedType DEF GwFirst
    <2>3. gwArchive' \in [GwRequests -> GwTomb \cup {GwNone}]
      BY <2>1, <2>2, GwArchivedType DEF GwCompactFails
    <2>4. gwPromise' \in [GwRequests -> 0 .. GwMaxTime + GwWindow]
      BY <2>1, <2>2, GwPromisesType DEF GwCompactFails
    <2> QED
      BY <2>1, <2>3, <2>4 DEF GwTypeOK, GwCompactFails
  <1>7. CASE \E deleted \in SUBSET GwRequests : GwDelete(deleted)
    BY <1>7 DEF GwTypeOK, GwDelete
  <1> QED
    BY <1>1, <1>2, <1>3, <1>4, <1>5, <1>6, <1>7 DEF GwNext

LEMMA GwInitType == GwInit => GwTypeOK
  <1> SUFFICES ASSUME GwInit PROVE GwTypeOK
    OBVIOUS
  <1>1. gwArchive \in [GwRequests -> GwTomb \cup {GwNone}]
    BY DEF GwInit
  <1>2. gwPromise \in [GwRequests -> 0 .. GwMaxTime + GwWindow] /\ gwAccepted \in [GwRequests -> Nat]
    BY GwAssumption DEF GwInit
  <1>3. 0 \in 0 .. GwMaxSubmissions /\ 0 \in 0 .. GwMaxTime
    BY GwAssumption
  <1> QED
    BY <1>1, <1>2, <1>3 DEF GwInit, GwTypeOK

\* The ledger, the archive and the clock have their types.
THEOREM GwTypeCorrect == GwSpec => []GwTypeOK
  BY GwInitType, GwTypeStep, PTL DEF GwSpec

-----------------------------------------------------------------------------
(* The decisions *)

\* A request's last record is the only one that may be final.
GwRecordsSound ==
  /\ \A x \in gwRecords : x.no <= gwCount /\ x.at <= gwNow /\ (x.retryable => x.status = "denied")
  /\ \A x, y \in gwRecords : x.no = y.no => x = y
  /\ \A x, y \in gwRecords : x.no < y.no => x.at <= y.at /\ (x.request = y.request => x.retryable)

\* A request has one terminal tombstone in the ledger at most, and then no record.
GwTombsSound ==
  \A t \in gwTombs : ~ t.retryable =>
    /\ GwOf(gwRecords, t.request) = {}
    /\ \A u \in gwTombs : u.request = t.request /\ ~ u.retryable => u = t

\* What accepted a request stays in the records.
GwAcceptedSound(r) ==
  /\ gwAccepted[r] \in {0, 1}
  /\ gwAccepted[r] = 1 => \E x \in GwOf(gwRecords, r) : x.status = "accepted"

\* While the window lasts, the archive or the ledger keeps a tombstone that
\* lasts as long, and records that are left end with the denial.
GwPromiseSound(r) ==
  gwNow < gwPromise[r] =>
    /\ IF gwArchive[r] # GwNone THEN gwArchive[r].retryable \/ gwPromise[r] <= GwUntil(gwArchive[r])
       ELSE \E t \in GwOf(gwTombs, r) : ~ t.retryable /\ gwPromise[r] <= GwUntil(t)
    /\ GwOf(gwRecords, r) # {} => \E x \in GwOf(gwRecords, r) : ~ x.retryable

GwInv ==
  /\ GwTypeOK /\ GwRecordsSound /\ GwTombsSound
  /\ \A r \in GwRequests : GwAcceptedSound(r) /\ GwPromiseSound(r)

\* A denial without retry is the last of its request.
LEMMA GwFinalIsLast ==
  ASSUME GwInv, NEW x \in gwRecords, ~ x.retryable, NEW y \in gwRecords, y.request = x.request, y # x
  PROVE  y.no < x.no /\ y.at <= x.at /\ y.retryable /\ y.status = "denied"
  <1>1. x.no \in Nat /\ y.no \in Nat
    BY GwAssumption DEF GwInv, GwTypeOK, GwRecord
  <1>2. y.no < x.no
    BY <1>1 DEF GwInv, GwRecordsSound
  <1> QED
    BY <1>2 DEF GwInv, GwRecordsSound

\* When a request's terminal denial is compacted, its earlier records are too.
LEMMA GwFinalTakesAll ==
  ASSUME GwRetriesLeaveFirst, GwInv, NEW x \in GwCompactable, ~ x.retryable
  PROVE  \A y \in GwOf(gwRecords, x.request) : y \in GwCompactable /\ (~ y.retryable => y = x)
  <1> SUFFICES ASSUME NEW y \in GwOf(gwRecords, x.request), y # x
               PROVE  y \in GwCompactable /\ y.retryable
    OBVIOUS
  <1>1. /\ x \in gwRecords /\ y \in gwRecords /\ y.request = x.request /\ gwNow - x.at >= GwRetention[FALSE]
        /\ x.retryable = FALSE
    BY DEF GwCompactable, GwOf, GwInv, GwTypeOK, GwRecord
  <1>2. y.at <= x.at /\ y.retryable = TRUE /\ y.status = "denied"
    BY <1>1, GwFinalIsLast DEF GwInv, GwTypeOK, GwRecord
  <1>3. x.at \in Nat /\ y.at \in Nat /\ gwNow \in Nat
        /\ GwRetention[TRUE] \in Nat /\ GwRetention[FALSE] \in Nat
    <2>1. x \in GwRecord /\ y \in GwRecord /\ gwNow \in 0 .. GwMaxTime
      BY <1>1 DEF GwInv, GwTypeOK
    <2>2. x.at \in 0 .. GwMaxTime /\ y.at \in 0 .. GwMaxTime
      BY <2>1 DEF GwRecord
    <2>3. x.at \in Nat /\ y.at \in Nat /\ gwNow \in Nat
      BY <2>1, <2>2, GwAssumption
    <2>4. TRUE \in BOOLEAN /\ FALSE \in BOOLEAN
      OBVIOUS
    <2>5. GwRetention[TRUE] \in Nat /\ GwRetention[FALSE] \in Nat
      BY <2>4, GwAssumption, Zenon
    <2> QED
      BY <2>3, <2>5
  <1> DEFINE retried == GwRetention[TRUE]
             final == GwRetention[FALSE]
  <1>4. gwNow - y.at >= retried
    <2>1. retried <= final /\ retried \in Nat /\ final \in Nat /\ gwNow - x.at >= final
      BY <1>1, <1>3 DEF GwRetriesLeaveFirst
    <2> HIDE DEF retried, final
    <2> QED
      BY <1>2, <1>3, <2>1
  <1> QED
    BY <1>1, <1>2, <1>4 DEF GwCompactable

\* A request has one terminal tombstone at most, also among those of a compaction,
\* and it is the ledger's or that of a record that leaves.
LEMMA GwOneFinal ==
  ASSUME GwRetriesLeaveFirst, GwInv
  PROVE  /\ \A t, u \in GwCompacted : t.request = u.request /\ ~ t.retryable /\ ~ u.retryable => t = u
         /\ \A t \in GwCompacted : ~ t.retryable =>
              \/ GwOf(gwRecords, t.request) = {}
              \/ \E x \in GwOf(gwRecords, t.request) : ~ x.retryable /\ x \in GwCompactable
  <1>1. ASSUME NEW t \in GwCompacted, ~ t.retryable
        PROVE  \/ t \in gwTombs /\ GwOf(gwRecords, t.request) = {}
               \/ \E x \in GwCompactable : /\ t = GwTombOf(x) /\ x \in GwOf(gwRecords, t.request)
                                           /\ ~ x.retryable
    BY <1>1 DEF GwCompacted, GwInv, GwTombsSound, GwTombOf, GwCompactable, GwOf
  <1>2. ASSUME NEW t \in GwCompacted, NEW u \in GwCompacted,
               t.request = u.request, ~ t.retryable, ~ u.retryable
        PROVE  t = u
    <2>1. CASE t \in gwTombs /\ GwOf(gwRecords, t.request) = {}
      <3>1. u \in gwTombs
        BY <1>1, <1>2, <2>1
      <3> QED
        BY <1>2, <2>1, <3>1 DEF GwInv, GwTombsSound
    <2>2. CASE \E x \in GwCompactable : /\ t = GwTombOf(x) /\ x \in GwOf(gwRecords, t.request)
                                        /\ ~ x.retryable
      <3>1. PICK x \in GwCompactable : /\ t = GwTombOf(x) /\ x \in GwOf(gwRecords, t.request)
                                       /\ ~ x.retryable
        BY <2>2
      <3>2. PICK y \in GwCompactable : /\ u = GwTombOf(y) /\ y \in GwOf(gwRecords, u.request)
                                       /\ ~ y.retryable
        BY <1>1, <1>2, <3>1
      <3>3. y \in GwOf(gwRecords, x.request)
        BY <1>2, <3>1, <3>2 DEF GwOf
      <3>4. y = x
        BY <3>1, <3>2, <3>3, GwFinalTakesAll
      <3> QED
        BY <3>1, <3>2, <3>4
    <2> QED
      BY <1>1, <1>2, <2>1, <2>2
  <1> QED
    BY <1>1, <1>2

\* What compaction archives of any tombstones keeps every window.
LEMMA GwArchiveKeeps ==
  ASSUME GwRetriesLeaveFirst, GwInv, NEW T, T \subseteq GwCompacted, NEW r \in GwRequests,
         NEW ledger, gwNow < GwPromises(T)[r],
         \/ gwTombs \subseteq ledger
         \/ gwTombs \subseteq T
  PROVE  LET archive == GwArchived(T)[r] IN
         IF archive # GwNone THEN archive.retryable \/ GwPromises(T)[r] <= GwUntil(archive)
         ELSE \E t \in GwOf(ledger, r) : ~ t.retryable /\ GwPromises(T)[r] <= GwUntil(t)
  <1> DEFINE final == {t \in GwOf(T, r) : ~ t.retryable}
             promise == GwPromises(T)[r]
             archive == GwArchived(T)[r]
  <1>0. /\ promise = IF final # {} /\ gwNow >= gwPromise[r] /\ gwArchive[r] = GwNone
                     THEN GwUntil(CHOOSE t \in final : TRUE) ELSE gwPromise[r]
        /\ archive = IF gwArchive[r] # GwNone \/ GwOf(T, r) = {} THEN gwArchive[r]
                     ELSE CHOOSE t \in GwOf(T, r) : \A u \in GwOf(T, r) : ~ GwBefore(u, t)
    BY DEF GwPromises, GwArchived
  <1>1. T \subseteq GwTomb /\ GwOrdered(T)
    BY GwCompactedType DEF GwInv, GwOrdered, GwTomb
  <1>2. gwNow \in Nat /\ gwPromise[r] \in Nat /\ \A t \in T : GwUntil(t) \in Nat
    BY <1>1, GwAssumption DEF GwInv, GwTypeOK, GwTomb, GwUntil
  <1>3. CASE gwArchive[r] # GwNone
    BY <1>0, <1>3 DEF GwInv, GwPromiseSound
  <1>4. CASE gwArchive[r] = GwNone
    <2>1. PICK c : /\ ~ c.retryable /\ c.request = r /\ c \in GwCompacted /\ promise <= GwUntil(c)
                   /\ c \in T \/ c \in gwTombs
      <3>1. CASE final # {} /\ gwNow >= gwPromise[r]
        <4>1. promise = GwUntil(CHOOSE t \in final : TRUE) /\ (CHOOSE t \in final : TRUE) \in final
          BY <1>0, <1>4, <3>1
        <4>2. promise \in Nat
          BY <1>2, <4>1 DEF GwOf
        <4>3. PICK c \in final : c = CHOOSE t \in final : TRUE
          BY <4>1
        <4>4. ~ c.retryable /\ c.request = r /\ c \in T /\ c \in GwCompacted
          BY <4>3 DEF GwOf
        <4>5. promise = GwUntil(c)
          BY <4>1, <4>3
        <4>6. promise <= GwUntil(c)
          BY <4>2, <4>5
        <4> HIDE DEF final, promise
        <4> QED
          BY <4>4, <4>6
      <3>2. CASE ~ (final # {} /\ gwNow >= gwPromise[r])
        <4>1. promise = gwPromise[r]
          BY <1>0, <3>2
        <4>2. \E t \in GwOf(gwTombs, r) : ~ t.retryable /\ gwPromise[r] <= GwUntil(t)
          BY <1>4, <4>1 DEF GwInv, GwPromiseSound
        <4> QED
          BY <4>1, <4>2 DEF GwOf, GwCompacted
      <3> QED
        BY <3>1, <3>2
    <2>2. CASE GwOf(T, r) = {}
      <3>1. c \in gwTombs /\ c \notin T
        BY <2>1, <2>2 DEF GwOf
      <3>2. c \in GwOf(ledger, r)
        BY <2>1, <3>1 DEF GwOf
      <3> QED
        BY <1>0, <1>4, <2>1, <2>2, <3>2
    <2>3. CASE GwOf(T, r) # {}
      <3>1. archive \in GwOf(T, r)
        BY <1>0, <1>1, <1>4, <2>3, GwOldestIs
      <3>2. archive \in GwTomb /\ archive # GwNone /\ archive.request = r /\ archive \in GwCompacted
        BY <1>1, <3>1, GwNoneAssumption DEF GwOf
      <3>3. ~ archive.retryable => archive = c
        BY <2>1, <3>2, GwOneFinal
      <3> QED
        BY <2>1, <3>2, <3>3
    <2> QED
      BY <2>2, <2>3
  <1> QED
    BY <1>3, <1>4

LEMMA GwInitInv == GwInit => GwInv
  <1> SUFFICES ASSUME GwInit PROVE GwInv
    OBVIOUS
  <1>1. gwRecords = {} /\ gwTombs = {} /\ gwNow = 0
        /\ \A r \in GwRequests : gwAccepted[r] = 0 /\ gwPromise[r] = 0
    BY DEF GwInit
  <1> QED
    BY <1>1, GwInitType DEF GwInv, GwRecordsSound, GwTombsSound, GwAcceptedSound, GwPromiseSound

\* Steps that leave the records and what is promised.
LEMMA GwPlainStep ==
  ASSUME GwInv, GwTypeOK', gwCount' >= gwCount, gwNow' >= gwNow,
         UNCHANGED <<gwRecords, gwTombs, gwAccepted, gwPromise>>,
         \A r \in GwRequests : gwArchive'[r] = gwArchive[r] \/
           (gwArchive'[r] = GwNone /\ ~ gwArchive[r].retryable /\ gwArchive[r] # GwNone
            /\ gwNow >= GwUntil(gwArchive[r]))
  PROVE  GwInv'
  <1>0. gwCount \in Nat /\ gwCount' \in Nat /\ gwNow \in Nat /\ gwNow' \in Nat
        /\ \A x \in gwRecords : x.no \in Nat /\ x.at \in Nat
    BY GwAssumption DEF GwInv, GwTypeOK, GwRecord
  <1>1. GwRecordsSound'
    BY <1>0 DEF GwInv, GwRecordsSound
  <1>2. GwTombsSound'
    BY DEF GwInv, GwTombsSound, GwOf
  <1>3. ASSUME NEW r \in GwRequests PROVE GwAcceptedSound(r)'
    BY <1>3 DEF GwInv, GwAcceptedSound, GwOf
  <1>4. ASSUME NEW r \in GwRequests PROVE GwPromiseSound(r)'
    <2> SUFFICES ASSUME gwNow' < gwPromise[r] PROVE GwPromiseSound(r)'
      BY DEF GwPromiseSound
    <2>1. gwPromise[r] \in Nat
      BY GwAssumption DEF GwInv, GwTypeOK
    <2>2. gwNow < gwPromise[r] /\ GwPromiseSound(r)
      BY <1>0, <2>1 DEF GwInv
    <2>3. gwArchive'[r] = gwArchive[r]
      <3>1. SUFFICES ASSUME gwArchive[r] # GwNone, ~ gwArchive[r].retryable, gwNow >= GwUntil(gwArchive[r])
                     PROVE  FALSE
        OBVIOUS
      <3>2. gwArchive[r] \in GwTomb
        BY <3>1 DEF GwInv, GwTypeOK
      <3>3. GwUntil(gwArchive[r]) \in Nat
        BY <3>2, GwAssumption DEF GwTomb, GwUntil
      <3>4. gwPromise[r] <= GwUntil(gwArchive[r])
        BY <2>2, <3>1 DEF GwPromiseSound
      <3> QED
        BY <1>0, <2>1, <2>2, <3>1, <3>3, <3>4
    <2> QED
      BY <2>2, <2>3 DEF GwPromiseSound, GwOf, GwUntil
  <1> QED
    BY <1>1, <1>2, <1>3, <1>4 DEF GwInv

\* A submission that is decided anew finds records that may all be retried, and
\* no window that lasts.
LEMMA GwAsksAnew ==
  ASSUME GwInv, NEW r \in GwRequests, NEW payload \in GwPayloads, NEW provider,
         GwSubmit(r, payload, provider)
  PROVE  /\ \A x \in GwOf(gwRecords, r) : x.retryable
         /\ \A t \in GwOf(gwTombs, r) : t.retryable
         /\ ~ (gwNow < gwPromise[r]) /\ gwAccepted[r] = 0
  <1>0. GwTypeOK /\ GwPromiseSound(r) /\ GwAcceptedSound(r)
    BY DEF GwInv
  <1>1. CASE GwFindRecord(r) = GwNone
    <2>1. GwFindTomb(r) = GwNone
      BY <1>1 DEF GwSubmit, GwSettled
    <2>2. GwOf(gwRecords, r) = {} /\ GwOf(gwTombs, r) = {} /\ gwArchive[r] = GwNone
      BY <1>0, <1>1, <2>1, GwFound
    <2> QED
      BY <1>0, <2>2 DEF GwPromiseSound, GwAcceptedSound
  <1>2. CASE GwFindRecord(r) # GwNone
    <2> DEFINE e == GwFindRecord(r)
    <2>1. e.retryable
      BY <1>2 DEF GwSubmit, GwSettled
    <2>2. /\ e \in gwRecords /\ e.request = r
          /\ \A f \in GwOf(gwRecords, r) : ~ GwBefore(e, f)
      BY <1>0, <1>2, GwFound DEF GwOf
    <2> HIDE DEF e
    <2>3. \A x \in GwOf(gwRecords, r) : x.retryable
      <3> SUFFICES ASSUME NEW x \in gwRecords, x.request = r, ~ x.retryable PROVE FALSE
        BY DEF GwOf
      <3>1. e.no < x.no /\ e.at <= x.at
        BY <2>1, <2>2, GwFinalIsLast
      <3>2. e.at \in Nat /\ x.at \in Nat
        BY <2>2, GwAssumption DEF GwInv, GwTypeOK, GwRecord
      <3>3. GwBefore(e, x)
        BY <3>1, <3>2 DEF GwBefore
      <3> QED
        BY <2>2, <3>3 DEF GwOf
    <2>4. \A t \in GwOf(gwTombs, r) : t.retryable
      BY <2>2 DEF GwInv, GwTombsSound, GwOf
    <2>5. ~ (gwNow < gwPromise[r])
      BY <1>0, <2>2, <2>3 DEF GwPromiseSound, GwOf
    <2>6. \A x \in GwOf(gwRecords, r) : x.status = "denied"
      BY <2>3 DEF GwInv, GwRecordsSound, GwOf
    <2> QED
      BY <1>0, <2>3, <2>4, <2>5, <2>6 DEF GwAcceptedSound
  <1> QED
    BY <1>1, <1>2

LEMMA GwSubmitStep ==
  ASSUME GwInv, GwTypeOK', NEW r \in GwRequests, NEW payload \in GwPayloads,
         NEW provider \in {"ready", "timeout", "abuse-retryable", "abuse-final"},
         GwSubmit(r, payload, provider)
  PROVE  GwInv'
  <1> DEFINE status == IF provider = "ready" THEN GwDecide(gwCount + 1) ELSE "denied"
             made == [request |-> r, payload |-> payload, status |-> status, at |-> gwNow,
                      no |-> gwCount + 1, retryable |-> provider \in {"timeout", "abuse-retryable"}]
  <1>1. /\ gwRecords' = gwRecords \cup {made} /\ gwCount' = gwCount + 1
        /\ gwAccepted' = [gwAccepted EXCEPT ![r] = IF status = "accepted" THEN @ + 1 ELSE @]
        /\ UNCHANGED <<gwStatus, gwTombs, gwArchive, gwNow, gwPromise>>
    BY DEF GwSubmit
  <1>2. /\ made.request = r /\ made.no = gwCount + 1 /\ made.at = gwNow /\ made.status = status
        /\ made.retryable => made.status = "denied"
    OBVIOUS
  <1>3. /\ \A x \in GwOf(gwRecords, r) : x.retryable
        /\ \A t \in GwOf(gwTombs, r) : t.retryable
        /\ ~ (gwNow < gwPromise[r]) /\ gwAccepted[r] = 0
    BY GwAsksAnew
  <1>4. gwCount \in Nat /\ gwNow \in Nat
        /\ \A x \in gwRecords : x.no \in Nat /\ x.at \in Nat /\ x.no <= gwCount /\ x.at <= gwNow
    BY GwAssumption DEF GwInv, GwTypeOK, GwRecord, GwRecordsSound
  <1> HIDE DEF made, status
  <1>5. GwRecordsSound'
    <2>1. ASSUME NEW x \in gwRecords'
          PROVE  x.no <= gwCount' /\ x.at <= gwNow' /\ (x.retryable => x.status = "denied")
      BY <1>1, <1>2, <1>4, <2>1 DEF GwInv, GwRecordsSound
    <2>2. ASSUME NEW x \in gwRecords', NEW y \in gwRecords'
          PROVE  x.no = y.no => x = y
      BY <1>1, <1>2, <1>4, <2>2 DEF GwInv, GwRecordsSound
    <2>3. ASSUME NEW x \in gwRecords', NEW y \in gwRecords', x.no < y.no
          PROVE  x.at <= y.at /\ (x.request = y.request => x.retryable)
      BY <1>1, <1>2, <1>3, <1>4, <2>3 DEF GwInv, GwRecordsSound, GwOf
    <2> QED
      BY <2>1, <2>2, <2>3 DEF GwRecordsSound
  <1>6. GwTombsSound'
    BY <1>1, <1>2, <1>3 DEF GwInv, GwTombsSound, GwOf
  <1>7. ASSUME NEW q \in GwRequests PROVE GwAcceptedSound(q)'
    <2>1. CASE q # r
      BY <1>1, <1>2, <2>1 DEF GwInv, GwTypeOK, GwAcceptedSound, GwOf
    <2>2. CASE q = r
      <3>1. gwAccepted'[r] = IF status = "accepted" THEN 1 ELSE 0
        BY <1>1, <1>3 DEF GwInv, GwTypeOK
      <3>2. made \in GwOf(gwRecords', r)
        BY <1>1, <1>2 DEF GwOf
      <3> QED
        BY <1>2, <2>2, <3>1, <3>2 DEF GwAcceptedSound
    <2> QED
      BY <2>1, <2>2
  <1>8. ASSUME NEW q \in GwRequests PROVE GwPromiseSound(q)'
    <2>1. CASE q # r
      <3>1. GwOf(gwRecords', q) = GwOf(gwRecords, q)
        BY <1>1, <1>2, <2>1 DEF GwOf
      <3>2. GwPromiseSound(q)
        BY DEF GwInv
      <3> QED
        BY <1>1, <3>1, <3>2 DEF GwPromiseSound
    <2>2. CASE q = r
      BY <1>1, <1>3, <2>2 DEF GwPromiseSound
    <2> QED
      BY <2>1, <2>2
  <1> QED
    BY <1>5, <1>6, <1>7, <1>8 DEF GwInv

\* A window that a compaction opens is of a denial the records end with, or of a
\* request without records.
LEMMA GwOpenedWindows ==
  ASSUME GwRetriesLeaveFirst, GwInv, NEW T, T \subseteq GwCompacted, NEW r \in GwRequests,
         gwNow < GwPromises(T)[r]
  PROVE  GwOf(gwRecords, r) = {} \/ \E x \in GwOf(gwRecords, r) : ~ x.retryable
  <1> DEFINE final == {t \in GwOf(T, r) : ~ t.retryable}
  <1>1. CASE GwPromises(T)[r] = gwPromise[r]
    BY <1>1 DEF GwInv, GwPromiseSound
  <1>2. CASE GwPromises(T)[r] # gwPromise[r]
    <2>1. final # {}
      BY <1>2 DEF GwPromises
    <2>2. PICK t \in final : TRUE
      BY <2>1
    <2>3. t \in GwCompacted /\ ~ t.retryable /\ t.request = r
      BY <2>2 DEF GwOf
    <2> QED
      BY <2>3, GwOneFinal
  <1> QED
    BY <1>1, <1>2

LEMMA GwCompactFailsStep ==
  ASSUME GwRetriesLeaveFirst, GwInv, GwTypeOK', NEW n, GwCompactFails(n)
  PROVE  GwInv'
  <1>1. GwFirst(n) \subseteq GwCompacted
    BY DEF GwFirst
  <1>2. /\ gwArchive' = GwArchived(GwFirst(n)) /\ gwPromise' = GwPromises(GwFirst(n))
        /\ UNCHANGED <<gwCount, gwRecords, gwTombs, gwNow, gwAccepted>>
    BY DEF GwCompactFails
  <1>3. GwRecordsSound' /\ GwTombsSound'
    BY <1>2 DEF GwInv, GwRecordsSound, GwTombsSound, GwOf
  <1>4. ASSUME NEW r \in GwRequests PROVE GwAcceptedSound(r)'
    BY <1>2, <1>4 DEF GwInv, GwAcceptedSound, GwOf
  <1>5. ASSUME NEW r \in GwRequests PROVE GwPromiseSound(r)'
    <2> SUFFICES ASSUME gwNow < GwPromises(GwFirst(n))[r] PROVE GwPromiseSound(r)'
      BY <1>2 DEF GwPromiseSound
    <2>1. LET archive == GwArchived(GwFirst(n))[r] IN
          IF archive # GwNone THEN archive.retryable \/ GwPromises(GwFirst(n))[r] <= GwUntil(archive)
          ELSE \E t \in GwOf(gwTombs, r) : ~ t.retryable /\ GwPromises(GwFirst(n))[r] <= GwUntil(t)
      BY <1>1, GwArchiveKeeps
    <2>2. GwOf(gwRecords, r) = {} \/ \E x \in GwOf(gwRecords, r) : ~ x.retryable
      BY <1>1, GwOpenedWindows
    <2> QED
      BY <1>2, <2>1, <2>2 DEF GwPromiseSound, GwOf, GwUntil
  <1> QED
    BY <1>3, <1>4, <1>5 DEF GwInv

LEMMA GwCompactStep ==
  ASSUME GwRetriesLeaveFirst, GwInv, GwTypeOK', GwCompact
  PROVE  GwInv'
  <1>1. /\ gwRecords' = gwRecords \ GwCompactable /\ gwPromise' = GwPromises(GwCompacted)
        /\ UNCHANGED <<gwCount, gwNow, gwAccepted>>
        /\ \/ gwTombs' = GwCompacted /\ gwArchive' = gwArchive
           \/ gwTombs' = {} /\ gwArchive' = GwArchived(GwCompacted)
    BY DEF GwCompact
  <1>2. GwRecordsSound'
    BY <1>1 DEF GwInv, GwRecordsSound
  <1>3. GwTombsSound'
    <2> SUFFICES ASSUME NEW t \in gwTombs', ~ t.retryable
                 PROVE  /\ GwOf(gwRecords', t.request) = {}
                        /\ \A u \in gwTombs' : u.request = t.request /\ ~ u.retryable => u = t
      BY DEF GwTombsSound
    <2>1. t \in GwCompacted /\ gwTombs' = GwCompacted
      BY <1>1
    <2>2. \/ GwOf(gwRecords, t.request) = {}
          \/ \E x \in GwOf(gwRecords, t.request) : ~ x.retryable /\ x \in GwCompactable
      BY <2>1, GwOneFinal
    <2>3. GwOf(gwRecords', t.request) = {}
      BY <1>1, <2>2, GwFinalTakesAll DEF GwOf
    <2> QED
      BY <2>1, <2>3, GwOneFinal
  <1>4. ASSUME NEW r \in GwRequests PROVE GwAcceptedSound(r)'
    BY <1>1, <1>4 DEF GwInv, GwAcceptedSound, GwOf, GwCompactable
  <1>5. ASSUME NEW r \in GwRequests PROVE GwPromiseSound(r)'
    <2> DEFINE promise == GwPromises(GwCompacted)[r]
    <2> SUFFICES ASSUME gwNow < promise PROVE GwPromiseSound(r)'
      BY <1>1 DEF GwPromiseSound
    <2>1. IF gwArchive'[r] # GwNone THEN gwArchive'[r].retryable \/ promise <= GwUntil(gwArchive'[r])
          ELSE \E t \in GwOf(gwTombs', r) : ~ t.retryable /\ promise <= GwUntil(t)
      <3>1. CASE gwTombs' = {} /\ gwArchive' = GwArchived(GwCompacted)
        <4>1. gwTombs \subseteq GwCompacted
          BY DEF GwCompacted
        <4>2. LET archive == GwArchived(GwCompacted)[r] IN
              IF archive # GwNone THEN archive.retryable \/ promise <= GwUntil(archive)
              ELSE \E t \in GwOf({}, r) : ~ t.retryable /\ promise <= GwUntil(t)
          BY <4>1, GwArchiveKeeps
        <4> QED
          BY <3>1, <4>2
      <3>2. CASE gwTombs' = GwCompacted /\ gwArchive' = gwArchive
        <4>1. CASE gwArchive[r] # GwNone
          BY <3>2, <4>1 DEF GwInv, GwPromiseSound, GwPromises
        <4>2. CASE gwArchive[r] = GwNone
          <5> DEFINE final == {t \in GwOf(GwCompacted, r) : ~ t.retryable}
          <5>1. CASE promise = gwPromise[r]
            <6>1. PICK t \in GwOf(gwTombs, r) : ~ t.retryable /\ gwPromise[r] <= GwUntil(t)
              BY <4>2, <5>1 DEF GwInv, GwPromiseSound
            <6>2. t \in GwOf(GwCompacted, r)
              BY <6>1 DEF GwOf, GwCompacted
            <6> QED
              BY <3>2, <4>2, <5>1, <6>1, <6>2
          <5>2. CASE promise # gwPromise[r]
            <6>1. final # {} /\ promise = GwUntil(CHOOSE t \in final : TRUE)
              BY <5>2 DEF GwPromises
            <6>2. PICK c \in final : c = CHOOSE t \in final : TRUE
              BY <6>1
            <6>3. promise = GwUntil(c) /\ c \in GwOf(GwCompacted, r) /\ ~ c.retryable
              BY <6>1, <6>2
            <6>4. GwUntil(c) \in Nat
              BY <6>3, GwCompactedType, GwAssumption DEF GwInv, GwOf, GwTomb, GwUntil
            <6>5. promise <= GwUntil(c)
              BY <6>3, <6>4
            <6> HIDE DEF promise, final
            <6> QED
              BY <3>2, <4>2, <6>3, <6>5
          <5> QED
            BY <5>1, <5>2
        <4> QED
          BY <4>1, <4>2
      <3> QED
        BY <1>1, <3>1, <3>2
    <2>2. GwOf(gwRecords', r) # {} => \E x \in GwOf(gwRecords', r) : ~ x.retryable
      <3>1. GwOf(gwRecords, r) = {} \/ \E x \in GwOf(gwRecords, r) : ~ x.retryable
        BY GwOpenedWindows
      <3>2. CASE GwOf(gwRecords, r) = {}
        BY <1>1, <3>2 DEF GwOf
      <3>3. ASSUME NEW x \in GwOf(gwRecords, r), ~ x.retryable, x \in GwCompactable
            PROVE  GwOf(gwRecords', r) = {}
        BY <1>1, <3>3, GwFinalTakesAll DEF GwOf
      <3>4. ASSUME NEW x \in GwOf(gwRecords, r), ~ x.retryable, x \notin GwCompactable
            PROVE  x \in GwOf(gwRecords', r)
        BY <1>1, <3>4 DEF GwOf
      <3> QED
        BY <3>1, <3>2, <3>3, <3>4
    <2> HIDE DEF promise
    <2>3. gwPromise'[r] = promise
      BY <1>1 DEF promise
    <2> QED
      BY <2>1, <2>2, <2>3 DEF GwPromiseSound, GwUntil
  <1> QED
    BY <1>2, <1>3, <1>4, <1>5 DEF GwInv

LEMMA GwStep ==
  ASSUME GwRetriesLeaveFirst, GwInv, [GwNext]_gwVars
  PROVE  GwInv'
  <1>0. GwTypeOK'
    BY GwTypeStep DEF GwInv
  <1>a. gwNow \in Nat /\ gwCount \in Nat
    BY GwAssumption DEF GwInv, GwTypeOK
  <1>1. CASE GwOpen \/ GwSuspend \/ GwReopen \/ GwCleanup \/ GwExport \/ UNCHANGED gwVars
    BY <1>0, <1>a, <1>1, GwPlainStep DEF GwOpen, GwSuspend, GwReopen, GwCleanup, GwExport, gwVars
  <1>2. CASE GwTick
    BY <1>0, <1>a, <1>2, GwPlainStep DEF GwTick
  <1>3. CASE \E r \in GwRequests, payload \in GwPayloads : GwMismatch(r, payload)
    BY <1>0, <1>a, <1>3, GwPlainStep DEF GwMismatch
  <1>4. CASE \E r \in GwRequests, payload \in GwPayloads :
               \E provider \in {"ready", "timeout", "abuse-retryable", "abuse-final"} :
                 GwSubmit(r, payload, provider)
    BY <1>0, <1>4, GwSubmitStep
  <1>5. CASE GwCompact
    BY <1>0, <1>5, GwCompactStep
  <1>6. CASE \E n \in 1 .. GwMaxSubmissions : GwCompactFails(n)
    BY <1>0, <1>6, GwCompactFailsStep
  <1>7. CASE \E deleted \in SUBSET GwRequests : GwDelete(deleted)
    <2>1. PICK deleted \in SUBSET GwRequests : GwDelete(deleted)
      BY <1>7
    <2>2. \A r \in GwRequests : gwArchive'[r] = gwArchive[r] \/
            (gwArchive'[r] = GwNone /\ ~ gwArchive[r].retryable /\ gwArchive[r] # GwNone
             /\ gwNow >= GwUntil(gwArchive[r]))
      BY <2>1 DEF GwDelete, GwDeletable
    <2> QED
      BY <1>0, <1>a, <2>1, <2>2, GwPlainStep DEF GwDelete
  <1> QED
    BY <1>1, <1>2, <1>3, <1>4, <1>5, <1>6, <1>7 DEF GwNext

\* For any requests, payloads and limits: whatever was compacted, archived, half
\* archived or deleted, a contribution enters the quarantine once per request id,
\* and a terminal denial is repeated through its replay window, when the policy
\* lets denials that may be retried leave the records no later than terminal ones
\* (submit, compactLedger, deleteExpiredReplayArchive).
THEOREM GwDecisionsStandCorrect ==
  ASSUME GwRetriesLeaveFirst
  PROVE  GwSpec => []GwDecisionsStand
  <1>1. GwInv => GwDecisionsStand
    <2> SUFFICES ASSUME GwInv, NEW r \in GwRequests
                 PROVE  /\ gwAccepted[r] <= 1
                        /\ gwNow < gwPromise[r] => \E payload \in GwPayloads : GwSettled(r, payload)
      BY DEF GwDecisionsStand
    <2>0. GwTypeOK /\ GwPromiseSound(r) /\ GwAcceptedSound(r)
      BY DEF GwInv
    <2>1. gwAccepted[r] <= 1
      BY <2>0 DEF GwAcceptedSound
    <2>2. ASSUME gwNow < gwPromise[r], GwFindRecord(r) = GwNone
          PROVE  \E payload \in GwPayloads : GwSettled(r, payload)
      <3>1. GwFindTomb(r) # GwNone
        BY <2>0, <2>2, GwFound DEF GwPromiseSound
      <3>2. GwFindTomb(r).payload \in GwPayloads
        BY <2>0, <3>1, GwFound DEF GwTomb
      <3> QED
        BY <2>2, <3>1, <3>2 DEF GwSettled
    <2>3. ASSUME gwNow < gwPromise[r], GwFindRecord(r) # GwNone
          PROVE  \E payload \in GwPayloads : GwSettled(r, payload)
      <3> DEFINE e == GwFindRecord(r)
      <3>1. /\ e \in gwRecords /\ e.request = r /\ e \in GwRecord
            /\ \A f \in GwOf(gwRecords, r) : ~ GwBefore(e, f)
        BY <2>0, <2>3, GwFound DEF GwOf
      <3> HIDE DEF e
      <3>2. PICK x \in gwRecords : x.request = r /\ ~ x.retryable
        BY <2>0, <2>3, <3>1 DEF GwPromiseSound, GwOf
      <3>3. ~ e.retryable
        <4> SUFFICES ASSUME e.retryable PROVE FALSE
          OBVIOUS
        <4>1. e.no < x.no /\ e.at <= x.at
          BY <3>1, <3>2, GwFinalIsLast
        <4>2. e.at \in Nat /\ x.at \in Nat
          BY <3>1, <3>2, GwAssumption DEF GwInv, GwTypeOK, GwRecord
        <4>3. GwBefore(e, x)
          BY <4>1, <4>2 DEF GwBefore
        <4> QED
          BY <3>1, <3>2, <4>3 DEF GwOf
      <3>4. e.payload \in GwPayloads
        BY <3>1 DEF GwRecord
      <3> QED
        BY <2>3, <3>3, <3>4 DEF GwSettled, e
    <2> QED
      BY <2>1, <2>2, <2>3
  <1> QED
    BY <1>1, GwInitInv, GwStep, PTL DEF GwSpec

-----------------------------------------------------------------------------
(* Storage of the Authority *)

\* The events of a snapshot are not later than its version.
AsDated(snapshot) == \A e \in snapshot.audit : e.at <= snapshot.version

\* What an owner holds: of a version that was not lost by a clean-up there is
\* one history only.
AsBundleSound(bundle, current, cleaned) ==
  /\ bundle \in AsBundleSet /\ AsDated(bundle.snapshot)
  /\ ~ cleaned => /\ bundle.snapshot.version <= current.version
                  /\ bundle.snapshot.version = current.version => bundle.snapshot.audit = current.audit

\* The quarantine holds what its bundle says.
AsBindingSound(binding, bundle) ==
  /\ binding.snapshot.version = bundle.snapshot.version
  /\ binding.snapshot.audit = bundle.snapshot.audit /\ binding.rows = bundle.rows
  /\ \A c \in AsCollections \ bundle.missing : binding.snapshot.entities[c] = bundle.snapshot.entities[c]

AsInv ==
  /\ AsTypeOK /\ asGrants = asKept
  /\ asSql = AsNone => asLegacy = AsOlder
  /\ AsDated(AsRead)
  /\ asBundles = [b \in AsBundleIds |-> asBundles[b]]
  /\ \A b \in AsBundleIds : asBundles[b] # AsNone => AsBundleSound(asBundles[b], AsRead, asCleaned)
  /\ asCurrent # AsNone =>
       asBundles[asCurrent.bundle] # AsNone /\ AsBindingSound(asCurrent, asBundles[asCurrent.bundle])

LEMMA AsOlderIs ==
  /\ AsOlder \in AsSnapshots /\ AsDated(AsOlder)
  <1>1. AsFirst \in AsWriters /\ "canonicalRefProjections" \in AsCollections
    BY DEF AsWriters, AsCollections
  <1>2. AsEmpty.entities \in [AsCollections -> AsWriters \cup {AsNone}]
    BY DEF AsEmpty
  <1>3. AsOlder.entities \in [AsCollections -> AsWriters \cup {AsNone}]
    BY <1>1, <1>2 DEF AsOlder
  <1>4. AsOlder.audit \subseteq AsEvents
    BY <1>1 DEF AsOlder, AsEvents
  <1>5. AsOlder = [version |-> 1, entities |-> AsOlder.entities, audit |-> AsOlder.audit]
    BY DEF AsOlder
  <1> QED
    BY <1>3, <1>4, <1>5 DEF AsSnapshots, AsDated, AsOlder

LEMMA AsInitInv == AsInit => AsInv
  <1> SUFFICES ASSUME AsInit PROVE AsInv
    OBVIOUS
  <1>1. AsRead = AsOlder
    BY AsOlderIs, AsNoneAssumption DEF AsInit, AsRead
  <1>2. AsNoRows \in AsRowSets
    BY AsAssumption DEF AsNoRows, AsRowSets
  <1>3. AsTypeOK
    BY <1>2 DEF AsInit, AsTypeOK
  <1> QED
    BY <1>1, <1>3, AsOlderIs DEF AsInit, AsInv

LEMMA AsReadIs ==
  ASSUME AsInv
  PROVE  AsRead \in AsSnapshots /\ AsRead # AsNone /\ (asSql # AsNone => AsRead = asSql)
  <1>1. CASE asSql = AsNone
    BY <1>1, AsOlderIs, AsNoneAssumption DEF AsInv, AsRead
  <1>2. CASE asSql # AsNone
    BY <1>2, AsNoneAssumption DEF AsInv, AsTypeOK, AsRead
  <1> QED
    BY <1>1, <1>2

LEMMA AsReplaced ==
  ASSUME NEW s \in AsSnapshots, AsReplace(s)
  PROVE  asSql' = s /\ asSql' # AsNone /\ AsRead' = s /\ asLegacy' = AsNone
  BY AsNoneAssumption DEF AsReplace, AsRead

\* What a step makes of the Authority: nothing, or one more event.
AsAdds ==
  \/ AsRead'.version = AsRead.version /\ AsRead'.audit = AsRead.audit
  \/ /\ AsRead'.version = AsRead.version + 1
     /\ \E k \in AsKeys : AsRead'.audit = AsRead.audit \cup {[at |-> AsRead.version + 1, key |-> k]}

LEMMA AsPersists ==
  ASSUME AsInv, NEW k \in AsKeys, NEW c \in AsCollections,
         \/ AsCommit(AsRead, AsRead, AsExecuted(AsRead, k, c)) \/ AsReplace(AsRead)
  PROVE  asSql' \in AsSnapshots /\ asSql' # AsNone /\ asLegacy' = AsNone /\ AsRead' = asSql' /\ AsAdds
  <1>0. AsRead \in AsSnapshots
    BY AsReadIs
  <1>1. CASE AsReplace(AsRead)
    BY <1>0, <1>1, AsReplaced DEF AsAdds
  <1>2. CASE AsCommit(AsRead, AsRead, AsExecuted(AsRead, k, c))
    <2> DEFINE next == AsExecuted(AsRead, k, c)
               event == [at |-> AsRead.version + 1, key |-> k]
               made == [version |-> next.version,
                        entities |-> AsDiff(AsRead.entities, AsRead.entities, next.entities),
                        audit |-> AsRead.audit \cup (next.audit \ AsRead.audit)]
    <2>1. AsRead.version \in Nat /\ AsRead.audit \subseteq AsEvents
          /\ AsRead.entities \in [AsCollections -> AsWriters \cup {AsNone}]
      BY <1>0 DEF AsSnapshots
    <2>2. k \in AsWriters /\ event \in AsEvents
      BY <2>1 DEF AsWriters, AsEvents
    <2>3. next.version = AsRead.version + 1 /\ next.audit = AsRead.audit \cup {event}
          /\ next.entities \in [AsCollections -> AsWriters \cup {AsNone}]
      BY <2>1, <2>2 DEF AsExecuted
    <2>4. AsDiff(AsRead.entities, AsRead.entities, next.entities) \in [AsCollections -> AsWriters \cup {AsNone}]
      BY <2>1, <2>3 DEF AsDiff
    <2>5. made \in AsSnapshots
      BY <2>1, <2>2, <2>3, <2>4 DEF AsSnapshots
    <2>6. AsReplace(made)
      BY <1>2 DEF AsCommit
    <2>7. AsRead' = made /\ asSql' = made /\ asSql' # AsNone /\ asLegacy' = AsNone
      BY <2>5, <2>6, AsReplaced
    <2>8. made.version = AsRead.version + 1 /\ made.audit = AsRead.audit \cup {event}
      BY <2>3
    <2> QED
      BY <2>5, <2>7, <2>8 DEF AsAdds
  <1> QED
    BY <1>1, <1>2

\* A step that adds at most one event and leaves the recovery as it is.
LEMMA AsAdding ==
  ASSUME AsInv, AsAdds, AsRecoveryUnchanged,
         asSql' = AsNone \/ asSql' \in AsSnapshots, asLegacy' \in {AsNone, AsOlder},
         asSql' = AsNone => asLegacy' = AsOlder,
         asGrants' \subseteq AsKeys, asGrants' = asKept'
  PROVE  AsInv' /\ AsKeepsAccepted
  <1>0. /\ AsRead.version \in Nat /\ AsDated(AsRead)
        /\ \A e \in AsRead.audit : e.at \in Nat
    BY AsReadIs DEF AsInv, AsSnapshots, AsEvents
  <1>1. AsTypeOK'
    BY DEF AsInv, AsTypeOK, AsRecoveryUnchanged
  <1>2. AsDated(AsRead') /\ AsPrefix(AsRead.audit, AsRead'.audit)
    BY <1>0 DEF AsAdds, AsDated, AsPrefix
  <1>3. ASSUME NEW b \in AsBundleIds, asBundles[b] # AsNone
        PROVE  AsBundleSound(asBundles[b], AsRead', asCleaned)
    <2>1. asBundles[b] \in AsBundleSet /\ AsBundleSound(asBundles[b], AsRead, asCleaned)
      BY <1>3 DEF AsInv, AsTypeOK
    <2>2. asBundles[b].snapshot.version \in Nat
      BY <2>1 DEF AsBundleSet, AsSnapshots
    <2> QED
      BY <1>0, <2>1, <2>2 DEF AsBundleSound, AsAdds
  <1>4. \A w \in AsWorkspaces : asRows'[w] >= asRows[w]
    <2>1. \A w \in AsWorkspaces : asRows[w] \in 0 .. AsMaxWrites
      BY DEF AsInv, AsTypeOK, AsRowSets
    <2> QED
      BY <2>1, AsAssumption DEF AsRecoveryUnchanged
  <1>5. AsInv'
    BY <1>1, <1>2, <1>3 DEF AsInv, AsRecoveryUnchanged
  <1> QED
    BY <1>2, <1>4, <1>5 DEF AsKeepsAccepted

-----------------------------------------------------------------------------
LEMMA AsCommandStep ==
  ASSUME AsInv, NEW k \in AsKeys, NEW c \in AsCollections, AsCommand(k, c)
  PROVE  AsInv' /\ AsKeepsAccepted
  <1>1. asSql' \in AsSnapshots /\ asSql' # AsNone /\ asLegacy' = AsNone /\ AsAdds
    BY AsPersists DEF AsCommand, AsPersist
  <1> QED
    BY <1>1, AsAdding DEF AsCommand, AsInv, AsTypeOK

LEMMA AsViewCommandStep ==
  ASSUME AsInv, NEW k \in AsKeys, NEW c \in AsCollections, AsViewCommand(k, c)
  PROVE  AsInv' /\ AsKeepsAccepted
  <1>1. asSql' \in AsSnapshots /\ asSql' # AsNone /\ asLegacy' = AsNone /\ AsAdds
    BY AsPersists DEF AsViewCommand, AsPersist
  <1>2. asGrants' \subseteq AsKeys /\ asGrants' = asKept'
    BY DEF AsViewCommand, AsRollback, AsInv, AsTypeOK
  <1> QED
    BY <1>1, <1>2, AsAdding DEF AsViewCommand

LEMMA AsOwnerReadableStep ==
  ASSUME AsInv, NEW k \in AsKeys, AsOwnerReadableProject(k)
  PROVE  AsInv' /\ AsKeepsAccepted
  <1>1. asSql' \in AsSnapshots /\ asSql' # AsNone /\ asLegacy' = AsNone /\ AsAdds
    BY AsPersists DEF AsOwnerReadableProject, AsCollections
  <1>2. asGrants' \subseteq AsKeys /\ asGrants' = asKept'
    BY DEF AsOwnerReadableProject, AsRollback, AsInv, AsTypeOK
  <1> QED
    BY <1>1, <1>2, AsAdding DEF AsOwnerReadableProject

LEMMA AsWorkspaceRepositoryStep ==
  ASSUME AsInv, NEW w \in AsWorkspaces, AsWorkspaceRepository(w)
  PROVE  AsInv' /\ AsKeepsAccepted
  <1>0. asRows \in AsRowSets /\ \A u \in AsWorkspaces : asRows[u] \in 0 .. AsMaxWrites
    BY DEF AsInv, AsTypeOK, AsRowSets
  <1>1. asRows' \in AsRowSets /\ \A u \in AsWorkspaces : asRows'[u] >= asRows[u]
    BY <1>0, AsAssumption DEF AsWorkspaceRepository, AsRowSets
  <1>2. AsRead' = AsRead
    BY DEF AsWorkspaceRepository, AsRead
  <1>3. AsTypeOK'
    BY <1>1 DEF AsInv, AsTypeOK, AsWorkspaceRepository
  <1>4. AsInv'
    BY <1>2, <1>3 DEF AsInv, AsWorkspaceRepository
  <1> QED
    BY <1>1, <1>2, <1>4 DEF AsKeepsAccepted, AsWorkspaceRepository, AsInv, AsPrefix

LEMMA AsExportStep ==
  ASSUME AsInv, NEW b \in AsBundleIds, AsExport(b)
  PROVE  AsInv' /\ AsKeepsAccepted
  <1>0. AsRead \in AsSnapshots /\ AsDated(AsRead) /\ asRows \in AsRowSets
    BY AsReadIs DEF AsInv, AsTypeOK
  <1>1. asSql' = AsRead /\ asSql' # AsNone /\ AsRead' = AsRead /\ asLegacy' = AsNone
    BY <1>0, AsReplaced DEF AsExport
  <1>2. AsBundle(AsRead, asRows) \in AsBundleSet
        /\ AsBundleSound(AsBundle(AsRead, asRows), AsRead, asCleaned)
    <2> DEFINE made == AsBundle(AsRead, asRows)
    <2>1. made = [snapshot |-> AsRead, rows |-> asRows, missing |-> {}]
      BY DEF AsBundle
    <2>2. made \in AsBundleSet
      BY <1>0, <2>1 DEF AsBundleSet
    <2>3. made.snapshot = AsRead
      BY <2>1
    <2>4. AsRead.version \in Nat
      BY <1>0 DEF AsSnapshots
    <2> HIDE DEF made
    <2>5. AsDated(made.snapshot)
      BY <1>0, <2>3 DEF AsDated
    <2>6. made.snapshot.version <= AsRead.version /\ made.snapshot.audit = AsRead.audit
      BY <2>3, <2>4
    <2>7. AsBundleSound(made, AsRead, asCleaned)
      BY <2>2, <2>5, <2>6 DEF AsBundleSound
    <2> QED
      BY <2>2, <2>7 DEF made
  <1>3. /\ asBundles' = [j \in AsBundleIds |-> asBundles'[j]]
        /\ \A j \in AsBundleIds : asBundles'[j] = IF j = b THEN AsBundle(AsRead, asRows) ELSE asBundles[j]
    BY DEF AsExport, AsInv
  <1>4. AsTypeOK'
    BY <1>0, <1>1, <1>2, <1>3 DEF AsInv, AsTypeOK, AsExport
  <1>5. \A j \in AsBundleIds : asBundles'[j] # AsNone => AsBundleSound(asBundles'[j], AsRead', asCleaned')
    BY <1>1, <1>2, <1>3 DEF AsInv, AsExport
  <1>6. asCurrent # AsNone => asCurrent.bundle \in AsBundleIds /\ asCurrent.bundle # b
    BY DEF AsInv, AsTypeOK, AsBinding, AsExport
  <1>7. AsInv'
    BY <1>0, <1>1, <1>3, <1>4, <1>5, <1>6 DEF AsInv, AsExport
  <1>8. \A w \in AsWorkspaces : asRows[w] >= asRows[w]
    BY <1>0, AsAssumption DEF AsRowSets
  <1> QED
    BY <1>1, <1>7, <1>8 DEF AsKeepsAccepted, AsExport, AsInv, AsPrefix

LEMMA AsEarlierExportStep ==
  ASSUME AsInv, NEW b \in AsBundleIds, NEW missing \in {{}, {"runDetails"}, AsAdditive},
         AsEarlierExport(b, missing)
  PROVE  AsInv' /\ AsKeepsAccepted
  <1> DEFINE kept == [c \in AsCollections |-> IF c \in missing THEN AsNone ELSE asLegacy.entities[c]]
             made == [AsBundle([asLegacy EXCEPT !.entities = kept], AsNoRows) EXCEPT !.missing = missing]
  <1>0. asLegacy = AsOlder /\ AsRead = AsOlder /\ AsRead' = AsRead /\ asSql' = asSql /\ asLegacy' = asLegacy
    BY AsOlderIs, AsNoneAssumption DEF AsInv, AsEarlierExport, AsRead
  <1>1. kept \in [AsCollections -> AsWriters \cup {AsNone}]
    BY <1>0, AsOlderIs DEF AsSnapshots
  <1>2. AsNoRows \in AsRowSets
    BY AsAssumption DEF AsNoRows, AsRowSets
  <1>3. made = [snapshot |-> [version |-> AsOlder.version, entities |-> kept, audit |-> AsOlder.audit],
                rows |-> AsNoRows, missing |-> missing]
    <2>1. [asLegacy EXCEPT !.entities = kept] = [version |-> AsOlder.version, entities |-> kept, audit |-> AsOlder.audit]
      BY <1>0, AsOlderIs DEF AsSnapshots
    <2>2. AsBundle([asLegacy EXCEPT !.entities = kept], AsNoRows) =
            [snapshot |-> [asLegacy EXCEPT !.entities = kept], rows |-> AsNoRows, missing |-> {}]
      BY DEF AsBundle
    <2> QED
      BY <2>1, <2>2
  <1>4. made \in AsBundleSet /\ AsBundleSound(made, AsRead, asCleaned)
    <2> DEFINE held == [version |-> AsOlder.version, entities |-> kept, audit |-> AsOlder.audit]
    <2>1. held \in AsSnapshots /\ held.version = AsOlder.version /\ held.audit = AsOlder.audit
      BY <1>1, AsOlderIs DEF AsSnapshots
    <2>2. AsDated(held)
      BY <2>1, AsOlderIs DEF AsDated
    <2> HIDE DEF held, kept
    <2>3. made = [snapshot |-> held, rows |-> AsNoRows, missing |-> missing]
      BY <1>3 DEF held
    <2>4. made \in AsBundleSet /\ made.snapshot = held
      BY <1>2, <2>1, <2>3 DEF AsBundleSet
    <2> HIDE DEF made
    <2>5. AsOlder.version \in Nat
      BY AsOlderIs DEF AsSnapshots
    <2> QED
      BY <1>0, <2>1, <2>2, <2>4, <2>5 DEF AsBundleSound
  <1>5. /\ asBundles' = [j \in AsBundleIds |-> asBundles'[j]]
        /\ \A j \in AsBundleIds : asBundles'[j] = IF j = b THEN made ELSE asBundles[j]
    BY DEF AsEarlierExport, AsInv
  <1>6. AsTypeOK'
    BY <1>4, <1>5 DEF AsInv, AsTypeOK, AsEarlierExport
  <1>7. \A j \in AsBundleIds : asBundles'[j] # AsNone => AsBundleSound(asBundles'[j], AsRead', asCleaned')
    BY <1>0, <1>4, <1>5 DEF AsInv, AsEarlierExport
  <1>8. asCurrent # AsNone => asCurrent.bundle \in AsBundleIds /\ asCurrent.bundle # b
    BY DEF AsInv, AsTypeOK, AsBinding, AsEarlierExport
  <1>9. AsInv'
    BY <1>0, <1>5, <1>6, <1>7, <1>8 DEF AsInv, AsEarlierExport
  <1>10. \A w \in AsWorkspaces : asRows[w] >= asRows[w]
    BY AsAssumption DEF AsInv, AsTypeOK, AsRowSets
  <1> QED
    BY <1>0, <1>9, <1>10 DEF AsKeepsAccepted, AsEarlierExport, AsInv, AsPrefix

LEMMA AsRestoreStep ==
  ASSUME AsInv, NEW b \in AsBundleIds, NEW cleanup \in BOOLEAN, AsRestore(b, cleanup)
  PROVE  AsInv' /\ AsKeepsAccepted
  <1> DEFINE bundle == asBundles[b]
             current == AsBaseline(bundle)
             made == AsRestored(bundle, current)
  <1>0. /\ bundle # AsNone /\ bundle \in AsBundleSet /\ AsBundleSound(bundle, AsRead, asCleaned)
        /\ bundle.snapshot \in AsSnapshots /\ bundle.rows \in AsRowSets /\ AsDated(bundle.snapshot)
    BY DEF AsRestore, AsVerified, AsInv, AsBundleSound, AsBundleSet
  <1>1. current = AsRead /\ AsRead \in AsSnapshots
    BY AsReadIs DEF AsRestore, AsBaseline
  <1>2. /\ made \in AsSnapshots
        /\ made.version = bundle.snapshot.version /\ made.audit = bundle.snapshot.audit
        /\ \A c \in AsCollections \ bundle.missing : made.entities[c] = bundle.snapshot.entities[c]
    <2> DEFINE mixed == [c \in AsCollections |->
                 IF c \in bundle.missing THEN current.entities[c] ELSE bundle.snapshot.entities[c]]
    <2>1. mixed \in [AsCollections -> AsWriters \cup {AsNone}]
      BY <1>0, <1>1 DEF AsSnapshots
    <2>2. made = [bundle.snapshot EXCEPT !.entities = mixed]
      BY DEF AsRestored
    <2>3. /\ made \in AsSnapshots /\ made.entities = mixed
          /\ made.version = bundle.snapshot.version /\ made.audit = bundle.snapshot.audit
      BY <1>0, <2>1, <2>2 DEF AsSnapshots
    <2> QED
      BY <2>3
  <1>3. asSql' = made /\ asSql' # AsNone /\ AsRead' = made /\ asLegacy' = AsNone
    BY <1>2, AsReplaced DEF AsRestore
  <1>4. asRows' = bundle.rows /\ \A w \in AsWorkspaces : asRows'[w] >= asRows[w]
    BY <1>0, AsAssumption DEF AsRestore, AsRowsKept, AsRowSets, AsInv, AsTypeOK
  <1>5. asCurrent' = [bundle |-> b, snapshot |-> made, rows |-> bundle.rows] /\ asCurrent' \in AsBinding
    BY <1>0, <1>2 DEF AsRestore, AsBinding
  <1>6. asCleaned' = (asCleaned \/ AsRead.version # bundle.snapshot.version)
        /\ asBundles' = asBundles /\ asGrants' = asGrants /\ asKept' = asKept
        /\ asStatus' = "quarantined"
    BY <1>1 DEF AsRestore
  <1>7. AsTypeOK'
    BY <1>0, <1>2, <1>3, <1>4, <1>5, <1>6 DEF AsInv, AsTypeOK, AsRestore
  <1>8. ~ asCleaned' => made.version = AsRead.version /\ made.audit = AsRead.audit
    BY <1>0, <1>2, <1>6 DEF AsBundleSound
  <1>9. \A j \in AsBundleIds : asBundles'[j] # AsNone => AsBundleSound(asBundles'[j], AsRead', asCleaned')
    BY <1>3, <1>6, <1>8 DEF AsInv, AsBundleSound
  <1>10. AsDated(AsRead')
    BY <1>0, <1>2, <1>3 DEF AsDated
  <1>11. asCurrent'.bundle = b /\ AsBindingSound(asCurrent', bundle)
    BY <1>2, <1>5 DEF AsBindingSound
  <1>12. AsInv'
    BY <1>0, <1>3, <1>6, <1>7, <1>9, <1>10, <1>11 DEF AsInv
  <1> QED
    BY <1>3, <1>4, <1>6, <1>8, <1>12 DEF AsKeepsAccepted, AsInv, AsPrefix

LEMMA AsStandingStep ==
  ASSUME AsInv,
         \/ \E b \in AsBundleIds : AsActivate(b)
         \/ AsRestart
         \/ UNCHANGED asVars
  PROVE  AsInv' /\ AsKeepsAccepted
  <1>1. AsRead' = AsRead /\ asGrants' = asKept' /\ asRows' = asRows
    BY DEF AsActivate, AsRestart, asVars, AsRead, AsInv
  <1>2. AsTypeOK'
    BY DEF AsInv, AsTypeOK, AsActivate, AsRestart, asVars
  <1>3. AsInv'
    BY <1>1, <1>2 DEF AsInv, AsActivate, AsRestart, asVars
  <1>4. \A w \in AsWorkspaces : asRows[w] >= asRows[w]
    BY AsAssumption DEF AsInv, AsTypeOK, AsRowSets
  <1> QED
    BY <1>1, <1>3, <1>4 DEF AsKeepsAccepted, AsPrefix

\* Only an activation ends a quarantine, and it finds what the restore left.
LEMMA AsActivation ==
  ASSUME AsInv, AsNext, asStatus = "quarantined", asStatus' = "active"
  PROVE  AsPutsInForce(asActivated')
  <1>1. PICK b \in AsBundleIds : AsActivate(b)
    BY DEF AsNext, AsCommand, AsViewCommand, AsRunnerProfile, AsRunnerComplete, AsMcpCommand,
       AsQualificationMirror, AsRawSourceCommand, AsMcpViewCommand, AsOwnerReadableProject,
       AsWorkspaceRepository, AsExport, AsEarlierExport, AsRestore, AsRestart, AsActive
  <1>2. AsBindingSound(asCurrent, asBundles[b])
    BY <1>1 DEF AsActivate, AsInv
  <1> QED
    BY <1>1, <1>2 DEF AsActivate, AsBindingSound, AsPutsInForce

LEMMA AsStep ==
  ASSUME AsInv, [AsNext]_asVars
  PROVE  AsInv' /\ AsKeepsAccepted
  <1>0. "workspaces" \in AsCollections /\ "runDetails" \in AsCollections
    BY DEF AsCollections
  <1>1. CASE \E k \in AsKeys, c \in AsCollections : AsCommand(k, c) \/ AsViewCommand(k, c)
    BY <1>1, AsCommandStep, AsViewCommandStep
  <1>2. CASE \E k \in AsKeys :
               AsRunnerProfile(k) \/ AsRunnerComplete(k) \/ AsMcpCommand(k) \/ AsQualificationMirror(k)
    BY <1>0, <1>2, AsCommandStep DEF AsRunnerProfile, AsRunnerComplete, AsMcpCommand, AsQualificationMirror
  <1>3. CASE \E k \in AsKeys : AsRawSourceCommand(k) \/ AsMcpViewCommand(k) \/ AsOwnerReadableProject(k)
    BY <1>0, <1>3, AsViewCommandStep, AsOwnerReadableStep DEF AsRawSourceCommand, AsMcpViewCommand
  <1>4. CASE \E w \in AsWorkspaces : AsWorkspaceRepository(w)
    BY <1>4, AsWorkspaceRepositoryStep
  <1>5. CASE \E b \in AsBundleIds : AsExport(b)
    BY <1>5, AsExportStep
  <1>6. CASE \E b \in AsBundleIds : \E missing \in {{}, {"runDetails"}, AsAdditive} : AsEarlierExport(b, missing)
    BY <1>6, AsEarlierExportStep
  <1>7. CASE \E b \in AsBundleIds : \E cleanup \in BOOLEAN : AsRestore(b, cleanup)
    BY <1>7, AsRestoreStep
  <1>8. CASE (\E b \in AsBundleIds : AsActivate(b)) \/ AsRestart \/ UNCHANGED asVars
    BY <1>8, AsStandingStep
  <1> QED
    BY <1>1, <1>2, <1>3, <1>4, <1>5, <1>6, <1>7, <1>8 DEF AsNext

\* The snapshots, bundles and custody rows have their types.
THEOREM AsTypeCorrect == AsSpec => []AsTypeOK
  <1>1. AsInv => AsTypeOK
    BY DEF AsInv
  <1>2. AsInv /\ [AsNext]_asVars => AsInv'
    BY AsStep
  <1> QED
    BY <1>1, <1>2, AsInitInv, PTL DEF AsSpec

\* For any keys, bundles and custody rows: until a clean-up two snapshots of one
\* version have one history, so that a restore, which compares versions, loses
\* nothing; custody rows never go back; Grants in memory are the stored ones; and
\* an activation puts in force the bundle it names (authorityRecoveryRestore,
\* authorityRecoveryActivate, authorityViewCommand).
THEOREM AsRecoveryIsExactCorrect == AsSpec => AsRecoveryIsExact
  <1>1. AsInv /\ [AsNext]_asVars => AsInv'
    BY AsStep
  <1>2. AsInv /\ [AsNext]_asVars =>
          [/\ AsKeepsAccepted
           /\ asStatus = "quarantined" /\ asStatus' = "active" => AsPutsInForce(asActivated')]_asVars
    BY AsStep, AsActivation
  <1> QED
    BY <1>1, <1>2, AsInitInv, PTL DEF AsSpec, AsRecoveryIsExact

-----------------------------------------------------------------------------
(* The services side by side *)

\* A step of the composition is a step of one service and leaves the others
\* alone.
LEMMA ServiceSteps ==
  ASSUME [MCNext]_mcVars
  PROVE  /\ [IdNext]_idVars /\ [OcNext]_ocVars /\ [GwNext]_gwVars /\ [HwNext]_hwVars
         /\ [ExNext]_exVars /\ [GpNext]_gpVars
         /\ [(DsNext /\ UNCHANGED diVars) \/ (DiNext /\ UNCHANGED dsVars)]_<<dsVars, diVars>>
         /\ [SaNext]_saVars /\ [AsNext]_asVars
  <1>1. CASE UNCHANGED mcVars
    BY <1>1 DEF mcVars
  <1>2. CASE MCNext
    BY <1>2 DEF MCNext, OthersKeep
  <1> QED
    BY <1>1, <1>2

\* So a behaviour of the composition is a behaviour of every service.
LEMMA ServiceBehaviours ==
  /\ MCSpec => IdSpec /\ OcSpec /\ GwSpec /\ HwSpec /\ ExSpec
  /\ MCSpec => GpSpec /\ DsSpec /\ SaSpec /\ AsSpec
  <1>1. MCInit => /\ IdInit /\ OcInit /\ GwInit /\ HwInit /\ ExInit /\ GpInit
                  /\ DsInit /\ DiInit /\ SaInit /\ AsInit
    BY DEF MCInit
  <1>2. MCSpec => IdSpec /\ OcSpec /\ GwSpec /\ HwSpec /\ ExSpec
    BY <1>1, ServiceSteps, PTL DEF MCSpec, IdSpec, OcSpec, GwSpec, HwSpec, ExSpec
  <1>3. MCSpec => GpSpec /\ DsSpec /\ SaSpec /\ AsSpec
    BY <1>1, ServiceSteps, PTL DEF MCSpec, GpSpec, DsSpec, SaSpec, AsSpec
  <1> QED
    BY <1>2, <1>3

\* Whatever is replaced, revoked, retired or evaluated late, an extension runs
\* with what was reviewed of the very package that is installed, and a scope is
\* ready only under an active profile whose required controls are met
\* (ExtensionRegistry, GovernanceProfileRegistry).
THEOREM GovernanceIsAppliedCorrect ==
  MCSpec => []GovernanceIsApplied
  <1>1. ExRunsWhatWasReviewed /\ GpReadyIsMet => GovernanceIsApplied
    BY DEF GovernanceIsApplied
  <1> QED
    BY <1>1, ServiceBehaviours, ExRunsWhatWasReviewedCorrect, GpReadyIsMetCorrect, PTL

\* Whichever service runs: its records keep their types, an Agent may do no more
\* than the Session that delegated to it, and the store of Realms hosted
\* together has left a message and an event for every change, under numbers that
\* are not given out again (RealmIdentityPolicy, HostedSaaSIsolationStore and the
\* other services of a Realm).
THEOREM RealmServicesAreConsistent ==
  MCSpec => []RealmServicesConsistent
  <1>1. /\ IdTypeOK /\ OcTypeOK /\ GwTypeOK /\ HwTypeOK /\ ExTypeOK /\ GpTypeOK
        /\ DsTypeOK /\ SaTypeOK /\ AsTypeOK /\ IdAgentWithinDelegator /\ SaStoreAgrees
        => RealmServicesConsistent
    BY DEF RealmServicesConsistent
  <1>2. MCSpec => []IdTypeOK /\ []OcTypeOK /\ []GwTypeOK /\ []HwTypeOK /\ []ExTypeOK
    BY ServiceBehaviours, IdTypeCorrect, OcTypeCorrect, GwTypeCorrect, HwTypeCorrect,
       ExTypeCorrect, PTL
  <1>3. MCSpec => []GpTypeOK /\ []DsTypeOK /\ []SaTypeOK /\ []AsTypeOK
    BY ServiceBehaviours, GpTypeCorrect, DsTypeCorrect, SaTypeCorrect, AsTypeCorrect, PTL
  <1>4. MCSpec => []IdAgentWithinDelegator /\ []SaStoreAgrees
    BY ServiceBehaviours, IdAgentWithinDelegatorCorrect, SaStoreAgreesCorrect, PTL
  <1> QED
    BY <1>1, <1>2, <1>3, <1>4, PTL
=============================================================================
