-------------------------- MODULE HostedWorkspaces --------------------------
(* The hosted repository of one Workspace (ArtifactsWorkspaceAdapter): its   *)
(* fork, the tokens minted for it and its revocation, with the record that   *)
(* the store keeps in one synchronous transaction per change.  Calls         *)
(* interleave at every provider call; a provider call may fail with or       *)
(* without its effect, and the process may die.  Identities, ancestry and    *)
(* the token's lifetime are left out.                                        *)
EXTENDS Integers, FiniteSets

CONSTANTS
  HwCalls,      \* concurrent calls of the adapter
  HwMaxTokens,  \* bounds: tokens the provider makes, processes that die
  HwMaxDeaths,
  HwNone

ASSUME HwAssumption == HwMaxTokens \in Nat /\ HwMaxDeaths \in Nat

VARIABLES
  hwRecord,    \* ArtifactsWorkspaceRecord, or none
  hwProvider,  \* tokens the provider honours
  hwMade,      \* tokens made so far
  hwForked,    \* the provider has the target repository
  hwCall,      \* call -> where it is and the token or the token list it holds
  hwReturned,  \* tokens that were handed out as credentials
  hwRetired,   \* revokeWorkspace has returned
  hwDeaths

hwVars == <<hwRecord, hwProvider, hwMade, hwForked, hwCall, hwReturned, hwRetired, hwDeaths>>

HwTokens == 1 .. HwMaxTokens

HwRecord == [context : BOOLEAN, tokenIds : SUBSET HwTokens, blocked : BOOLEAN,
             unknown : BOOLEAN, pending : {"none", "fork", "mint"}]
ASSUME HwRecordAssumption == HwNone \notin HwRecord

HwReserved == [context |-> FALSE, tokenIds |-> {}, blocked |-> FALSE, unknown |-> FALSE,
               pending |-> "none"]
HwCall == [pc : {"idle", "forking", "fork", "forked", "issuing", "mint", "minted", "retire", "revoke", "revoking"},
           token : {0} \cup HwTokens, ids : SUBSET HwTokens]
HwIdle == [pc |-> "idle", token |-> 0, ids |-> {}]

HwTypeOK ==
  /\ hwRecord \in HwRecord \cup {HwNone} /\ hwProvider \subseteq HwTokens
  /\ hwMade \in 0 .. HwMaxTokens /\ hwForked \in BOOLEAN /\ hwRetired \in BOOLEAN
  /\ hwCall \in [HwCalls -> HwCall] /\ hwReturned \subseteq HwTokens
  /\ hwDeaths \in 0 .. HwMaxDeaths

HwInit ==
  /\ hwRecord = HwNone /\ hwProvider = {} /\ hwMade = 0 /\ hwForked = FALSE
  /\ hwCall = [c \in HwCalls |-> HwIdle]
  /\ hwReturned = {} /\ hwRetired = FALSE /\ hwDeaths = 0

HwAt(c, pc) == hwCall[c].pc = pc
HwGo(c, pc) == hwCall' = [hwCall EXCEPT ![c].pc = pc]
HwEnd(c) == hwCall' = [hwCall EXCEPT ![c] = HwIdle]

\* authorize: the Realm grants, and the record is not blocked.
HwAuthorized == hwRecord # HwNone /\ ~hwRecord.blocked

\* Nothing of the provider is pending or unknown.
HwSettled == hwRecord.pending = "none" /\ ~hwRecord.unknown

-----------------------------------------------------------------------------
(* materializeWorkspace, forkWorkspace *)

\* reserve
HwReserve(c) ==
  /\ HwAt(c, "idle") /\ hwRecord = HwNone
  /\ hwRecord' = HwReserved /\ HwGo(c, "forking")
  /\ UNCHANGED <<hwProvider, hwMade, hwForked, hwReturned, hwRetired, hwDeaths>>

\* A denial, or a base that does not match, before the provider was asked:
\* the reservation is released unless it has been revoked.
HwForkDenied(c) ==
  /\ HwAt(c, "forking") /\ HwEnd(c)
  /\ hwRecord' = IF hwRecord # HwNone /\ hwRecord.blocked THEN hwRecord ELSE HwNone
  /\ UNCHANGED <<hwProvider, hwMade, hwForked, hwReturned, hwRetired, hwDeaths>>

HwForkPending(c) ==
  /\ HwAt(c, "forking") /\ HwAuthorized
  /\ hwRecord' = [hwRecord EXCEPT !.pending = "fork"] /\ HwGo(c, "fork")
  /\ UNCHANGED <<hwProvider, hwMade, hwForked, hwReturned, hwRetired, hwDeaths>>

\* The provider forks; the fork comes with a token.
HwFork(c) ==
  /\ HwAt(c, "fork") /\ ~hwForked /\ hwMade < HwMaxTokens
  /\ hwForked' = TRUE /\ hwMade' = hwMade + 1 /\ hwProvider' = hwProvider \cup {hwMade + 1}
  /\ hwCall' = [hwCall EXCEPT ![c] = [@ EXCEPT !.pc = "forked", !.token = hwMade + 1]]
  /\ UNCHANGED <<hwRecord, hwReturned, hwRetired, hwDeaths>>

\* Its token is retired and the identity and the base are read back; else the
\* record stays pending.
HwBind(c) ==
  /\ HwAt(c, "forked") /\ hwProvider' = hwProvider \ {hwCall[c].token}
  /\ hwRecord' = IF hwRecord.blocked THEN hwRecord
                 ELSE [hwRecord EXCEPT !.context = TRUE, !.pending = "none"]
  /\ HwEnd(c) /\ UNCHANGED <<hwMade, hwForked, hwReturned, hwRetired, hwDeaths>>

HwBindFails(c, retired) ==
  /\ HwAt(c, "forked")
  /\ hwProvider' = IF retired THEN hwProvider \ {hwCall[c].token} ELSE hwProvider
  /\ HwEnd(c) /\ UNCHANGED <<hwRecord, hwMade, hwForked, hwReturned, hwRetired, hwDeaths>>

-----------------------------------------------------------------------------
(* issue *)

HwIssue(c) ==
  /\ HwAt(c, "idle") /\ HwAuthorized /\ hwRecord.context /\ hwRecord.pending = "none"
  /\ HwGo(c, "issuing")
  /\ UNCHANGED <<hwRecord, hwProvider, hwMade, hwForked, hwReturned, hwRetired, hwDeaths>>

HwMintUnmarked(c) ==   \* mutant: the mint is not marked before the provider is asked
  /\ HwAt(c, "issuing")
  /\ UNCHANGED hwRecord
  /\ IF HwAuthorized /\ hwRecord.pending = "none" THEN HwGo(c, "mint") ELSE HwEnd(c)
  /\ UNCHANGED <<hwProvider, hwMade, hwForked, hwReturned, hwRetired, hwDeaths>>

\* One transaction: not blocked, nothing pending, and the mint is.
HwMintPending(c) ==
  /\ HwAt(c, "issuing")
  /\ IF HwAuthorized /\ hwRecord.pending = "none"
       THEN hwRecord' = [hwRecord EXCEPT !.pending = "mint"] /\ HwGo(c, "mint")
       ELSE UNCHANGED hwRecord /\ HwEnd(c)
  /\ UNCHANGED <<hwProvider, hwMade, hwForked, hwReturned, hwRetired, hwDeaths>>

\* createToken answers: its id is recorded at once.
HwMint(c) ==
  /\ HwAt(c, "mint") /\ hwMade < HwMaxTokens
  /\ hwMade' = hwMade + 1 /\ hwProvider' = hwProvider \cup {hwMade + 1}
  /\ hwRecord' = [hwRecord EXCEPT !.tokenIds = @ \cup {hwMade + 1}]
  /\ hwCall' = [hwCall EXCEPT ![c] = [@ EXCEPT !.pc = "minted", !.token = hwMade + 1]]
  /\ UNCHANGED <<hwForked, hwReturned, hwRetired, hwDeaths>>

\* It fails, with or without a token: the inventory is unknown.
HwMintUnknown(c, made) ==
  /\ HwAt(c, "mint") /\ (made => hwMade < HwMaxTokens)
  /\ hwMade' = IF made THEN hwMade + 1 ELSE hwMade
  /\ hwProvider' = IF made THEN hwProvider \cup {hwMade + 1} ELSE hwProvider
  /\ hwRecord' = [hwRecord EXCEPT !.blocked = TRUE, !.unknown = TRUE]
  /\ HwEnd(c) /\ UNCHANGED <<hwForked, hwReturned, hwRetired, hwDeaths>>

\* The token is the one asked for and the grant still stands: it is handed out.
HwHandOut(c) ==
  /\ HwAt(c, "minted")
  /\ IF hwRecord.blocked
       THEN HwGo(c, "retire") /\ UNCHANGED <<hwRecord, hwReturned>>
       ELSE /\ hwRecord' = [hwRecord EXCEPT !.pending = "none"]
            /\ hwReturned' = hwReturned \cup {hwCall[c].token} /\ HwEnd(c)
  /\ UNCHANGED <<hwProvider, hwMade, hwForked, hwRetired, hwDeaths>>

HwMintRejected(c) ==
  /\ HwAt(c, "minted") /\ HwGo(c, "retire")
  /\ UNCHANGED <<hwRecord, hwProvider, hwMade, hwForked, hwReturned, hwRetired, hwDeaths>>

\* A rejected token is retired; when that is not confirmed the record is
\* blocked and keeps its id.
HwRetire(c, confirmed) ==
  LET token == hwCall[c].token IN
  /\ HwAt(c, "retire")
  /\ IF confirmed \/ token \notin hwRecord.tokenIds
       THEN /\ hwProvider' = hwProvider \ {token}
            /\ hwRecord' = [hwRecord EXCEPT !.tokenIds = @ \ {token}, !.pending = "none"]
       ELSE /\ hwProvider' \in {hwProvider, hwProvider \ {token}}
            /\ hwRecord' = [hwRecord EXCEPT !.blocked = TRUE, !.pending = "none",
                                            !.tokenIds = @ \cup {token}]
  /\ HwEnd(c) /\ UNCHANGED <<hwMade, hwForked, hwReturned, hwRetired, hwDeaths>>

-----------------------------------------------------------------------------
(* revokeWorkspace *)

\* Issuance is stopped first; a Workspace without a repository is done.
HwRevoke(c) ==
  /\ HwAt(c, "idle") /\ hwRecord # HwNone
  /\ hwRecord' = [hwRecord EXCEPT !.blocked = TRUE]
  /\ IF hwRecord.context
       THEN HwGo(c, "revoke") /\ UNCHANGED hwRetired
       ELSE /\ hwRetired' = (hwRetired \/ HwSettled)
            /\ UNCHANGED hwCall
  /\ UNCHANGED <<hwProvider, hwMade, hwForked, hwReturned, hwDeaths>>

\* The repository was looked up: its tokens are read, and when there is none
\* the call returns in the same step.
HwRevokeReads(c) ==
  /\ HwAt(c, "revoke")
  /\ IF hwRecord.tokenIds = {}
       THEN HwEnd(c) /\ hwRetired' = (hwRetired \/ HwSettled)
       ELSE /\ hwCall' = [hwCall EXCEPT ![c].pc = "revoking", ![c].ids = hwRecord.tokenIds]
            /\ UNCHANGED hwRetired
  /\ UNCHANGED <<hwRecord, hwProvider, hwMade, hwForked, hwReturned, hwDeaths>>

\* One token is confirmed retired; after the last one the call returns unless
\* something is pending or unknown.
HwRevokeToken(c, token) ==
  /\ HwAt(c, "revoking") /\ token \in hwCall[c].ids
  /\ hwProvider' = hwProvider \ {token}
  /\ hwRecord' = [hwRecord EXCEPT !.tokenIds = @ \ {token}]
  /\ IF hwCall[c].ids = {token}
       THEN HwEnd(c) /\ hwRetired' = (hwRetired \/ HwSettled)
       ELSE hwCall' = [hwCall EXCEPT ![c].ids = @ \ {token}] /\ UNCHANGED hwRetired
  /\ UNCHANGED <<hwMade, hwForked, hwReturned, hwDeaths>>

\* revokeToken answers false or fails, with or without its effect.
HwRevokeFails(c) ==
  /\ HwAt(c, "revoking")
  /\ hwProvider' \in {hwProvider} \cup {hwProvider \ {token} : token \in hwCall[c].ids}
  /\ HwEnd(c) /\ UNCHANGED <<hwRecord, hwMade, hwForked, hwReturned, hwRetired, hwDeaths>>

\* The process dies with its calls; the record and the provider stay.
HwDie ==
  /\ hwDeaths < HwMaxDeaths /\ hwDeaths' = hwDeaths + 1
  /\ \E c \in HwCalls : ~HwAt(c, "idle")
  /\ hwCall' = [c \in HwCalls |-> HwIdle]
  /\ UNCHANGED <<hwRecord, hwProvider, hwMade, hwForked, hwReturned, hwRetired>>

HwNext ==
  \/ HwDie
  \/ \E c \in HwCalls :
       \/ HwReserve(c) \/ HwForkDenied(c) \/ HwForkPending(c) \/ HwFork(c) \/ HwBind(c)
       \/ HwIssue(c) \/ HwMintPending(c) \/ HwMint(c) \/ HwHandOut(c) \/ HwMintRejected(c)
       \/ HwRevoke(c) \/ HwRevokeReads(c) \/ HwRevokeFails(c)
       \/ \E b \in BOOLEAN : HwBindFails(c, b) \/ HwMintUnknown(c, b) \/ HwRetire(c, b)
       \/ \E token \in HwTokens : HwRevokeToken(c, token)

HwSpec == HwInit /\ [][HwNext]_hwVars

-----------------------------------------------------------------------------
(* Properties *)

\* Once revokeWorkspace has returned, no token that was handed out is honoured
\* any more, and one that still is (a mint that was under way) is on record for
\* the next revocation, whatever fork, mint or retirement was under way or was
\* cut off (artifacts-workspace.ts 245-292, 295-319).
HwRevokedHasNoToken ==
  hwRetired => /\ hwProvider \cap hwReturned = {}
               /\ hwProvider \subseteq hwRecord.tokenIds
=============================================================================
