------------------------- MODULE ProviderOperations -------------------------
(* One qualification operation against a customer's provider                 *)
(* (CustomerProviderQualificationCoordinator): run, resume, the callback of  *)
(* a deferred transport, cleanup, export and restore.  Calls interleave at   *)
(* every provider call; the record is written by compare-and-set on the      *)
(* digest of its checkpoint, which is modelled by a version number.  Owner   *)
(* checks, identities and the five provider surfaces are left out.           *)
EXTENDS Integers

CONSTANTS
  PoCalls,        \* concurrent calls of the coordinator
  PoMaxVersions,  \* bounds: writes of the record, losses of the store
  PoMaxLosses,
  PoNone

ASSUME PoAssumption == PoMaxVersions \in Nat \ {0} /\ PoMaxLosses \in Nat

VARIABLES
  poRecord,    \* the operation's record, or none
  poResource,  \* the provider holds the operation's object
  poCall,      \* call -> where it is, the record it read, what it will write
  poMessages,  \* deferred transport messages: the checkpoint they carry
  poVersion,   \* checkpoints written so far
  poBundle,    \* an exported recovery bundle
  poLosses

poVars == <<poRecord, poResource, poCall, poMessages, poVersion, poBundle, poLosses>>

PoStates == {"pending", "succeeded", "degraded", "blocked", "revoked", "indeterminate"}
\* "revoked" is blocked with the provider status 401-authorization-revoked.
PoRecord == [state : PoStates, version : 1 .. PoMaxVersions, callback : 0 .. PoMaxVersions,
             cleaned : BOOLEAN]
ASSUME PoNoneAssumption == PoNone \notin PoRecord

PoBlank == [state |-> "pending", version |-> 1, callback |-> 0, cleaned |-> FALSE]
PoCallRecord == [pc : {"idle", "create", "reopen", "execute", "readback", "callback", "cleanup", "put"},
                 base : PoRecord, next : PoRecord]
PoIdle == [pc |-> "idle", base |-> PoBlank, next |-> PoBlank]

PoTypeOK ==
  /\ poRecord \in PoRecord \cup {PoNone} /\ poBundle \in PoRecord \cup {PoNone}
  /\ poResource \in BOOLEAN /\ poCall \in [PoCalls -> PoCallRecord]
  /\ poMessages \subseteq 1 .. PoMaxVersions
  /\ poVersion \in 0 .. PoMaxVersions /\ poLosses \in 0 .. PoMaxLosses

PoInit ==
  /\ poRecord = PoNone /\ poBundle = PoNone /\ poResource = FALSE
  /\ poCall = [c \in PoCalls |-> PoIdle]
  /\ poMessages = {} /\ poVersion = 0 /\ poLosses = 0

-----------------------------------------------------------------------------
(* The store *)

PoPutWhatever(c) ==   \* mutant: put without the expected digest
  /\ poVersion < PoMaxVersions /\ poVersion' = poVersion + 1
  /\ poRecord' = [poCall[c].next EXCEPT !.version = poVersion + 1]

\* put: refused as stale when the record is not the one the call has read.
PoPut(c) ==
  /\ poVersion < PoMaxVersions
  /\ IF poRecord = poCall[c].base
       THEN /\ poVersion' = poVersion + 1
            /\ poRecord' = [poCall[c].next EXCEPT !.version = poVersion + 1]
       ELSE UNCHANGED <<poVersion, poRecord>>

\* nextRecord: the patch on the record the call has read.
PoWillPut(c, next) == poCall' = [poCall EXCEPT ![c].pc = "put", ![c].next = next]

PoEndPut(c) ==
  /\ poCall[c].pc = "put" /\ PoPut(c)
  /\ poCall' = [poCall EXCEPT ![c] = PoIdle]
  /\ UNCHANGED <<poResource, poMessages, poBundle, poLosses>>

-----------------------------------------------------------------------------
(* run and resume *)

PoRun(c) ==
  /\ poCall[c].pc = "idle" /\ poRecord = PoNone
  /\ poCall' = [poCall EXCEPT ![c].pc = "create"]
  /\ UNCHANGED <<poRecord, poResource, poMessages, poVersion, poBundle, poLosses>>

\* The first put expects no record.
PoCreate(c) ==
  /\ poCall[c].pc = "create" /\ poVersion < PoMaxVersions
  /\ IF poRecord = PoNone
       THEN /\ poRecord' = [PoBlank EXCEPT !.version = poVersion + 1]
            /\ poVersion' = poVersion + 1
            /\ poCall' = [poCall EXCEPT ![c].pc = "execute", ![c].base = poRecord']
       ELSE /\ poCall' = [poCall EXCEPT ![c] = PoIdle]
            /\ UNCHANGED <<poRecord, poVersion>>
  /\ UNCHANGED <<poResource, poMessages, poBundle, poLosses>>

PoResumable(record) == record.state \in {"degraded", "indeterminate", "revoked"}

\* A pending record is executed again as it is.
PoResume(c) ==
  /\ poCall[c].pc = "idle" /\ poRecord # PoNone
  /\ poRecord.state = "pending" \/ PoResumable(poRecord)
  /\ poCall' = [poCall EXCEPT ![c].base = poRecord,
                  ![c].pc = IF poRecord.state = "pending" THEN "execute" ELSE "reopen"]
  /\ UNCHANGED <<poRecord, poResource, poMessages, poVersion, poBundle, poLosses>>

PoReopen(c) ==
  /\ poCall[c].pc = "reopen" /\ poVersion < PoMaxVersions
  /\ IF poRecord = poCall[c].base
       THEN /\ poRecord' = [poRecord EXCEPT !.state = "pending", !.version = poVersion + 1]
            /\ poVersion' = poVersion + 1
            /\ poCall' = [poCall EXCEPT ![c].pc = "execute", ![c].base = poRecord']
       ELSE /\ poCall' = [poCall EXCEPT ![c] = PoIdle]
            /\ UNCHANGED <<poRecord, poVersion>>
  /\ UNCHANGED <<poResource, poMessages, poBundle, poLosses>>

-----------------------------------------------------------------------------
(* execute *)

\* The adapter accepts: the object exists and is read back.
PoAccepted(c) ==
  /\ poCall[c].pc = "execute" /\ poResource' = TRUE
  /\ poCall' = [poCall EXCEPT ![c].pc = "readback"]
  /\ UNCHANGED <<poRecord, poMessages, poVersion, poBundle, poLosses>>

\* It fails, after it made the object or before.
PoFailed(c, state, made) ==
  /\ poCall[c].pc = "execute" /\ state \in {"degraded", "blocked", "revoked", "indeterminate"}
  /\ poResource' = (poResource \/ made)
  /\ PoWillPut(c, [poCall[c].base EXCEPT !.state = state])
  /\ UNCHANGED <<poRecord, poMessages, poVersion, poBundle, poLosses>>

\* A queue or a workflow took it: the callback will name this checkpoint.
PoDeferred(c) ==
  /\ poCall[c].pc = "execute"
  /\ poMessages' = poMessages \cup {poCall[c].base.version}
  /\ PoWillPut(c, [poCall[c].base EXCEPT !.state = "indeterminate", !.callback = poCall[c].base.version])
  /\ UNCHANGED <<poRecord, poResource, poVersion, poBundle, poLosses>>

PoReadBack(c, answered) ==
  /\ poCall[c].pc = "readback"
  /\ PoWillPut(c, [poCall[c].base EXCEPT
       !.state = IF poResource /\ answered THEN "succeeded" ELSE "indeterminate"])
  /\ UNCHANGED <<poRecord, poResource, poMessages, poVersion, poBundle, poLosses>>

-----------------------------------------------------------------------------
(* The callback of a deferred transport, and cleanup *)

\* A callback for a checkpoint that is neither the record's nor the one its
\* transport was given changes nothing.  The message may come again.
PoCallback(c, v) ==
  /\ poCall[c].pc = "idle" /\ v \in poMessages /\ poRecord # PoNone
  /\ v \in {poRecord.version, poRecord.callback}
  /\ poResource' = TRUE
  /\ poCall' = [poCall EXCEPT ![c].pc = "callback", ![c].base = poRecord]
  /\ UNCHANGED <<poRecord, poMessages, poVersion, poBundle, poLosses>>

PoAcceptCallback(c) ==
  /\ poCall[c].pc = "callback"
  /\ IF poResource THEN PoWillPut(c, [poCall[c].base EXCEPT !.state = "succeeded"])
                   ELSE poCall' = [poCall EXCEPT ![c] = PoIdle]
  /\ UNCHANGED <<poRecord, poResource, poMessages, poVersion, poBundle, poLosses>>

PoCleanup(c) ==
  /\ poCall[c].pc = "idle" /\ poRecord # PoNone /\ ~ poRecord.cleaned
  /\ poCall' = [poCall EXCEPT ![c].pc = "cleanup", ![c].base = poRecord]
  /\ UNCHANGED <<poRecord, poResource, poMessages, poVersion, poBundle, poLosses>>

PoCleaned(c, done) ==
  /\ poCall[c].pc = "cleanup" /\ poResource' = (poResource /\ ~ done)
  /\ PoWillPut(c, [poCall[c].base EXCEPT !.cleaned = done])
  /\ UNCHANGED <<poRecord, poMessages, poVersion, poBundle, poLosses>>

-----------------------------------------------------------------------------
(* Recovery *)

PoExport ==
  /\ poRecord # PoNone /\ poBundle' = poRecord
  /\ UNCHANGED <<poRecord, poResource, poCall, poMessages, poVersion, poLosses>>

\* The store is lost with the Realm's object; calls under way are cut off.
PoLose ==
  /\ poLosses < PoMaxLosses /\ poLosses' = poLosses + 1
  /\ poRecord' = PoNone /\ poCall' = [c \in PoCalls |-> PoIdle]
  /\ UNCHANGED <<poResource, poMessages, poVersion, poBundle>>

\* A bundle is restored beside equal records only.
PoRestore ==
  /\ poBundle # PoNone /\ poRecord = PoNone
  /\ poRecord' = poBundle
  /\ UNCHANGED <<poResource, poCall, poMessages, poVersion, poBundle, poLosses>>

PoNext ==
  \/ \E c \in PoCalls :
       \/ PoRun(c) \/ PoCreate(c) \/ PoResume(c) \/ PoReopen(c) \/ PoEndPut(c)
       \/ PoAccepted(c) \/ PoDeferred(c)
       \/ \E state \in PoStates, made \in BOOLEAN : PoFailed(c, state, made)
       \/ \E b \in BOOLEAN : PoReadBack(c, b) \/ PoCleaned(c, b)
       \/ \E v \in poMessages : PoCallback(c, v)
       \/ PoAcceptCallback(c) \/ PoCleanup(c)
  \/ PoExport \/ PoLose \/ PoRestore

PoSpec == PoInit /\ [][PoNext]_poVars

-----------------------------------------------------------------------------

\* A succeeded operation stays succeeded: a late failure of another attempt, a
\* callback, a cleanup or a restore never puts an older outcome over it, unless
\* the store itself is lost (put with the expected state digest; execute,
\* resume, acceptCallback, cleanup, restore).
PoSucceededStays ==
  [][poRecord # PoNone /\ poRecord.state = "succeeded" /\ poLosses' = poLosses
       => poRecord' # PoNone /\ poRecord'.state = "succeeded"]_poVars
=============================================================================
