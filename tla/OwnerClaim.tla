----------------------------- MODULE OwnerClaim -----------------------------
(* How a Realm gets its owner, and how the owner lets a client in            *)
(* (apps/realm-worker: passkey-owner.ts, oauth-provider.ts and the           *)
(* /identity routes of the coordinator in index.ts).                         *)
(* Three stores take part and no transaction spans them: the D1 tables of    *)
(* owners, passkeys and pending claims; the kernel, a Durable Object that    *)
(* runs one route at a time; and the OAuth provider.  A request may stop at  *)
(* any await: its answer is lost, its effects stay.                          *)
EXTENDS Integers, FiniteSets

CONSTANTS
  OcCeremonies,   \* passkey registrations; each has a user and a credential of its own
  OcConsents,     \* OAuth authorizations the owner is asked to consent to
  OcSubmissions,  \* requests that submit a consent form (a double click is two)
  OcNone

ASSUME OcAssumption == OcNone \notin OcCeremonies /\ IsFiniteSet(OcSubmissions)

VARIABLES
  ocStep,      \* ceremony -> where its register/verify request is
  ocResume,    \* ceremony -> where a register/resume request for its claim is
  ocClaim,     \* ceremony -> state of its row of anyam_realm_owner_claims
  ocKernel,    \* the ceremony whose user is the kernel's owner
  ocOwner,     \* the ceremony in the row of anyam_realm_owners
  ocPasskeys,  \* the ceremonies whose credential is in anyam_realm_passkeys
  ocSession,   \* the owner's session: none, active or revoked in the kernel
  ocConsent,   \* consent -> none, open (with the session that created it), consumed
  ocSubmit,    \* <<consent, submission>> -> where the submission is
  ocGrant,     \* <<consent, submission>> -> the provider's grant
  ocRecord     \* <<consent, submission>> -> the coordinator's record of it

ocVars == <<ocStep, ocResume, ocClaim, ocKernel, ocOwner, ocPasskeys, ocSession,
            ocConsent, ocSubmit, ocGrant, ocRecord>>
ocClaimVars == <<ocStep, ocResume, ocClaim, ocKernel, ocOwner, ocPasskeys>>
ocGrantVars == <<ocConsent, ocSubmit, ocGrant, ocRecord>>

OcSteps == {"idle", "challenged", "checked", "claimed", "enrolled", "marked", "persist", "row", "done"}
OcClaimStates == {"none", "verified-passkey", "kernel-enrolled", "d1-persisted"}
OcForms == OcConsents \X OcSubmissions
OcGrantStates == {"none", "active", "revoked"}

OcTypeOK ==
  /\ ocStep \in [OcCeremonies -> OcSteps] /\ ocResume \in [OcCeremonies -> OcSteps]
  /\ ocClaim \in [OcCeremonies -> OcClaimStates]
  /\ {ocKernel, ocOwner} \subseteq OcCeremonies \cup {OcNone}
  /\ ocPasskeys \subseteq OcCeremonies
  /\ ocSession \in OcGrantStates
  /\ ocConsent \in [OcConsents -> {"none", "open", "consumed"}]
  /\ ocSubmit \in [OcForms -> {"idle", "inspected", "consumed", "granted", "handed", "stopped"}]
  /\ ocGrant \in [OcForms -> OcGrantStates] /\ ocRecord \in [OcForms -> OcGrantStates]

OcInit ==
  /\ ocStep = [r \in OcCeremonies |-> "idle"] /\ ocResume = [r \in OcCeremonies |-> "idle"]
  /\ ocClaim = [r \in OcCeremonies |-> "none"]
  /\ ocKernel = OcNone /\ ocOwner = OcNone /\ ocPasskeys = {} /\ ocSession = "none"
  /\ ocConsent = [c \in OcConsents |-> "none"]
  /\ ocSubmit = [f \in OcForms |-> "idle"]
  /\ ocGrant = [f \in OcForms |-> "none"] /\ ocRecord = [f \in OcForms |-> "none"]

-----------------------------------------------------------------------------
(* Registration of the first owner *)

\* pendingOwnerClaim
OcPending == {r \in OcCeremonies : ocClaim[r] \notin {"none", "d1-persisted"}}

\* registrationOptions: the challenge is kept by the coordinator.
OcOptions(r) ==
  /\ ocStep[r] = "idle"
  /\ ocOwner = OcNone /\ OcPending = {}
  /\ ocStep' = [ocStep EXCEPT ![r] = "challenged"]
  /\ UNCHANGED <<ocResume, ocClaim, ocKernel, ocOwner, ocPasskeys, ocSession, ocGrantVars>>

\* registrationVerify consumes the challenge and looks for an owner; whether
\* another claim became pending since the options were given is not looked at.
OcConsume(r) ==
  /\ ocStep[r] = "challenged"
  /\ ocStep' = [ocStep EXCEPT ![r] = IF ocOwner = OcNone THEN "checked" ELSE "done"]
  /\ UNCHANGED <<ocResume, ocClaim, ocKernel, ocOwner, ocPasskeys, ocSession, ocGrantVars>>

\* The response is verified and the claim is written.
OcWriteClaim(r) ==
  /\ ocStep[r] = "checked"
  /\ ocClaim' = [ocClaim EXCEPT ![r] = "verified-passkey"]
  /\ ocStep' = [ocStep EXCEPT ![r] = "claimed"]
  /\ UNCHANGED <<ocResume, ocKernel, ocOwner, ocPasskeys, ocSession, ocGrantVars>>

\* The kernel's answer to /identity/owner-enroll: one owner, and a repeated call
\* of the owner's own credential is answered as already done.
OcEnrollAnswer(r) ==
  CASE ocKernel = OcNone -> "owner-enrolled"
    [] ocKernel = r -> "owner-already-enrolled"
    [] OTHER -> "owner.exists"

OcEnrolls(r) == ocKernel' = IF ocKernel = OcNone THEN r ELSE ocKernel

\* registrationVerify goes on only after a first enrolment; any refusal leaves
\* the claim pending.
OcEnroll(r) ==
  /\ ocStep[r] = "claimed"
  /\ OcEnrolls(r)
  /\ ocStep' = [ocStep EXCEPT ![r] = IF OcEnrollAnswer(r) = "owner-enrolled" THEN "enrolled" ELSE "done"]
  /\ UNCHANGED <<ocResume, ocClaim, ocOwner, ocPasskeys, ocSession, ocGrantVars>>

\* updateOwnerClaim(kernel-enrolled), by either request.
OcMark(r) ==
  /\ \/ ocStep[r] = "enrolled" /\ ocStep' = [ocStep EXCEPT ![r] = "marked"] /\ UNCHANGED ocResume
     \/ ocResume[r] = "enrolled" /\ ocResume' = [ocResume EXCEPT ![r] = "marked"] /\ UNCHANGED ocStep
  /\ ocClaim' = [ocClaim EXCEPT ![r] = "kernel-enrolled"]
  /\ UNCHANGED <<ocKernel, ocOwner, ocPasskeys, ocSession, ocGrantVars>>

\* persistOwnerClaim, read: another owner in the row is a conflict.
OcMayPersist(r) == ocOwner \in {OcNone, r}

OcReadOwner(r) ==
  LET next == IF OcMayPersist(r) THEN "persist" ELSE "done" IN
  /\ \/ ocStep[r] = "marked" /\ ocStep' = [ocStep EXCEPT ![r] = next] /\ UNCHANGED ocResume
     \/ ocResume[r] = "marked" /\ ocResume' = [ocResume EXCEPT ![r] = next] /\ UNCHANGED ocStep
  /\ UNCHANGED <<ocClaim, ocKernel, ocOwner, ocPasskeys, ocSession, ocGrantVars>>

\* persistOwnerClaim, the batch of two INSERT OR IGNORE.
OcPersist(r) ==
  /\ \/ ocStep[r] = "persist" /\ ocStep' = [ocStep EXCEPT ![r] = "row"] /\ UNCHANGED ocResume
     \/ ocResume[r] = "persist" /\ ocResume' = [ocResume EXCEPT ![r] = "row"] /\ UNCHANGED ocStep
  /\ ocOwner' = IF ocOwner = OcNone THEN r ELSE ocOwner
  /\ ocPasskeys' = ocPasskeys \cup {r}
  /\ UNCHANGED <<ocClaim, ocKernel, ocSession, ocGrantVars>>

\* persistOwnerClaim, updateOwnerClaim(d1-persisted).
OcPersisted(r) ==
  /\ \/ ocStep[r] = "row" /\ ocStep' = [ocStep EXCEPT ![r] = "done"] /\ UNCHANGED ocResume
     \/ ocResume[r] = "row" /\ ocResume' = [ocResume EXCEPT ![r] = "done"] /\ UNCHANGED ocStep
  /\ ocClaim' = [ocClaim EXCEPT ![r] = "d1-persisted"]
  /\ UNCHANGED <<ocKernel, ocOwner, ocPasskeys, ocSession, ocGrantVars>>

\* A request that stops at an await: an error, a lost connection, an eviction.
OcStops(r) ==
  /\ \/ ocStep[r] \notin {"idle", "done"} /\ ocStep' = [ocStep EXCEPT ![r] = "done"] /\ UNCHANGED ocResume
     \/ ocResume[r] \notin {"idle", "done"} /\ ocResume' = [ocResume EXCEPT ![r] = "idle"] /\ UNCHANGED ocStep
  /\ UNCHANGED <<ocClaim, ocKernel, ocOwner, ocPasskeys, ocSession, ocGrantVars>>

\* resumeOwnerClaim of a claim that is verified: the kernel is asked again, and
\* the answer that an owner exists counts as this claim's enrolment, whoever
\* that owner is.
OcResumeVerified(r) ==
  /\ ocResume[r] = "idle" /\ ocClaim[r] = "verified-passkey"
  /\ OcEnrolls(r)
  /\ ocResume' = [ocResume EXCEPT ![r] = "enrolled"]
  /\ UNCHANGED <<ocStep, ocClaim, ocOwner, ocPasskeys, ocSession, ocGrantVars>>

\* resumeOwnerClaim of a claim the kernel has enrolled.
OcResumeEnrolled(r) ==
  /\ ocResume[r] = "idle" /\ ocClaim[r] = "kernel-enrolled"
  /\ ocResume' = [ocResume EXCEPT ![r] = "marked"]
  /\ UNCHANGED <<ocStep, ocClaim, ocKernel, ocOwner, ocPasskeys, ocSession, ocGrantVars>>

-----------------------------------------------------------------------------
(* The owner's session *)

\* ownerKernelSession: the cookie's session, as the kernel sees it now.
OcValidated == ocSession = "active"

\* authenticationVerify: the credential is looked up in D1 and the session is
\* the kernel's, which knows only its own owner's passkey.
OcAuthenticate ==
  /\ ocOwner # OcNone
  /\ ocKernel \in ocPasskeys
  /\ ocSession = "none"
  /\ ocSession' = "active"
  /\ UNCHANGED <<ocClaimVars, ocGrantVars>>

OcRevokeSession ==
  /\ ocSession = "active"
  /\ ocSession' = "revoked"
  /\ UNCHANGED <<ocClaimVars, ocGrantVars>>

-----------------------------------------------------------------------------
(* Consent and grant *)

\* anyamPasskeyOwnerAuthorization
OcAuthorized == OcValidated

\* authorizeRequest, GET: the consent is created under the owner's session.
OcCreateConsent(c) ==
  /\ OcAuthorized /\ ocConsent[c] = "none"
  /\ ocConsent' = [ocConsent EXCEPT ![c] = "open"]
  /\ UNCHANGED <<ocClaimVars, ocSession, ocSubmit, ocGrant, ocRecord>>

\* authorizeRequest, POST: the consent is inspected and the session validated.
OcSubmitForm(f) ==
  /\ ocSubmit[f] = "idle"
  /\ OcAuthorized /\ ocConsent[f[1]] = "open"
  /\ ocSubmit' = [ocSubmit EXCEPT ![f] = "inspected"]
  /\ UNCHANGED <<ocClaimVars, ocSession, ocConsent, ocGrant, ocRecord>>

OcConsumeOpened(f) ==   \* mutant: the consent that was inspected is taken as consumed
  /\ ocSubmit[f] = "inspected"
  /\ ocConsent' = [ocConsent EXCEPT ![f[1]] = "consumed"]
  /\ ocSubmit' = [ocSubmit EXCEPT ![f] = "consumed"]
  /\ UNCHANGED <<ocClaimVars, ocSession, ocGrant, ocRecord>>

\* /identity/oauth-consent/consume deletes the record, or refuses.
OcConsumeConsent(f) ==
  /\ ocSubmit[f] = "inspected"
  /\ IF ocSession = "active" /\ ocConsent[f[1]] = "open"
       THEN /\ ocConsent' = [ocConsent EXCEPT ![f[1]] = "consumed"]
            /\ \E next \in {"consumed", "stopped"} :   \* approved, or denied
                 ocSubmit' = [ocSubmit EXCEPT ![f] = next]
       ELSE /\ ocSubmit' = [ocSubmit EXCEPT ![f] = "stopped"]
            /\ UNCHANGED ocConsent
  /\ UNCHANGED <<ocClaimVars, ocSession, ocGrant, ocRecord>>

\* provider.completeAuthorization
OcComplete(f) ==
  /\ ocSubmit[f] = "consumed"
  /\ ocGrant' = [ocGrant EXCEPT ![f] = "active"]
  /\ ocSubmit' = [ocSubmit EXCEPT ![f] = "granted"]
  /\ UNCHANGED <<ocClaimVars, ocSession, ocConsent, ocRecord>>

\* /identity/oauth-grant/record; then the client gets its code.  When the
\* record is refused the provider's grant is taken back, if that call succeeds.
OcRecordGrant(f) ==
  /\ ocSubmit[f] = "granted"
  /\ IF ocSession = "active"
       THEN /\ ocRecord' = [ocRecord EXCEPT ![f] = "active"]
            /\ ocSubmit' = [ocSubmit EXCEPT ![f] = "handed"]
            /\ UNCHANGED ocGrant
       ELSE /\ \E left \in {"active", "revoked"} : ocGrant' = [ocGrant EXCEPT ![f] = left]
            /\ ocSubmit' = [ocSubmit EXCEPT ![f] = "stopped"]
            /\ UNCHANGED ocRecord
  /\ UNCHANGED <<ocClaimVars, ocSession, ocConsent>>

\* A submission that stops at an await.
OcSubmissionStops(f) ==
  /\ ocSubmit[f] \in {"inspected", "consumed", "granted"}
  /\ ocSubmit' = [ocSubmit EXCEPT ![f] = "stopped"]
  /\ UNCHANGED <<ocClaimVars, ocSession, ocConsent, ocGrant, ocRecord>>

\* revokeOAuthGrant up to the provider.
OcRevokeAtProvider(f) ==
  /\ OcValidated /\ ocRecord[f] = "active"
  /\ ocGrant' = [ocGrant EXCEPT ![f] = "revoked"]
  /\ UNCHANGED <<ocClaimVars, ocSession, ocConsent, ocSubmit, ocRecord>>

\* revokeOAuthGrant, /identity/oauth-grant/mark-revoked after the provider did it.
OcMarkRevoked(f) ==
  /\ OcValidated /\ ocRecord[f] = "active" /\ ocGrant[f] = "revoked"
  /\ ocRecord' = [ocRecord EXCEPT ![f] = "revoked"]
  /\ UNCHANGED <<ocClaimVars, ocSession, ocConsent, ocSubmit, ocGrant>>

OcNext ==
  \/ \E r \in OcCeremonies :
       \/ OcOptions(r) \/ OcConsume(r) \/ OcWriteClaim(r) \/ OcEnroll(r) \/ OcMark(r)
       \/ OcReadOwner(r) \/ OcPersist(r) \/ OcPersisted(r) \/ OcStops(r)
       \/ OcResumeVerified(r) \/ OcResumeEnrolled(r)
  \/ OcAuthenticate \/ OcRevokeSession
  \/ \E c \in OcConsents : OcCreateConsent(c)
  \/ \E f \in OcForms :
       \/ OcSubmitForm(f) \/ OcConsumeConsent(f) \/ OcComplete(f) \/ OcRecordGrant(f)
       \/ OcSubmissionStops(f) \/ OcRevokeAtProvider(f) \/ OcMarkRevoked(f)

OcSpec == OcInit /\ [][OcNext]_ocVars

-----------------------------------------------------------------------------

\* However often a consent is submitted and wherever a submission stops, it
\* gives the provider one grant at most; a client that holds a code has a grant
\* the coordinator knows of, and a grant reported as revoked is revoked where it
\* counts, at the provider (authorizeRequest, revokeOAuthGrant).
OcGrantsAgree ==
  /\ \A c \in OcConsents : Cardinality({n \in OcSubmissions : ocGrant[<<c, n>>] # "none"}) <= 1
  /\ \A f \in OcForms : /\ ocSubmit[f] = "handed" => ocRecord[f] # "none"
                        /\ ocRecord[f] = "revoked" => ocGrant[f] = "revoked"

\* "first-owner enrollment is unique" (index.ts:2445): the owner that D1 knows
\* is the owner that the kernel knows (registrationVerify, resumeOwnerClaim).
OcOwnersAgree == ocOwner # OcNone => ocOwner = ocKernel
=============================================================================
