------------------------------ MODULE TablesProofs ------------------------------
(***************************************************************************)
(* What the tables of the code decide: the keys of the events against the   *)
(* list of sensitive keys and the search for an actor (AuditLog), and the   *)
(* limits of the controllers against the throttlers of the module (Routes). *)
(***************************************************************************)
EXTENDS AuditLog, Routes, TLAPS

-----------------------------------------------------------------------------
(* The audit log.                                                           *)

\* No event shows a one-time token in the log, but for the one that an email change
\* is asked for with: changeToken is not on the list of sensitive keys
\* (GlobalAuditLogListener.SENSITIVE_KEYS, EmailChangeRequestedDomainEvent).
THEOREM TokensShown ==
    \A name \in EventNames :
        Plain(name) \cap TokenKeys =
            IF name = "EMAIL_CHANGE_REQUESTED" THEN {"changeToken"} ELSE {}
<1> SUFFICES ASSUME NEW name \in EventNames
             PROVE  Plain(name) \cap TokenKeys =
                        IF name = "EMAIL_CHANGE_REQUESTED" THEN {"changeToken"} ELSE {}
    OBVIOUS
<1>1. "changeToken" \in Payload[name] <=> name = "EMAIL_CHANGE_REQUESTED"
    BY DEF EventNames, Payload,
            FailedLoginAttemptedKeys, UserLoggedInKeys,
            UserSessionRevokedKeys, UserRegisteredKeys,
            UserEmailVerifiedKeys, VerificationEmailResentKeys,
            PasswordResetRequestedKeys, UserProfileUpdatedKeys,
            AvatarUploadedKeys, AvatarRemovedKeys,
            EmailChangeRequestedKeys, UserEmailChangedKeys,
            InitialPasswordSetKeys, UserPasswordChangedKeys,
            UserAccountDeletionScheduledKeys, UserAccountRestoredKeys,
            UserAccountDeletingKeys, UserAccountDeletedKeys,
            UserMfaEnabledKeys, UserMfaDisabledKeys,
            OAuthProviderLinkedKeys, OAuthProviderUnlinkedKeys,
            ApplicantProfileCreatedKeys, ApplicantProfileUpdatedKeys,
            ApplicantDocumentUploadedKeys, ApplicantDocumentDeletedKeys,
            PrimaryDocumentSetKeys, SavedJobToggledKeys,
            EmployerProfileCreatedKeys, EmployerProfileUpdatedKeys,
            CompanyLogoUploadedKeys, CompanyLogoRemovedKeys,
            JobListingCreatedKeys, JobListingUpdatedKeys,
            JobListingClosedKeys, JobListingExpiredKeys,
            JobApplicationSubmittedKeys, JobApplicationWithdrawnKeys,
            JobApplicationStatusUpdatedKeys, InternalNoteUpdatedKeys
<1>2. TokenKeys \ SensitiveKeys = {"changeToken"}
    BY DEF TokenKeys, SensitiveKeys
<1>3. Plain(name) \cap TokenKeys = Payload[name] \cap {"changeToken"}
    BY <1>2 DEF Plain
<1> QED
    BY <1>1, <1>3

\* Every event but a failed login names an actor: GlobalAuditLogListener.extractActorId
\* finds no key it knows in that one's payload, and logs the record without an actor.
THEOREM ActorKnown ==
    \A name \in EventNames :
        ActorKey(name) = "none" <=> name = "FAILED_LOGIN_ATTEMPTED"
<1> SUFFICES ASSUME NEW name \in EventNames
             PROVE  ActorKey(name) = "none" <=> name = "FAILED_LOGIN_ATTEMPTED"
    OBVIOUS
<1> DEFINE
    UserEvents ==
        {"USER_LOGGED_IN", "USER_SESSION_REVOKED", "USER_REGISTERED",
         "USER_EMAIL_VERIFIED", "VERIFICATION_EMAIL_RESENT",
         "PASSWORD_RESET_REQUESTED", "USER_PROFILE_UPDATED",
         "AVATAR_UPLOADED", "AVATAR_REMOVED", "EMAIL_CHANGE_REQUESTED",
         "USER_EMAIL_CHANGED", "INITIAL_PASSWORD_SET",
         "USER_PASSWORD_CHANGED", "USER_ACCOUNT_DELETION_SCHEDULED",
         "USER_ACCOUNT_RESTORED", "USER_ACCOUNT_DELETING",
         "USER_ACCOUNT_DELETED", "USER_MFA_ENABLED", "USER_MFA_DISABLED",
         "OAUTH_PROVIDER_LINKED", "OAUTH_PROVIDER_UNLINKED"}
    ApplicantEvents ==
        {"APPLICANT_PROFILE_CREATED", "APPLICANT_PROFILE_UPDATED",
         "APPLICANT_DOCUMENT_UPLOADED", "APPLICANT_DOCUMENT_DELETED",
         "PRIMARY_DOCUMENT_SET", "SAVED_JOB_TOGGLED"}
    EmployerEvents ==
        {"EMPLOYER_PROFILE_CREATED", "EMPLOYER_PROFILE_UPDATED",
         "COMPANY_LOGO_UPLOADED", "COMPANY_LOGO_REMOVED",
         "JOB_LISTING_CREATED", "JOB_LISTING_UPDATED", "JOB_LISTING_CLOSED",
         "JOB_LISTING_EXPIRED"}
    ApplicationEvents ==
        {"JOB_APPLICATION_SUBMITTED", "JOB_APPLICATION_WITHDRAWN",
         "JOB_APPLICATION_STATUS_UPDATED", "INTERNAL_NOTE_UPDATED"}
<1>1. name \in UserEvents \cup ApplicantEvents \cup EmployerEvents \cup
        ApplicationEvents \cup {"FAILED_LOGIN_ATTEMPTED"}
    BY DEF EventNames
<1>2. ASSUME name \in UserEvents
      PROVE  "userId" \in Payload[name]
    BY <1>2 DEF EventNames, Payload,
            UserLoggedInKeys, UserSessionRevokedKeys, UserRegisteredKeys,
            UserEmailVerifiedKeys, VerificationEmailResentKeys,
            PasswordResetRequestedKeys, UserProfileUpdatedKeys,
            AvatarUploadedKeys, AvatarRemovedKeys, EmailChangeRequestedKeys,
            UserEmailChangedKeys, InitialPasswordSetKeys,
            UserPasswordChangedKeys, UserAccountDeletionScheduledKeys,
            UserAccountRestoredKeys, UserAccountDeletingKeys,
            UserAccountDeletedKeys, UserMfaEnabledKeys, UserMfaDisabledKeys,
            OAuthProviderLinkedKeys, OAuthProviderUnlinkedKeys
<1>3. ASSUME name \in ApplicantEvents
      PROVE  "applicantId" \in Payload[name] /\ "employerId" \notin Payload[name]
    BY <1>3 DEF EventNames, Payload,
            ApplicantProfileCreatedKeys, ApplicantProfileUpdatedKeys,
            ApplicantDocumentUploadedKeys, ApplicantDocumentDeletedKeys,
            PrimaryDocumentSetKeys, SavedJobToggledKeys
<1>4. ASSUME name \in EmployerEvents
      PROVE  "employerId" \in Payload[name] /\ "applicantId" \notin Payload[name]
    BY <1>4 DEF EventNames, Payload,
            EmployerProfileCreatedKeys, EmployerProfileUpdatedKeys,
            CompanyLogoUploadedKeys, CompanyLogoRemovedKeys,
            JobListingCreatedKeys, JobListingUpdatedKeys,
            JobListingClosedKeys, JobListingExpiredKeys
<1>5. ASSUME name \in ApplicationEvents
      PROVE  "actorId" \in Payload[name]
    BY <1>5 DEF EventNames, Payload,
            JobApplicationSubmittedKeys, JobApplicationWithdrawnKeys,
            JobApplicationStatusUpdatedKeys, InternalNoteUpdatedKeys
<1>6. name # "FAILED_LOGIN_ATTEMPTED" =>
        \/ "actorId" \in Payload[name]
        \/ "userId" \in Payload[name]
        \/ "applicantId" \in Payload[name] /\ "employerId" \notin Payload[name]
        \/ "employerId" \in Payload[name] /\ "applicantId" \notin Payload[name]
    BY <1>1, <1>2, <1>3, <1>4, <1>5
<1>7. name = "FAILED_LOGIN_ATTEMPTED" => Payload[name] = {"email", "reason"}
    BY DEF EventNames, Payload, FailedLoginAttemptedKeys
<1> QED
    BY <1>6, <1>7 DEF ActorKey

-----------------------------------------------------------------------------
(* The limits on routes.                                                    *)

\* No limit that a controller declares counts: every @Throttle speaks of a throttler
\* "default", ThrottlerModule.forRoot names its throttlers "short" and "medium", and a
\* route falls back on those (app.module.ts, the decorators of the controllers).
THEOREM DeclaredLimitsIgnored ==
    \A route \in Route : Limits(route) = Throttlers
<1> SUFFICES ASSUME NEW route \in Route
             PROVE  Limits(route) = Throttlers
    OBVIOUS
<1>1. DOMAIN Throttlers = {"short", "medium"}
    BY DEF Throttlers
<1>2. DOMAIN Declared(route) \subseteq {"default"}
    BY DEF Declared
<1>3. \A t \in DOMAIN Throttlers : t \notin DOMAIN Declared(route)
    BY <1>1, <1>2
<1>4. Limits(route) = [t \in DOMAIN Throttlers |-> Throttlers[t]]
    BY <1>3 DEF Limits
<1> QED
    BY <1>4 DEF Throttlers

=============================================================================
