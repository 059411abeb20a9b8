------------------------------- MODULE DomainEvents -------------------------------
(***************************************************************************)
(* What the events of both contexts carry: the keys of each payload.  The   *)
(* listeners and the audit log know no more of an event than this; eventName *)
(* and occurredOn come with every one.                                       *)
(***************************************************************************)
\* Authentication and sessions.
FailedLoginAttemptedKeys == {"email", "reason"}
UserLoggedInKeys == {"userId", "sessionId"}
UserSessionRevokedKeys == {"userId", "sessionId"}
UserRegisteredKeys == {"userId", "email", "verificationToken", "tokenExpiresInMs"}
UserEmailVerifiedKeys == {"userId", "email"}
VerificationEmailResentKeys ==
    {"userId", "email", "verificationToken", "tokenExpiresInMs"}
PasswordResetRequestedKeys == {"userId", "email", "resetToken", "tokenExpiresInMs"}

\* Account and profile.
UserProfileUpdatedKeys == {"userId", "nameUpdated", "imageUpdated"}
AvatarUploadedKeys == {"userId", "avatarPublicId"}
AvatarRemovedKeys == {"userId"}
EmailChangeRequestedKeys == {"userId", "email", "changeToken", "tokenExpiresInMs"}
UserEmailChangedKeys == {"userId", "oldEmail", "newEmail"}
InitialPasswordSetKeys == {"userId"}
UserPasswordChangedKeys == {"userId", "email"}
UserAccountDeletionScheduledKeys == {"userId", "email", "scheduledForDeletionAt"}
UserAccountRestoredKeys == {"userId", "email"}
UserAccountDeletingKeys == {"userId"}
UserAccountDeletedKeys == {"userId", "email", "avatarImage"}

\* MFA and OAuth.
UserMfaEnabledKeys == {"userId", "email"}
UserMfaDisabledKeys == {"userId", "email"}
OAuthProviderLinkedKeys == {"userId", "provider"}
OAuthProviderUnlinkedKeys == {"userId", "provider"}

\* Applicants.
ApplicantProfileCreatedKeys == {"applicantId", "firstName", "lastName"}
ApplicantProfileUpdatedKeys == {"applicantId"}
ApplicantDocumentUploadedKeys == {"applicantId", "documentId", "type"}
ApplicantDocumentDeletedKeys == {"applicantId", "documentId"}
PrimaryDocumentSetKeys == {"applicantId", "documentId"}
SavedJobToggledKeys == {"applicantId", "jobListingId", "isSaved"}

\* Employers.
EmployerProfileCreatedKeys == {"employerId", "companyName"}
EmployerProfileUpdatedKeys == {"employerId", "companyName"}
CompanyLogoUploadedKeys == {"employerId", "logoPublicId"}
CompanyLogoRemovedKeys == {"employerId"}

\* Jobs.
JobListingCreatedKeys == {"jobListingId", "employerId", "title"}
JobListingUpdatedKeys == {"jobListingId", "employerId"}
JobListingClosedKeys == {"jobListingId", "employerId", "reason"}
JobListingExpiredKeys == {"jobListingId", "employerId"}

\* Applications.
JobApplicationSubmittedKeys ==
    {"actorId", "applicationId", "applicantId", "jobListingId", "employerId"}
JobApplicationWithdrawnKeys ==
    {"actorId", "applicationId", "applicantId", "jobListingId", "employerId"}
JobApplicationStatusUpdatedKeys ==
    {"actorId", "applicationId", "applicantId", "newStatus", "employerId"}
InternalNoteUpdatedKeys == {"actorId", "applicationId", "employerId", "note"}

EventNames ==
    {"FAILED_LOGIN_ATTEMPTED", "USER_LOGGED_IN", "USER_SESSION_REVOKED",
     "USER_REGISTERED", "USER_EMAIL_VERIFIED", "VERIFICATION_EMAIL_RESENT",
     "PASSWORD_RESET_REQUESTED", "USER_PROFILE_UPDATED", "AVATAR_UPLOADED",
     "AVATAR_REMOVED", "EMAIL_CHANGE_REQUESTED", "USER_EMAIL_CHANGED",
     "INITIAL_PASSWORD_SET", "USER_PASSWORD_CHANGED",
     "USER_ACCOUNT_DELETION_SCHEDULED", "USER_ACCOUNT_RESTORED",
     "USER_ACCOUNT_DELETING", "USER_ACCOUNT_DELETED", "USER_MFA_ENABLED",
     "USER_MFA_DISABLED", "OAUTH_PROVIDER_LINKED",
     "OAUTH_PROVIDER_UNLINKED", "APPLICANT_PROFILE_CREATED",
     "APPLICANT_PROFILE_UPDATED", "APPLICANT_DOCUMENT_UPLOADED",
     "APPLICANT_DOCUMENT_DELETED", "PRIMARY_DOCUMENT_SET",
     "SAVED_JOB_TOGGLED", "EMPLOYER_PROFILE_CREATED",
     "EMPLOYER_PROFILE_UPDATED", "COMPANY_LOGO_UPLOADED",
     "COMPANY_LOGO_REMOVED", "JOB_LISTING_CREATED", "JOB_LISTING_UPDATED",
     "JOB_LISTING_CLOSED", "JOB_LISTING_EXPIRED",
     "JOB_APPLICATION_SUBMITTED", "JOB_APPLICATION_WITHDRAWN",
     "JOB_APPLICATION_STATUS_UPDATED", "INTERNAL_NOTE_UPDATED"}

Payload == [name \in EventNames |->
    CASE name = "FAILED_LOGIN_ATTEMPTED" -> FailedLoginAttemptedKeys
      [] name = "USER_LOGGED_IN" -> UserLoggedInKeys
      [] name = "USER_SESSION_REVOKED" -> UserSessionRevokedKeys
      [] name = "USER_REGISTERED" -> UserRegisteredKeys
      [] name = "USER_EMAIL_VERIFIED" -> UserEmailVerifiedKeys
      [] name = "VERIFICATION_EMAIL_RESENT" -> VerificationEmailResentKeys
      [] name = "PASSWORD_RESET_REQUESTED" -> PasswordResetRequestedKeys
      [] name = "USER_PROFILE_UPDATED" -> UserProfileUpdatedKeys
      [] name = "AVATAR_UPLOADED" -> AvatarUploadedKeys
      [] name = "AVATAR_REMOVED" -> AvatarRemovedKeys
      [] name = "EMAIL_CHANGE_REQUESTED" -> EmailChangeRequestedKeys
      [] name = "USER_EMAIL_CHANGED" -> UserEmailChangedKeys
      [] name = "INITIAL_PASSWORD_SET" -> InitialPasswordSetKeys
      [] name = "USER_PASSWORD_CHANGED" -> UserPasswordChangedKeys
      [] name = "USER_ACCOUNT_DELETION_SCHEDULED" -> UserAccountDeletionScheduledKeys
      [] name = "USER_ACCOUNT_RESTORED" -> UserAccountRestoredKeys
      [] name = "USER_ACCOUNT_DELETING" -> UserAccountDeletingKeys
      [] name = "USER_ACCOUNT_DELETED" -> UserAccountDeletedKeys
      [] name = "USER_MFA_ENABLED" -> UserMfaEnabledKeys
      [] name = "USER_MFA_DISABLED" -> UserMfaDisabledKeys
      [] name = "OAUTH_PROVIDER_LINKED" -> OAuthProviderLinkedKeys
      [] name = "OAUTH_PROVIDER_UNLINKED" -> OAuthProviderUnlinkedKeys
      [] name = "APPLICANT_PROFILE_CREATED" -> ApplicantProfileCreatedKeys
      [] name = "APPLICANT_PROFILE_UPDATED" -> ApplicantProfileUpdatedKeys
      [] name = "APPLICANT_DOCUMENT_UPLOADED" -> ApplicantDocumentUploadedKeys
      [] name = "APPLICANT_DOCUMENT_DELETED" -> ApplicantDocumentDeletedKeys
      [] name = "PRIMARY_DOCUMENT_SET" -> PrimaryDocumentSetKeys
      [] name = "SAVED_JOB_TOGGLED" -> SavedJobToggledKeys
      [] name = "EMPLOYER_PROFILE_CREATED" -> EmployerProfileCreatedKeys
      [] name = "EMPLOYER_PROFILE_UPDATED" -> EmployerProfileUpdatedKeys
      [] name = "COMPANY_LOGO_UPLOADED" -> CompanyLogoUploadedKeys
      [] name = "COMPANY_LOGO_REMOVED" -> CompanyLogoRemovedKeys
      [] name = "JOB_LISTING_CREATED" -> JobListingCreatedKeys
      [] name = "JOB_LISTING_UPDATED" -> JobListingUpdatedKeys
      [] name = "JOB_LISTING_CLOSED" -> JobListingClosedKeys
      [] name = "JOB_LISTING_EXPIRED" -> JobListingExpiredKeys
      [] name = "JOB_APPLICATION_SUBMITTED" -> JobApplicationSubmittedKeys
      [] name = "JOB_APPLICATION_WITHDRAWN" -> JobApplicationWithdrawnKeys
      [] name = "JOB_APPLICATION_STATUS_UPDATED" -> JobApplicationStatusUpdatedKeys
      [] name = "INTERNAL_NOTE_UPDATED" -> InternalNoteUpdatedKeys]

=============================================================================
