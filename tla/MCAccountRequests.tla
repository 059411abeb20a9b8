--------------------------- MODULE MCAccountRequests ---------------------------
(* Instances of AccountRequests for TLC. *)
EXTENDS AccountRequests, TLC

Symmetry == Permutations(Requests) \cup Permutations(SessionIds)

\* The use cases of each run: between them the passing runs call every one.
SerialUseCases ==
    {"login", "mfaLogin", "refresh", "logout", "revokeOthers", "changePassword",
     "verifyEmail", "scheduleDeletion", "restore",
     "hardDeletion", "deleteAccount", "cleanExpired", "initiateMfa", "enableMfa",
     "revokeSession"}
SessionUseCases ==
    {"login", "changePassword", "forgotPassword",
     "resetPassword", "verifyEmail"}
CredentialUseCases ==
    {"oauthLogin", "oauthAutoLink", "linkOAuth", "unlinkOAuth", "setInitialPassword",
     "initiateMfa", "enableMfa", "disableMfa", "mfaLogin", "deleteAccount"}
OneTimeUseCases ==
    {"verifyEmail", "resendVerification", "forgotPassword", "resetPassword",
     "requestEmailChange", "confirmEmailChange", "updateAccount", "uploadAvatar",
     "removeAvatar", "initiateMfa", "enableMfa", "login", "mfaLogin"}

\* Small sets for the runs that show a promise broken by overlapping requests.
RevokeUseCases == {"verifyEmail", "refresh", "logout"}
FailureUseCases == {"login"}
BackupCodeUseCases == {"oauthLogin", "initiateMfa", "enableMfa", "mfaLogin"}

=============================================================================
