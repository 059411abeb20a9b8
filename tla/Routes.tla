---------------------------------- MODULE Routes ----------------------------------
(***************************************************************************)
(* The HTTP routes, by controller, and what the global guards ask of a      *)
(* caller: JwtAuthGuard first, then UserThrottlerGuard, then RolesGuard.    *)
(* A route stands for the use case it calls; the owner of whatever the use  *)
(* case works on is always the user of the token.                           *)
(***************************************************************************)
EXTENDS Naturals

\* access is "public" (@Public), "signedIn" (any valid access token), or the role that
\* the controller wants (@Roles).  perMinute is the limit that @Throttle declares, or 0.
Route == [useCase: STRING,
          access: {"public", "signedIn", "ADMIN", "EMPLOYER", "APPLICANT"},
          perMinute: Nat]

For(access, useCase, perMinute) ==
    [useCase |-> useCase, access |-> access, perMinute |-> perMinute]

Public(useCase, perMinute) == For("public", useCase, perMinute)
SignedIn(useCase, perMinute) == For("signedIn", useCase, perMinute)
Admin(useCase, perMinute) == For("ADMIN", useCase, perMinute)
Applicant(useCase, perMinute) == For("APPLICANT", useCase, perMinute)
Employer(useCase, perMinute) == For("EMPLOYER", useCase, perMinute)

-----------------------------------------------------------------------------
(* AuthController and OAuthController.  One callback serves logins and links: *)
(* a link when the cookie oauth_link_intent names a user, else a login, which  *)
(* may find the account by its email and link it.                              *)

SignInRoutes ==
    {Public("register", 5), Public("verifyEmail", 5), Public("login", 5),
     Public("mfaLogin", 5), SignedIn("logout", 0)}

RecoveryRoutes ==
    {Public("refresh", 10), Public("forgotPassword", 3), Public("resetPassword", 3),
     Public("resendVerification", 3), Public("restore", 5)}

OAuthRoutes ==
    {Public("oauthUrl", 10), Public("oauthLogin", 10), Public("oauthAutoLink", 10),
     Public("linkOAuth", 10)}

(* AccountController, AdminController and UserController. *)

OwnProfileRoutes ==
    {SignedIn("getUser", 0), SignedIn("updateAccount", 0), SignedIn("uploadAvatar", 5),
     SignedIn("removeAvatar", 0)}

CredentialRoutes ==
    {SignedIn("changePassword", 3), SignedIn("requestEmailChange", 5),
     Public("confirmEmailChange", 5), SignedIn("setInitialPassword", 0),
     SignedIn("scheduleDeletion", 3)}

SessionRoutes ==
    {SignedIn("getSessions", 0), SignedIn("revokeOthers", 0), SignedIn("revokeSession", 0)}

MfaRoutes ==
    {SignedIn("initiateMfa", 0), SignedIn("enableMfa", 0), SignedIn("disableMfa", 0)}

ProviderRoutes ==
    {SignedIn("getProviders", 0), SignedIn("linkOAuthUrl", 0), SignedIn("unlinkOAuth", 0)}

AdminRoutes ==
    {Admin("getUsers", 0), Admin("getAnyUser", 0), Admin("deleteAccount", 0),
     Admin("getRoles", 0)}

UserRoutes == {SignedIn("getPublicProfile", 0)}

IamRoutes ==
    SignInRoutes \cup RecoveryRoutes \cup OAuthRoutes \cup OwnProfileRoutes
    \cup CredentialRoutes \cup SessionRoutes \cup MfaRoutes \cup ProviderRoutes
    \cup AdminRoutes \cup UserRoutes

(* ApplicantController. *)

ApplicantProfileRoutes ==
    {Applicant("getProfile", 30), Applicant("createProfile", 10), Applicant("editProfile", 15)}

ApplicantDocumentRoutes ==
    {Applicant("getDocuments", 30), Applicant("uploadDocument", 10),
     Applicant("deleteDocument", 15), Applicant("setPrimaryDocument", 15)}

OwnApplicationRoutes ==
    {Applicant("apply", 5), Applicant("getOwnApplications", 30), Applicant("withdraw", 15)}

SavedJobRoutes ==
    {Applicant("toggleSavedJob", 30), Applicant("getSavedJobs", 30),
     Applicant("getPublicHistory", 30)}

(* EmployerController. *)

CompanyRoutes ==
    {Employer("getEmployerProfile", 30), Employer("createEmployerProfile", 10),
     Employer("editEmployerProfile", 15), Employer("uploadLogo", 5), Employer("removeLogo", 10)}

JobRoutes ==
    {Employer("createJob", 10), Employer("editJob", 15), Employer("closeJob", 10),
     Employer("getJobs", 30)}

ReceivedApplicationRoutes ==
    {Employer("getApplications", 30), Employer("updateStatus", 15), Employer("bulkUpdate", 10),
     Employer("updateNote", 15), Employer("getApplicant", 30), Employer("getHistory", 30)}

(* RecruitmentController and SystemAdminController. *)

RecruitmentRoutes ==
    {Public("getCompany", 30), Public("searchJobs", 30), Public("getJob", 30),
     Public("getMeta", 60)}

AuditRoutes == {Admin("getAuditLogs", 30), Admin("getAuditMeta", 60)}

Routes ==
    IamRoutes \cup ApplicantProfileRoutes \cup ApplicantDocumentRoutes
    \cup OwnApplicationRoutes \cup SavedJobRoutes \cup CompanyRoutes \cup JobRoutes
    \cup ReceivedApplicationRoutes \cup RecruitmentRoutes \cup AuditRoutes

UseCasesOf(R) == {route.useCase : route \in R}
UseCasesFor(access) == UseCasesOf({route \in Routes : route.access = access})

-----------------------------------------------------------------------------
(* The guards.                                                              *)

\* JwtAuthGuard and RolesGuard: role is that of a valid token, or "none".
Admits(route, role) ==
    \/ route.access = "public"
    \/ role # "none" /\ route.access \in {"signedIn", role}

\* UserThrottlerGuard counts calls by user, where JwtAuthGuard has set one.  It leaves
\* public routes alone, a token that comes along is not looked at.
Tracker(route, user, address) == IF route.access = "public" THEN address ELSE user

\* The throttlers of ThrottlerModule.forRoot.
Throttlers ==
    [t \in {"short", "medium"} |->
        IF t = "short" THEN [ttl |-> 1000, limit |-> 3] ELSE [ttl |-> 10000, limit |-> 20]]

\* Every @Throttle of the controllers speaks of the throttler "default".
Declared(route) ==
    [t \in (IF route.perMinute = 0 THEN {} ELSE {"default"}) |->
        [ttl |-> 60000, limit |-> route.perMinute]]

\* What the library enforces: for each throttler of the module, what the route declares
\* for it, else what the module says.
Limits(route) ==
    [t \in DOMAIN Throttlers |->
        IF t \in DOMAIN Declared(route) THEN Declared(route)[t] ELSE Throttlers[t]]

=============================================================================
