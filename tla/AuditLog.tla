--------------------------------- MODULE AuditLog ---------------------------------
(***************************************************************************)
(* What GlobalAuditLogListener makes of an event: the record of an event    *)
(* names an actor, and its payload is kept with the sensitive keys blotted   *)
(* out.  That a record is written at all is not modelled: nobody waits for   *)
(* the listener.                                                             *)
(***************************************************************************)
EXTENDS DomainEvents

\* The payloads have no nested objects, so the recursion into them is left out.
SensitiveKeys ==
    {"password", "passwordHash", "token", "verificationToken", "resetToken",
     "refreshToken", "secret", "mfaSecret", "backupCodes", "cvv", "creditCard"}

\* The keys of an event whose values the log shows.
Plain(name) == Payload[name] \ SensitiveKeys

\* The key whose value becomes the actorId of the record, or "none".
ActorKey(name) ==
    LET Has(key) == key \in Payload[name]
    IN  IF Has("actorId") THEN "actorId"
        ELSE IF Has("initiatorId") THEN "initiatorId"
        ELSE IF Has("userId") THEN "userId"
        ELSE IF Has("accountId") THEN "accountId"
        ELSE IF Has("applicantId") /\ ~Has("employerId") THEN "applicantId"
        ELSE IF Has("employerId") /\ ~Has("applicantId") THEN "employerId"
        ELSE "none"

\* The one-time tokens that are mailed, under the keys that events give them.
TokenKeys == {"verificationToken", "resetToken", "changeToken"}

=============================================================================
