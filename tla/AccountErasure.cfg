\* One account with one document or a logo, one crash, services that may fail.
SPECIFICATION Spec
CONSTANTS
    owner = owner
    partner = partner
    d1 = d1
    Owner = owner
    Partner = partner
    Nobody = Nobody
    Logo = Logo
    Avatar = Avatar
    Persons <- TwoPersons
    Queues <- AllQueues
    Attempts <- TwoTries
    MaxStalled = 1
    MaxJobs = 2
    MaxPending = 1
    MaxCrashes = 1
    Faulty = TRUE
    Roles = {"APPLICANT", "EMPLOYER"}
    Documents <- OneDocument
    Files <- OneDocumentFiles
INVARIANTS TypeOK FilesKept FarewellOnce GivenUpWhenRefused
PROPERTIES JobsSettle DueAccountsEnd
CHECK_DEADLOCK FALSE
