\* A file that no application refers to outlives the account, although nothing fails.
SPECIFICATION Spec
CONSTANTS
    owner = owner
    partner = partner
    d1 = d1
    Owner = owner
    Partner = partner
    Nobody = Nobody
    Logo = Logo
    Avatar = Avatar
    Persons <- TwoPersons
    Queues <- AllQueues
    Attempts <- TwoTries
    MaxStalled = 1
    MaxJobs = 6
    MaxPending = 1
    MaxCrashes = 0
    Faulty = FALSE
    Roles = {"APPLICANT", "EMPLOYER"}
    Documents <- OneDocument
    Files <- OneDocumentFiles
INVARIANT NoOrphanFiles
CHECK_DEADLOCK FALSE
