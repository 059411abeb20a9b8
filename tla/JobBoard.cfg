\* Two overlapping requests on the applications of one applicant.
SPECIFICATION Spec
CONSTANTS
    p1 = p1
    l1 = l1
    l2 = l2
    Applicants <- OneApplicant
    Listings <- TwoListings
    Applications <- ToOneListing
    Expiries = {0}
    Decisions = {"REVIEWING", "WITHDRAWN"}
    Requests = {r1, r2}
    NoListing = NoListing
    MaxTime = 1
    MaxHistory = 3
INVARIANTS TypeOK StatusOnRecord ExpiredWhenDue
PROPERTIES TimelineKept ShutForGood DueListingsLeave
CHECK_DEADLOCK FALSE
