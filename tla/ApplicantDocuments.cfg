\* Two overlapping requests, one document more than a type may hold.
SPECIFICATION Spec
CONSTANTS
    Resumes = {d1, d2, d3}
    CoverLetters = {}
    MaxDocs = 2
    Requests = {r1, r2}
    NoDoc = NoDoc
    MaxTime = 1
INVARIANTS TypeOK OnePrimary WithinLimit ListedFilesStored
PROPERTIES SettledStays VanishedForGood
CHECK_DEADLOCK FALSE
SYMMETRY Symmetry
