\* Two saves pass the check of dates before either writes.
SPECIFICATION Spec
CONSTANTS
    Resumes = {d1, d2, d3}
    CoverLetters = {}
    MaxDocs = 2
    Requests = {r1, r2}
    NoDoc = NoDoc
    MaxTime = 2
PROPERTIES StaleSavesRejected
CHECK_DEADLOCK FALSE
SYMMETRY Symmetry
