\* Three clients with two requests each, two of which may be killed.
SPECIFICATION Spec
CONSTANTS
    Clients = {c1, c2, c3}
    Mortal = {c1, c2}
    MaxRequests = 2
INVARIANTS
    InStepUntilKilled
    AnswersKept
CHECK_DEADLOCK FALSE
