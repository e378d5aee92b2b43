CONSTANTS
    Requests = {q1, q2}
    Calls = {a1, a2}
    ConnTokens = {k1}
    None = None
SPECIFICATION ClientFairSpec
INVARIANTS EventsFollowLoop RunningListens AnswersMatch
PROPERTIES EndsForCause TokenRemovedExits
CHECK_DEADLOCK FALSE
