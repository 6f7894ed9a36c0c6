CONSTANTS
    Call = {c1, c2}
    Scenarios <- MCScenarios
    Queries <- MCQueries
    Replies <- MCReplies
    QA = {q1, q2}
    Results <- MCResults
    c1 = c1
    c2 = c2
    q1 = q1
    q2 = q2
SPECIFICATION FairSpec
INVARIANTS
    ExitClosesPool
    ServedServerIsWhole
    HitsWereShown
    GitHubAnswerIsTrue
PROPERTIES
    ComesToRest
CHECK_DEADLOCK FALSE
