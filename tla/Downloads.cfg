SPECIFICATION FairSpec
CONSTANTS
    r1 = r1
    r2 = r2
    s1 = s1
    url1 = url1
    url2 = url2
    p1 = p1
    p2 = p2
    Requests <- MCRequests
    UrlOf <- MCUrlOf
    Raised <- MCRaised
    Chosen <- MCChosen
    Paths = {p1, p2}
    Candidates <- MCCandidates
    Size <- MCSize
    MaxChunk = 1
    Budgets <- MCBudgets
    None = None
INVARIANTS
    OneLoopOneAnswer
    
PROPERTIES
    EveryRequestTold
CHECK_DEADLOCK FALSE
