\* The resolver and refund engine under every call order: safety, refinement
\* of FundingOutcome, and liveness under the bot assumption (Fairness).
CONSTANTS
    c1 = c1
    c2 = c2
    Contributors <- MCContributors
    MaxProjects = 2
    InitialBalance = 2
    MinContribution = 1
    Goals = {2, 3}
    MinDuration = 1
    MaxDuration = 2
    MaxTime = 3
SPECIFICATION FairSpec
INVARIANT TypeOK
INVARIANT RefundsExactlyOnce
INVARIANT EscrowAccounting
INVARIANT OutcomeMatchesFunding
PROPERTY StatusMovesForward
PROPERTY ImplementsFundingOutcome
PROPERTY EventuallyResolved
PROPERTY FailedProjectsFullyRefunded
CHECK_DEADLOCK FALSE
