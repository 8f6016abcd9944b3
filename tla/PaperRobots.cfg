CONSTANTS
    Portfolios = {p1, p2}
    Robots = {b1, b2}
    Amounts = {1}
    MaxMoney = 2
    MaxPortfolios = 2
    MaxBots = 2
    MaxEpoch = 2
    MaxRevision = 4
    MaxQuiet = 2
    MaxRestarts = 2
SPECIFICATION Spec
SYMMETRY Symmetry
INVARIANTS
    PortfolioTypeOK
    RunningIsFunded
    SettledMatchesLedger
    CashConserved
    StatusHonest
    OneDefault
CHECK_DEADLOCK FALSE
