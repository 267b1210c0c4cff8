\* Both limits, requests below and above the burst.
SPECIFICATION Spec
CONSTANTS
    Rate <- MCRate
    Second = 4
    MinWait = 1
    MaxWait = 2
    Requests = {2, 5}
    MaxRequest = 5
    MaxIdle = 9
INVARIANTS
    TypeOK
    RateBounded
    DebtPaid
    DebtsSeparate
    RetrySuffices
PROPERTIES
    Returns
