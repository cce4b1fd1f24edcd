\* Two requests with one key, for the same or for another contract; two
\* consumers of the account.
CONSTANTS
    k1 = k1  w1 = w1  w2 = w2  p = p  q = q  None = None
    Requests = {1, 2}
    Keys = {k1}
    Contracts = {p, q}
    Inputs <- RacingInputs
    Workers = {w1, w2}
    BatchSize = 1
    MaxAttempts = 2
    MaxFaults = 1
SPECIFICATION FairSpec
INVARIANTS OneEffectPerKey AnswersAreGrounded
PROPERTIES RefinesDelivery EveryCommandSettles
CHECK_DEADLOCK FALSE
