\* One signal for two accounts, delivered twice; two consumers of account a1
\* fight over its intent; nobody serves a2.
CONSTANTS
    a1 = a1  a2 = a2  w1 = w1  w2 = w2  i1 = i1  i2 = i2  i3 = i3
    None = None
    Signals = {1}
    Accounts = {a1, a2}
    Targets <- BothAccounts
    Ids = {i1, i2, i3}
    Workers = {w1, w2}
    AccountOf <- SameAccount
    BatchSize = 1
    MaxAttempts = 2
    MaxDeliveries = 2
    MaxFaults = 3
SPECIFICATION Spec
SYMMETRY Symmetry
INVARIANTS TypeOK AtMostOnceDispatch LedgerMatchesRows RecordedOutcomeIsReal
PROPERTIES RowTransitions RefinesDelivery
