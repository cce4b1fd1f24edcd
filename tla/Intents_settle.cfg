\* Liveness (no symmetry): one consumer, two intents in a batch, two faults.
CONSTANTS
    a1 = a1  a2 = a2  w1 = w1  w2 = w2  i1 = i1  i2 = i2  i3 = i3
    None = None
    Signals = {1, 2}
    Accounts = {a1}
    Targets <- OneAccount
    Ids = {i1, i2}
    Workers = {w1}
    AccountOf <- SameAccount
    BatchSize = 2
    MaxAttempts = 2
    MaxDeliveries = 1
    MaxFaults = 2
SPECIFICATION FairSpec
PROPERTY EveryIntentSettles
