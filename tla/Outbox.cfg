SPECIFICATION FairSpec
CONSTANTS
    a = a
    b = b
    c = c
    alert = alert
    info = info
    Notes <- MCNotes
    Keys <- MCKeys
    KeyOf <- MCKeyOf
    Critical <- MCCritical
    Ttl = 1
    Burst = 1
    MaxAttempts = 2
    MaxWait = 1
    BatchSize = 2
    Workers = {w1, w2}
    MaxFaults = 1
    MaxToggles = 1
    None = None
INVARIANTS DeliveriesAreCaused SentWasDelivered CriticalsAreQueued
PROPERTIES RowsSettle
CHECK_DEADLOCK FALSE
