SPECIFICATION Spec
CONSTANTS
    t1 = t1
    t2 = t2
    e1 = e1
    e2 = e2
    k1 = k1
    k2 = k2
    Tasks = {t1, t2}
    Enrichers = {e1, e2}
    Uses <- OrderAndShared
    Keys = {k1}
    Resources <- SomeKeys
    NoKey = NoKey
    NoAnswer = NoAnswer
    MaxBatch = 2
    TTL = 3
    Jitter = 1
    ApiTimeout = 1
    EnrichTimeout = 2
INVARIANTS TypeOK
PROPERTIES ServedFresh SetBackBounded OneCallPerBatch TimeoutMadeProgress
