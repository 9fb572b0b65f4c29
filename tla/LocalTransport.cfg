CONSTANTS
    t1 = t1  t2 = t2  t3 = t3
    c1 = c1  c2 = c2  c3 = c3
    NoTransport = NoTransport
    Transports <- MCTransports
    Matching <- MCMatching
    Calls <- MCCalls
    MaxLoads = 2
SPECIFICATION FairSpec
CHECK_DEADLOCK FALSE
INVARIANTS ReadyHasSession OneRuntime
PROPERTIES HoldsSession CallsSettle
