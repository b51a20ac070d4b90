SPECIFICATION FairSpec
CONSTANTS
    s1 = s1  s2 = s2
    u1 = u1  u2 = u2  u3 = u3  a1 = a1  a2 = a2
    n1 = n1  x1 = x1  c1 = c1  b1 = b1  d1 = d1  v1 = v1
    None = None
    Session = {s1, s2}
    Msg = {u1, u2, u3, c1, a1, a2, b1, n1, x1, d1, v1}
    Key <- MCKey
    Kind <- MCKind
    GateSize = 1
    PendingMax = 1
    InjectionsPerTurn = 1
    InjectionCycles = 1
INVARIANTS
    TurnsSerialized
    PendingQueueOwned
    NothingLostOrDoubled
    AutomationNeverInjected
    LiveTaskReachable
PROPERTIES
    ImplementsService
    CommandReturns
CONSTRAINT OneScenario
CHECK_DEADLOCK FALSE
