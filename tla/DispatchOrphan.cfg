SPECIFICATION Spec
CONSTANTS
    s1 = s1  s2 = s2
    u1 = u1  u2 = u2  u3 = u3  a1 = a1  a2 = a2
    n1 = n1  x1 = x1  c1 = c1  b1 = b1  d1 = d1  v1 = v1
    None = None
    Session = {s1, s2}
    Msg = {u1, a1, x1, v1}
    Key <- MCKey
    Kind <- MCKind
    GateSize = 1
    PendingMax = 1
    InjectionsPerTurn = 1
    InjectionCycles = 1
PROPERTIES
    CancelledTurnReported
CHECK_DEADLOCK FALSE
