SPECIFICATION Spec
CONSTANTS
    u1 = u1
    ta = ta
    k1 = k1
    k2 = k2
    e1 = e1
    chat = chat
    None = None
    User = {u1}
    Tab = {ta}
    Owner <- OneTab
    Conn = {k1, k2}
    Endpoint = {e1}
    Chat = {chat}
    MaxToasts = 2
    Assembled = FALSE
    MaxAlerts = 2
    MaxFaults = 2
    MaxWrites = 1
INVARIANTS
    OpenStreamsHear
CHECK_DEADLOCK FALSE
