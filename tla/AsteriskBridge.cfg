SPECIFICATION Spec
CONSTANTS
    p1 = p1
    p2 = p2
    MaxChannels = 3
    Ports = {p1, p2}
    None = None
    MaxFaults = 1
SYMMETRY Alike
INVARIANTS TypeOK PortsExclusive CleanedUp SomeoneInCharge
CHECK_DEADLOCK FALSE
