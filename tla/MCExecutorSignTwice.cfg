CONSTANTS
    p1 = p1
    p2 = p2
    Payload = {p1, p2}
    MaxHeight = 2
    MaxTime = 1
SPECIFICATION Spec
SYMMETRY PayloadSymmetry
INVARIANTS
    OneSignature
