SPECIFICATION Spec
CONSTANTS
    a = a
    b = b
    Nodes = {a, b}
    Offset <- InStep
    TokenTTL = 2
    MaxPairings = 2
    MaxRestarts = 0
    MaxTime = 1
INVARIANT PairTokenAuthenticates
CHECK_DEADLOCK FALSE
