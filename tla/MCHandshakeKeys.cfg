SPECIFICATION HandshakeSpec
CONSTANTS
    Ends = {a, b}
    MaxPunches = 1
INVARIANTS KeysAgree
