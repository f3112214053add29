SPECIFICATION Spec
CONSTANTS
    Ports = {1, 2, 3}
    Boards = {b1, b2}
    NoBoard = NoBoard
    Roles = {responder, initiator}
    MacOf <- Mapping
    Args <- FirstTwo
    MaxMoves = 3
    MaxRuns = 2
    b1 = b1
    b2 = b2
    responder = responder
    initiator = initiator
INVARIANTS ValidatorTypeOK BaselineIsOwn PassedHasBaseline Released BoundByMac NotFoundIsMissing
PROPERTY BaselineKept
CHECK_DEADLOCK FALSE
