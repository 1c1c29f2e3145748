SPECIFICATION Spec
CONSTANTS
    a = a
    b = b
    q1 = q1
    q2 = q2
    qb = qb
    Tab = {a, b}
    Request = {q1, q2, qb}
    TabOf <- MCTabOf
    MaxLogins = 2
    MaxRotations = 2
    MaxIssued = 3
    MaxOpen = 3
SYMMETRY Symmetry
CONSTRAINT Calm
INVARIANTS TypeOK SessionRenewable LogoutRevokes NoOrphanWait IInv
PROPERTIES NoFalseSignOut
CHECK_DEADLOCK FALSE
