SPECIFICATION Spec
CONSTANTS
    r1 = r1
    r2 = r2
    r3 = r3
    x1 = x1
    p1 = p1
    owner = owner
    other = other
    admin = admin
    b1 = b1
    b2 = b2
    Request = {r1, r2, r3}
    Reader = {x1}
    Page = {p1}
    Key = {owner, other, admin}
    Admin = {admin}
    Body = {b1, b2}
    None = None
    Torn = Torn
    Free = Free
    Preload <- MCPreload
    Workload <- MCWorkload
    MaxFaults = 0
    MaxCrashes = 1
INVARIANTS
    NoConflictingContent
