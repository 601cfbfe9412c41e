SPECIFICATION Spec
CONSTANTS
    r1 = r1
    r2 = r2
    r3 = r3
    f1 = f1
    u1 = u1
    u2 = u2
    u3 = u3
    g1 = g1
    owner = owner
    other = other
    admin = admin
    n1 = n1
    n2 = n2
    c1 = c1
    c2 = c2
    c3 = c3
    Id = {f1, u1, u2, u3}
    Request = {r1, r2, r3}
    Reader = {}
    Stored = {f1}
    Key = {owner, other, admin}
    Admin = {admin}
    Name = {n1, n2}
    Content = {c1, c2, c3}
    KeepName = KeepName
    Missing = Missing
    Torn = Torn
    NoBlob = NoBlob
    Free = Free
    Preload <- MCPreload
    Workload <- OnStored
    Asked <- MCAsked
    MaxFaults = 0
    MaxCrashes = 0
    LateFaults = FALSE
    Redeliver = FALSE
PROPERTIES
    KeepsName
