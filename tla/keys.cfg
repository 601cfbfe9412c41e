SPECIFICATION Spec
CONSTANTS
    r1 = r1
    r2 = r2
    r3 = r3
    k1 = k1
    k2 = k2
    k3 = k3
    Request = {r1, r2, r3}
    Key = {k1, k2, k3}
    Workload <- MCWorkload
    Bootstraps <- MCBootstraps
    NoFile = NoFile
    Free = Free
    MaxFaults = 1
    MaxCrashes = 1
INVARIANTS
    Restartable
    MemoryIsSaved
PROPERTIES
    OnlyAddAuthorizes
    SeesOnlySaved
    ImplementsRegistry
