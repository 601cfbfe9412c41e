SPECIFICATION Spec
CONSTANTS
    d1 = d1
    d2 = d2
    d3 = d3
    d4 = d4
    n1 = n1
    n2 = n2
    Delivery = {d1, d2, d3, d4}
    Nonce = {n1, n2}
    Mailing <- MCMailing
    Window = 1
    Retention = 2
    MaxTime = 5
    Unused = Unused
INVARIANTS
    AcceptedOnce
