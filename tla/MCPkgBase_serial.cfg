\* One worker: the handlers that change who maintains, three users.
SPECIFICATION Spec
CONSTANTS
    ann = ann
    bob = bob
    tom = tom
    foo = foo
    w1 = w1
    w2 = w2
    NULL = NULL
    Users = {ann, bob, tom}
    TrustedUsers = {tom}
    Bases = {foo}
    Workers = {w1}
    IdleTime = 0
    AutoDeleteAge = 0
    AutoOrphanAge = 2
    MaxRequests = 1
    MaxTime = 2
    Crashes = TRUE
    Ops = {"adopt", "disown", "apiDisown", "comaint", "request", "close", "delete"}
INVARIANT TypeOK
INVARIANT ComaintainersRanked
INVARIANT NoDeletionLeftOpen
PROPERTY ReplacedByRight
SYMMETRY UserSymmetry
