CONSTANTS
    ann = ann
    tom = tom
    foo = foo
    w1 = w1
    w2 = w2
    NULL = NULL
    Workers = {w1, w2}
    Users = {ann, tom}
    TrustedUsers = {tom}
    Bases = {foo}
    Watchers <- MCWatchers
    MaxRequests = 1
    MaxCalls = 3
    Suspects = {ann}
    MaintainerOf <- MCMaintainerOf
    Ops = {"passreset", "adopt", "disown", "comaint", "request", "close", "delete", "update"}
SPECIFICATION Spec
INVARIANTS
    TypeOK
    AnnouncedWhenDone
    RequestersTold
    ResetKeysArrive
    NewcomersTold
PROPERTIES
    
    ImplementsLifecycle
SYMMETRY WorkerSymmetry
CHECK_DEADLOCK FALSE
