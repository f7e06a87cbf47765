\* Two workers: requests and what they justify.
SPECIFICATION Spec
CONSTANTS
    ann = ann
    bob = bob
    tom = tom
    foo = foo
    w1 = w1
    w2 = w2
    NULL = NULL
    Users = {ann, tom}
    TrustedUsers = {tom}
    Bases = {foo}
    Workers = {w1, w2}
    IdleTime = 1
    AutoDeleteAge = 0
    AutoOrphanAge = 2
    MaxRequests = 1
    MaxTime = 4
    Crashes = TRUE
    Ops = {"disown", "request", "delete", "flag"}
INVARIANT DeletionTraced
PROPERTY OrphaningJustified
PROPERTY OwnersDeleteTheNew
SYMMETRY WorkerSymmetry
