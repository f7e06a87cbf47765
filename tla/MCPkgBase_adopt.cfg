\* Two workers serve two adoptions of the same orphan.
SPECIFICATION Spec
CONSTANTS
    ann = ann
    bob = bob
    tom = tom
    foo = foo
    w1 = w1
    w2 = w2
    NULL = NULL
    Users = {ann, bob, tom}
    TrustedUsers = {tom}
    Bases = {foo}
    Workers = {w1, w2}
    IdleTime = 1
    AutoDeleteAge = 0
    AutoOrphanAge = 2
    MaxRequests = 0
    MaxTime = 2
    Crashes = FALSE
    Ops = {"adopt", "disown"}
PROPERTY PromotedIfNoMaintainer
