\* Two workers: every handler ends.
SPECIFICATION FairSpec
CONSTANTS
    ann = ann
    bob = bob
    tom = tom
    foo = foo
    w1 = w1
    w2 = w2
    NULL = NULL
    Users = {ann, tom}
    TrustedUsers = {tom}
    Bases = {foo}
    Workers = {w1, w2}
    IdleTime = 1
    AutoDeleteAge = 0
    AutoOrphanAge = 2
    MaxRequests = 1
    MaxTime = 2
    Crashes = FALSE
    Ops = {"apiAdopt", "disown", "delete", "flag", "unflag", "notify", "unnotify"}
PROPERTIES  ImplementsLifecycle
