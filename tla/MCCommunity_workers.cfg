\* Two workers, two package bases.
SPECIFICATION Spec
CONSTANTS
    ann = ann
    tom = tom
    foo = foo
    bar = bar
    baz = baz
    hello = hello
    bye = bye
    web = web
    w1 = w1
    w2 = w2
    NULL = NULL
    IdleTime = 1
    Users = {tom}
    TrustedUsers = {tom}
    Bases = {foo, bar}
    MaintainerOf <- MCMaintainerOf
    Texts = {hello}
    Keywords = {web}
    Workers = {w1, w2}
    Ops = {"vote", "unvote", "notify", "unnotify", "comment", "keywords", "merge", "delete"}
    MaxRequests = 0
    MaxComments = 1
    Crashes = FALSE
INVARIANT TypeOK
INVARIANT GoneIsTraced
INVARIANT VotesCounted
PROPERTY ImplementsLifecycle
SYMMETRY Symmetry
