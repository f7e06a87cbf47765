\* One worker that may be killed, three package bases that are merged.
SPECIFICATION Spec
CONSTANTS
    ann = ann
    tom = tom
    foo = foo
    bar = bar
    baz = baz
    hello = hello
    bye = bye
    web = web
    w1 = w1
    w2 = w2
    NULL = NULL
    IdleTime = 1
    Users = {tom}
    TrustedUsers = {tom}
    Bases = {foo, bar, baz}
    MaintainerOf <- MCMaintainerOf
    Texts = {hello, bye}
    Keywords = {}
    Workers = {w1}
    Ops = {"vote", "comment", "edit", "erase", "restore", "pin", "unpin", "request", "merge"}
    MaxRequests = 1
    MaxComments = 1
    Crashes = TRUE
INVARIANT NoMergeLeftOpen
PROPERTY EverythingMerged
SYMMETRY Symmetry
