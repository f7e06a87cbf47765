\* Two sessions that may be killed, one package base.
SPECIFICATION Spec
CONSTANTS
    ann = ann
    tom = tom
    foo = foo
    bar = bar
    lib = lib
    ban = ban
    app = app
    foo1 = foo1
    foo2 = foo2
    foo3 = foo3
    bar1 = bar1
    bad = bad
    s1 = s1
    s2 = s2
    NULL = NULL
    Users = {ann, tom}
    Privileged = {tom}
    Bases = {foo}
    Names = {app, lib, ban}
    Revisions = {foo1, foo3}
    Version <- MCVersionOf
    NamesOf <- MCNames
    BaseOf <- MCBase
    Broken = {}
    Blacklist = {ban}
    Established = {}
    Sessions = {s1, s2}
    Ops = {}
    Managed = {foo}
    Histories <- FooHistories
    MaxRows = 1
    Crashes = TRUE
SYMMETRY SessionSymmetry
INVARIANTS UnpackagedIsEmpty
PROPERTIES OnlyForward
