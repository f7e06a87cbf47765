\* Two pushes to two package bases that want the same name.
SPECIFICATION Spec
CONSTANTS
    ann = ann
    tom = tom
    foo = foo
    bar = bar
    lib = lib
    ban = ban
    app = app
    foo1 = foo1
    foo2 = foo2
    foo3 = foo3
    bar1 = bar1
    bad = bad
    s1 = s1
    s2 = s2
    NULL = NULL
    Users = {ann, tom}
    Privileged = {}
    Bases = {foo, bar}
    Names = {app, lib, ban}
    Revisions = {foo1, foo2, bar1}
    Version <- MCVersionOf
    NamesOf <- MCNames
    BaseOf <- MCBase
    Broken = {}
    Blacklist = {}
    Established = {foo, bar}
    Sessions = {s1, s2}
    Ops = {}
    Managed = {foo}
    Histories <- ShortHistories
    MaxRows = 1
    Crashes = FALSE
PROPERTY NamesProtected
