\* One session at a time, two package bases.
SPECIFICATION FairSpec
CONSTANTS
    ann = ann
    tom = tom
    foo = foo
    bar = bar
    lib = lib
    ban = ban
    app = app
    foo1 = foo1
    foo2 = foo2
    foo3 = foo3
    bar1 = bar1
    bad = bad
    s1 = s1
    s2 = s2
    NULL = NULL
    Users = {ann, tom}
    Privileged = {tom}
    Bases = {foo, bar}
    Names = {app, lib, ban}
    Revisions = {foo1, foo2, bar1}
    Version <- MCVersionOf
    NamesOf <- MCNames
    BaseOf <- MCBase
    Broken = {}
    Blacklist = {ban}
    Established = {bar}
    Sessions = {s1}
    Ops = {"clone", "own", "comaintain", "delete", "age", "pkgmaint"}
    Managed = {foo}
    Histories <- UnmixedHistories
    MaxRows = 2
    Crashes = FALSE
INVARIANTS TypeOK 
PROPERTIES MetadataFirst SessionsEnd
