\* Two workers that may be killed: accounts, keys and sessions.
SPECIFICATION Spec
CONSTANTS
    ann = ann
    tom = tom
    n1 = n1
    n2 = n2
    p1 = p1
    p2 = p2
    key1 = key1
    key2 = key2
    w1 = w1
    w2 = w2
    NULL = NULL
    Workers = {w1, w2}
    Users = {ann, tom}
    Founders <- MCFounders
    Names = {n1, n2}
    Passwords = {p1, p2}
    Fingerprints = {key1, key2}
    SsoUsers = {tom}
    TopType = 2
    LoginTimeout = 0
    PersistentTimeout = 1
    Forms <- MCForms
    MaxSids = 1
    MaxTime = 2
    Crashes = TRUE
INVARIANTS TypeOK PrivilegesDoNotGrow AccountsCanBeEntered 
PROPERTY EndedStaysEnded
SYMMETRY WorkerSymmetry
