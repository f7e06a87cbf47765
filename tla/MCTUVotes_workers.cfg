\* Two workers: counts are written from rows read before others voted.
SPECIFICATION Spec
CONSTANTS
    ann = ann
    bob = bob
    tom = tom
    w1 = w1
    w2 = w2
    NULL = NULL
    Users = {ann, bob, tom}
    Workers = {w1, w2}
    LongVote = 2
    ShortVote = 1
    MaxProposals = 1
    MaxTime = 1
INVARIANT TypeOK
INVARIANT CountedAtMostOnce
PROPERTY YesNeverHurts
SYMMETRY AllSymmetry
