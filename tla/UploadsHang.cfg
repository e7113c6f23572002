\* No failures and fair scheduling: one upload by either protocol.
SPECIFICATION FairSpec
CONSTANTS
    Session = {s1}
    Handler = {h1, h2}
    Sweeper = {w1}
    u1 = u1
    User = {u1}
    Owner <- OneOwner
    Key = {k1, k2}
    Sizes = {1}
    Limits = {Nil}
    Quotas = {Nil}
    MaxLen = 1
    Faults = {}
    Nil = Nil
PROPERTY ChargedUploadCommits
