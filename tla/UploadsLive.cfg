\* Fair scheduling; only request bodies break off.
SPECIFICATION MCFairSpec
CONSTANTS
    Session = {s1, s2}
    Handler = {h1, h2}
    Sweeper = {w1}
    u1 = u1
    User = {u1}
    Owner <- OneOwner
    Key = {k1, k2}
    Sizes = {1}
    Limits = {Nil}
    Quotas = {1, Nil}
    MaxLen = 1
    Faults = {"body"}
    Nil = Nil
INVARIANTS UsedMatchesFiles FileIsBacked NoOrphanObject
PROPERTIES ChargeWithinQuota RequestsEnd ExpiredSessionsEnd TempReclaimed
