\* One request body breaks off.
SPECIFICATION Spec
CONSTANTS
    Session = {s1}
    Handler = {h1, h2}
    Sweeper = {w1}
    u1 = u1
    User = {u1}
    Owner <- OneOwner
    Key = {k1, k2}
    Sizes = {2}
    Limits = {Nil}
    Quotas = {0, Nil}
    MaxLen = 2
    Faults = {"body"}
    Nil = Nil
INVARIANT ReportedOffsetIsAppendable
