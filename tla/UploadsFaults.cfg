\* Two plans for one session and a sweep: two requests of which everything may
\* fail, and three requests whose bodies break off.
SPECIFICATION MCSpec
CONSTANTS
    Session = {s1}
    Handler = {h1, h2}
    Sweeper = {w1}
    u1 = u1
    User = {u1}
    Owner <- OneOwner
    Key = {k1, k2}
    Sizes = {1}
    Limits = {1, Nil}
    Quotas = {0, Nil}
    MaxLen = 2
    Faults = {"body"}
    Nil = Nil
SYMMETRY Symmetry
INVARIANTS TypeOK UsedMatchesFiles OneFilePerSession AcknowledgedIsDurable MovesKeepBytes
PROPERTIES TerminalIsFinal ImplementsLedger
