\* No failures; a chunk may run past the declared size.
SPECIFICATION Spec
CONSTANTS
    Session = {s1}
    Handler = {h1, h2}
    Sweeper = {w1}
    u1 = u1
    User = {u1}
    Owner <- OneOwner
    Key = {k1, k2}
    Sizes = {1}
    Limits = {Nil}
    Quotas = {Nil}
    MaxLen = 2
    Faults = {}
    Nil = Nil
PROPERTY RefusedChunkFails
