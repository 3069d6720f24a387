\* Two brokers on one document, every call succeeding or refused.
SPECIFICATION Spec
CONSTANTS
    Replicas = {b1, b2}
    Ids = {i1, i2, i3}
    Names = {n1, n2}
    Outcomes = {"ok"}
    MaxRev = 4
INVARIANT TokensNotClobbered
