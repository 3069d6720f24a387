\* Two brokers that come and go on one document; a save may fail, or succeed
\* without an answer.  One of the names looks like an id.
SPECIFICATION Spec
CONSTANTS
    Replicas = {b1, b2}
    Ids = {i1, i2, i3}
    Names = {n1, i1}
    Outcomes = {"ok", "error", "lost"}
    MaxRev = 4
INVARIANTS TypeOK ConditionMeansCurrent NamesUnique MemoryKept TokensKept
