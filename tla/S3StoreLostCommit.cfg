\* The answer to one metadata write may be lost.
SPECIFICATION Spec
CONSTANTS
    Sites = {1}
    Broker = broker
    web = web
    InBroker = {r1}
    InWeb = {}
    Webs = {web}
    Readers = {r1}
    Home <- MCHome
    Mutator = mutator
    TTLs = {Never}
    MetaTTL = 1
    Never = Never
    None = None
    Unknown = Unknown
    Faults = {"commitLost"}
    MaxFaults = 1
    MaxCrashes = 0
    MaxPushes = 2
    MaxClock = 1
INVARIANT LiveContentExists
