\* A public request in the broker's process and one site; the broker may die
\* once and one request to the bucket may fail, in any way.
SPECIFICATION Spec
CONSTANTS
    Sites = {1}
    Broker = broker
    web = web
    InBroker = {r1}
    InWeb = {}
    Webs = {web}
    Readers = {r1}
    Home <- MCHome
    Mutator = mutator
    TTLs = {1, Never}
    MetaTTL = 1
    Never = Never
    None = None
    Unknown = Unknown
    Faults = {"list", "get", "content", "contentLost", "commit", "commitLost", "unmeta", "unmetaLost", "sweep", "remove"}
    MaxFaults = 1
    MaxCrashes = 1
    MaxPushes = 2
    MaxClock = 2
INVARIANTS TypeOK ContentOutlivesPointer ServedWasPublished
PROPERTIES ReaperSparesLive ImplementsRegistry
