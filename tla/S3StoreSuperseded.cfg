\* A request in a web process while the broker replaces the site; nothing fails.
SPECIFICATION Spec
CONSTANTS
    Sites = {1}
    Broker = broker
    web = web
    InBroker = {}
    InWeb = {r1}
    Webs = {web}
    Readers = {r1}
    Home <- MCHome
    Mutator = mutator
    TTLs = {Never}
    MetaTTL = 1
    Never = Never
    None = None
    Unknown = Unknown
    Faults = {}
    MaxFaults = 0
    MaxCrashes = 0
    MaxPushes = 2
    MaxClock = 1
INVARIANT LiveSiteFound
