\* The broker dies once; no filesystem call fails.
SPECIFICATION Spec
CONSTANTS
    Sites = {1}
    Workers = {w1}
    Reaper = reaper
    Readers = {}
    TTLs = {1, Never}
    Never = Never
    Pending = Pending
    Nobody = Nobody
    Faults = {}
    MaxFaults = 0
    MaxCrashes = 1
    MaxPushes = 2
    MaxClock = 2
INVARIANT PublishedSiteIntact
