\* Two sites, one client, no reader: any one filesystem call may fail.
SPECIFICATION FairSpec
CONSTANTS
    Sites = {1, 2}
    Workers = {w1}
    Reaper = reaper
    Readers = {}
    TTLs = {1, Never}
    Never = Never
    Pending = Pending
    Nobody = Nobody
    Faults = {"look", "aside", "install", "expiry", "restore", "unstage", "drop", "stat", "remove", "unlink", "list", "skip"}
    MaxFaults = 1
    MaxCrashes = 0
    MaxPushes = 2
    MaxClock = 2
INVARIANTS PublishedSiteIntact
PROPERTIES RequestsFinish ExpiredSitesReaped ImplementsRegistry
