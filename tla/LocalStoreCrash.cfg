\* One site, one client at a time, one reader; the broker may die once and two
\* of the filesystem calls that change the directories may fail, anywhere.
SPECIFICATION Spec
CONSTANTS
    Sites = {1}
    Workers = {w1}
    Reaper = reaper
    Readers = {r1}
    TTLs = {1, Never}
    Never = Never
    Pending = Pending
    Nobody = Nobody
    Faults = {"aside", "install", "expiry", "restore", "drop", "remove", "unlink", "unstage"}
    MaxFaults = 2
    MaxCrashes = 1
    MaxPushes = 2
    MaxClock = 2
INVARIANTS TypeOK ServedNotExpired NoLeftovers
PROPERTIES ReaperSparesLive
