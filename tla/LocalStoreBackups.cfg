\* No failure at all: a backup is public while a push replaces its site.
SPECIFICATION Spec
CONSTANTS
    Sites = {1}
    Workers = {w1}
    Reaper = reaper
    Readers = {}
    TTLs = {1, Never}
    Never = Never
    Pending = Pending
    Nobody = Nobody
    Faults = {}
    MaxFaults = 0
    MaxCrashes = 0
    MaxPushes = 2
    MaxClock = 2
INVARIANT ElapsedNotPublic
