\* Every role over each backend: two API clients, a token, a failing store call, a
\* restart, and a visitor, each where MCBound puts it.
SPECIFICATION Spec
CONSTANTS
    Names <- MCNames
    Api <- MCApi
    Builtins <- MCBuiltins
    Roles = {"broker", "web", "all"}
    Backends = {"local", "s3"}
    Workers = {w1, w2}
    Watcher = watcher
    Readers = {r1}
    Tokens = {t1}
    Root = root
    TTLs = {1, Never}
    Never = Never
    Absent = Absent
    Nobody = Nobody
    Faults = {"list", "skip", "replaced", "restore", "drop", "delete", "deleted", "expire", "stat", "open", "names"}
    Bound <- MCBound
INVARIANTS TypeOK DiskSitesWin IndexLinksResolve
PROPERTIES Authority GaugeConverges AnswersSettle
