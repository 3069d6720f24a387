\* Two sites and two readers, a cache that is switched off or holds three
\* bytes, with and without a limit on the extracted size.
SPECIFICATION Spec
CONSTANTS
    Up = Up
    Slash = Slash
    Backslashed <- MCBackslashed
    Names = {s1, s2}
    Readers = {r1, r2}
    Archives <- MCArchives
    Typical <- MCTypical
    Trees <- MCTrees
    NoTree = NoTree
    Budgets <- MCBudgets
    Limits = {0, 3}
    MaxPushes = 3
SYMMETRY Symmetry
INVARIANTS TypeOK CacheAccounts BackendsAgree TreeWalkable DirectoriesSurvive
PROPERTY EvictsOldest
