-------------------------------- MODULE Broker --------------------------------
(***************************************************************************)
(* The HTTP server (internal/server/server.go) above a site store: which   *)
(* requests are admitted, what mutationMu covers, what the site gauge says *)
(* and what a public path answers.                                         *)
(*                                                                         *)
(* Of each backend the model keeps what a public request can tell apart:   *)
(* what is stored, and what the store tells this process of it meanwhile   *)
(* (`shown`).  On a filesystem that differs while a directory is moved or  *)
(* taken apart; over a bucket it is a map that lags.  LocalStore and       *)
(* S3Store take the mutations apart.                                       *)
(*                                                                         *)
(* The process has one of the daemon's roles.  In role web it registers no *)
(* API route and its store is changed by a broker elsewhere.               *)
(*                                                                         *)
(* A name is the sequence of its dot-separated labels.  Rejected requests, *)
(* answers, logs and counters leave no trace here.                         *)
(***************************************************************************)
EXTENDS Naturals, Sequences, FiniteSets

CONSTANTS
    Names,       \* names that are pushed or asked for
    Api,         \* the name whose paths belong to the API
    Builtins,    \* names of the embedded sites
    Roles,       \* daemon roles under consideration: "broker", "web", "all"
    Backends,    \* storage backends under consideration: "local", "s3"
    Workers,     \* goroutines of API requests
    Watcher,     \* the goroutine of startup and then of watchExpiries
    Readers,     \* goroutines of public requests
    Tokens,      \* named tokens that can be minted
    Root,        \* the root token of the config
    TTLs,        \* lifetimes of sites and of tokens
    Never,       \* no deadline
    Absent,      \* no such site, no such token
    Nobody,      \* mutationMu is free
    Faults,      \* store calls that may fail
    Bound        \* bounds per role and backend: the goroutines of API and of
                 \* public requests, tokens minted, names pushed, how many
                 \* pushes, faults, restarts, instants

FaultPoints == {"list", "skip", "replaced", "restore", "drop", "delete",
                "deleted", "expire", "stat", "open", "names"}

ASSUME NamesAssumption == /\ Names \subseteq Seq(STRING)
                          /\ Names # {} /\ IsFiniteSet(Names)
                          /\ \A n \in Names : Len(n) > 0 /\ <<Head(n)>> \in Names
                          /\ Builtins \subseteq Names
ASSUME RolesAssumption == /\ Roles \subseteq {"broker", "web", "all"}
                          /\ Backends \subseteq {"local", "s3"}
ASSUME ProcsAssumption == /\ Watcher \notin Workers
                          /\ Nobody \notin Workers \cup {Watcher}
                          /\ Root \notin Tokens
ASSUME TTLsAssumption == /\ TTLs \subseteq (Nat \ {0}) \cup {Never}
                         /\ Never \notin Nat /\ Absent \notin Nat \cup {Never}
ASSUME FaultsAssumption == Faults \subseteq FaultPoints
ASSUME BoundAssumption ==
    Bound \in [Roles \X Backends ->
                 [workers : SUBSET Workers, readers : SUBSET Readers,
                  tokens : SUBSET Tokens, names : SUBSET Names, pushes : Nat,
                  faults : Nat, restarts : Nat, clock : Nat]]

Procs   == Workers \cup {Watcher}
AnyName == CHOOSE n \in Names : TRUE
Entries == Nat \cup {Never, Absent}

VARIABLES
    role,        \* which routes the process has registered
    backend,     \* where the sites are
    clock,
    stored,      \* what is published: each name's deadline, or Absent
    shown,       \* what Stat, List and Names tell this process of each name
    stale,       \* bucket: names whose metadata in the map is not the bucket's
    dangling,    \* bucket: names whose published content was collected
    fetched,     \* bucket: the map a slow refresh has read, if there is one
    passed,      \* bucket: names changed since it was read
    tokens,      \* the token store: each token's deadline, or Absent
    gauge,       \* the site count the metrics report
    mu,          \* holder of mutationMu
    pc, job,     \* where each API goroutine stands, and for what
    name, ttl,   \* its request
    count,       \* the length of the List it holds
    now,         \* the watcher's reading of the time
    at, path,    \* where each public request stands, and the name it is for
    pushes, faults, restarts, minted,
    standing,    \* history: what the request's credential was on arrival
    followed,    \* history: the path is a link of an index shown before
    failed,      \* history: a store call of this public request failed
    kept         \* history: of the names a public request depends on, those
                 \* that stayed as they were and were told as they are since the
                 \* request for the page with the link, or else for the path

storeVars == <<stored, shown, stale, dangling, fetched, passed>>
apiVars  == <<pc, job, name, ttl, count, now, standing>>
readVars == <<at, path, followed, failed, kept>>
bounds   == <<pushes, faults, restarts, minted>>
vars == <<role, backend, clock, storeVars, tokens, gauge, mu, apiVars, readVars,
          bounds>>

Elapsed(deadline, t) == deadline \in Nat /\ deadline <= t
Deadline(t, lifetime) == IF lifetime = Never THEN Never ELSE t + lifetime
Published == {n \in Names : stored[n] # Absent}

\* What the store's readers make of it.
Live(n)   == shown[n] # Absent /\ ~Elapsed(shown[n], clock)
Hidden(n) == Elapsed(shown[n], clock)
Sites     == {n \in Names : shown[n] # Absent}

\* replaceFromTar's backup directory, a name like any other.
Backup(n) == Append(n, "old")

\* Names whose entry is told as it is and has its content behind it.
Settled == {n \in Names : shown[n] = stored[n]} \ (stale \cup dangling)

Limit == Bound[role, backend]

Fault(f) == /\ f \in Faults
            /\ faults < Limit.faults
            /\ faults' = faults + 1

\* registerBrokerRoutes and registerPublicRoutes, by role.
HasApi == role # "web"
Public == role # "broker"

Init ==
    /\ role \in Roles /\ backend \in Backends
    /\ clock = 0
    /\ stored = [n \in Names |-> Absent] /\ shown = stored
    /\ stale = {} /\ dangling = {} /\ fetched = Absent /\ passed = {}
    /\ tokens = [t \in Tokens |-> Absent]
    /\ gauge = 0 /\ mu = Nobody
    /\ pc = [[p \in Procs |-> "idle"] EXCEPT ![Watcher] = IF HasApi THEN "count" ELSE "idle"]
    /\ job = [[p \in Procs |-> "none"] EXCEPT ![Watcher] = IF HasApi THEN "boot" ELSE "none"]
    /\ name = [p \in Procs |-> AnyName]
    /\ ttl = [p \in Procs |-> Never]
    /\ count = [p \in Procs |-> 0]
    /\ now = 0
    /\ standing = [p \in Procs |-> "none"]
    /\ at = [r \in Readers |-> "idle"]
    /\ path = [r \in Readers |-> AnyName]
    /\ followed = [r \in Readers |-> FALSE]
    /\ failed = [r \in Readers |-> FALSE]
    /\ kept = [r \in Readers |-> {}]
    /\ pushes = 0 /\ faults = 0 /\ restarts = 0 /\ minted = {}

-----------------------------------------------------------------------------
(***************************************************************************)
(* Arrival: the route and its requireAuth or requireRoot.                  *)
(***************************************************************************)

\* Mutant: a token is good for as long as it is stored.
BugVerifyForever(t) == tokens[t] # Absent

\* token.Store.Verify: known, and not past its deadline; unlike a site, a token
\* is good at the very instant of its deadline.
Verify(t) == tokens[t] # Absent /\ (tokens[t] \in Nat => clock <= tokens[t])

requireAuth(bearer) == bearer = Root \/ (bearer \in Tokens /\ Verify(bearer))
requireRoot(bearer) == bearer = Root

\* What a credential is worth at this moment, whatever the handlers make of it.
Standing(bearer) ==
    CASE bearer = Root -> "root"
      [] bearer \in Tokens /\ tokens[bearer] # Absent
             /\ ~(tokens[bearer] \in Nat /\ clock > tokens[bearer]) -> "token"
      [] OTHER -> "none"

Booted == job[Watcher] # "boot"

\* A request enters its handler.
Enter(w, station, what, bearer) ==
    /\ HasApi /\ Booted
    /\ w \in Limit.workers
    /\ pc[w] = "idle"
    /\ pc' = [pc EXCEPT ![w] = station]
    /\ job' = [job EXCEPT ![w] = what]
    /\ standing' = [standing EXCEPT ![w] = Standing(bearer)]
    /\ UNCHANGED <<role, backend, clock, storeVars, tokens, gauge, mu, count, now, readVars>>

\* GET /api/status, open to everyone, and GET /api/sites.
GetStatus(w) ==
    /\ Enter(w, "count", "status", Absent)
    /\ UNCHANGED <<name, ttl, bounds>>

\* PUT /api/sites/{name} with a valid name and X-Crate-Expires; the body is
\* being copied to a temporary file.
PutSite(w, bearer) ==
    /\ requireAuth(bearer)
    /\ Enter(w, "upload", "put", bearer)
    /\ pushes < Limit.pushes
    /\ pushes' = pushes + 1
    /\ \E n \in Limit.names, l \in TTLs :
          /\ name' = [name EXCEPT ![w] = n]
          /\ ttl' = [ttl EXCEPT ![w] = l]
    /\ UNCHANGED <<faults, restarts, minted>>

DeleteSite(w, bearer) ==
    /\ requireAuth(bearer)
    /\ Enter(w, "lock", "delete", bearer)
    /\ \E n \in Limit.names : name' = [name EXCEPT ![w] = n]
    /\ UNCHANGED <<ttl, bounds>>

\* POST /api/tokens and DELETE /api/tokens/{id}.
ManageTokens(w, bearer) ==
    /\ requireRoot(bearer)
    /\ Limit.tokens # {}
    /\ \E what \in {"mint", "revoke"} : Enter(w, "tokens", what, bearer)
    /\ UNCHANGED <<name, ttl, bounds>>

\* The watcher's pass begins: time.Now() comes before the lock.
WatchExpiries ==
    /\ HasApi
    /\ pc[Watcher] = "idle"
    /\ pc' = [pc EXCEPT ![Watcher] = "lock"]
    /\ job' = [job EXCEPT ![Watcher] = "expire"]
    /\ now' = clock
    /\ UNCHANGED <<role, backend, clock, storeVars, tokens, gauge, mu, name, ttl, count,
                   standing, readVars, bounds>>

-----------------------------------------------------------------------------
(***************************************************************************)
(* The handlers.                                                           *)
(***************************************************************************)

\* The answer; the deferred Unlock, if there is one; the request is forgotten.
Finish(p) ==
    /\ pc' = [pc EXCEPT ![p] = "idle"]
    /\ job' = [job EXCEPT ![p] = "none"]
    /\ name' = [name EXCEPT ![p] = AnyName]
    /\ ttl' = [ttl EXCEPT ![p] = Never]
    /\ count' = [count EXCEPT ![p] = 0]
    /\ standing' = [standing EXCEPT ![p] = "none"]
    /\ now' = IF p = Watcher THEN 0 ELSE now
    /\ mu' = IF mu = p THEN Nobody ELSE mu

\* The body has been read to its end, or is too large or cut off.
ReadBody(w) ==
    /\ pc[w] = "upload"
    /\ \/ /\ pc' = [pc EXCEPT ![w] = "lock"]
          /\ UNCHANGED <<job, name, ttl, count, now, standing, mu>>
       \/ Finish(w)
    /\ UNCHANGED <<role, backend, clock, storeVars, tokens, gauge, readVars, bounds>>

LockMutation(p) ==
    /\ pc[p] = "lock"
    /\ mu = Nobody
    /\ mu' = p
    /\ pc' = [pc EXCEPT ![p] = "mutate"]
    /\ UNCHANGED <<role, backend, clock, storeVars, tokens, gauge, job, name, ttl, count,
                   now, standing, readVars, bounds>>

\* What is published under the names in new's domain becomes new, and readers of
\* a directory find just that again.  Over a bucket this process's map learns of
\* the names in `known`; the content of those in `gone` has been collected.
Change(new, known, gone) ==
    LET ns == DOMAIN new IN
    /\ stored' = [n \in Names |-> IF n \in ns THEN new[n] ELSE stored[n]]
    /\ shown' = IF backend = "local" THEN stored'
                ELSE [n \in Names |-> IF n \in known THEN new[n] ELSE shown[n]]
    /\ stale' = IF backend = "local" THEN {} ELSE (stale \ known) \cup (ns \ known)
    /\ dangling' = (dangling \ ns) \cup gone
    /\ passed' = IF fetched = Absent THEN {} ELSE passed \cup ns
    /\ kept' = [r \in Readers |-> kept[r] \ ns]
    /\ UNCHANGED fetched

Entry(n, d)  == [m \in {n} |-> d]
Nothing      == [m \in {} |-> Absent]

\* The entry of n, and the directory moved aside for it.
WithBackup(n, d) == [m \in {n, Backup(n)} \cap Names |-> IF m = n THEN d ELSE Never]

\* The mutation succeeded: count the sites before answering.
ToCount(p) ==
    /\ pc' = [pc EXCEPT ![p] = "count"]
    /\ UNCHANGED <<job, name, ttl, count, now, standing, mu>>

\* handlePutSite's Replace.  It refuses a bad archive, or fails and puts back
\* what was there.  Over a directory the backup may stay (and is a site then),
\* the repair may fail, and the last Stat may fail when all is done.  Over a
\* bucket the commit's answer may be lost; then what was committed is collected.
Replace(w) ==
    LET n == name[w]
        d == Deadline(clock, ttl[w]) IN
    /\ pc[w] = "mutate" /\ job[w] = "put"
    /\ \/ Change(Entry(n, d), {n}, {}) /\ ToCount(w) /\ UNCHANGED faults
       \/ Change(Nothing, {}, {}) /\ Finish(w) /\ UNCHANGED faults
       \/ /\ backend = "local" /\ stored[n] # Absent
          /\ \/ Change(WithBackup(n, d), {}, {}) /\ ToCount(w) /\ Fault("drop")
             \/ /\ \E e \in {Absent, stored[n]} : Change(WithBackup(n, e), {}, {})
                /\ Finish(w) /\ Fault("restore")
       \/ /\ \E gone \in IF backend = "s3" THEN {{}, {n}} ELSE {{}} :
                Change(Entry(n, d), {}, gone)
          /\ Finish(w) /\ Fault("replaced")
    /\ UNCHANGED <<role, backend, clock, tokens, gauge, at, path, followed, failed,
                   pushes, restarts, minted>>

\* Delete looks the name up first: a directory, or the map.
Found(n) == IF backend = "local" THEN stored[n] # Absent ELSE shown[n] # Absent

\* Over a bucket the sweep after the metadata may fail, or the answer be lost.
Delete(w) ==
    LET n == name[w] IN
    /\ pc[w] = "mutate" /\ job[w] = "delete"
    /\ \/ Found(n) /\ Change(Entry(n, Absent), {n}, {}) /\ ToCount(w) /\ UNCHANGED faults
       \/ ~Found(n) /\ Change(Nothing, {}, {}) /\ Finish(w) /\ UNCHANGED faults
       \/ Change(Nothing, {}, {}) /\ Finish(w) /\ Fault("delete")
       \/ /\ backend = "s3" /\ Found(n)
          /\ \E known \in {{}, {n}} : Change(Entry(n, Absent), known, {})
          /\ Finish(w) /\ Fault("deleted")
    /\ UNCHANGED <<role, backend, clock, tokens, gauge, at, path, followed, failed,
                   pushes, restarts, minted>>

\* The pass begins with a listing, for which the map is read anew.
ListExpired ==
    /\ pc[Watcher] = "mutate"
    /\ \/ /\ pc' = [pc EXCEPT ![Watcher] = "reap"]
          /\ shown' = IF backend = "local" THEN shown ELSE stored
          /\ stale' = {}
          /\ UNCHANGED <<job, name, ttl, count, now, standing, mu, faults>>
       \/ Finish(Watcher) /\ Fault("list") /\ UNCHANGED <<shown, stale>>
    /\ UNCHANGED <<role, backend, clock, stored, dangling, fetched, passed, tokens,
                   gauge, readVars, pushes, restarts, minted>>

Due == {n \in Names : Elapsed(stored[n], now) /\ Found(n)}

Gone(ns) == [n \in ns |-> Absent]

\* Mutant: a pass that deletes nothing does not count the sites.
BugCountsDeletions ==
    /\ pc[Watcher] = "reap"
    /\ \/ /\ Change(Gone(Due), Due, {}) /\ UNCHANGED faults
          /\ IF Due = {} THEN Finish(Watcher) ELSE ToCount(Watcher)
       \/ /\ \E n \in Due : Change(Gone(Due \ {n}), Due \ {n}, {})
          /\ ToCount(Watcher) /\ Fault("skip")
       \/ /\ \E some \in SUBSET Due :
                \E known \in {some} \cup {some \ {n} : n \in some} :
                    Change(Gone(some), known, {})
          /\ Finish(Watcher) /\ Fault("expire")
    /\ UNCHANGED <<role, backend, clock, tokens, gauge, at, path, followed, failed,
                   pushes, restarts, minted>>

\* The pass deletes what was due and is found; or all but a site whose Stat
\* failed in the listing; or it fails with some of it deleted, the last perhaps
\* without an answer.  Only a pass that succeeded counts the sites.
DeleteExpired ==
    /\ pc[Watcher] = "reap"
    /\ \/ Change(Gone(Due), Due, {}) /\ ToCount(Watcher) /\ UNCHANGED faults
       \/ /\ \E n \in Due : Change(Gone(Due \ {n}), Due \ {n}, {})
          /\ ToCount(Watcher) /\ Fault("skip")
       \/ /\ \E some \in SUBSET Due :
                \E known \in {some} \cup {some \ {n} : n \in some} :
                    Change(Gone(some), known, {})
          /\ Finish(Watcher) /\ Fault("expire")
    /\ UNCHANGED <<role, backend, clock, tokens, gauge, at, path, followed, failed,
                   pushes, restarts, minted>>

\* refreshMetricSiteCount, handleStatus and handleListSites: List, which leaves
\* out a directory whose Stat fails ...
CountSites(p) ==
    /\ pc[p] = "count"
    /\ \/ /\ pc' = [pc EXCEPT ![p] = "set"]
          /\ \/ count' = [count EXCEPT ![p] = Cardinality(Sites)] /\ UNCHANGED faults
             \/ /\ \E n \in Sites : count' = [count EXCEPT ![p] = Cardinality(Sites \ {n})]
                /\ Fault("skip")
          /\ UNCHANGED <<job, name, ttl, now, standing, mu>>
       \/ Finish(p) /\ Fault("list")
    /\ UNCHANGED <<role, backend, clock, storeVars, tokens, gauge, readVars, pushes,
                   restarts, minted>>

\* Mutant: the gauge is added to instead of set.
BugGaugeAdds(p) ==
    /\ pc[p] = "set"
    /\ gauge' = gauge + count[p]
    /\ Finish(p)
    /\ UNCHANGED <<role, backend, clock, storeVars, tokens, readVars, bounds>>

\* ... and SetSiteCount with its length, which a status request does without
\* mutationMu.
SetSiteCount(p) ==
    /\ pc[p] = "set"
    /\ gauge' = count[p]
    /\ Finish(p)
    /\ UNCHANGED <<role, backend, clock, storeVars, tokens, readVars, bounds>>

\* handleCreateToken and handleRevokeToken, saved or not.
ChangeTokens(w) ==
    /\ pc[w] = "tokens"
    /\ Finish(w)
    /\ \/ /\ job[w] = "mint"
          /\ \E t \in Limit.tokens \ minted, l \in TTLs :
                /\ tokens' = [tokens EXCEPT ![t] = Deadline(clock, l)]
                /\ minted' = minted \cup {t}
       \/ /\ job[w] = "revoke"
          /\ \E t \in Limit.tokens : tokens' = [tokens EXCEPT ![t] = Absent]
          /\ UNCHANGED minted
       \/ UNCHANGED <<tokens, minted>>
    /\ UNCHANGED <<role, backend, clock, storeVars, gauge, readVars, pushes, faults,
                   restarts>>

-----------------------------------------------------------------------------
(***************************************************************************)
(* Public requests.                                                        *)
(***************************************************************************)

\* strings.HasPrefix(n, p + ".")
Under(n, p) == Len(p) < Len(n) /\ SubSeq(n, 1, Len(p)) = p

\* The name before the first dot.
Prefix(n) == <<Head(n)>>

LiveSites == {n \in Names : Live(n)}

\* Mutant: groups are made before the elapsed sites are dropped.
BugGroupsElapsed == LiveSites \cup {Prefix(n) : n \in Sites} \cup (Builtins \ LiveSites)

\* The links of renderIndex: each live site, the heading of its group, and the
\* builtins no live site shadows.
Links == LiveSites \cup {Prefix(n) : n \in LiveSites} \cup (Builtins \ LiveSites)

\* The request, or the page it follows, depends on a name and those below it.
Concerned(n) == {m \in Names : m = n \/ Under(m, n)}

Arrive(r, station, n, ns) ==
    /\ Public
    /\ r \in Limit.readers
    /\ at[r] = "idle"
    /\ at' = [at EXCEPT ![r] = station]
    /\ path' = [path EXCEPT ![r] = n]
    /\ followed' = [followed EXCEPT ![r] = FALSE]
    /\ kept' = [kept EXCEPT ![r] = ns \cap Settled]
    /\ UNCHANGED <<role, backend, clock, storeVars, tokens, gauge, mu, apiVars,
                   failed, bounds>>

\* GET /
GetIndex(r) == Arrive(r, "index", AnyName, Names)

\* GET /name, /name/ or a path below it, typed in.
GetPath(r) == \E n \in Names : Arrive(r, "stat", n, Concerned(n))

\* List's answer becomes a page; the visitor will follow one of its links.
RenderIndex(r) ==
    /\ at[r] = "index"
    /\ at' = [at EXCEPT ![r] = "page"]
    /\ \E n \in Links :
          /\ path' = [path EXCEPT ![r] = n]
          /\ kept' = [kept EXCEPT ![r] = @ \cap Concerned(n)]
    /\ followed' = [followed EXCEPT ![r] = TRUE]
    /\ UNCHANGED <<role, backend, clock, storeVars, tokens, gauge, mu, apiVars,
                   failed, bounds>>

Follow(r) ==
    /\ at[r] = "page"
    /\ at' = [at EXCEPT ![r] = "stat"]
    /\ UNCHANGED <<role, backend, clock, storeVars, tokens, gauge, mu, apiVars, path,
                   followed, failed, kept, bounds>>

\* A public request moves on; `bad` when it is because a store call failed.
Step(r, from, to, bad) ==
    /\ at[r] = from
    /\ at' = [at EXCEPT ![r] = to]
    /\ failed' = [failed EXCEPT ![r] = @ \/ bad]

Quiet == UNCHANGED <<role, backend, clock, storeVars, tokens, gauge, mu, apiVars,
                     path, followed, kept, pushes, restarts, minted>>

\* Mutant: the builtins are asked before the store.
BugBuiltinsFirst(r) ==
    LET n == path[r] IN
    /\ \/ n = Api /\ Step(r, "stat", "notFound", FALSE) /\ UNCHANGED faults
       \/ n \notin Builtins \cup {Api} /\ Live(n) /\ Step(r, "stat", "open", FALSE)
             /\ UNCHANGED faults
       \/ n # Api /\ Hidden(n) /\ Step(r, "stat", "notFound", FALSE) /\ UNCHANGED faults
       \/ n \in Builtins \cup (Names \ Sites) /\ n # Api
             /\ Step(r, "stat", "fallback", FALSE) /\ UNCHANGED faults
    /\ Quiet

\* Stat and the check of the deadline.  Every error of Stat, not only
\* ErrNotFound, goes on to the builtins.
Stat(r) ==
    LET n == path[r] IN
    /\ \/ n = Api /\ Step(r, "stat", "notFound", FALSE) /\ UNCHANGED faults
       \/ n # Api /\ Live(n) /\ Step(r, "stat", "open", FALSE) /\ UNCHANGED faults
       \/ n # Api /\ Hidden(n) /\ Step(r, "stat", "notFound", FALSE) /\ UNCHANGED faults
       \/ n # Api /\ n \notin Sites /\ Step(r, "stat", "fallback", FALSE) /\ UNCHANGED faults
       \/ n # Api /\ Step(r, "stat", "fallback", TRUE) /\ Fault("stat")
    /\ Quiet

\* Over a bucket the content comes from the cache or from the object the map
\* names, which is gone when the entry is old or its push was disowned.
Open(r) ==
    LET n == path[r] IN
    /\ \/ n \in Sites /\ Step(r, "open", "serve", FALSE) /\ UNCHANGED faults
       \/ n \in (Names \ Sites) \cup stale \cup dangling
             /\ Step(r, "open", "notFound", FALSE) /\ UNCHANGED faults
       \/ Step(r, "open", "error", TRUE) /\ Fault("open")
    /\ Quiet

\* serveSite.  A directory is looked up again for the file; what came from a
\* bucket is in memory.
ServeSite(r) ==
    /\ \/ (backend = "s3" \/ path[r] \in Sites) /\ Step(r, "serve", "site", FALSE)
       \/ backend = "local" /\ path[r] \notin Sites /\ Step(r, "serve", "notFound", FALSE)
    /\ Quiet
    /\ UNCHANGED faults

\* hasGroupChildren goes by the names alone.
hasGroupChildren(n) == \E m \in Sites : Under(m, n)

\* The builtin, then the group index: a redirect for /name, the index for
\* /name/ (as every link is written), nothing for a path below.
Fallback(r) ==
    LET n == path[r]
        group == n \notin Builtins /\ hasGroupChildren(n) IN
    /\ \/ n \in Builtins /\ Step(r, "fallback", "builtin", FALSE) /\ UNCHANGED faults
       \/ group /\ Step(r, "fallback", "group", FALSE) /\ UNCHANGED faults
       \/ group /\ ~followed[r] /\ UNCHANGED faults
             /\ (Step(r, "fallback", "redirect", FALSE) \/ Step(r, "fallback", "notFound", FALSE))
       \/ n \notin Builtins /\ ~group /\ Step(r, "fallback", "notFound", FALSE) /\ UNCHANGED faults
       \/ n \notin Builtins /\ Step(r, "fallback", "notFound", TRUE) /\ Fault("names")
    /\ Quiet

\* renderGroupIndex lists again; no live child is 404.
RenderGroupIndex(r) ==
    LET rows == {n \in LiveSites : Under(n, path[r])} IN
    /\ \/ rows # {} /\ Step(r, "group", "groupIndex", FALSE) /\ UNCHANGED faults
       \/ rows = {} /\ Step(r, "group", "notFound", FALSE) /\ UNCHANGED faults
       \/ Step(r, "group", "notFound", TRUE) /\ Fault("skip")
       \/ Step(r, "group", "error", TRUE) /\ Fault("list")
    /\ Quiet

Answers == {"site", "builtin", "redirect", "groupIndex", "notFound", "error"}

Leave(r) ==
    /\ at[r] \in Answers \cup {"index", "page"}
    /\ at' = [at EXCEPT ![r] = "idle"]
    /\ path' = [path EXCEPT ![r] = AnyName]
    /\ followed' = [followed EXCEPT ![r] = FALSE]
    /\ failed' = [failed EXCEPT ![r] = FALSE]
    /\ kept' = [kept EXCEPT ![r] = {}]
    /\ UNCHANGED <<role, backend, clock, storeVars, tokens, gauge, mu, apiVars, bounds>>

-----------------------------------------------------------------------------
Tick ==
    /\ clock < Limit.clock
    /\ clock' = clock + 1
    /\ kept' = [r \in Readers |-> {n \in kept[r] : stored[n] # clock + 1}]
    /\ UNCHANGED <<role, backend, storeVars, tokens, gauge, mu, apiVars, at, path,
                   followed, failed, bounds>>

\* The names a PUT, or a DELETE or an expiry pass, is at work on: this
\* process's mutation, or one of the broker's elsewhere.
Replaced ==
    IF HasApi THEN {name[w] : w \in {w \in Workers : pc[w] = "mutate" /\ job[w] = "put"}}
    ELSE Limit.names
Removed ==
    IF HasApi THEN {name[w] : w \in {w \in Workers : pc[w] = "mutate" /\ job[w] = "delete"}}
                   \cup (IF pc[Watcher] = "reap" THEN Due ELSE {})
    ELSE Names

\* A mutation moves or takes apart a directory, before it is done or undone.
\* Readers find e under its name n: nothing, as a walk over a directory that
\* loses its files fails; or the new directory, under the deadline of the old.
\* The old one is another site meanwhile.
Disturb ==
    LET Appear(n, e, moved) ==
            /\ shown' = [m \in Names |-> IF m = n THEN e ELSE
                                         IF m \in moved THEN Never ELSE stored[m]]
            /\ kept' = [r \in Readers |-> kept[r] \ ({n} \cup moved)] IN
    /\ backend = "local"
    /\ \/ \E n \in Replaced \cap Published, e \in {"gone", "new"} :
             Appear(n, IF e = "gone" THEN Absent ELSE stored[n], {Backup(n)})
       \/ \E n \in Replaced \ Published : Appear(n, Never, {})
       \/ \E n \in Removed \cap Published : Appear(n, Absent, {})
    /\ UNCHANGED <<role, backend, clock, stored, stale, dangling, fetched, passed,
                   tokens, gauge, mu, apiVars, at, path, followed, failed, bounds>>

\* Mutant: a map that is not empty is never read again.
BugRefreshOnce ==
    /\ backend = "s3" /\ Sites = {}
    /\ shown' = stored /\ stale' = {}
    /\ UNCHANGED <<role, backend, clock, stored, dangling, fetched, passed, tokens,
                   gauge, mu, apiVars, readVars, bounds>>

\* A request finds the map older than MetaTTL and reads it anew.
Refresh ==
    /\ backend = "s3"
    /\ shown' = stored /\ stale' = {}
    /\ UNCHANGED <<role, backend, clock, stored, dangling, fetched, passed, tokens,
                   gauge, mu, apiVars, readVars, bounds>>

\* The same, taking its time: what was read is installed later, over whatever
\* this process wrote or read since.
Fetch ==
    /\ backend = "s3" /\ fetched = Absent
    /\ fetched' = stored
    /\ UNCHANGED <<role, backend, clock, stored, shown, stale, dangling, passed,
                   tokens, gauge, mu, apiVars, readVars, bounds>>

InstallMap ==
    /\ backend = "s3" /\ fetched # Absent
    /\ shown' = fetched /\ stale' = passed
    /\ fetched' = Absent /\ passed' = {}
    /\ kept' = [r \in Readers |-> kept[r] \ passed]
    /\ UNCHANGED <<role, backend, clock, stored, dangling, tokens, gauge, mu, apiVars,
                   at, path, followed, failed, bounds>>

\* What the broker of another process does to the store of a web process: a
\* push, with the backup or the lost commit it may leave; a delete, a part of an
\* expiry pass; and its death with a directory moved.
Elsewhere ==
    /\ ~HasApi
    /\ \/ /\ pushes < Limit.pushes
          /\ pushes' = pushes + 1
          /\ \E n \in Limit.names, l \in TTLs :
                LET d == Deadline(clock, l) IN
                \/ Change(Entry(n, d), {}, {}) /\ UNCHANGED faults
                \/ backend = "local" /\ n \in Published
                      /\ Change(WithBackup(n, d), {}, {}) /\ Fault("drop")
                \/ backend = "s3" /\ Change(Entry(n, d), {}, {n}) /\ Fault("replaced")
          /\ UNCHANGED restarts
       \/ /\ \E n \in Published : Change(Entry(n, Absent), {}, {})
          /\ UNCHANGED <<pushes, faults, restarts>>
       \/ /\ backend = "local" /\ restarts < Limit.restarts
          /\ restarts' = restarts + 1
          /\ shown # stored
          /\ Change([n \in {n \in Names : shown[n] # stored[n]} |-> shown[n]], {}, {})
          /\ UNCHANGED <<pushes, faults>>
    /\ UNCHANGED <<role, backend, clock, tokens, gauge, mu, apiVars, at, path, followed,
                   failed, minted>>

\* It also undoes what fails, and collects what has elapsed.
UndoElsewhere ==
    /\ ~HasApi /\ backend = "local" /\ shown # stored
    /\ Change(Nothing, {}, {})
    /\ UNCHANGED <<role, backend, clock, tokens, gauge, mu, apiVars, at, path, followed,
                   failed, bounds>>

CollectElsewhere ==
    LET over == {n \in Names : Elapsed(stored[n], clock)} IN
    /\ ~HasApi /\ over # {}
    /\ Change(Gone(over), {}, {})
    /\ UNCHANGED <<role, backend, clock, tokens, gauge, mu, apiVars, at, path, followed,
                   failed, bounds>>

\* The broker ends, with its requests, and is started again over its store: the
\* directories as they are, or a bucket of which it has no map.
Restart ==
    /\ HasApi
    /\ restarts < Limit.restarts
    /\ restarts' = restarts + 1
    /\ stored' = IF backend = "local" THEN shown ELSE stored
    /\ shown' = stored'
    /\ stale' = {} /\ fetched' = Absent /\ passed' = {}
    /\ gauge' = 0 /\ mu' = Nobody
    /\ pc' = [[p \in Procs |-> "idle"] EXCEPT ![Watcher] = "count"]
    /\ job' = [[p \in Procs |-> "none"] EXCEPT ![Watcher] = "boot"]
    /\ name' = [p \in Procs |-> AnyName]
    /\ ttl' = [p \in Procs |-> Never]
    /\ count' = [p \in Procs |-> 0]
    /\ standing' = [p \in Procs |-> "none"]
    /\ now' = 0
    /\ at' = [r \in Readers |-> "idle"]
    /\ path' = [r \in Readers |-> AnyName]
    /\ followed' = [r \in Readers |-> FALSE]
    /\ failed' = [r \in Readers |-> FALSE]
    /\ kept' = [r \in Readers |-> {}]
    /\ UNCHANGED <<role, backend, clock, dangling, tokens, pushes, faults, minted>>

Request(w) == \/ GetStatus(w)
              \/ \E bearer \in Tokens \cup {Root} :
                    PutSite(w, bearer) \/ DeleteSite(w, bearer) \/ ManageTokens(w, bearer)

Handle(p) == CountSites(p) \/ SetSiteCount(p)
Serve(w)  == Handle(w) \/ Replace(w) \/ Delete(w) \/ ChangeTokens(w)
Watch     == Handle(Watcher) \/ WatchExpiries \/ ListExpired \/ DeleteExpired
Read(r)   == \/ GetIndex(r) \/ GetPath(r) \/ RenderIndex(r) \/ Follow(r) \/ Stat(r)
             \/ Open(r) \/ ServeSite(r) \/ Fallback(r) \/ RenderGroupIndex(r) \/ Leave(r)

Store == Disturb \/ Refresh \/ Fetch \/ InstallMap \/ Elsewhere \/ UndoElsewhere
         \/ CollectElsewhere

Next == \/ \E w \in Workers : Request(w) \/ ReadBody(w) \/ Serve(w)
        \/ \E p \in Procs : LockMutation(p)
        \/ Watch
        \/ \E r \in Readers : Read(r)
        \/ Store
        \/ Tick
        \/ Restart

\* A runnable goroutine runs, the watcher's ticker goes on, and sync.Mutex
\* serves a waiter it starves.  A client may leave its body unsent for ever.
\* Beside a web process a broker runs, and visitors go on to come, so a map
\* that has aged is read again.
Fairness == /\ \A w \in Workers : WF_vars(Serve(w))
            /\ \A p \in Procs : SF_vars(LockMutation(p))
            /\ WF_vars(Watch)
            /\ WF_vars(Refresh)
            /\ WF_vars(UndoElsewhere) /\ WF_vars(CollectElsewhere)

Spec == Init /\ [][Next]_vars /\ Fairness

-----------------------------------------------------------------------------
\* Every variable keeps its type; the gauge is a count some List returned.
TypeOK ==
    /\ role \in Roles /\ backend \in Backends /\ clock \in Nat
    /\ stored \in [Names -> Entries] /\ shown \in [Names -> Entries]
    /\ stale \subseteq Names /\ dangling \subseteq Names
    /\ fetched \in [Names -> Entries] \cup {Absent} /\ passed \subseteq Names
    /\ tokens \in [Tokens -> Entries]
    /\ gauge \in 0 .. Cardinality(Names)
    /\ mu \in Procs \cup {Nobody}
    /\ pc \in [Procs -> {"idle", "upload", "lock", "mutate", "reap", "count", "set",
                         "tokens"}]
    /\ job \in [Procs -> {"none", "boot", "status", "put", "delete", "expire",
                          "mint", "revoke"}]
    /\ name \in [Procs -> Names]
    /\ ttl \in [Procs -> TTLs \cup {Never}]
    /\ count \in [Procs -> 0 .. Cardinality(Names)]
    /\ now \in Nat
    /\ at \in [Readers -> Answers \cup {"idle", "index", "page", "stat", "open", "serve",
                                     "fallback", "group"}]
    /\ path \in [Readers -> Names]
    /\ pushes \in Nat /\ faults \in Nat /\ restarts \in Nat
    /\ minted \subseteq Tokens
    /\ standing \in [Procs -> {"none", "token", "root"}]
    /\ followed \in [Readers -> BOOLEAN] /\ failed \in [Readers -> BOOLEAN]
    /\ kept \in [Readers -> SUBSET Names]

\* A public request is answered by a builtin, a group index or 404 for the
\* name of a live site only when a call to the store failed, for the API's own
\* name, or when since the request the site was replaced, its directory was
\* moved or taken apart (also by a push that was then undone), the map did not
\* have its present version or the content had been collected (server.go: "Disk
\* sites win; if no disk site exists for the requested name, falls through").
\* What happens to other names never makes a difference.
DiskSitesWin ==
    \A r \in Readers :
        (/\ at[r] \in Answers \ {"site", "error"} /\ path[r] \in kept[r]
         /\ path[r] \in Published /\ ~Elapsed(stored[path[r]], clock))
            => failed[r] \/ path[r] = Api

\* A link of the index leads somewhere as long as the site it names, or those
\* of its group, have since the request for the page stayed as they were and
\* been told as they are (as above): 404 only for the API's name, after a failed
\* call, and while an elapsed site that is not collected yet holds the name of a
\* builtin or group.
IndexLinksResolve ==
    \A r \in Readers :
        (at[r] = "notFound" /\ followed[r] /\ Concerned(path[r]) \subseteq kept[r])
            => path[r] = Api \/ failed[r] \/ Elapsed(stored[path[r]], clock)

\* Sites change in the hands of mutationMu's holder, which is the watcher or a
\* request whose credential was good when it arrived, and tokens change only
\* for the root token: time and revocations that fall into a long upload
\* neither admit a stranger nor lend a token the root's powers.
Authority ==
    [][/\ HasApi /\ stored' # stored => mu = Watcher \/ (mu \in Workers /\ standing[mu] # "none")
       /\ tokens' # tokens =>
              \E w \in Workers : pc[w] = "tokens" /\ pc'[w] = "idle" /\ standing[w] = "root"]_vars

\* Once clients stop changing sites the gauge comes to agree with the store
\* for good, whatever status requests, failed mutations, partial passes and
\* restarts left in it: the next pass of the watcher that succeeds counts.
GaugeConverges == <>[](HasApi => gauge = Cardinality(Published))

\* What a request for n would be answered if nothing happened meanwhile, and
\* what it should be: the site, else the builtin, else the index of live sites
\* below the name.
Answer(n, entry, children) ==
    CASE entry # Absent -> IF Elapsed(entry, clock) THEN "notFound" ELSE "site"
      [] entry = Absent /\ n \in Builtins -> "builtin"
      [] OTHER -> IF \E m \in children : Under(m, n) THEN "groupIndex" ELSE "notFound"

LivePublished == {n \in Names : stored[n] # Absent /\ ~Elapsed(stored[n], clock)}

Documented(n) == Answer(n, IF n \in LivePublished THEN stored[n] ELSE Absent, LivePublished)

\* Again and again every name but the API's would be answered as documented: a
\* builtin or a group index that an elapsed site hides comes back, a new site is
\* found, a removed one is not, and nothing is left pointing at content that was
\* replaced.  Passes that fail, maps installed late, deaths of the broker and
\* pushes that are undone only delay it; content collected by a push whose
\* commit was disowned is the exception.
AnswersSettle ==
    []<>(Public => \A n \in Names \ {Api} :
            n \in dangling \/ (n \notin stale /\ Answer(n, shown[n], LiveSites) = Documented(n)))

=============================================================================
