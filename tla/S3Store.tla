------------------------------- MODULE S3Store -------------------------------
(***************************************************************************)
(* The object-storage backend (internal/s3store/s3store.go): one broker    *)
(* process that writes, any number of web processes that only read, and a  *)
(* bucket between them.                                                    *)
(*                                                                         *)
(* Every process has its own metadata map (meta, metaAt, metaValid) and    *)
(* content cache.  Goroutines are the public requests (Readers, each in a  *)
(* process) and the broker's one Mutator: mutationMu lets PUT, DELETE and  *)
(* the expiry pass run only one after the other, so they share a program   *)
(* counter.  A call to snapshot() takes the process's map when it is young *)
(* enough; otherwise the goroutine fetches all metadata without a lock and *)
(* installs what it fetched later, whatever happened in between.           *)
(*                                                                         *)
(* The bucket is external: each request is atomic, fails without effect    *)
(* ("error") or takes effect without an answer ("lost").                   *)
(***************************************************************************)
EXTENDS Naturals

CONSTANTS
    Sites,        \* site names, ordered as numbers
    Broker,       \* the process that runs the mutator
    Webs,         \* processes of role web
    Readers,      \* goroutines of public requests
    Home,         \* the process each reader runs in
    Mutator,      \* the holder of mutationMu
    TTLs,         \* lifetimes a push may ask for
    MetaTTL,      \* how long a metadata map is taken as fresh
    Never,        \* no deadline
    None,         \* no metadata object
    Unknown,      \* what a goroutine holds when its refresh failed
    Faults,       \* requests that may go wrong, and how
    MaxFaults,    \* bound: requests that go wrong in a behaviour
    MaxCrashes,   \* bound: broker deaths
    MaxPushes,    \* bound: uploads
    MaxClock      \* bound: the last instant

FaultPoints == {"list", "get", "content", "contentLost", "commit", "commitLost",
                "unmeta", "unmetaLost", "sweep", "remove"}

ASSUME SitesAssumption == Sites \subseteq Nat /\ Sites # {}
ASSUME ProcsAssumption == /\ Broker \notin Webs
                          /\ Home \in [Readers -> Webs \cup {Broker}]
                          /\ Mutator \notin Readers
ASSUME TTLsAssumption == /\ TTLs \subseteq (Nat \ {0}) \cup {Never}
                         /\ Never \notin Nat
                         /\ MetaTTL \in Nat \ {0}
ASSUME FaultsAssumption == Faults \subseteq FaultPoints
ASSUME BoundsAssumption == {MaxFaults, MaxCrashes, MaxPushes, MaxClock} \subseteq Nat

Procs      == Webs \cup {Broker}
Goroutines == Readers \cup {Mutator}
Process(g) == IF g = Mutator THEN Broker ELSE Home[g]
Versions   == 1 .. MaxPushes
Meta       == [version : Versions, expires : Nat \cup {Never}]
Maps       == [Sites -> Meta \cup {None}]
Empty      == [s \in Sites |-> None]
AnySite    == CHOOSE s \in Sites : TRUE
Absent     == 0

ASSUME NoneAssumption == /\ None \notin Meta
                         /\ Unknown \notin Maps \cup Meta \cup {None}

VARIABLES
    clock,
    bucket,      \* meta/<name>.json
    objects,     \* sites/<name>/<version>.tar, as the set of versions
    owner,       \* the site each version was uploaded for, or Absent
    meta, metaAt, metaValid,  \* Store.meta, metaAt and metaValid per process
    content,     \* Store.content: versions expanded in memory, per process
    pc,          \* where each goroutine stands
    snap, view,  \* how far its snapshot() call is, and the map it returned
    site,        \* the site it works on
    got,         \* the version a reader serves
    ttl, ver, expires, prev,  \* the push under way
    job, now, todo,           \* whose call holds mutationMu: a request's or
                              \* the expiry pass, its time and its list
    pushes, faults, crashes,
    published,   \* history: versions some metadata object has named
    lost,        \* history: versions committed with no answer
    unbroken     \* history: versions since whose commit the site has been
                 \* published without a break

storeVars == <<bucket, objects, owner>>
cacheVars == <<meta, metaAt, metaValid, content>>
pushVars  == <<ttl, ver, expires, prev>>
reapVars  == <<job, now, todo>>
history   == <<published, lost, unbroken>>
bounds    == <<pushes, faults, crashes>>
vars == <<clock, storeVars, cacheVars, pc, snap, view, site, got, pushVars,
          reapVars, bounds, history>>

reaping == job = "reap"

Elapsed(deadline, t) == deadline # Never /\ deadline <= t

Fault(f) == /\ f \in Faults
            /\ faults < MaxFaults
            /\ faults' = faults + 1

Goto(g, from, to) == pc[g] = from /\ pc' = [pc EXCEPT ![g] = to]

Init ==
    /\ clock = 0
    /\ bucket = Empty /\ objects = {}
    /\ owner = [v \in Versions |-> Absent]
    /\ meta = [p \in Procs |-> Empty]
    /\ metaAt = [p \in Procs |-> 0]
    /\ metaValid = [p \in Procs |-> FALSE]
    /\ content = [p \in Procs |-> {}]
    /\ pc = [[g \in Goroutines |-> "idle"] EXCEPT ![Mutator] = "boot"]
    /\ snap = [g \in Goroutines |-> "none"]
    /\ view = [g \in Goroutines |-> Empty]
    /\ site = [g \in Goroutines |-> AnySite]
    /\ got = [r \in Readers |-> Absent]
    /\ ttl = Never /\ ver = Absent /\ expires = Never /\ prev = Absent
    /\ job = "request" /\ now = 0 /\ todo = {}
    /\ pushes = 0 /\ faults = 0 /\ crashes = 0
    /\ published = {} /\ lost = {} /\ unbroken = {}

-----------------------------------------------------------------------------
(***************************************************************************)
(* snapshot() and refresh().                                               *)
(***************************************************************************)

Fresh(p) == metaValid[p] /\ clock < metaAt[p] + MetaTTL

LookupPoints == {"boot", "stat", "open", "prev", "gone", "count"}

\* Mutant of Snapshot: DeleteExpired trusts a young map too.
BugReapFromMap(g) ==
    /\ pc[g] \in LookupPoints \cup {"reap"}
    /\ snap[g] = "none"
    /\ Fresh(Process(g))
    /\ snap' = [snap EXCEPT ![g] = "ready"]
    /\ view' = [view EXCEPT ![g] = meta[Process(g)]]
    /\ UNCHANGED <<clock, storeVars, cacheVars, pc, site, got, pushVars,
                   reapVars, bounds, history>>

\* A map that is young enough is copied.
Snapshot(g) ==
    /\ pc[g] \in LookupPoints
    /\ snap[g] = "none"
    /\ Fresh(Process(g))
    /\ snap' = [snap EXCEPT ![g] = "ready"]
    /\ view' = [view EXCEPT ![g] = meta[Process(g)]]
    /\ UNCHANGED <<clock, storeVars, cacheVars, pc, site, got, pushVars,
                   reapVars, bounds, history>>

\* Mutant of Fetch: a listing that failed is installed all the same.
BugInstallsFailure(g) ==
    /\ \/ pc[g] \in LookupPoints /\ ~Fresh(Process(g))
       \/ pc[g] = "reap"
    /\ snap[g] = "none"
    /\ snap' = [snap EXCEPT ![g] = "fetched"]
    /\ \/ view' = [view EXCEPT ![g] = bucket] /\ UNCHANGED faults
       \/ view' = [view EXCEPT ![g] = Unknown] /\ Fault("list")
    /\ UNCHANGED <<clock, storeVars, cacheVars, pc, site, got, pushVars,
                   reapVars, pushes, crashes, history>>

\* Otherwise, and always in DeleteExpired, the metadata objects are listed and
\* read, without a lock.
Fetch(g) ==
    /\ \/ pc[g] \in LookupPoints /\ ~Fresh(Process(g))
       \/ pc[g] = "reap"
    /\ snap[g] = "none"
    /\ \/ /\ snap' = [snap EXCEPT ![g] = "fetched"]
          /\ view' = [view EXCEPT ![g] = bucket]
          /\ UNCHANGED faults
       \/ /\ Fault("list")
          /\ snap' = [snap EXCEPT ![g] = "ready"]
          /\ view' = [view EXCEPT ![g] = Unknown]
    /\ UNCHANGED <<clock, storeVars, cacheVars, pc, site, got, pushVars,
                   reapVars, pushes, crashes, history>>

\* What was read becomes the process's map, as of now.
InstallMap(g) ==
    LET p == Process(g) IN
    /\ snap[g] = "fetched"
    /\ snap' = [snap EXCEPT ![g] = "ready"]
    /\ meta' = [meta EXCEPT ![p] = view[g]]
    /\ metaAt' = [metaAt EXCEPT ![p] = clock]
    /\ metaValid' = [metaValid EXCEPT ![p] = TRUE]
    /\ UNCHANGED <<clock, storeVars, content, pc, view, site, got,
                   pushVars, reapVars, bounds, history>>

\* The call's result is used, and forgotten.
Use(g) ==
    /\ snap[g] = "ready"
    /\ snap' = [snap EXCEPT ![g] = "none"]
    /\ view' = [view EXCEPT ![g] = Empty]

\* lookup(name): None for a site without metadata.
Found(g) == IF view[g] = Unknown THEN Unknown ELSE view[g][site[g]]

-----------------------------------------------------------------------------
(***************************************************************************)
(* handlePublic over Stat and Open.                                        *)
(***************************************************************************)

\* The broker listens only after its first count of the sites.
GetPage(r) ==
    /\ Goto(r, "idle", "stat")
    /\ Home[r] = Broker => pc[Mutator] # "boot"
    /\ \E s \in Sites : site' = [site EXCEPT ![r] = s]
    /\ UNCHANGED <<clock, storeVars, cacheVars, snap, view, got, pushVars,
                   reapVars, bounds, history>>

\* Stat's answer: an error or an elapsed deadline ends the request without
\* saying anything of the site ("refused").
CheckExpiry(r) ==
    LET m == Found(r) IN
    /\ Use(r)
    /\ \/ Goto(r, "stat", "open") /\ m \in Meta /\ ~Elapsed(m.expires, clock)
       \/ Goto(r, "stat", "refused") /\ m \in Meta /\ Elapsed(m.expires, clock)
       \/ Goto(r, "stat", "refused") /\ m = Unknown
       \/ Goto(r, "stat", "notFound") /\ m = None
    /\ UNCHANGED <<clock, storeVars, cacheVars, site, got, pushVars,
                   reapVars, bounds, history>>

\* Open looks the site up again; `got` is the version it will serve.
OpenSite(r) ==
    LET m == Found(r) IN
    /\ Use(r)
    /\ \/ /\ Goto(r, "open", "get") /\ m \in Meta
          /\ got' = [got EXCEPT ![r] = m.version]
       \/ Goto(r, "open", "refused") /\ m = Unknown /\ UNCHANGED got
       \/ Goto(r, "open", "notFound") /\ m = None /\ UNCHANGED got
    /\ UNCHANGED <<clock, storeVars, cacheVars, site, pushVars, reapVars,
                   bounds, history>>

\* content.put: entries may leave to make room for v, and v itself is not
\* kept when it is larger than the budget.
CachePut(p, v) ==
    \E c \in {content[p]} \cup {kept \cup {v} : kept \in SUBSET content[p]} :
        content' = [content EXCEPT ![p] = IF v \in @ THEN @ ELSE c]

\* The content cache, or the object; a missing object is ErrNotFound.
GetContent(r) ==
    LET p == Process(r)
        v == got[r] IN
    /\ \/ /\ Goto(r, "get", "served") /\ v \in content[p]
          /\ UNCHANGED <<content, faults>>
       \/ /\ Goto(r, "get", "served") /\ v \in objects \ content[p]
          /\ CachePut(p, v)
          /\ UNCHANGED faults
       \/ /\ Goto(r, "get", "notFound") /\ v \notin objects \cup content[p]
          /\ UNCHANGED <<content, faults>>
       \/ /\ Goto(r, "get", "refused") /\ v \notin content[p] /\ Fault("get")
          /\ UNCHANGED content
    /\ UNCHANGED <<clock, storeVars, meta, metaAt, metaValid, snap, view, site,
                   got, pushVars, reapVars, pushes, crashes, history>>

EndRead(r) ==
    /\ \E end \in {"served", "notFound", "refused"} : Goto(r, end, "idle")
    /\ site' = [site EXCEPT ![r] = AnySite]
    /\ got' = [got EXCEPT ![r] = Absent]
    /\ UNCHANGED <<clock, storeVars, cacheVars, snap, view, pushVars, reapVars,
                   bounds, history>>

-----------------------------------------------------------------------------
(***************************************************************************)
(* ReplaceFromTarWithExpiry.                                               *)
(***************************************************************************)

M == Mutator    \* the one goroutine that writes

\* The request ends, mutationMu is free again and its variables are gone.
Quit ==
    /\ site' = [site EXCEPT ![M] = AnySite]
    /\ ttl' = Never /\ ver' = Absent /\ expires' = Never /\ prev' = Absent
    /\ job' = "request" /\ now' = 0 /\ todo' = {}

\* The archive has been read and found valid; nothing is written before that.
StartPush ==
    /\ Goto(M, "idle", "upload")
    /\ pushes < MaxPushes
    /\ pushes' = pushes + 1
    /\ ver' = pushes + 1
    /\ \E s \in Sites, t \in TTLs :
          /\ site' = [site EXCEPT ![M] = s]
          /\ owner' = [owner EXCEPT ![pushes + 1] = s]
          /\ ttl' = t
    /\ UNCHANGED <<clock, bucket, objects, cacheVars, snap, view, got,
                   expires, prev, reapVars, faults, crashes, history>>

\* The content object, under a version nothing refers to; then the deadline is
\* computed.
PutContent ==
    /\ \/ /\ Goto(M, "upload", "prev")
          /\ objects' = objects \cup {ver}
          /\ expires' = IF ttl = Never THEN Never ELSE clock + ttl
          /\ UNCHANGED <<faults, site, ttl, ver, prev, reapVars>>
       \/ Goto(M, "upload", "idle") /\ Fault("content") /\ Quit /\ UNCHANGED objects
       \/ /\ Goto(M, "upload", "idle") /\ Fault("contentLost") /\ Quit
          /\ objects' = objects \cup {ver}
    /\ UNCHANGED <<clock, bucket, owner, cacheVars, snap, view, got,
                   pushes, crashes, history>>

\* Mutant of LookupPrev: the superseded object goes before the commit.
BugCollectFirst ==
    LET m == Found(M) IN
    /\ Use(M)
    /\ Goto(M, "prev", "commit")
    /\ prev' = IF m \in Meta THEN m.version ELSE Absent
    /\ objects' = objects \ {prev'}
    /\ UNCHANGED <<clock, bucket, owner, cacheVars, site, got, ttl, ver,
                   expires, reapVars, bounds, history>>

\* Mutant of LookupPrev: the broker's map takes the change before the commit.
BugApplyFirst ==
    LET m == Found(M) IN
    /\ Use(M)
    /\ Goto(M, "prev", "commit")
    /\ prev' = IF m \in Meta THEN m.version ELSE Absent
    /\ meta' = [meta EXCEPT ![Broker][site[M]] =
                    [version |-> ver, expires |-> expires]]
    /\ UNCHANGED <<clock, storeVars, metaAt, metaValid, content, site, got,
                   ttl, ver, expires, reapVars, bounds, history>>

\* The version to collect afterwards, as far as the map knows; an error of the
\* lookup is ignored.
LookupPrev ==
    LET m == Found(M) IN
    /\ Use(M)
    /\ Goto(M, "prev", "commit")
    /\ prev' = IF m \in Meta THEN m.version ELSE Absent
    /\ UNCHANGED <<clock, storeVars, cacheVars, site, got, ttl, ver,
                   expires, reapVars, bounds, history>>

\* putMeta's effect in the bucket.
FlipPointer ==
    LET s == site[M]
        live == bucket[s] # None /\ ~Elapsed(bucket[s].expires, clock) IN
    /\ bucket' = [bucket EXCEPT ![s] = [version |-> ver, expires |-> expires]]
    /\ published' = published \cup {ver}
    /\ unbroken' = {ver} \cup IF live THEN unbroken
                              ELSE {v \in unbroken : owner[v] # s}

CommitMeta ==
    /\ \/ Goto(M, "commit", "apply") /\ FlipPointer /\ UNCHANGED <<faults, lost>>
       \/ /\ Goto(M, "commit", "cleanup") /\ Fault("commit")
          /\ UNCHANGED <<bucket, history>>
       \/ /\ Goto(M, "commit", "cleanup") /\ Fault("commitLost") /\ FlipPointer
          /\ lost' = lost \cup {ver}
    /\ UNCHANGED <<clock, objects, owner, cacheVars, snap, view, site,
                   got, pushVars, reapVars, pushes, crashes>>

\* After an error of putMeta the content object is removed, best effort.
CleanupContent ==
    /\ Goto(M, "cleanup", "idle")
    /\ \/ objects' = objects \ {ver} /\ UNCHANGED faults
       \/ Fault("remove") /\ UNCHANGED objects
    /\ Quit
    /\ UNCHANGED <<clock, bucket, owner, cacheVars, snap, view, got,
                   pushes, crashes, history>>

\* applyLocal and content.put: the broker's own caches.
ApplyLocal ==
    /\ Goto(M, "apply", "collect")
    /\ meta' = [meta EXCEPT ![Broker][site[M]] =
                    [version |-> ver, expires |-> expires]]
    /\ CachePut(Broker, ver)
    /\ UNCHANGED <<clock, storeVars, metaAt, metaValid, snap, view, site,
                   got, pushVars, reapVars, bounds, history>>

\* The superseded object is removed at once, best effort.
CollectPrev ==
    /\ Goto(M, "collect", "count")
    /\ \/ objects' = objects \ {prev} /\ UNCHANGED faults
       \/ prev # Absent /\ Fault("remove") /\ UNCHANGED objects
    /\ Quit
    /\ UNCHANGED <<clock, bucket, owner, cacheVars, snap, view, got,
                   pushes, crashes, history>>

\* refreshMetricSiteCount: List's answer is counted, or the error ignored.
\* The startup's count ends in the same way.
CountSites ==
    /\ Use(M)
    /\ \E from \in {"boot", "count"} : Goto(M, from, "idle")
    /\ UNCHANGED <<clock, storeVars, cacheVars, site, got, pushVars, reapVars,
                   bounds, history>>

-----------------------------------------------------------------------------
(***************************************************************************)
(* Delete and DeleteExpired.                                               *)
(***************************************************************************)

StartDelete ==
    /\ Goto(M, "idle", "gone")
    /\ \E s \in Sites : site' = [site EXCEPT ![M] = s]
    /\ UNCHANGED <<clock, storeVars, cacheVars, snap, view, got, pushVars,
                   reapVars, bounds, history>>

\* Delete returned nil, ErrNotFound or another error: the expiry pass goes on
\* unless it is another error, a DELETE request counts the sites after nil.
Return(from, result) ==
    \/ /\ reaping /\ result # "error"
       /\ Goto(M, from, "next")
       /\ UNCHANGED <<site, pushVars, reapVars>>
    \/ ~reaping /\ result = "nil" /\ Goto(M, from, "count") /\ Quit
    \/ /\ result = "error" \/ (~reaping /\ result = "notFound")
       /\ Goto(M, from, "idle")
       /\ Quit

LookupDeleted ==
    LET m == Found(M) IN
    /\ Use(M)
    /\ \/ /\ m \in Meta /\ Goto(M, "gone", "unmeta")
          /\ UNCHANGED <<site, pushVars, reapVars>>
       \/ m = None /\ Return("gone", "notFound")
       \/ m = Unknown /\ Return("gone", "error")
    /\ UNCHANGED <<clock, storeVars, cacheVars, got, bounds, history>>

\* The metadata object goes first.
Unpublish ==
    /\ bucket' = [bucket EXCEPT ![site[M]] = None]
    /\ unbroken' = {v \in unbroken : owner[v] # site[M]}

RemoveMeta ==
    /\ \/ /\ Goto(M, "unmeta", "forget") /\ Unpublish
          /\ UNCHANGED <<faults, site, pushVars, reapVars>>
       \/ /\ Return("unmeta", "error") /\ Fault("unmeta")
          /\ UNCHANGED <<bucket, unbroken>>
       \/ Return("unmeta", "error") /\ Fault("unmetaLost") /\ Unpublish
    /\ UNCHANGED <<clock, objects, owner, cacheVars, snap, view, got,
                   pushes, crashes, published, lost>>

\* forgetLocal and content.dropAll.
ForgetLocal ==
    LET s == site[M] IN
    /\ Goto(M, "forget", "sweep")
    /\ meta' = [meta EXCEPT ![Broker][s] = None]
    /\ content' = [content EXCEPT ![Broker] = {v \in @ : owner[v] # s}]
    /\ UNCHANGED <<clock, storeVars, metaAt, metaValid, snap, view, site,
                   got, pushVars, reapVars, bounds, history>>

\* Every version under the name goes, orphans too.  A removal that fails is
\* ignored; a listing that fails ends the delete with an error.
SweepContent ==
    LET mine == {v \in objects : owner[v] = site[M]}
        keep(some) == objects' = (objects \ mine) \cup some IN
    /\ \/ Return("sweep", "nil") /\ keep({}) /\ UNCHANGED faults
       \/ /\ Return("sweep", "nil") /\ Fault("remove")
          /\ \E some \in (SUBSET mine) \ {{}} : keep(some)
       \/ /\ Return("sweep", "error") /\ Fault("sweep")
          /\ \E some \in SUBSET mine : keep(some)
    /\ UNCHANGED <<clock, bucket, owner, cacheVars, snap, view, got, pushes,
                   crashes, history>>

\* watchExpiries read the time before it waited for mutationMu.
StartReap ==
    /\ Goto(M, "idle", "reap")
    /\ job' = "reap"
    /\ now' \in 0 .. clock
    /\ UNCHANGED <<clock, storeVars, cacheVars, snap, view, site, got,
                   pushVars, todo, bounds, history>>

ListExpired ==
    /\ Use(M)
    /\ \/ /\ Goto(M, "reap", "next")
          /\ view[M] # Unknown
          /\ todo' = {s \in Sites : /\ view[M][s] # None
                                    /\ Elapsed(view[M][s].expires, now)}
          /\ UNCHANGED <<site, pushVars, job, now>>
       \/ Goto(M, "reap", "idle") /\ view[M] = Unknown /\ Quit
    /\ UNCHANGED <<clock, storeVars, cacheVars, got, bounds, history>>

NextExpired ==
    /\ \/ todo = {} /\ Goto(M, "next", "count") /\ Quit
       \/ /\ Goto(M, "next", "gone")
          /\ \E s \in todo :
                /\ \A t \in todo : s <= t
                /\ site' = [site EXCEPT ![M] = s]
                /\ todo' = todo \ {s}
          /\ UNCHANGED <<pushVars, job, now>>
    /\ UNCHANGED <<clock, storeVars, cacheVars, snap, view, got, bounds,
                   history>>

-----------------------------------------------------------------------------
Tick ==
    /\ clock < MaxClock
    /\ clock' = clock + 1
    /\ UNCHANGED <<storeVars, cacheVars, pc, snap, view, site, got,
                   pushVars, reapVars, bounds, history>>

\* The broker dies with everything it holds in memory and is started again.
Crash ==
    LET inBroker(g) == Process(g) = Broker IN
    /\ crashes < MaxCrashes
    /\ crashes' = crashes + 1
    /\ meta' = [meta EXCEPT ![Broker] = Empty]
    /\ metaAt' = [metaAt EXCEPT ![Broker] = 0]
    /\ metaValid' = [metaValid EXCEPT ![Broker] = FALSE]
    /\ content' = [content EXCEPT ![Broker] = {}]
    /\ pc' = [g \in Goroutines |-> CASE g = Mutator -> "boot"
                                     [] g # Mutator /\ inBroker(g) -> "idle"
                                     [] OTHER -> pc[g]]
    /\ snap' = [g \in Goroutines |-> IF inBroker(g) THEN "none" ELSE snap[g]]
    /\ view' = [g \in Goroutines |-> IF inBroker(g) THEN Empty ELSE view[g]]
    /\ site' = [g \in Goroutines |-> IF inBroker(g) THEN AnySite ELSE site[g]]
    /\ got' = [r \in Readers |-> IF inBroker(r) THEN Absent ELSE got[r]]
    /\ ttl' = Never /\ ver' = Absent /\ expires' = Never /\ prev' = Absent
    /\ job' = "request" /\ now' = 0 /\ todo' = {}
    /\ UNCHANGED <<clock, storeVars, pushes, faults, history>>

Push == StartPush \/ PutContent \/ LookupPrev \/ CommitMeta \/ CleanupContent
        \/ ApplyLocal \/ CollectPrev \/ CountSites
Delete == StartDelete \/ LookupDeleted \/ RemoveMeta \/ ForgetLocal
          \/ SweepContent
Reap == StartReap \/ ListExpired \/ NextExpired
Read(r) == GetPage(r) \/ CheckExpiry(r) \/ OpenSite(r) \/ GetContent(r)
           \/ EndRead(r)

Next == \/ Push \/ Delete \/ Reap
        \/ \E r \in Readers : Read(r)
        \/ \E g \in Goroutines : Snapshot(g) \/ Fetch(g) \/ InstallMap(g)
        \/ Tick
        \/ Crash

Spec == Init /\ [][Next]_vars

-----------------------------------------------------------------------------
Stations == {"idle", "stat", "open", "get", "served", "notFound", "refused",
             "upload", "prev", "commit", "cleanup", "apply", "collect", "gone",
             "unmeta", "forget", "sweep", "reap", "next", "boot", "count"}

StoreType ==
    /\ clock \in Nat
    /\ bucket \in Maps
    /\ objects \subseteq Versions
    /\ owner \in [Versions -> Sites \cup {Absent}]
    /\ published \subseteq Versions
    /\ lost \subseteq Versions
    /\ unbroken \subseteq Versions
    /\ pushes \in 0 .. MaxPushes

CacheType ==
    /\ meta \in [Procs -> Maps]
    /\ metaAt \in [Procs -> Nat]
    /\ metaValid \in [Procs -> BOOLEAN]
    /\ content \in [Procs -> SUBSET Versions]

FlowType ==
    /\ pc \in [Goroutines -> Stations]
    /\ snap \in [Goroutines -> {"none", "fetched", "ready"}]
    /\ view \in [Goroutines -> Maps \cup {Unknown}]
    /\ site \in [Goroutines -> Sites]
    /\ got \in [Readers -> Versions \cup {Absent}]

RequestType ==
    /\ ttl \in TTLs \cup {Never}
    /\ ver \in Versions \cup {Absent}
    /\ expires \in Nat \cup {Never}
    /\ prev \in Versions \cup {Absent}
    /\ job \in {"request", "reap"}
    /\ now \in Nat
    /\ todo \subseteq Sites

\* Every variable keeps its type: maps hold whole metadata records, whatever
\* mixture of refreshes, failed refreshes and local changes produced them.
TypeOK == StoreType /\ CacheType /\ FlowType /\ RequestType

\* Metadata never names content that is not in the bucket (s3store.go: "If the
\* metadata write fails, the orphaned version object is garbage rather than a
\* corrupted site").
LiveContentExists ==
    \A s \in Sites : bucket[s] # None => bucket[s].version \in objects

\* Content is written before the pointer and removed after it, through failed
\* requests and deaths of the broker: metadata names missing content only when
\* the answer to its own commit was lost.
ContentOutlivesPointer ==
    \A s \in Sites : bucket[s] # None => bucket[s].version \in objects \cup lost

\* A public request is only served content that was, at some time, the
\* published content of the site it asked for: never that of an upload whose
\* commit failed.
ServedWasPublished ==
    \A r \in Readers : pc[r] = "served" =>
        got[r] \in published /\ owner[got[r]] = site[r]

\* The expiry pass unpublishes a site only when the deadline of what is
\* published at that moment has passed, however stale the broker's map is.
ReaperSparesLive ==
    [][\A s \in Sites :
          (reaping /\ bucket[s] # None /\ bucket'[s] = None)
              => Elapsed(bucket[s].expires, clock)]_vars

\* A request that looked up a version is not told "not found" while the site
\* has been published without a break ever since that version was: it gets the
\* old content or the new (s3store.go: "readers see either the old version or
\* the new one").
LiveSiteFound ==
    \A r \in Readers :
        (pc[r] = "notFound" /\ got[r] \in unbroken)
            => Elapsed(bucket[site[r]].expires, clock)

-----------------------------------------------------------------------------
(***************************************************************************)
(* The store as the server sees it: the metadata objects are what is       *)
(* published, and a request has taken effect when its metadata write or    *)
(* removal has, answered or not.                                           *)
(***************************************************************************)
Registered ==
    {[name |-> s, version |-> bucket[s].version, expires |-> bucket[s].expires] :
        s \in {s \in Sites : bucket[s] # None}}

Outstanding ==
    {[client |-> M, op |-> "put", name |-> site[M], ttl |-> ttl] :
        q \in {pc[M]} \cap {"upload", "prev", "commit"}}
    \cup {[client |-> M, op |-> "delete", name |-> site[M], ttl |-> Never] :
        q \in IF reaping THEN {} ELSE {pc[M]} \cap {"gone", "unmeta"}}

Registry == INSTANCE SiteRegistry WITH
    Names <- Sites, Clients <- {Mutator}, sites <- Registered,
    used <- published, asked <- Outstanding

\* Lost answers, failed requests, deaths of the broker between any two of its
\* writes and maps that are out of date leave one atomic change per request:
\* the flip or the removal of the site's metadata object.
ImplementsRegistry == Registry!Spec

=============================================================================
