---------------------------- MODULE S3StoreProofs ----------------------------
(***************************************************************************)
(* Proofs about S3Store for every set of sites, web processes and readers, *)
(* every placement of the readers, every set of failing requests and every *)
(* bound, deaths of the broker included.                                   *)
(*                                                                         *)
(* The central fact is Genuine: every metadata record in the bucket, in a  *)
(* process's map or in the hands of a goroutine, however stale, names a    *)
(* version that was committed, and for that very site.  With Upload (what  *)
(* the push under way has already written) and Unpublished (a delete       *)
(* sweeps only behind its own pointer removal) it gives the two safety     *)
(* invariants; ReapInv says that what the expiry pass has listed is what   *)
(* the bucket holds, because only the holder of mutationMu writes there.   *)
(***************************************************************************)
EXTENDS S3Store, TLAPS

Pushing == {"upload", "prev", "commit", "cleanup", "apply", "collect"}
Reaping == {"reap", "next", "gone", "unmeta", "forget", "sweep"}

\* A push has a version of its own; what was fetched is a map.
Handles == /\ pc[Mutator] \in Pushing => ver \in Versions
           /\ \A g \in Goroutines : snap[g] = "fetched" => view[g] \in Maps

TypeInv == TypeOK /\ Handles

\* What a push has done by the time it stands at each step.
Upload ==
    /\ \A v \in published : v <= pushes
    /\ pc[Mutator] \in Pushing => ver <= pushes /\ owner[ver] = site[Mutator]
    /\ pc[Mutator] \in {"upload", "prev", "commit"} => ver \notin published
    /\ pc[Mutator] = "cleanup" => ver \notin published \ lost
    /\ pc[Mutator] \in {"prev", "commit"} => ver \in objects

\* What it will collect is another version of the same site.
Collects ==
    pc[Mutator] \in {"commit", "apply", "collect"} =>
        /\ prev # Absent => prev \in published /\ owner[prev] = site[Mutator]
        /\ prev # ver

Committed ==
    pc[Mutator] \in {"apply", "collect"} =>
        bucket[site[Mutator]] # None /\ bucket[site[Mutator]].version = ver

Unpublished ==
    pc[Mutator] \in {"forget", "sweep"} => bucket[site[Mutator]] = None

\* A map of committed versions, each under its own site.
GenuineMap(m, committed, site_of) ==
    \A s \in Sites : m[s] # None =>
        m[s].version \in committed /\ site_of[m[s].version] = s

Genuine ==
    /\ GenuineMap(bucket, published, owner)
    /\ \A p \in Procs : GenuineMap(meta[p], published, owner)
    /\ \A g \in Goroutines :
           view[g] # Unknown => GenuineMap(view[g], published, owner)

Opened ==
    \A r \in Readers : pc[r] \in {"get", "served"} =>
        got[r] \in published /\ owner[got[r]] = site[r]

\* What the bucket publishes under s had expired at t, if anything.
Overdue(s, t) == bucket[s] # None => Elapsed(bucket[s].expires, t)

ReapInv ==
    /\ now <= clock
    /\ pc[Mutator] \notin LookupPoints \cup {"reap"} => snap[Mutator] = "none"
    /\ reaping => pc[Mutator] \in Reaping
    /\ pc[Mutator] = "reap" /\ snap[Mutator] # "none" /\ view[Mutator] # Unknown
         => view[Mutator] = bucket
    /\ reaping /\ pc[Mutator] # "reap" => \A s \in todo : Overdue(s, now)
    /\ reaping /\ pc[Mutator] \in {"gone", "unmeta"} =>
           Overdue(site[Mutator], now)

PushInv == Upload /\ Collects /\ Committed /\ Unpublished
IInv == /\ TypeInv /\ PushInv /\ Genuine /\ Opened
        /\ ContentOutlivesPointer /\ ReapInv

\* What a step may do to the history and to the maps.
Record == [version |-> ver, expires |-> expires]

HistoryStep == /\ published \subseteq published'
               /\ \A v \in published : owner'[v] = owner[v]

BucketStep ==
    \/ bucket' = bucket
    \/ bucket' = [bucket EXCEPT ![site[Mutator]] = None]
    \/ /\ pc[Mutator] = "commit"
       /\ bucket' = [bucket EXCEPT ![site[Mutator]] = Record]
       /\ ver \in published' /\ owner' = owner

MetaStep ==
    \A p \in Procs :
        \/ meta'[p] = meta[p]
        \/ meta'[p] = Empty
        \/ \E g \in Goroutines : snap[g] = "fetched" /\ meta'[p] = view[g]
        \/ meta'[p] = [meta[p] EXCEPT ![site[Mutator]] = None]
        \/ /\ pc[Mutator] = "apply"
           /\ meta'[p] = [meta[p] EXCEPT ![site[Mutator]] = Record]

ViewStep ==
    \A g \in Goroutines :
        \/ view'[g] \in {view[g], bucket, Empty, Unknown}
        \/ \E p \in Procs : view'[g] = meta[p]

Unpublishing ==
    \A s \in Sites : bucket[s] # None /\ bucket'[s] = None =>
        pc[Mutator] = "unmeta" /\ s = site[Mutator]

-----------------------------------------------------------------------------
\* The placeholder for a request not yet made is a site.
LEMMA AnySiteType == AnySite \in Sites
  BY SitesAssumption DEF AnySite

\* Facts about metadata records and maps.
LEMMA MetaFields ==
    /\ \A v \in Versions, d \in Nat \cup {Never} :
           [version |-> v, expires |-> d] \in Meta
    /\ \A m \in Meta : m.version \in Versions /\ m.expires \in Nat \cup {Never}
  BY DEF Meta

LEMMA MapsType ==
    /\ Empty \in Maps
    /\ \A m \in Maps, s \in Sites : m[s] \in Meta \cup {None}
    /\ \A m \in Maps, s \in Sites, x \in Meta \cup {None} :
           [m EXCEPT ![s] = x] \in Maps
  BY DEF Maps, Empty

\* Processes and goroutines.
LEMMA ProcessType ==
    /\ Mutator \in Goroutines /\ Broker \in Procs
    /\ \A r \in Readers : r \in Goroutines /\ r # Mutator
    /\ \A g \in Goroutines : Process(g) \in Procs
  BY ProcsAssumption DEF Goroutines, Procs, Process

\* A version of the next upload exists.
LEMMA NextVersion ==
    ASSUME pushes \in 0 .. MaxPushes, pushes < MaxPushes
    PROVE  pushes + 1 \in Versions /\ pushes + 1 \in 0 .. MaxPushes
  BY BoundsAssumption DEF Versions

\* The end of a call, and of a Delete inside the expiry pass.
LEMMA QuitType ==
    ASSUME FlowType, Quit
    PROVE  RequestType' /\ site' \in [Goroutines -> Sites]
  BY AnySiteType DEF FlowType, Quit, RequestType, M

LEMMA ReturnType ==
    ASSUME FlowType, RequestType, NEW from \in Stations, NEW result,
           Return(from, result)
    PROVE  /\ RequestType' /\ site' \in [Goroutines -> Sites]
           /\ pc' \in [Goroutines -> Stations]
<1>1. CASE Quit
  BY <1>1, QuitType DEF Return, FlowType, Goto, M, Stations
<1>2. CASE UNCHANGED <<site, pushVars, reapVars>>
  BY <1>2 DEF Return, FlowType, RequestType, Goto, M, Stations, pushVars,
     reapVars
<1> QED
  BY <1>1, <1>2 DEF Return

\* The program starts well typed.
LEMMA TypeInit == Init => TypeInv
<1> SUFFICES ASSUME Init PROVE TypeInv
  OBVIOUS
<1> USE DEF Init
<1>1. StoreType
  BY MapsType, BoundsAssumption DEF StoreType, Absent
<1>2. CacheType
  BY MapsType DEF CacheType
<1>3. FlowType
  BY MapsType, AnySiteType DEF FlowType, Stations
<1>4. RequestType
  BY DEF RequestType
<1>5. Handles
  BY ProcessType, <1>3 DEF Handles, Pushing, FlowType
<1> QED
  BY <1>1, <1>2, <1>3, <1>4, <1>5 DEF TypeInv, TypeOK

\* The bucket keeps its type.
LEMMA StoreTypeNext == TypeInv /\ [Next]_vars => StoreType'
<1> SUFFICES ASSUME TypeInv, [Next]_vars PROVE StoreType'
  OBVIOUS
<1> USE MapsType, MetaFields, ProcessType
    DEF TypeInv, TypeOK, StoreType, FlowType, RequestType
<1>1. ASSUME StartPush PROVE StoreType'
  <2>1. pushes + 1 \in Versions /\ pushes + 1 \in 0 .. MaxPushes
    BY <1>1, NextVersion DEF StartPush
  <2> QED
    BY <1>1, <2>1 DEF StartPush, bounds, history
<1>2. ASSUME PutContent PROVE StoreType'
  <2>1. CASE objects' = objects \cup {ver} /\ pc[Mutator] = "upload"
    BY <1>2, <2>1 DEF PutContent, Handles, Pushing, bounds, history
  <2>2. CASE UNCHANGED objects
    BY <1>2, <2>2 DEF PutContent, bounds, history
  <2> QED
    BY <1>2, <2>1, <2>2 DEF PutContent, Goto, M
<1>3. ASSUME CommitMeta PROVE StoreType'
  <2>1. CASE UNCHANGED <<bucket, history>>
    BY <1>3, <2>1 DEF CommitMeta, bounds, history
  <2>2. CASE /\ FlipPointer /\ pc[Mutator] = "commit"
             /\ (lost' = lost \cup {ver} \/ UNCHANGED lost)
    BY <1>3, <2>2 DEF CommitMeta, FlipPointer, Handles, Pushing, M, bounds
  <2> QED
    BY <1>3, <2>1, <2>2 DEF CommitMeta, Goto, M
<1>4. ASSUME CleanupContent PROVE StoreType'
  BY <1>4 DEF CleanupContent, Goto, Fault, Quit, M, storeVars, cacheVars,
     pushVars, reapVars, bounds, history
<1>5. ASSUME CollectPrev PROVE StoreType'
  BY <1>5 DEF CollectPrev, Goto, Fault, Quit, M, storeVars, cacheVars,
     pushVars, reapVars, bounds, history
<1>6. ASSUME RemoveMeta PROVE StoreType'
  <2>1. CASE Unpublish
    BY <1>6, <2>1 DEF RemoveMeta, Unpublish, M, bounds
  <2>2. CASE UNCHANGED <<bucket, unbroken>>
    BY <1>6, <2>2 DEF RemoveMeta, bounds
  <2> QED
    BY <1>6, <2>1, <2>2 DEF RemoveMeta
<1>7. ASSUME SweepContent PROVE StoreType'
  BY <1>7 DEF SweepContent, Goto, Fault, Return, Quit, M, storeVars, cacheVars,
     pushVars, reapVars, bounds, history
<1>8. ASSUME Tick PROVE StoreType'
  BY <1>8 DEF Tick, storeVars, cacheVars, pushVars, reapVars, bounds, history
<1>9. ASSUME LookupPrev \/ ApplyLocal \/ CountSites \/ StartDelete \/
             LookupDeleted \/ ForgetLocal \/ StartReap \/ ListExpired \/
             NextExpired \/ Crash PROVE StoreType'
  BY <1>9 DEF LookupPrev, Goto, Use, M, ApplyLocal, CountSites, StartDelete,
     LookupDeleted, Return, Quit, ForgetLocal, StartReap, ListExpired,
     NextExpired, Crash, storeVars, cacheVars, pushVars, reapVars, bounds,
     history
<1>10. ASSUME NEW r \in Readers, GetPage(r) \/ CheckExpiry(r) \/ OpenSite(r) \/
             GetContent(r) \/ EndRead(r) PROVE StoreType'
  BY <1>10 DEF GetPage, Goto, CheckExpiry, Use, OpenSite, GetContent, EndRead,
     storeVars, cacheVars, pushVars, reapVars, bounds, history
<1>11. ASSUME NEW g \in Goroutines, Snapshot(g) \/ Fetch(g) \/ InstallMap(g)
             PROVE StoreType'
  BY <1>11 DEF Snapshot, Fetch, InstallMap, storeVars, cacheVars, pushVars,
     reapVars, bounds, history
<1>12. ASSUME UNCHANGED vars PROVE StoreType'
  BY <1>12 DEF vars, storeVars, cacheVars, pushVars, reapVars, bounds, history
<1> QED
  BY <1>1, <1>2, <1>3, <1>4, <1>5, <1>6, <1>7, <1>8, <1>9, <1>10, <1>11, <1>12
     DEF Next, Push, Delete, Reap, Read

\* The maps and content caches of the processes keep their types: only a map
\* that was read completely is installed.
LEMMA CacheTypeNext == TypeInv /\ [Next]_vars => CacheType'
<1> SUFFICES ASSUME TypeInv, [Next]_vars PROVE CacheType'
  OBVIOUS
<1> USE MapsType, MetaFields, ProcessType
    DEF TypeInv, TypeOK, StoreType, CacheType, FlowType, RequestType
<1>1. ASSUME ApplyLocal PROVE CacheType'
  <2>1. ver \in Versions /\ site[Mutator] \in Sites
    BY <1>1 DEF ApplyLocal, Goto, M, Handles, Pushing
  <2>2. content' \in [Procs -> SUBSET Versions]
    BY <1>1, <2>1 DEF ApplyLocal, CachePut
  <2>3. meta' \in [Procs -> Maps]
    BY <1>1, <2>1 DEF ApplyLocal, M
  <2> QED
    BY <1>1, <2>2, <2>3 DEF ApplyLocal
<1>2. ASSUME ForgetLocal PROVE CacheType'
  BY <1>2 DEF ForgetLocal, Goto, M, storeVars, cacheVars, pushVars, reapVars,
     bounds, history
<1>3. ASSUME NEW r \in Readers, GetContent(r) PROVE CacheType'
  BY <1>3 DEF GetContent, Goto, Fault, CachePut, Process, storeVars, cacheVars,
     pushVars, reapVars, bounds, history
<1>4. ASSUME NEW g \in Goroutines, InstallMap(g) PROVE CacheType'
  BY <1>4 DEF InstallMap, Process, Handles, storeVars, cacheVars, pushVars,
     reapVars, bounds, history
<1>5. ASSUME Crash PROVE CacheType'
  BY <1>5 DEF Crash, Process, storeVars, cacheVars, pushVars, reapVars, bounds,
     history
<1>6. ASSUME StartPush \/ PutContent \/ LookupPrev \/ CommitMeta \/
             CleanupContent \/ CollectPrev \/ CountSites \/ StartDelete \/
             LookupDeleted \/ RemoveMeta \/ SweepContent \/ StartReap \/
             ListExpired \/ NextExpired \/ Tick PROVE CacheType'
  BY <1>6 DEF StartPush, Goto, M, PutContent, Quit, LookupPrev, Use,
     CommitMeta, FlipPointer, CleanupContent, CollectPrev, CountSites,
     StartDelete, LookupDeleted, Return, RemoveMeta, Unpublish, SweepContent,
     StartReap, ListExpired, NextExpired, Tick, storeVars, cacheVars, pushVars,
     reapVars, bounds, history
<1>7. ASSUME NEW r \in Readers, GetPage(r) \/ CheckExpiry(r) \/ OpenSite(r) \/
             EndRead(r) PROVE CacheType'
  BY <1>7 DEF GetPage, Goto, CheckExpiry, Use, OpenSite, EndRead, storeVars,
     cacheVars, pushVars, reapVars, bounds, history
<1>8. ASSUME NEW g \in Goroutines, Snapshot(g) \/ Fetch(g) PROVE CacheType'
  BY <1>8 DEF Snapshot, Fetch, storeVars, cacheVars, pushVars, reapVars,
     bounds, history
<1>9. ASSUME UNCHANGED vars PROVE CacheType'
  BY <1>9 DEF vars, storeVars, cacheVars, pushVars, reapVars, bounds, history
<1> QED
  BY <1>1, <1>2, <1>3, <1>4, <1>5, <1>6, <1>7, <1>8, <1>9 DEF Next, Push,
     Delete, Reap, Read

\* So do the program counters and what the goroutines hold.
LEMMA FlowTypeNext == TypeInv /\ [Next]_vars => FlowType'
<1> SUFFICES ASSUME TypeInv, [Next]_vars PROVE FlowType'
  OBVIOUS
<1> USE MapsType, MetaFields, ProcessType, AnySiteType
    DEF TypeInv, TypeOK, StoreType, CacheType, FlowType, Stations
<1>1. ASSUME StartPush PROVE FlowType'
  BY <1>1 DEF StartPush, Goto, M, storeVars, cacheVars, pushVars, reapVars,
     bounds, history
<1>2. ASSUME PutContent PROVE FlowType'
  <2>1. CASE Quit
    BY <1>2, <2>1, QuitType DEF PutContent, Goto, M, Use
  <2>2. CASE ~Quit
    BY <1>2, <2>2 DEF PutContent, Goto, M, Use, Fault
  <2> QED
    BY <2>1, <2>2
<1>3. ASSUME LookupPrev PROVE FlowType'
  BY <1>3 DEF LookupPrev, Goto, Use, Found, M, storeVars, cacheVars, pushVars,
     reapVars, bounds, history
<1>4. ASSUME CommitMeta PROVE FlowType'
  BY <1>4 DEF CommitMeta, Goto, Fault, FlipPointer, M, storeVars, cacheVars,
     pushVars, reapVars, bounds, history
<1>5. ASSUME CleanupContent PROVE FlowType'
  BY <1>5 DEF CleanupContent, Goto, Fault, Quit, M, storeVars, cacheVars,
     pushVars, reapVars, bounds, history
<1>6. ASSUME ApplyLocal PROVE FlowType'
  BY <1>6 DEF ApplyLocal, Goto, CachePut, M, storeVars, cacheVars, pushVars,
     reapVars, bounds, history
<1>7. ASSUME CollectPrev PROVE FlowType'
  BY <1>7 DEF CollectPrev, Goto, Fault, Quit, M, storeVars, cacheVars,
     pushVars, reapVars, bounds, history
<1>8. ASSUME CountSites PROVE FlowType'
  BY <1>8 DEF CountSites, Goto, Use, M, storeVars, cacheVars, pushVars,
     reapVars, bounds, history
<1>9. ASSUME StartDelete PROVE FlowType'
  BY <1>9 DEF StartDelete, Goto, M, storeVars, cacheVars, pushVars, reapVars,
     bounds, history
<1>10. ASSUME LookupDeleted PROVE FlowType'
  <2>1. CASE Quit
    BY <1>10, <2>1, QuitType DEF LookupDeleted, Goto, M, Use, Return
  <2>2. CASE ~Quit
    BY <1>10, <2>2 DEF LookupDeleted, Goto, M, Use, Fault, Return
  <2> QED
    BY <2>1, <2>2
<1>11. ASSUME RemoveMeta PROVE FlowType'
  <2>1. CASE \E x : Return("unmeta", x)
    BY <1>11, <2>1, ReturnType DEF RemoveMeta
  <2>2. CASE ~ \E x : Return("unmeta", x)
    BY <1>11, <2>2 DEF RemoveMeta, Goto, M
  <2> QED
    BY <2>1, <2>2
<1>12. ASSUME ForgetLocal PROVE FlowType'
  BY <1>12 DEF ForgetLocal, Goto, M, storeVars, cacheVars, pushVars, reapVars,
     bounds, history
<1>13. ASSUME SweepContent PROVE FlowType'
  BY <1>13, ReturnType DEF SweepContent
<1>14. ASSUME StartReap PROVE FlowType'
  BY <1>14 DEF StartReap, Goto, M, storeVars, cacheVars, pushVars, reapVars,
     bounds, history
<1>15. ASSUME ListExpired PROVE FlowType'
  <2>1. CASE Quit
    BY <1>15, <2>1, QuitType DEF ListExpired, Goto, M, Use, reapVars
  <2>2. CASE ~Quit
    BY <1>15, <2>2 DEF ListExpired, Goto, M, Use, Fault, reapVars
  <2> QED
    BY <2>1, <2>2
<1>16. ASSUME NextExpired PROVE FlowType'
  <2>1. CASE Quit
    BY <1>16, <2>1, QuitType DEF NextExpired, Goto, M, Use, RequestType
  <2>2. CASE ~Quit
    BY <1>16, <2>2 DEF NextExpired, Goto, M, Use, Fault, RequestType
  <2> QED
    BY <2>1, <2>2
<1>17. ASSUME NEW r \in Readers, GetPage(r) PROVE FlowType'
  BY <1>17 DEF GetPage, Goto, storeVars, cacheVars, pushVars, reapVars, bounds,
     history
<1>18. ASSUME NEW r \in Readers, CheckExpiry(r) PROVE FlowType'
  BY <1>18 DEF CheckExpiry, Goto, Use, Found, storeVars, cacheVars, pushVars,
     reapVars, bounds, history
<1>19. ASSUME NEW r \in Readers, OpenSite(r) PROVE FlowType'
  BY <1>19 DEF OpenSite, Goto, Use, Found, storeVars, cacheVars, pushVars,
     reapVars, bounds, history
<1>20. ASSUME NEW r \in Readers, GetContent(r) PROVE FlowType'
  BY <1>20 DEF GetContent, Goto, Fault, CachePut, Process, storeVars,
     cacheVars, pushVars, reapVars, bounds, history
<1>21. ASSUME NEW r \in Readers, EndRead(r) PROVE FlowType'
  BY <1>21 DEF EndRead, Goto, storeVars, cacheVars, pushVars, reapVars, bounds,
     history
<1>22. ASSUME NEW g \in Goroutines, Snapshot(g) PROVE FlowType'
  BY <1>22 DEF Snapshot, Process, storeVars, cacheVars, pushVars, reapVars,
     bounds, history
<1>23. ASSUME NEW g \in Goroutines, Fetch(g) PROVE FlowType'
  <2>1. view' \in [Goroutines -> Maps \cup {Unknown}]
    BY <1>23 DEF Fetch
  <2>2. snap' \in [Goroutines -> {"none", "fetched", "ready"}]
    BY <1>23 DEF Fetch
  <2> QED
    BY <1>23, <2>1, <2>2 DEF Fetch
<1>24. ASSUME NEW g \in Goroutines, InstallMap(g) PROVE FlowType'
  BY <1>24 DEF InstallMap, Process, storeVars, cacheVars, pushVars, reapVars,
     bounds, history
<1>25. ASSUME Tick PROVE FlowType'
  BY <1>25 DEF Tick, storeVars, cacheVars, pushVars, reapVars, bounds, history
<1>26. ASSUME Crash PROVE FlowType'
  BY <1>26 DEF Crash, Process, storeVars, cacheVars, pushVars, reapVars,
     bounds, history
<1>27. ASSUME UNCHANGED vars PROVE FlowType'
  BY <1>27 DEF vars, storeVars, cacheVars, pushVars, reapVars, bounds, history
<1> QED
  BY <1>1, <1>2, <1>3, <1>4, <1>5, <1>6, <1>7, <1>8, <1>9, <1>10, <1>11, <1>12,
     <1>13, <1>14, <1>15, <1>16, <1>17, <1>18, <1>19, <1>20, <1>21, <1>22,
     <1>23, <1>24, <1>25, <1>26, <1>27 DEF Next, Push, Delete, Reap, Read

\* So do the variables of the push and of the expiry pass.
LEMMA RequestTypeNext == TypeInv /\ [Next]_vars => RequestType'
<1> SUFFICES ASSUME TypeInv, [Next]_vars PROVE RequestType'
  OBVIOUS
<1> USE MapsType, MetaFields, ProcessType, TTLsAssumption
    DEF TypeInv, TypeOK, StoreType, FlowType, RequestType
<1>1. ASSUME StartPush PROVE RequestType'
  BY <1>1, NextVersion DEF StartPush, reapVars
<1>2. ASSUME PutContent PROVE RequestType'
  <2>1. CASE Quit
    BY <1>2, <2>1, QuitType DEF PutContent, Goto, M, Use, reapVars
  <2>2. CASE ~Quit
    BY <1>2, <2>2 DEF PutContent, Goto, M, Use, Fault, reapVars
  <2> QED
    BY <2>1, <2>2
<1>3. ASSUME LookupPrev PROVE RequestType'
  BY <1>3 DEF LookupPrev, Goto, Use, Found, M, storeVars, cacheVars, pushVars,
     reapVars, bounds, history
<1>4. ASSUME CleanupContent PROVE RequestType'
  BY <1>4 DEF CleanupContent, Goto, Fault, Quit, M, storeVars, cacheVars,
     pushVars, reapVars, bounds, history
<1>5. ASSUME CollectPrev PROVE RequestType'
  BY <1>5 DEF CollectPrev, Goto, Fault, Quit, M, storeVars, cacheVars,
     pushVars, reapVars, bounds, history
<1>6. ASSUME LookupDeleted PROVE RequestType'
  <2>1. CASE Quit
    BY <1>6, <2>1, QuitType DEF LookupDeleted, Goto, M, Use, Return, pushVars, reapVars
  <2>2. CASE ~Quit
    BY <1>6, <2>2 DEF LookupDeleted, Goto, M, Use, Fault, Return, pushVars, reapVars
  <2> QED
    BY <2>1, <2>2
<1>7. ASSUME RemoveMeta PROVE RequestType'
  <2>1. CASE \E x : Return("unmeta", x)
    BY <1>7, <2>1, ReturnType DEF Stations
  <2>2. CASE ~ \E x : Return("unmeta", x)
    BY <1>7, <2>2 DEF RemoveMeta, pushVars, reapVars
  <2> QED
    BY <2>1, <2>2
<1>8. ASSUME SweepContent PROVE RequestType'
  BY <1>8, ReturnType DEF SweepContent, Stations
<1>9. ASSUME StartReap PROVE RequestType'
  BY <1>9 DEF StartReap, Goto, M, storeVars, cacheVars, pushVars, reapVars,
     bounds, history
<1>10. ASSUME ListExpired PROVE RequestType'
  <2>1. CASE Quit
    BY <1>10, <2>1, QuitType DEF ListExpired, Goto, M, Use, pushVars
  <2>2. CASE ~Quit
    BY <1>10, <2>2 DEF ListExpired, Goto, M, Use, Fault, pushVars
  <2> QED
    BY <2>1, <2>2
<1>11. ASSUME NextExpired PROVE RequestType'
  <2>1. CASE Quit
    BY <1>11, <2>1, QuitType DEF NextExpired, Goto, M, Use, pushVars
  <2>2. CASE ~Quit
    BY <1>11, <2>2 DEF NextExpired, Goto, M, Use, Fault, pushVars
  <2> QED
    BY <2>1, <2>2
<1>12. ASSUME Crash PROVE RequestType'
  BY <1>12 DEF Crash, Process, storeVars, cacheVars, pushVars, reapVars,
     bounds, history
<1>13. ASSUME CommitMeta \/ ApplyLocal \/ CountSites \/ StartDelete \/
             ForgetLocal \/ Tick PROVE RequestType'
  BY <1>13 DEF CommitMeta, Goto, FlipPointer, M, ApplyLocal, CountSites, Use,
     StartDelete, ForgetLocal, Tick, storeVars, cacheVars, pushVars, reapVars,
     bounds, history
<1>14. ASSUME NEW r \in Readers, GetPage(r) \/ CheckExpiry(r) \/ OpenSite(r) \/
             GetContent(r) \/ EndRead(r) PROVE RequestType'
  BY <1>14 DEF GetPage, Goto, CheckExpiry, Use, OpenSite, GetContent, EndRead,
     storeVars, cacheVars, pushVars, reapVars, bounds, history
<1>15. ASSUME NEW g \in Goroutines, Snapshot(g) \/ Fetch(g) \/ InstallMap(g)
             PROVE RequestType'
  BY <1>15 DEF Snapshot, Fetch, InstallMap, storeVars, cacheVars, pushVars,
     reapVars, bounds, history
<1>16. ASSUME UNCHANGED vars PROVE RequestType'
  BY <1>16 DEF vars, storeVars, cacheVars, pushVars, reapVars, bounds, history
<1> QED
  BY <1>1, <1>2, <1>3, <1>4, <1>5, <1>6, <1>7, <1>8, <1>9, <1>10, <1>11, <1>12,
     <1>13, <1>14, <1>15, <1>16 DEF Next, Push, Delete, Reap, Read

\* So do the version of a push and a map not yet installed.
LEMMA HandlesNext == TypeInv /\ [Next]_vars => Handles'
<1> SUFFICES ASSUME TypeInv, [Next]_vars PROVE Handles'
  OBVIOUS
<1> USE MapsType, ProcessType
    DEF TypeInv, TypeOK, StoreType, FlowType, RequestType, Handles, Pushing,
        Stations
<1>1. ASSUME StartPush PROVE Handles'
  BY <1>1, NextVersion DEF StartPush, Goto, M
<1>2. ASSUME PutContent PROVE Handles'
  BY <1>2 DEF PutContent, Goto, Fault, Quit, M, storeVars, cacheVars, pushVars,
     reapVars, bounds, history
<1>3. ASSUME LookupPrev PROVE Handles'
  BY <1>3 DEF LookupPrev, Goto, Use, Found, M, storeVars, cacheVars, pushVars,
     reapVars, bounds, history
<1>4. ASSUME CommitMeta PROVE Handles'
  BY <1>4 DEF CommitMeta, Goto, Fault, FlipPointer, M, storeVars, cacheVars,
     pushVars, reapVars, bounds, history
<1>5. ASSUME CleanupContent PROVE Handles'
  BY <1>5 DEF CleanupContent, Goto, Fault, Quit, M, storeVars, cacheVars,
     pushVars, reapVars, bounds, history
<1>6. ASSUME ApplyLocal PROVE Handles'
  BY <1>6 DEF ApplyLocal, Goto, CachePut, M, storeVars, cacheVars, pushVars,
     reapVars, bounds, history
<1>7. ASSUME CollectPrev PROVE Handles'
  BY <1>7 DEF CollectPrev, Goto, Fault, Quit, M, storeVars, cacheVars,
     pushVars, reapVars, bounds, history
<1>8. ASSUME CountSites PROVE Handles'
  BY <1>8 DEF CountSites, Goto, Use, M, storeVars, cacheVars, pushVars,
     reapVars, bounds, history
<1>9. ASSUME StartDelete PROVE Handles'
  BY <1>9 DEF StartDelete, Goto, M, storeVars, cacheVars, pushVars, reapVars,
     bounds, history
<1>10. ASSUME LookupDeleted PROVE Handles'
  BY <1>10 DEF LookupDeleted, Goto, Use, Found, Return, Quit, M, storeVars,
     cacheVars, pushVars, reapVars, bounds, history
<1>11. ASSUME RemoveMeta PROVE Handles'
  BY <1>11 DEF RemoveMeta, Goto, Fault, Return, Quit, Unpublish, M, storeVars,
     cacheVars, pushVars, reapVars, bounds, history
<1>12. ASSUME ForgetLocal PROVE Handles'
  BY <1>12 DEF ForgetLocal, Goto, M, storeVars, cacheVars, pushVars, reapVars,
     bounds, history
<1>13. ASSUME SweepContent PROVE Handles'
  BY <1>13 DEF SweepContent, Goto, Fault, Return, Quit, M, storeVars,
     cacheVars, pushVars, reapVars, bounds, history
<1>14. ASSUME StartReap PROVE Handles'
  BY <1>14 DEF StartReap, Goto, M, storeVars, cacheVars, pushVars, reapVars,
     bounds, history
<1>15. ASSUME ListExpired PROVE Handles'
  BY <1>15 DEF ListExpired, Goto, Use, Quit, M, storeVars, cacheVars, pushVars,
     reapVars, bounds, history
<1>16. ASSUME NextExpired PROVE Handles'
  BY <1>16 DEF NextExpired, Goto, Quit, M, storeVars, cacheVars, pushVars,
     reapVars, bounds, history
<1>17. ASSUME NEW r \in Readers, GetPage(r) PROVE Handles'
  BY <1>17 DEF GetPage, Goto, storeVars, cacheVars, pushVars, reapVars, bounds,
     history
<1>18. ASSUME NEW r \in Readers, CheckExpiry(r) PROVE Handles'
  BY <1>18 DEF CheckExpiry, Goto, Use, Found, storeVars, cacheVars, pushVars,
     reapVars, bounds, history
<1>19. ASSUME NEW r \in Readers, OpenSite(r) PROVE Handles'
  BY <1>19 DEF OpenSite, Goto, Use, Found, storeVars, cacheVars, pushVars,
     reapVars, bounds, history
<1>20. ASSUME NEW r \in Readers, GetContent(r) PROVE Handles'
  BY <1>20 DEF GetContent, Goto, Fault, CachePut, Process, storeVars,
     cacheVars, pushVars, reapVars, bounds, history
<1>21. ASSUME NEW r \in Readers, EndRead(r) PROVE Handles'
  BY <1>21 DEF EndRead, Goto, storeVars, cacheVars, pushVars, reapVars, bounds,
     history
<1>22. ASSUME NEW g \in Goroutines, Snapshot(g) PROVE Handles'
  BY <1>22 DEF Snapshot, Process, storeVars, cacheVars, pushVars, reapVars,
     bounds, history
<1>23. ASSUME NEW g \in Goroutines, Fetch(g) PROVE Handles'
  BY <1>23 DEF Fetch, Fault, storeVars, cacheVars, pushVars, reapVars, bounds,
     history
<1>24. ASSUME NEW g \in Goroutines, InstallMap(g) PROVE Handles'
  BY <1>24 DEF InstallMap, Process, storeVars, cacheVars, pushVars, reapVars,
     bounds, history
<1>25. ASSUME Tick PROVE Handles'
  BY <1>25 DEF Tick, storeVars, cacheVars, pushVars, reapVars, bounds, history
<1>26. ASSUME Crash PROVE Handles'
  BY <1>26 DEF Crash, Process, storeVars, cacheVars, pushVars, reapVars,
     bounds, history
<1>27. ASSUME UNCHANGED vars PROVE Handles'
  BY <1>27 DEF vars, storeVars, cacheVars, pushVars, reapVars, bounds, history
<1> QED
  BY <1>1, <1>2, <1>3, <1>4, <1>5, <1>6, <1>7, <1>8, <1>9, <1>10, <1>11, <1>12,
     <1>13, <1>14, <1>15, <1>16, <1>17, <1>18, <1>19, <1>20, <1>21, <1>22,
     <1>23, <1>24, <1>25, <1>26, <1>27 DEF Next, Push, Delete, Reap, Read

LEMMA TypeNext == TypeInv /\ [Next]_vars => TypeInv'
  BY StoreTypeNext, CacheTypeNext, FlowTypeNext, RequestTypeNext, HandlesNext
  DEF TypeInv, TypeOK

-----------------------------------------------------------------------------
\* A Delete that returns an error ends the call.
LEMMA ReturnError ==
    ASSUME NEW from, Return(from, "error")
    PROVE  Goto(Mutator, from, "idle") /\ Quit
  BY DEF Return, M

\* What lookup finds was committed for the site it was asked for.
LEMMA FoundGenuine ==
    ASSUME IInv, NEW g \in Goroutines, Found(g) \in Meta
    PROVE  Found(g).version \in published /\ owner[Found(g).version] = site[g]
<1>1. view[g] # Unknown /\ Found(g) = view[g][site[g]]
  BY NoneAssumption DEF Found
<1>2. site[g] \in Sites
  BY DEF IInv, TypeInv, TypeOK, FlowType
<1> QED
  BY <1>1, <1>2, NoneAssumption DEF IInv, Genuine, GenuineMap

\* A push writes its content before it commits, under a version that nothing
\* published yet.
LEMMA UploadNext == IInv /\ [Next]_vars => Upload'
<1> SUFFICES ASSUME IInv, [Next]_vars PROVE Upload'
  OBVIOUS
<1> USE ProcessType, BoundsAssumption
    DEF IInv, TypeInv, TypeOK, StoreType, FlowType, RequestType, Handles,
        PushInv, Upload, Pushing, Versions
<1>1. ASSUME StartPush PROVE Upload'
  BY <1>1 DEF StartPush, Goto, M, storeVars, cacheVars, pushVars, reapVars,
     bounds, history
<1>2. ASSUME PutContent PROVE Upload'
  BY <1>2 DEF PutContent, Goto, Fault, Quit, M, storeVars, cacheVars, pushVars,
     reapVars, bounds, history
<1>3. ASSUME LookupPrev PROVE Upload'
  BY <1>3 DEF LookupPrev, Goto, Use, Found, M, storeVars, cacheVars, pushVars,
     reapVars, bounds, history
<1>4. ASSUME CommitMeta PROVE Upload'
  BY <1>4 DEF CommitMeta, Goto, Fault, FlipPointer, M, storeVars, cacheVars,
     pushVars, reapVars, bounds, history
<1>5. ASSUME CleanupContent PROVE Upload'
  BY <1>5 DEF CleanupContent, Goto, Fault, Quit, M, storeVars, cacheVars,
     pushVars, reapVars, bounds, history
<1>6. ASSUME ApplyLocal PROVE Upload'
  BY <1>6 DEF ApplyLocal, Goto, CachePut, M, storeVars, cacheVars, pushVars,
     reapVars, bounds, history
<1>7. ASSUME CollectPrev PROVE Upload'
  BY <1>7 DEF CollectPrev, Goto, Fault, Quit, M, storeVars, cacheVars,
     pushVars, reapVars, bounds, history
<1>8. ASSUME CountSites PROVE Upload'
  BY <1>8 DEF CountSites, Goto, Use, M, storeVars, cacheVars, pushVars,
     reapVars, bounds, history
<1>9. ASSUME StartDelete PROVE Upload'
  BY <1>9 DEF StartDelete, Goto, M, storeVars, cacheVars, pushVars, reapVars,
     bounds, history
<1>10. ASSUME LookupDeleted PROVE Upload'
  BY <1>10 DEF LookupDeleted, Goto, Use, Found, Return, Quit, M, storeVars,
     cacheVars, pushVars, reapVars, bounds, history
<1>11. ASSUME RemoveMeta PROVE Upload'
  BY <1>11 DEF RemoveMeta, Goto, Fault, Return, Quit, Unpublish, M, storeVars,
     cacheVars, pushVars, reapVars, bounds, history
<1>12. ASSUME ForgetLocal PROVE Upload'
  BY <1>12 DEF ForgetLocal, Goto, M, storeVars, cacheVars, pushVars, reapVars,
     bounds, history
<1>13. ASSUME SweepContent PROVE Upload'
  BY <1>13 DEF SweepContent, Goto, Fault, Return, Quit, M, storeVars,
     cacheVars, pushVars, reapVars, bounds, history
<1>14. ASSUME StartReap PROVE Upload'
  BY <1>14 DEF StartReap, Goto, M, storeVars, cacheVars, pushVars, reapVars,
     bounds, history
<1>15. ASSUME ListExpired PROVE Upload'
  BY <1>15 DEF ListExpired, Goto, Use, Quit, M, storeVars, cacheVars, pushVars,
     reapVars, bounds, history
<1>16. ASSUME NextExpired PROVE Upload'
  BY <1>16 DEF NextExpired, Goto, Quit, M, storeVars, cacheVars, pushVars,
     reapVars, bounds, history
<1>17. ASSUME NEW r \in Readers, GetPage(r) PROVE Upload'
  BY <1>17 DEF GetPage, Goto, storeVars, cacheVars, pushVars, reapVars, bounds,
     history
<1>18. ASSUME NEW r \in Readers, CheckExpiry(r) PROVE Upload'
  BY <1>18 DEF CheckExpiry, Goto, Use, Found, storeVars, cacheVars, pushVars,
     reapVars, bounds, history
<1>19. ASSUME NEW r \in Readers, OpenSite(r) PROVE Upload'
  BY <1>19 DEF OpenSite, Goto, Use, Found, storeVars, cacheVars, pushVars,
     reapVars, bounds, history
<1>20. ASSUME NEW r \in Readers, GetContent(r) PROVE Upload'
  BY <1>20 DEF GetContent, Goto, Fault, CachePut, Process, storeVars,
     cacheVars, pushVars, reapVars, bounds, history
<1>21. ASSUME NEW r \in Readers, EndRead(r) PROVE Upload'
  BY <1>21 DEF EndRead, Goto, storeVars, cacheVars, pushVars, reapVars, bounds,
     history
<1>22. ASSUME NEW g \in Goroutines, Snapshot(g) PROVE Upload'
  BY <1>22 DEF Snapshot, Process, storeVars, cacheVars, pushVars, reapVars,
     bounds, history
<1>23. ASSUME NEW g \in Goroutines, Fetch(g) PROVE Upload'
  BY <1>23 DEF Fetch, Fault, storeVars, cacheVars, pushVars, reapVars, bounds,
     history
<1>24. ASSUME NEW g \in Goroutines, InstallMap(g) PROVE Upload'
  BY <1>24 DEF InstallMap, Process, storeVars, cacheVars, pushVars, reapVars,
     bounds, history
<1>25. ASSUME Tick PROVE Upload'
  BY <1>25 DEF Tick, storeVars, cacheVars, pushVars, reapVars, bounds, history
<1>26. ASSUME Crash PROVE Upload'
  BY <1>26 DEF Crash, Process, storeVars, cacheVars, pushVars, reapVars,
     bounds, history
<1>27. ASSUME UNCHANGED vars PROVE Upload'
  BY <1>27 DEF vars, storeVars, cacheVars, pushVars, reapVars, bounds, history
<1> QED
  BY <1>1, <1>2, <1>3, <1>4, <1>5, <1>6, <1>7, <1>8, <1>9, <1>10, <1>11, <1>12,
     <1>13, <1>14, <1>15, <1>16, <1>17, <1>18, <1>19, <1>20, <1>21, <1>22,
     <1>23, <1>24, <1>25, <1>26, <1>27 DEF Next, Push, Delete, Reap, Read

\* What a push collects was looked up in a genuine map, before its own version
\* was committed.
LEMMA CollectsNext == IInv /\ [Next]_vars => Collects'
<1> SUFFICES ASSUME IInv, [Next]_vars PROVE Collects'
  OBVIOUS
<1> USE ProcessType
    DEF IInv, TypeInv, TypeOK, StoreType, FlowType, Handles,
        PushInv, Upload, Collects, Pushing
<1>1. ASSUME StartPush PROVE Collects'
  BY <1>1 DEF StartPush, Goto, M, storeVars, cacheVars, pushVars, reapVars,
     bounds, history
<1>2. ASSUME PutContent PROVE Collects'
  BY <1>2 DEF PutContent, Goto, Fault, Quit, M, storeVars, cacheVars, pushVars,
     reapVars, bounds, history
<1>3. ASSUME LookupPrev PROVE Collects'
  <2>1. /\ pc[Mutator] = "prev" /\ ver \in Versions /\ ver \notin published
        /\ UNCHANGED <<published, owner, site, ver>>
    BY <1>3 DEF LookupPrev, Goto, M, storeVars, history
  <2>2. CASE Found(Mutator) \in Meta
    <3>2. /\ Found(Mutator).version \in published
          /\ owner[Found(Mutator).version] = site[Mutator]
      BY <2>2, FoundGenuine
    <3>3. prev' = Found(Mutator).version
      BY <1>3, <2>2 DEF LookupPrev, M
    <3> QED
      BY <2>1, <3>2, <3>3
  <2>3. CASE Found(Mutator) \notin Meta
    BY <1>3, <2>1, <2>3 DEF LookupPrev, M, Versions, Absent
  <2> QED
    BY <2>2, <2>3
<1>4. ASSUME CommitMeta PROVE Collects'
  BY <1>4 DEF CommitMeta, Goto, Fault, FlipPointer, M, storeVars, cacheVars,
     pushVars, reapVars, bounds, history
<1>5. ASSUME CleanupContent PROVE Collects'
  BY <1>5 DEF CleanupContent, Goto, Fault, Quit, M, storeVars, cacheVars,
     pushVars, reapVars, bounds, history
<1>6. ASSUME ApplyLocal PROVE Collects'
  BY <1>6 DEF ApplyLocal, Goto, CachePut, M, storeVars, cacheVars, pushVars,
     reapVars, bounds, history
<1>7. ASSUME CollectPrev PROVE Collects'
  BY <1>7 DEF CollectPrev, Goto, Fault, Quit, M, storeVars, cacheVars,
     pushVars, reapVars, bounds, history
<1>8. ASSUME CountSites PROVE Collects'
  BY <1>8 DEF CountSites, Goto, Use, M, storeVars, cacheVars, pushVars,
     reapVars, bounds, history
<1>9. ASSUME StartDelete PROVE Collects'
  BY <1>9 DEF StartDelete, Goto, M, storeVars, cacheVars, pushVars, reapVars,
     bounds, history
<1>10. ASSUME LookupDeleted PROVE Collects'
  BY <1>10 DEF LookupDeleted, Goto, Use, Found, Return, Quit, M, storeVars,
     cacheVars, pushVars, reapVars, bounds, history
<1>11. ASSUME RemoveMeta PROVE Collects'
  BY <1>11 DEF RemoveMeta, Goto, Fault, Return, Quit, Unpublish, M, storeVars,
     cacheVars, pushVars, reapVars, bounds, history
<1>12. ASSUME ForgetLocal PROVE Collects'
  BY <1>12 DEF ForgetLocal, Goto, M, storeVars, cacheVars, pushVars, reapVars,
     bounds, history
<1>13. ASSUME SweepContent PROVE Collects'
  BY <1>13 DEF SweepContent, Goto, Fault, Return, Quit, M, storeVars,
     cacheVars, pushVars, reapVars, bounds, history
<1>14. ASSUME StartReap PROVE Collects'
  BY <1>14 DEF StartReap, Goto, M, storeVars, cacheVars, pushVars, reapVars,
     bounds, history
<1>15. ASSUME ListExpired PROVE Collects'
  BY <1>15 DEF ListExpired, Goto, Use, Quit, M, storeVars, cacheVars, pushVars,
     reapVars, bounds, history
<1>16. ASSUME NextExpired PROVE Collects'
  BY <1>16 DEF NextExpired, Goto, Quit, M, storeVars, cacheVars, pushVars,
     reapVars, bounds, history
<1>17. ASSUME Crash PROVE Collects'
  BY <1>17 DEF Crash, Process, storeVars, cacheVars, pushVars, reapVars,
     bounds, history
<1>18. ASSUME Tick PROVE Collects'
  BY <1>18 DEF Tick, storeVars, cacheVars, pushVars, reapVars, bounds, history
<1>19. ASSUME NEW r \in Readers, GetPage(r) \/ CheckExpiry(r) \/ OpenSite(r) \/
             GetContent(r) \/ EndRead(r) PROVE Collects'
  BY <1>19 DEF GetPage, Goto, CheckExpiry, Use, OpenSite, GetContent, EndRead,
     storeVars, cacheVars, pushVars, reapVars, bounds, history
<1>20. ASSUME NEW g \in Goroutines, Snapshot(g) \/ Fetch(g) \/ InstallMap(g)
             PROVE Collects'
  BY <1>20 DEF Snapshot, Fetch, InstallMap, storeVars, cacheVars, pushVars,
     reapVars, bounds, history
<1>21. ASSUME UNCHANGED vars PROVE Collects'
  BY <1>21 DEF vars, storeVars, cacheVars, pushVars, reapVars, bounds, history
<1> QED
  BY <1>1, <1>2, <1>3, <1>4, <1>5, <1>6, <1>7, <1>8, <1>9, <1>10, <1>11, <1>12,
     <1>13, <1>14, <1>15, <1>16, <1>17, <1>18, <1>19, <1>20, <1>21 DEF Next,
     Push, Delete, Reap, Read

\* While a push finishes, nobody else moves the pointer it wrote.
LEMMA CommittedNext == IInv /\ [Next]_vars => Committed'
<1> SUFFICES ASSUME IInv, [Next]_vars PROVE Committed'
  OBVIOUS
<1> USE ProcessType, NoneAssumption
    DEF IInv, TypeInv, TypeOK, StoreType, FlowType, Handles,
        PushInv, Committed, Pushing
<1>1. ASSUME StartPush PROVE Committed'
  BY <1>1 DEF StartPush, Goto, M, storeVars, cacheVars, pushVars, reapVars,
     bounds, history
<1>2. ASSUME PutContent PROVE Committed'
  BY <1>2 DEF PutContent, Goto, Fault, Quit, M, storeVars, cacheVars, pushVars,
     reapVars, bounds, history
<1>3. ASSUME LookupPrev PROVE Committed'
  BY <1>3 DEF LookupPrev, Goto, Use, Found, M, storeVars, cacheVars, pushVars,
     reapVars, bounds, history
<1>4. ASSUME CommitMeta PROVE Committed'
  <2>1. /\ pc[Mutator] = "commit" /\ ver \in Versions
        /\ site[Mutator] \in Sites /\ UNCHANGED <<site, ver>>
    BY <1>4 DEF CommitMeta, Goto, M, pushVars
  <2>2. CASE FlipPointer
    <3>1. Record \in Meta
      BY <2>1, MetaFields DEF RequestType, Record
    <3>2. bucket'[site[Mutator]] = Record
      BY <2>1, <2>2, MapsType DEF FlipPointer, M, Record, Maps
    <3> QED
      BY <2>1, <3>1, <3>2 DEF Record
  <2>3. CASE ~FlipPointer
    BY <1>4, <2>3 DEF CommitMeta, Goto, M
  <2> QED
    BY <2>2, <2>3
<1>5. ASSUME CleanupContent PROVE Committed'
  BY <1>5 DEF CleanupContent, Goto, Fault, Quit, M, storeVars, cacheVars,
     pushVars, reapVars, bounds, history
<1>6. ASSUME ApplyLocal PROVE Committed'
  BY <1>6 DEF ApplyLocal, Goto, CachePut, M, storeVars, cacheVars, pushVars,
     reapVars, bounds, history
<1>7. ASSUME CollectPrev PROVE Committed'
  BY <1>7 DEF CollectPrev, Goto, Fault, Quit, M, storeVars, cacheVars,
     pushVars, reapVars, bounds, history
<1>8. ASSUME CountSites PROVE Committed'
  BY <1>8 DEF CountSites, Goto, Use, M, storeVars, cacheVars, pushVars,
     reapVars, bounds, history
<1>9. ASSUME StartDelete PROVE Committed'
  BY <1>9 DEF StartDelete, Goto, M, storeVars, cacheVars, pushVars, reapVars,
     bounds, history
<1>10. ASSUME LookupDeleted PROVE Committed'
  BY <1>10 DEF LookupDeleted, Goto, Use, Found, Return, Quit, M, storeVars,
     cacheVars, pushVars, reapVars, bounds, history
<1>11. ASSUME RemoveMeta PROVE Committed'
  BY <1>11 DEF RemoveMeta, Goto, Fault, Return, Quit, Unpublish, M, storeVars,
     cacheVars, pushVars, reapVars, bounds, history
<1>12. ASSUME ForgetLocal PROVE Committed'
  BY <1>12 DEF ForgetLocal, Goto, M, storeVars, cacheVars, pushVars, reapVars,
     bounds, history
<1>13. ASSUME SweepContent PROVE Committed'
  BY <1>13 DEF SweepContent, Goto, Fault, Return, Quit, M, storeVars,
     cacheVars, pushVars, reapVars, bounds, history
<1>14. ASSUME StartReap PROVE Committed'
  BY <1>14 DEF StartReap, Goto, M, storeVars, cacheVars, pushVars, reapVars,
     bounds, history
<1>15. ASSUME ListExpired PROVE Committed'
  BY <1>15 DEF ListExpired, Goto, Use, Quit, M, storeVars, cacheVars, pushVars,
     reapVars, bounds, history
<1>16. ASSUME NextExpired PROVE Committed'
  BY <1>16 DEF NextExpired, Goto, Quit, M, storeVars, cacheVars, pushVars,
     reapVars, bounds, history
<1>17. ASSUME Crash PROVE Committed'
  BY <1>17 DEF Crash, Process, storeVars, cacheVars, pushVars, reapVars,
     bounds, history
<1>18. ASSUME Tick PROVE Committed'
  BY <1>18 DEF Tick, storeVars, cacheVars, pushVars, reapVars, bounds, history
<1>19. ASSUME NEW r \in Readers, GetPage(r) \/ CheckExpiry(r) \/ OpenSite(r) \/
             GetContent(r) \/ EndRead(r) PROVE Committed'
  BY <1>19 DEF GetPage, Goto, CheckExpiry, Use, OpenSite, GetContent, EndRead,
     storeVars, cacheVars, pushVars, reapVars, bounds, history
<1>20. ASSUME NEW g \in Goroutines, Snapshot(g) \/ Fetch(g) \/ InstallMap(g)
             PROVE Committed'
  BY <1>20 DEF Snapshot, Fetch, InstallMap, storeVars, cacheVars, pushVars,
     reapVars, bounds, history
<1>21. ASSUME UNCHANGED vars PROVE Committed'
  BY <1>21 DEF vars, storeVars, cacheVars, pushVars, reapVars, bounds, history
<1> QED
  BY <1>1, <1>2, <1>3, <1>4, <1>5, <1>6, <1>7, <1>8, <1>9, <1>10, <1>11, <1>12,
     <1>13, <1>14, <1>15, <1>16, <1>17, <1>18, <1>19, <1>20, <1>21 DEF Next,
     Push, Delete, Reap, Read

\* A delete sweeps a site that has no pointer any more.
LEMMA UnpublishedNext == IInv /\ [Next]_vars => Unpublished'
<1> SUFFICES ASSUME IInv, [Next]_vars PROVE Unpublished'
  OBVIOUS
<1> USE ProcessType
    DEF IInv, TypeInv, TypeOK, StoreType, FlowType, Handles,
        PushInv, Unpublished
<1>1. ASSUME StartPush PROVE Unpublished'
  BY <1>1 DEF StartPush, Goto, M, storeVars, cacheVars, pushVars, reapVars,
     bounds, history
<1>2. ASSUME PutContent PROVE Unpublished'
  BY <1>2 DEF PutContent, Goto, Fault, Quit, M, storeVars, cacheVars, pushVars,
     reapVars, bounds, history
<1>3. ASSUME LookupPrev PROVE Unpublished'
  BY <1>3 DEF LookupPrev, Goto, Use, Found, M, storeVars, cacheVars, pushVars,
     reapVars, bounds, history
<1>4. ASSUME CommitMeta PROVE Unpublished'
  BY <1>4 DEF CommitMeta, Goto, Fault, FlipPointer, M, storeVars, cacheVars,
     pushVars, reapVars, bounds, history
<1>5. ASSUME CleanupContent PROVE Unpublished'
  BY <1>5 DEF CleanupContent, Goto, Fault, Quit, M, storeVars, cacheVars,
     pushVars, reapVars, bounds, history
<1>6. ASSUME ApplyLocal PROVE Unpublished'
  BY <1>6 DEF ApplyLocal, Goto, CachePut, M, storeVars, cacheVars, pushVars,
     reapVars, bounds, history
<1>7. ASSUME CollectPrev PROVE Unpublished'
  BY <1>7 DEF CollectPrev, Goto, Fault, Quit, M, storeVars, cacheVars,
     pushVars, reapVars, bounds, history
<1>8. ASSUME CountSites PROVE Unpublished'
  BY <1>8 DEF CountSites, Goto, Use, M, storeVars, cacheVars, pushVars,
     reapVars, bounds, history
<1>9. ASSUME StartDelete PROVE Unpublished'
  BY <1>9 DEF StartDelete, Goto, M, storeVars, cacheVars, pushVars, reapVars,
     bounds, history
<1>10. ASSUME LookupDeleted PROVE Unpublished'
  BY <1>10 DEF LookupDeleted, Goto, Use, Found, Return, Quit, M, storeVars,
     cacheVars, pushVars, reapVars, bounds, history
<1>11. ASSUME RemoveMeta PROVE Unpublished'
  <2>1. CASE Return("unmeta", "error")
    BY <2>1, ReturnError DEF Goto
  <2>2. CASE Unpublish /\ UNCHANGED site
    BY <1>11, <2>2 DEF Unpublish, M, Maps
  <2> QED
    BY <1>11, <2>1, <2>2 DEF RemoveMeta
<1>12. ASSUME ForgetLocal PROVE Unpublished'
  BY <1>12 DEF ForgetLocal, Goto, M, storeVars, cacheVars, pushVars, reapVars,
     bounds, history
<1>13. ASSUME SweepContent PROVE Unpublished'
  BY <1>13 DEF SweepContent, Goto, Fault, Return, Quit, M, storeVars,
     cacheVars, pushVars, reapVars, bounds, history
<1>14. ASSUME StartReap PROVE Unpublished'
  BY <1>14 DEF StartReap, Goto, M, storeVars, cacheVars, pushVars, reapVars,
     bounds, history
<1>15. ASSUME ListExpired PROVE Unpublished'
  BY <1>15 DEF ListExpired, Goto, Use, Quit, M, storeVars, cacheVars, pushVars,
     reapVars, bounds, history
<1>16. ASSUME NextExpired PROVE Unpublished'
  BY <1>16 DEF NextExpired, Goto, Quit, M, storeVars, cacheVars, pushVars,
     reapVars, bounds, history
<1>17. ASSUME Crash PROVE Unpublished'
  BY <1>17 DEF Crash, Process, storeVars, cacheVars, pushVars, reapVars,
     bounds, history
<1>18. ASSUME Tick PROVE Unpublished'
  BY <1>18 DEF Tick, storeVars, cacheVars, pushVars, reapVars, bounds, history
<1>19. ASSUME NEW r \in Readers, GetPage(r) \/ CheckExpiry(r) \/ OpenSite(r) \/
             GetContent(r) \/ EndRead(r) PROVE Unpublished'
  BY <1>19 DEF GetPage, Goto, CheckExpiry, Use, OpenSite, GetContent, EndRead,
     storeVars, cacheVars, pushVars, reapVars, bounds, history
<1>20. ASSUME NEW g \in Goroutines, Snapshot(g) \/ Fetch(g) \/ InstallMap(g)
             PROVE Unpublished'
  BY <1>20 DEF Snapshot, Fetch, InstallMap, storeVars, cacheVars, pushVars,
     reapVars, bounds, history
<1>21. ASSUME UNCHANGED vars PROVE Unpublished'
  BY <1>21 DEF vars, storeVars, cacheVars, pushVars, reapVars, bounds, history
<1> QED
  BY <1>1, <1>2, <1>3, <1>4, <1>5, <1>6, <1>7, <1>8, <1>9, <1>10, <1>11, <1>12,
     <1>13, <1>14, <1>15, <1>16, <1>17, <1>18, <1>19, <1>20, <1>21 DEF Next,
     Push, Delete, Reap, Read

\* A version, once committed, stays so, for its own site.
LEMMA HistorySteps == IInv /\ [Next]_vars => HistoryStep
<1> SUFFICES ASSUME IInv, [Next]_vars PROVE HistoryStep
  OBVIOUS
<1> USE ProcessType, BoundsAssumption
    DEF IInv, TypeInv, TypeOK, StoreType, FlowType, HistoryStep,
        RequestType, PushInv, Upload, Versions
<1>1. ASSUME StartPush PROVE HistoryStep
  <2>1. pushes + 1 \notin published
    BY DEF PushInv, Upload, RequestType
  <2> QED
    BY <1>1, <2>1 DEF StartPush, history
<1>2. ASSUME CommitMeta PROVE HistoryStep
  BY <1>2 DEF CommitMeta, Goto, Fault, FlipPointer, M, storeVars, cacheVars,
     pushVars, reapVars, bounds, history
<1>3. ASSUME PutContent \/ LookupPrev \/ CleanupContent \/ ApplyLocal \/
             CollectPrev \/ CountSites \/ StartDelete \/ LookupDeleted \/
             RemoveMeta \/ ForgetLocal \/ SweepContent \/ StartReap \/
             ListExpired \/ NextExpired \/ Tick \/ Crash PROVE HistoryStep
  BY <1>3 DEF PutContent, Goto, Quit, M, LookupPrev, Use, CleanupContent,
     ApplyLocal, CollectPrev, CountSites, StartDelete, LookupDeleted, Return,
     RemoveMeta, Unpublish, ForgetLocal, SweepContent, StartReap, ListExpired,
     NextExpired, Tick, Crash, storeVars, cacheVars, pushVars, reapVars,
     bounds, history
<1>4. ASSUME NEW r \in Readers, GetPage(r) \/ CheckExpiry(r) \/ OpenSite(r) \/
             GetContent(r) \/ EndRead(r) PROVE HistoryStep
  BY <1>4 DEF GetPage, Goto, CheckExpiry, Use, OpenSite, GetContent, EndRead,
     storeVars, cacheVars, pushVars, reapVars, bounds, history
<1>5. ASSUME NEW g \in Goroutines, Snapshot(g) \/ Fetch(g) \/ InstallMap(g)
             PROVE HistoryStep
  BY <1>5 DEF Snapshot, Fetch, InstallMap, storeVars, cacheVars, pushVars,
     reapVars, bounds, history
<1>6. ASSUME UNCHANGED vars PROVE HistoryStep
  BY <1>6 DEF vars, storeVars, cacheVars, pushVars, reapVars, bounds, history
<1> QED
  BY <1>1, <1>2, <1>3, <1>4, <1>5, <1>6 DEF Next, Push, Delete, Reap, Read

\* What a step may do to the bucket.
LEMMA BucketSteps == IInv /\ [Next]_vars => BucketStep
<1> SUFFICES ASSUME IInv, [Next]_vars PROVE BucketStep
  OBVIOUS
<1> USE ProcessType
    DEF IInv, TypeInv, TypeOK, StoreType, FlowType, BucketStep, Record
<1>1. ASSUME CommitMeta PROVE BucketStep
  BY <1>1 DEF CommitMeta, Goto, Fault, FlipPointer, M, storeVars, cacheVars,
     pushVars, reapVars, bounds, history
<1>2. ASSUME RemoveMeta PROVE BucketStep
  BY <1>2 DEF RemoveMeta, Goto, Fault, Return, Quit, Unpublish, M, storeVars,
     cacheVars, pushVars, reapVars, bounds, history
<1>3. ASSUME StartPush \/ PutContent \/ LookupPrev \/ CleanupContent \/
             ApplyLocal \/ CollectPrev \/ CountSites \/ StartDelete \/
             LookupDeleted \/ ForgetLocal \/ SweepContent \/ StartReap \/
             ListExpired \/ NextExpired \/ Tick \/ Crash PROVE BucketStep
  BY <1>3 DEF StartPush, Goto, M, PutContent, Quit, LookupPrev, Use,
     CleanupContent, ApplyLocal, CollectPrev, CountSites, StartDelete,
     LookupDeleted, Return, ForgetLocal, SweepContent, StartReap, ListExpired,
     NextExpired, Tick, Crash, storeVars, cacheVars, pushVars, reapVars,
     bounds, history
<1>4. ASSUME NEW r \in Readers, GetPage(r) \/ CheckExpiry(r) \/ OpenSite(r) \/
             GetContent(r) \/ EndRead(r) PROVE BucketStep
  BY <1>4 DEF GetPage, Goto, CheckExpiry, Use, OpenSite, GetContent, EndRead,
     storeVars, cacheVars, pushVars, reapVars, bounds, history
<1>5. ASSUME NEW g \in Goroutines, Snapshot(g) \/ Fetch(g) \/ InstallMap(g)
             PROVE BucketStep
  BY <1>5 DEF Snapshot, Fetch, InstallMap, storeVars, cacheVars, pushVars,
     reapVars, bounds, history
<1>6. ASSUME UNCHANGED vars PROVE BucketStep
  BY <1>6 DEF vars, storeVars, cacheVars, pushVars, reapVars, bounds, history
<1> QED
  BY <1>1, <1>2, <1>3, <1>4, <1>5, <1>6 DEF Next, Push, Delete, Reap, Read

\* What a step may do to the maps.
LEMMA MetaSteps == IInv /\ [Next]_vars => MetaStep
<1> SUFFICES ASSUME IInv, [Next]_vars PROVE MetaStep
  OBVIOUS
<1> USE ProcessType
    DEF IInv, TypeInv, TypeOK, StoreType, FlowType, MetaStep, Record,
        CacheType
<1>1. ASSUME ApplyLocal PROVE MetaStep
  BY <1>1 DEF ApplyLocal, Goto, CachePut, M, storeVars, cacheVars, pushVars,
     reapVars, bounds, history
<1>2. ASSUME ForgetLocal PROVE MetaStep
  BY <1>2 DEF ForgetLocal, Goto, M, storeVars, cacheVars, pushVars, reapVars,
     bounds, history
<1>3. ASSUME NEW g \in Goroutines, InstallMap(g) PROVE MetaStep
  BY <1>3 DEF InstallMap, Process, storeVars, cacheVars, pushVars, reapVars,
     bounds, history
<1>4. ASSUME Crash PROVE MetaStep
  BY <1>4 DEF Crash, Process, storeVars, cacheVars, pushVars, reapVars, bounds,
     history
<1>5. ASSUME StartPush \/ PutContent \/ LookupPrev \/ CommitMeta \/
             CleanupContent \/ CollectPrev \/ CountSites \/ StartDelete \/
             LookupDeleted \/ RemoveMeta \/ SweepContent \/ StartReap \/
             ListExpired \/ NextExpired \/ Tick PROVE MetaStep
  BY <1>5 DEF StartPush, Goto, M, PutContent, Quit, LookupPrev, Use,
     CommitMeta, FlipPointer, CleanupContent, CollectPrev, CountSites,
     StartDelete, LookupDeleted, Return, RemoveMeta, Unpublish, SweepContent,
     StartReap, ListExpired, NextExpired, Tick, storeVars, cacheVars, pushVars,
     reapVars, bounds, history
<1>6. ASSUME NEW r \in Readers, GetPage(r) \/ CheckExpiry(r) \/ OpenSite(r) \/
             GetContent(r) \/ EndRead(r) PROVE MetaStep
  BY <1>6 DEF GetPage, Goto, CheckExpiry, Use, OpenSite, GetContent, EndRead,
     storeVars, cacheVars, pushVars, reapVars, bounds, history
<1>7. ASSUME NEW g \in Goroutines, Snapshot(g) \/ Fetch(g) PROVE MetaStep
  BY <1>7 DEF Snapshot, Fetch, storeVars, cacheVars, pushVars, reapVars,
     bounds, history
<1>8. ASSUME UNCHANGED vars PROVE MetaStep
  BY <1>8 DEF vars, storeVars, cacheVars, pushVars, reapVars, bounds, history
<1> QED
  BY <1>1, <1>2, <1>3, <1>4, <1>5, <1>6, <1>7, <1>8 DEF Next, Push, Delete,
     Reap, Read

\* What a goroutine may come to hold.
LEMMA ViewSteps == IInv /\ [Next]_vars => ViewStep
<1> SUFFICES ASSUME IInv, [Next]_vars PROVE ViewStep
  OBVIOUS
<1> USE ProcessType
    DEF IInv, TypeInv, TypeOK, StoreType, FlowType, ViewStep
<1>1. ASSUME LookupPrev PROVE ViewStep
  BY <1>1 DEF LookupPrev, Use, M
<1>2. ASSUME CountSites PROVE ViewStep
  BY <1>2 DEF CountSites, Use, M
<1>3. ASSUME LookupDeleted PROVE ViewStep
  BY <1>3 DEF LookupDeleted, Use, M
<1>4. ASSUME ListExpired PROVE ViewStep
  BY <1>4 DEF ListExpired, Use, M
<1>5. ASSUME NEW r \in Readers, CheckExpiry(r) PROVE ViewStep
  BY <1>5 DEF CheckExpiry, Use, M
<1>6. ASSUME NEW r \in Readers, OpenSite(r) PROVE ViewStep
  BY <1>6 DEF OpenSite, Use, M
<1>7. ASSUME NEW g \in Goroutines, Snapshot(g) PROVE ViewStep
  BY <1>7 DEF Snapshot, Process, storeVars, cacheVars, pushVars, reapVars,
     bounds, history
<1>8. ASSUME NEW g \in Goroutines, Fetch(g) PROVE ViewStep
  BY <1>8 DEF Fetch, Fault, storeVars, cacheVars, pushVars, reapVars, bounds,
     history
<1>9. ASSUME Crash PROVE ViewStep
  BY <1>9 DEF Crash, Process, storeVars, cacheVars, pushVars, reapVars, bounds,
     history
<1>10. ASSUME StartPush \/ PutContent \/ CommitMeta \/ CleanupContent \/
             ApplyLocal \/ CollectPrev \/ StartDelete \/ RemoveMeta \/
             ForgetLocal \/ SweepContent \/ StartReap \/ NextExpired \/ Tick
             PROVE ViewStep
  BY <1>10 DEF StartPush, Goto, M, PutContent, Quit, CommitMeta, FlipPointer,
     CleanupContent, ApplyLocal, CollectPrev, StartDelete, RemoveMeta, Return,
     Unpublish, ForgetLocal, SweepContent, StartReap, NextExpired, Tick,
     storeVars, cacheVars, pushVars, reapVars, bounds, history
<1>11. ASSUME NEW r \in Readers, GetPage(r) \/ GetContent(r) \/ EndRead(r)
             PROVE ViewStep
  BY <1>11 DEF GetPage, Goto, GetContent, EndRead, storeVars, cacheVars,
     pushVars, reapVars, bounds, history
<1>12. ASSUME NEW g \in Goroutines, InstallMap(g) PROVE ViewStep
  BY <1>12 DEF InstallMap, storeVars, cacheVars, pushVars, reapVars, bounds,
     history
<1>13. ASSUME UNCHANGED vars PROVE ViewStep
  BY <1>13 DEF vars, storeVars, cacheVars, pushVars, reapVars, bounds, history
<1> QED
  BY <1>1, <1>2, <1>3, <1>4, <1>5, <1>6, <1>7, <1>8, <1>9, <1>10, <1>11, <1>12,
     <1>13 DEF Next, Push, Delete, Reap, Read

\* Stale or not, every record anywhere was once committed for its site.
LEMMA GenuineNext == IInv /\ [Next]_vars => Genuine'
<1> SUFFICES ASSUME IInv, [Next]_vars PROVE Genuine'
  OBVIOUS
<1> DEFINE Good(m)  == GenuineMap(m, published, owner)
           Still(m) == GenuineMap(m, published', owner')
<1>1. \A m : Good(m) => Still(m)
  BY HistorySteps DEF HistoryStep, GenuineMap
<1>2. Still(Empty)
  BY DEF GenuineMap, Empty
<1>3. \A m \in Maps, s \in Sites : Good(m) => Still([m EXCEPT ![s] = None])
  BY <1>1 DEF GenuineMap, Maps
<1>4. ASSUME NEW m \in Maps, Good(m), ver \in published',
             owner'[ver] = site[Mutator]
      PROVE  Still([m EXCEPT ![site[Mutator]] = Record])
  BY <1>1, <1>4 DEF GenuineMap, Maps, Record
<1> USE DEF IInv, TypeInv, TypeOK, StoreType, CacheType, FlowType
<1>5. GenuineMap(bucket', published', owner')
  <2>1. CASE /\ pc[Mutator] = "commit"
             /\ bucket' = [bucket EXCEPT ![site[Mutator]] = Record]
             /\ ver \in published' /\ owner' = owner
    BY <1>4, <2>1 DEF Genuine, PushInv, Upload, Pushing
  <2>2. site[Mutator] \in Sites
    BY ProcessType
  <2> QED
    BY <1>1, <1>3, <2>1, <2>2, BucketSteps DEF BucketStep, Genuine
<1>6. ASSUME NEW p \in Procs PROVE GenuineMap(meta'[p], published', owner')
  <2>1. meta[p] \in Maps /\ Good(meta[p]) /\ site[Mutator] \in Sites
    BY ProcessType DEF Genuine
  <2>2. CASE /\ pc[Mutator] = "apply"
             /\ meta'[p] = [meta[p] EXCEPT ![site[Mutator]] = Record]
    <3>1. ver \in published /\ owner[ver] = site[Mutator]
      BY <2>1, <2>2 DEF PushInv, Committed, Genuine, GenuineMap
    <3> QED
      BY <1>4, <2>1, <2>2, <3>1, HistorySteps DEF HistoryStep
  <2>3. ASSUME NEW g \in Goroutines, snap[g] = "fetched", meta'[p] = view[g]
        PROVE  Still(meta'[p])
    BY <1>1, <2>3, NoneAssumption DEF Handles, Genuine
  <2> QED
    BY <1>1, <1>2, <1>3, <2>1, <2>2, <2>3, MetaSteps DEF MetaStep
<1>7. ASSUME NEW g \in Goroutines, view'[g] # Unknown
      PROVE  GenuineMap(view'[g], published', owner')
  BY <1>1, <1>2, <1>7, ViewSteps DEF ViewStep, IInv, Genuine
<1> QED
  BY <1>5, <1>6, <1>7 DEF Genuine

\* A reader opens only what a genuine map named.
LEMMA OpenedNext == IInv /\ [Next]_vars => Opened'
<1> SUFFICES ASSUME IInv, [Next]_vars PROVE Opened'
  OBVIOUS
<1> USE ProcessType, HistorySteps
    DEF IInv, TypeInv, TypeOK, StoreType, FlowType, HistoryStep, Opened
<1>1. ASSUME StartPush PROVE Opened'
  BY <1>1 DEF StartPush, Goto, M, storeVars, cacheVars, pushVars, reapVars,
     bounds, history
<1>2. ASSUME CommitMeta PROVE Opened'
  BY <1>2 DEF CommitMeta, Goto, Fault, FlipPointer, M, storeVars, cacheVars,
     pushVars, reapVars, bounds, history
<1>3. ASSUME NEW r \in Readers, GetPage(r) PROVE Opened'
  BY <1>3 DEF GetPage, Goto, storeVars, cacheVars, pushVars, reapVars, bounds,
     history
<1>4. ASSUME NEW r \in Readers, CheckExpiry(r) PROVE Opened'
  BY <1>4 DEF CheckExpiry, Goto, Use, Found, storeVars, cacheVars, pushVars,
     reapVars, bounds, history
<1>5. ASSUME NEW r \in Readers, OpenSite(r) PROVE Opened'
  <2>1. CASE Found(r) \in Meta
    BY <1>5, <2>1, FoundGenuine DEF OpenSite, Goto, storeVars, history
  <2>2. CASE Found(r) \notin Meta
    BY <1>5, <2>2 DEF OpenSite, Goto, storeVars, history
  <2> QED
    BY <2>1, <2>2
<1>6. ASSUME NEW r \in Readers, GetContent(r) PROVE Opened'
  BY <1>6 DEF GetContent, Goto, Fault, CachePut, Process, storeVars, cacheVars,
     pushVars, reapVars, bounds, history
<1>7. ASSUME NEW r \in Readers, EndRead(r) PROVE Opened'
  BY <1>7 DEF EndRead, Goto, storeVars, cacheVars, pushVars, reapVars, bounds,
     history
<1>8. ASSUME Crash PROVE Opened'
  BY <1>8 DEF Crash, Process, storeVars, cacheVars, pushVars, reapVars, bounds,
     history
<1>9. ASSUME PutContent \/ LookupPrev \/ CleanupContent \/ ApplyLocal \/
             CollectPrev \/ CountSites \/ StartDelete \/ LookupDeleted \/
             RemoveMeta \/ ForgetLocal \/ SweepContent \/ StartReap \/
             ListExpired \/ NextExpired \/ Tick PROVE Opened'
  BY <1>9 DEF PutContent, Goto, Quit, M, LookupPrev, Use, CleanupContent,
     ApplyLocal, CollectPrev, CountSites, StartDelete, LookupDeleted, Return,
     RemoveMeta, Unpublish, ForgetLocal, SweepContent, StartReap, ListExpired,
     NextExpired, Tick, storeVars, cacheVars, pushVars, reapVars, bounds,
     history
<1>10. ASSUME NEW g \in Goroutines, Snapshot(g) \/ Fetch(g) \/ InstallMap(g)
             PROVE Opened'
  BY <1>10 DEF Snapshot, Fetch, InstallMap, storeVars, cacheVars, pushVars,
     reapVars, bounds, history
<1>11. ASSUME UNCHANGED vars PROVE Opened'
  BY <1>11 DEF vars, storeVars, cacheVars, pushVars, reapVars, bounds, history
<1> QED
  BY <1>1, <1>2, <1>3, <1>4, <1>5, <1>6, <1>7, <1>8, <1>9, <1>10, <1>11 DEF
     Next, Push, Delete, Reap, Read

\* No removal touches content that a pointer names, but for a lost commit.
LEMMA PointerNext == IInv /\ [Next]_vars => ContentOutlivesPointer'
<1> SUFFICES ASSUME IInv, [Next]_vars PROVE ContentOutlivesPointer'
  OBVIOUS
<1> USE ProcessType
    DEF IInv, TypeInv, TypeOK, StoreType, FlowType,
        ContentOutlivesPointer
<1>1. ASSUME PutContent PROVE ContentOutlivesPointer'
  BY <1>1 DEF PutContent, Goto, Fault, Quit, M, storeVars, cacheVars, pushVars,
     reapVars, bounds, history
<1>2. ASSUME CommitMeta PROVE ContentOutlivesPointer'
  <2>1. ver \in objects /\ objects' = objects /\ lost \subseteq lost'
    BY <1>2 DEF CommitMeta, Goto, M, PushInv, Upload, history
  <2>2. \/ bucket' = bucket
        \/ bucket' = [bucket EXCEPT ![site[Mutator]] = Record]
    BY <1>2 DEF CommitMeta, FlipPointer, M, Record
  <2> QED
    BY <2>1, <2>2 DEF Record, Maps
<1>3. ASSUME CleanupContent PROVE ContentOutlivesPointer'
  <2>1. /\ objects \ {ver} \subseteq objects' /\ ver \notin published \ lost
        /\ UNCHANGED <<bucket, lost>>
    BY <1>3 DEF CleanupContent, Goto, M, PushInv, Upload, history
  <2> QED
    BY <2>1 DEF Genuine, GenuineMap
<1>4. ASSUME CollectPrev PROVE ContentOutlivesPointer'
  <2>1. /\ objects \ {prev} \subseteq objects' /\ UNCHANGED <<bucket, lost>>
    BY <1>4 DEF CollectPrev, history
  <2>2. /\ prev # Absent => owner[prev] = site[Mutator]
        /\ prev # ver /\ bucket[site[Mutator]].version = ver
    BY <1>4 DEF CollectPrev, Goto, M, PushInv, Collects, Committed
  <2>3. \A s \in Sites : bucket[s] # None =>
            owner[bucket[s].version] = s /\ bucket[s].version # Absent
    BY MapsType, MetaFields DEF Genuine, GenuineMap, Versions, Absent
  <2> QED
    BY <2>1, <2>2, <2>3
<1>5. ASSUME RemoveMeta PROVE ContentOutlivesPointer'
  <2>1. /\ UNCHANGED <<objects, lost>>
        /\ \/ bucket' = bucket
           \/ bucket' = [bucket EXCEPT ![site[Mutator]] = None]
    BY <1>5 DEF RemoveMeta, Unpublish, M
  <2> QED
    BY <2>1 DEF Maps
<1>6. ASSUME SweepContent PROVE ContentOutlivesPointer'
  <2>1. /\ {v \in objects : owner[v] # site[Mutator]} \subseteq objects'
        /\ bucket[site[Mutator]] = None /\ UNCHANGED <<bucket, lost>>
    BY <1>6 DEF SweepContent, Return, Goto, M, PushInv, Unpublished, history
  <2> QED
    BY <2>1 DEF Genuine, GenuineMap
<1>7. ASSUME StartPush \/ LookupPrev \/ ApplyLocal \/ CountSites \/ StartDelete
             \/ LookupDeleted \/ ForgetLocal \/ StartReap \/ ListExpired \/
             NextExpired \/ Tick \/ Crash PROVE ContentOutlivesPointer'
  BY <1>7 DEF StartPush, Goto, M, LookupPrev, Use, ApplyLocal, CountSites,
     StartDelete, LookupDeleted, Return, Quit, ForgetLocal, StartReap,
     ListExpired, NextExpired, Tick, Crash, storeVars, cacheVars, pushVars,
     reapVars, bounds, history
<1>8. ASSUME NEW r \in Readers, GetPage(r) \/ CheckExpiry(r) \/ OpenSite(r) \/
             GetContent(r) \/ EndRead(r) PROVE ContentOutlivesPointer'
  BY <1>8 DEF GetPage, Goto, CheckExpiry, Use, OpenSite, GetContent, EndRead,
     storeVars, cacheVars, pushVars, reapVars, bounds, history
<1>9. ASSUME NEW g \in Goroutines, Snapshot(g) \/ Fetch(g) \/ InstallMap(g)
             PROVE ContentOutlivesPointer'
  BY <1>9 DEF Snapshot, Fetch, InstallMap, storeVars, cacheVars, pushVars,
     reapVars, bounds, history
<1>10. ASSUME UNCHANGED vars PROVE ContentOutlivesPointer'
  BY <1>10 DEF vars, storeVars, cacheVars, pushVars, reapVars, bounds, history
<1> QED
  BY <1>1, <1>2, <1>3, <1>4, <1>5, <1>6, <1>7, <1>8, <1>9, <1>10 DEF Next,
     Push, Delete, Reap, Read

\* What the expiry pass listed stays what the bucket holds while it runs.
LEMMA ReapInvNext == IInv /\ [Next]_vars => ReapInv'
<1> SUFFICES ASSUME IInv, [Next]_vars PROVE ReapInv'
  OBVIOUS
<1> USE ProcessType
    DEF IInv, TypeInv, TypeOK, StoreType, FlowType, RequestType, ReapInv,
        Overdue, Reaping, reaping, LookupPoints
<1>1. ASSUME StartPush PROVE ReapInv'
  BY <1>1 DEF StartPush, Goto, M, storeVars, cacheVars, pushVars, reapVars,
     bounds, history
<1>2. ASSUME PutContent PROVE ReapInv'
  BY <1>2 DEF PutContent, Goto, Fault, Quit, M, storeVars, cacheVars, pushVars,
     reapVars, bounds, history
<1>3. ASSUME LookupPrev PROVE ReapInv'
  BY <1>3 DEF LookupPrev, Goto, Use, Found, M, storeVars, cacheVars, pushVars,
     reapVars, bounds, history
<1>4. ASSUME CommitMeta PROVE ReapInv'
  BY <1>4 DEF CommitMeta, Goto, Fault, FlipPointer, M, storeVars, cacheVars,
     pushVars, reapVars, bounds, history
<1>5. ASSUME CleanupContent PROVE ReapInv'
  BY <1>5 DEF CleanupContent, Goto, Fault, Quit, M, storeVars, cacheVars,
     pushVars, reapVars, bounds, history
<1>6. ASSUME ApplyLocal PROVE ReapInv'
  BY <1>6 DEF ApplyLocal, Goto, CachePut, M, storeVars, cacheVars, pushVars,
     reapVars, bounds, history
<1>7. ASSUME CollectPrev PROVE ReapInv'
  BY <1>7 DEF CollectPrev, Goto, Fault, Quit, M, storeVars, cacheVars,
     pushVars, reapVars, bounds, history
<1>8. ASSUME CountSites PROVE ReapInv'
  BY <1>8 DEF CountSites, Goto, Use, M, storeVars, cacheVars, pushVars,
     reapVars, bounds, history
<1>9. ASSUME StartDelete PROVE ReapInv'
  BY <1>9 DEF StartDelete, Goto, M, storeVars, cacheVars, pushVars, reapVars,
     bounds, history
<1>10. ASSUME LookupDeleted PROVE ReapInv'
  BY <1>10 DEF LookupDeleted, Goto, Use, Found, Return, Quit, M, storeVars,
     cacheVars, pushVars, reapVars, bounds, history
<1>11. ASSUME RemoveMeta PROVE ReapInv'
  <2>1. pc[Mutator] = "unmeta"
    BY <1>11 DEF RemoveMeta, Return, Goto, M
  <2>2. CASE Return("unmeta", "error")
    BY <1>11, <2>1, <2>2, ReturnError DEF RemoveMeta, Goto, Quit
  <2>3. CASE /\ Goto(M, "unmeta", "forget") /\ Unpublish
             /\ UNCHANGED <<faults, site, pushVars, reapVars>>
    BY <1>11, <2>1, <2>3 DEF RemoveMeta, Goto, M, Unpublish, reapVars, Maps
  <2> QED
    BY <1>11, <2>2, <2>3 DEF RemoveMeta
<1>12. ASSUME ForgetLocal PROVE ReapInv'
  BY <1>12 DEF ForgetLocal, Goto, M, storeVars, cacheVars, pushVars, reapVars,
     bounds, history
<1>13. ASSUME SweepContent PROVE ReapInv'
  BY <1>13 DEF SweepContent, Goto, Fault, Return, Quit, M, storeVars,
     cacheVars, pushVars, reapVars, bounds, history
<1>14. ASSUME StartReap PROVE ReapInv'
  BY <1>14 DEF StartReap, Goto, M, storeVars, cacheVars, pushVars, reapVars,
     bounds, history
<1>15. ASSUME ListExpired PROVE ReapInv'
  BY <1>15 DEF ListExpired, Goto, Use, Quit, M, storeVars, cacheVars, pushVars,
     reapVars, bounds, history
<1>16. ASSUME NextExpired PROVE ReapInv'
  BY <1>16 DEF NextExpired, Goto, Quit, M, storeVars, cacheVars, pushVars,
     reapVars, bounds, history
<1>17. ASSUME NEW r \in Readers, GetPage(r) PROVE ReapInv'
  BY <1>17 DEF GetPage, Goto, storeVars, cacheVars, pushVars, reapVars, bounds,
     history
<1>18. ASSUME NEW r \in Readers, CheckExpiry(r) PROVE ReapInv'
  BY <1>18 DEF CheckExpiry, Goto, Use, Found, storeVars, cacheVars, pushVars,
     reapVars, bounds, history
<1>19. ASSUME NEW r \in Readers, OpenSite(r) PROVE ReapInv'
  BY <1>19 DEF OpenSite, Goto, Use, Found, storeVars, cacheVars, pushVars,
     reapVars, bounds, history
<1>20. ASSUME NEW r \in Readers, GetContent(r) PROVE ReapInv'
  BY <1>20 DEF GetContent, Goto, Fault, CachePut, Process, storeVars,
     cacheVars, pushVars, reapVars, bounds, history
<1>21. ASSUME NEW r \in Readers, EndRead(r) PROVE ReapInv'
  BY <1>21 DEF EndRead, Goto, storeVars, cacheVars, pushVars, reapVars, bounds,
     history
<1>22. ASSUME NEW g \in Goroutines, Snapshot(g) PROVE ReapInv'
  BY <1>22 DEF Snapshot, Process, storeVars, cacheVars, pushVars, reapVars,
     bounds, history
<1>23. ASSUME NEW g \in Goroutines, Fetch(g) PROVE ReapInv'
  BY <1>23 DEF Fetch, Fault, storeVars, cacheVars, pushVars, reapVars, bounds,
     history
<1>24. ASSUME NEW g \in Goroutines, InstallMap(g) PROVE ReapInv'
  BY <1>24 DEF InstallMap, Process, storeVars, cacheVars, pushVars, reapVars,
     bounds, history
<1>25. ASSUME Tick PROVE ReapInv'
  BY <1>25 DEF Tick, storeVars, cacheVars, pushVars, reapVars, bounds, history
<1>26. ASSUME Crash PROVE ReapInv'
  BY <1>26 DEF Crash, Process, storeVars, cacheVars, pushVars, reapVars,
     bounds, history
<1>27. ASSUME UNCHANGED vars PROVE ReapInv'
  BY <1>27 DEF vars, storeVars, cacheVars, pushVars, reapVars, bounds, history
<1> QED
  BY <1>1, <1>2, <1>3, <1>4, <1>5, <1>6, <1>7, <1>8, <1>9, <1>10, <1>11, <1>12,
     <1>13, <1>14, <1>15, <1>16, <1>17, <1>18, <1>19, <1>20, <1>21, <1>22,
     <1>23, <1>24, <1>25, <1>26, <1>27 DEF Next, Push, Delete, Reap, Read

-----------------------------------------------------------------------------
\* Only RemoveMeta takes a pointer away, and only that of its own site.
LEMMA UnpublishingSteps == IInv /\ [Next]_vars => Unpublishing
<1> SUFFICES ASSUME IInv, [Next]_vars PROVE Unpublishing
  OBVIOUS
<1> USE ProcessType
    DEF IInv, TypeInv, TypeOK, StoreType, FlowType, Unpublishing
<1>1. ASSUME CommitMeta PROVE Unpublishing
  <2>1. ver \in Versions /\ site[Mutator] \in Sites
    BY <1>1 DEF CommitMeta, Goto, M, Handles, Pushing
  <2>2. Record \in Meta
    BY <2>1, MetaFields DEF RequestType, Record
  <2>3. bucket' = bucket \/ bucket' = [bucket EXCEPT ![site[Mutator]] = Record]
    BY <1>1 DEF CommitMeta, FlipPointer, M, Record
  <2> QED
    BY <2>1, <2>2, <2>3, NoneAssumption DEF Maps
<1>2. ASSUME RemoveMeta PROVE Unpublishing
  BY <1>2 DEF RemoveMeta, Return, Goto, Unpublish, M, Maps
<1>3. ASSUME StartPush \/ PutContent \/ LookupPrev \/ CleanupContent \/
             ApplyLocal \/ CollectPrev \/ CountSites \/ StartDelete \/
             LookupDeleted \/ ForgetLocal \/ SweepContent \/ StartReap \/
             ListExpired \/ NextExpired \/ Tick \/ Crash PROVE Unpublishing
  BY <1>3 DEF StartPush, Goto, M, PutContent, Quit, LookupPrev, Use,
     CleanupContent, ApplyLocal, CollectPrev, CountSites, StartDelete,
     LookupDeleted, Return, ForgetLocal, SweepContent, StartReap, ListExpired,
     NextExpired, Tick, Crash, storeVars, cacheVars, pushVars, reapVars,
     bounds, history
<1>4. ASSUME NEW r \in Readers, GetPage(r) \/ CheckExpiry(r) \/ OpenSite(r) \/
             GetContent(r) \/ EndRead(r) PROVE Unpublishing
  BY <1>4 DEF GetPage, Goto, CheckExpiry, Use, OpenSite, GetContent, EndRead,
     storeVars, cacheVars, pushVars, reapVars, bounds, history
<1>5. ASSUME NEW g \in Goroutines, Snapshot(g) \/ Fetch(g) \/ InstallMap(g)
             PROVE Unpublishing
  BY <1>5 DEF Snapshot, Fetch, InstallMap, storeVars, cacheVars, pushVars,
     reapVars, bounds, history
<1>6. ASSUME UNCHANGED vars PROVE Unpublishing
  BY <1>6 DEF vars, storeVars, cacheVars, pushVars, reapVars, bounds, history
<1> QED
  BY <1>1, <1>2, <1>3, <1>4, <1>5, <1>6 DEF Next, Push, Delete, Reap, Read

\* The inductive invariant holds at startup with an empty bucket.
LEMMA InitInv == Init => IInv
<1> SUFFICES ASSUME Init PROVE IInv
  OBVIOUS
<1>1. TypeInv
  BY TypeInit
<1>2. pc[Mutator] = "boot" /\ \A r \in Readers : pc[r] = "idle"
  BY ProcessType DEF Init
<1>3. PushInv /\ Opened
  BY <1>2 DEF Init, PushInv, Upload, Collects, Committed, Unpublished, Pushing,
     Opened
<1>4. Genuine /\ ContentOutlivesPointer
  BY DEF Init, Genuine, GenuineMap, ContentOutlivesPointer, Empty
<1>5. ReapInv
  BY <1>2 DEF Init, ReapInv, reaping, LookupPoints
<1> QED
  BY <1>1, <1>3, <1>4, <1>5 DEF IInv

\* Every variable keeps its type, a failed or overtaken refresh included.
THEOREM TypeCorrect == Spec => []TypeOK
<1>1. TypeInv => TypeOK
  BY DEF TypeInv
<1> QED
  BY TypeInit, TypeNext, <1>1, PTL DEF Spec

\* The inductive invariant holds in every reachable state.
THEOREM Invariance == Spec => []IInv
<1>1. IInv /\ [Next]_vars => IInv'
  BY TypeNext, UploadNext, CollectsNext, CommittedNext, UnpublishedNext,
     GenuineNext, OpenedNext, PointerNext, ReapInvNext DEF IInv, PushInv
<1> QED
  BY InitInv, <1>1, PTL DEF Spec

\* Whatever request fails and wherever the broker dies, a metadata object names
\* content that is in the bucket, unless the answer to its own commit was lost.
THEOREM PointersHold == Spec => []ContentOutlivesPointer
<1>1. IInv => ContentOutlivesPointer
  BY DEF IInv
<1> QED
  BY Invariance, <1>1, PTL

\* Whatever the age of a process's map, a public request is served content that
\* was published, under the site it asked for.
THEOREM ServesPublished == Spec => []ServedWasPublished
<1>1. IInv => ServedWasPublished
  BY DEF IInv, Opened, ServedWasPublished
<1> QED
  BY Invariance, <1>1, PTL

\* The expiry pass unpublishes only what is overdue in the bucket itself.
THEOREM ReaperIsPrecise == Spec => ReaperSparesLive
<1> DEFINE A == \A s \in Sites :
                   (reaping /\ bucket[s] # None /\ bucket'[s] = None)
                       => Elapsed(bucket[s].expires, clock)
<1>1. IInv /\ [Next]_vars => [A]_vars
  <2> SUFFICES ASSUME IInv, [Next]_vars, NEW s \in Sites, reaping,
                      bucket[s] # None, bucket'[s] = None
               PROVE  Elapsed(bucket[s].expires, clock)
    OBVIOUS
  <2>1. pc[Mutator] = "unmeta" /\ s = site[Mutator]
    BY UnpublishingSteps DEF Unpublishing
  <2>2. Elapsed(bucket[s].expires, now) /\ now <= clock
    BY <2>1 DEF IInv, ReapInv, Overdue
  <2>3. bucket[s].expires \in Nat \cup {Never} /\ now \in Nat /\ clock \in Nat
    BY MapsType, MetaFields DEF IInv, TypeInv, TypeOK, StoreType, RequestType
  <2> QED
    BY <2>2, <2>3, TTLsAssumption DEF Elapsed
<1> QED
  BY Invariance, <1>1, PTL DEF Spec, ReaperSparesLive

=============================================================================
