---------------------------- MODULE S3StoreRefines ----------------------------
(***************************************************************************)
(* S3Store implements SiteRegistry, for every set of sites, web processes  *)
(* and readers, every set of failing requests and every bound, deaths of   *)
(* the broker included.                                                    *)
(*                                                                         *)
(* A request is outstanding until its one write of a metadata object has   *)
(* had its effect or can no longer have it.  So the flip of the pointer    *)
(* maps to Publish, its removal to Withdraw or, in the expiry pass, to     *)
(* Expire, every way of giving up before that to Abandon, and all else is  *)
(* invisible.  Beyond the inductive invariant of S3StoreProofs the mapping *)
(* needs DeadlineInv: the deadline that the flip will publish was computed *)
(* from the push's own lifetime at an instant that has been.  PassInv lets *)
(* a delete inside the expiry pass be told from a client's.                *)
(***************************************************************************)
EXTENDS S3StoreProofs

DeadlineInv ==
    pc[Mutator] \in {"prev", "commit"} =>
        \E t \in 0 .. clock : expires = IF ttl = Never THEN Never ELSE t + ttl

\* The stations of the expiry pass alone.
PassInv == pc[Mutator] \in {"reap", "next"} => reaping

RefineInv == IInv /\ DeadlineInv /\ PassInv

\* The two requests that Outstanding can hold, and one published entry.
PutCall == [client |-> Mutator, op |-> "put", name |-> site[Mutator],
            ttl |-> ttl]
DeleteCall == [client |-> Mutator, op |-> "delete", name |-> site[Mutator],
               ttl |-> Never]
Entry(s, m) == [name |-> s, version |-> m.version, expires |-> m.expires]

\* A step of the registry, or one that it does not see.
Simulated == [Registry!Next]_(Registry!vars)

-----------------------------------------------------------------------------
\* What is outstanding, by where the writer stands.
LEMMA OutstandingBefore ==
    /\ pc[Mutator] \in {"upload", "prev", "commit"} => Outstanding = {PutCall}
    /\ pc[Mutator] \in {"gone", "unmeta"} /\ ~reaping
         => Outstanding = {DeleteCall}
    /\ pc[Mutator] \in {"gone", "unmeta"} /\ reaping => Outstanding = {}
    /\ pc[Mutator] \notin {"upload", "prev", "commit", "gone", "unmeta"}
         => Outstanding = {}
  BY DEF Outstanding, PutCall, DeleteCall, M

\* The same of the state a step leads to.
LEMMA OutstandingAfter ==
    /\ pc'[Mutator] \in {"upload", "prev", "commit"} => Outstanding' = {PutCall'}
    /\ pc'[Mutator] \in {"gone", "unmeta"} /\ ~reaping'
         => Outstanding' = {DeleteCall'}
    /\ pc'[Mutator] \in {"gone", "unmeta"} /\ reaping' => Outstanding' = {}
    /\ pc'[Mutator] \notin {"upload", "prev", "commit", "gone", "unmeta"}
         => Outstanding' = {}
  BY DEF Outstanding, PutCall, DeleteCall, M

\* What is published is a function of the bucket.
LEMMA RegisteredSame ==
    ASSUME UNCHANGED bucket
    PROVE  Registered' = Registered
  BY DEF Registered

\* Writing a metadata object replaces the entry of its name.
LEMMA RegisteredFlip ==
    ASSUME bucket \in Maps, NEW s \in Sites, NEW m \in Meta,
           bucket' = [bucket EXCEPT ![s] = m]
    PROVE  Registered' = Registry!Others(s) \cup {Entry(s, m)}
<1>1. /\ bucket'[s] = m /\ m # None
      /\ \A r \in Sites \ {s} : bucket'[r] = bucket[r]
  BY NoneAssumption DEF Maps
<1>2. Registered' = {Entry(r, bucket'[r]) : r \in {r \in Sites : bucket'[r] # None}}
  BY DEF Registered, Entry
<1>3. Registry!Others(s)
        = {Entry(r, bucket[r]) : r \in {r \in Sites \ {s} : bucket[r] # None}}
  BY DEF Registered, Entry, Registry!Others
<1> QED
  BY <1>1, <1>2, <1>3

\* Removing a metadata object removes the entry of its name, and that only.
LEMMA RegisteredDrop ==
    ASSUME bucket \in Maps, NEW s \in Sites,
           bucket' = [bucket EXCEPT ![s] = None]
    PROVE  /\ Registered' = Registry!Others(s)
           /\ bucket[s] = None => Registered' = Registered
           /\ bucket[s] # None => /\ Entry(s, bucket[s]) \in Registered
                                  /\ Registered' = Registered \ {Entry(s, bucket[s])}
                                  /\ Registered' # Registered
<1>1. bucket'[s] = None /\ \A r \in Sites \ {s} : bucket'[r] = bucket[r]
  BY DEF Maps
<1>2. Registered' = {Entry(r, bucket'[r]) : r \in {r \in Sites : bucket'[r] # None}}
  BY DEF Registered, Entry
<1>3. Registry!Others(s)
        = {Entry(r, bucket[r]) : r \in {r \in Sites \ {s} : bucket[r] # None}}
  BY DEF Registered, Entry, Registry!Others
<1>4. Registered = {Entry(r, bucket[r]) : r \in {r \in Sites : bucket[r] # None}}
  BY DEF Registered, Entry
<1>5. \A r \in Sites : Entry(r, bucket[r]).name = r
  BY DEF Entry
<1>6. Registered' = Registry!Others(s)
  BY <1>1, <1>2, <1>3
<1>7. CASE bucket[s] = None
  BY <1>3, <1>4, <1>6, <1>7
<1>8. CASE bucket[s] # None
  <2>1. Entry(s, bucket[s]) \in Registered
    BY <1>4, <1>8
  <2>2. Registry!Others(s) = Registered \ {Entry(s, bucket[s])}
    BY <1>3, <1>4, <1>5
  <2> QED
    BY <1>6, <1>8, <2>1, <2>2
<1> QED
  BY <1>6, <1>7, <1>8

-----------------------------------------------------------------------------
\* The deadline stays what PutContent computed until it is published.
LEMMA DeadlineNext == RefineInv /\ [Next]_vars => DeadlineInv'
<1> SUFFICES ASSUME RefineInv, [Next]_vars PROVE DeadlineInv'
  OBVIOUS
<1> USE ProcessType
    DEF RefineInv, IInv, TypeInv, TypeOK, StoreType, FlowType, DeadlineInv
<1>1. ASSUME PutContent PROVE DeadlineInv'
  <2>1. CASE pc' = [pc EXCEPT ![M] = "idle"]
    BY <2>1 DEF M
  <2>2. CASE /\ expires' = IF ttl = Never THEN Never ELSE clock + ttl
             /\ UNCHANGED <<ttl, clock>>
    <3>1. clock' \in 0 .. clock'
      BY <2>2
    <3> QED
      BY <2>2, <3>1
  <2> QED
    BY <1>1, <2>1, <2>2 DEF PutContent, Goto
<1>2. ASSUME LookupPrev PROVE DeadlineInv'
  BY <1>2 DEF LookupPrev, Goto, M
<1>3. ASSUME Tick PROVE DeadlineInv'
  <2>1. clock' = clock + 1 /\ UNCHANGED <<pc, ttl, expires>>
    BY <1>3 DEF Tick, pushVars
  <2> QED
    BY <2>1
<1>4. ASSUME \/ StartPush \/ CommitMeta \/ CleanupContent \/ ApplyLocal
             \/ CollectPrev \/ CountSites \/ StartDelete \/ LookupDeleted
             \/ RemoveMeta \/ ForgetLocal \/ SweepContent \/ StartReap
             \/ ListExpired \/ NextExpired \/ Crash
      PROVE  DeadlineInv'
  <2>1. pc'[Mutator] \notin {"prev", "commit"}
    BY <1>4 DEF StartPush, CommitMeta, CleanupContent, ApplyLocal, CollectPrev,
       CountSites, StartDelete, LookupDeleted, RemoveMeta, ForgetLocal,
       SweepContent, StartReap, ListExpired, NextExpired, Crash, Return, Goto, M
  <2> QED
    BY <2>1
<1>5. ASSUME NEW r \in Readers, GetPage(r) \/ CheckExpiry(r) \/ OpenSite(r) \/
             GetContent(r) \/ EndRead(r) PROVE DeadlineInv'
  BY <1>5 DEF GetPage, Goto, CheckExpiry, OpenSite, GetContent, EndRead,
     pushVars
<1>6. ASSUME NEW g \in Goroutines, Snapshot(g) \/ Fetch(g) \/ InstallMap(g)
             PROVE DeadlineInv'
  BY <1>6 DEF Snapshot, Fetch, InstallMap, pushVars
<1>7. ASSUME UNCHANGED vars PROVE DeadlineInv'
  BY <1>7 DEF vars, pushVars
<1> QED
  BY <1>1, <1>2, <1>3, <1>4, <1>5, <1>6, <1>7 DEF Next, Push, Delete, Reap, Read

\* Only the expiry pass stands at its own stations.
LEMMA PassNext == RefineInv /\ [Next]_vars => PassInv'
<1> SUFFICES ASSUME RefineInv, [Next]_vars PROVE PassInv'
  OBVIOUS
<1> USE ProcessType
    DEF RefineInv, IInv, TypeInv, TypeOK, FlowType, PassInv, reaping
<1>1. ASSUME \/ StartPush \/ PutContent \/ LookupPrev \/ CommitMeta
             \/ CleanupContent \/ ApplyLocal \/ CollectPrev \/ CountSites
             \/ StartDelete \/ RemoveMeta \/ ForgetLocal \/ Crash
      PROVE  PassInv'
  <2>1. pc'[Mutator] \notin {"reap", "next"}
    BY <1>1, ReturnError DEF StartPush, PutContent, LookupPrev, CommitMeta,
       CleanupContent, ApplyLocal, CollectPrev, CountSites, StartDelete,
       RemoveMeta, ForgetLocal, Crash, Goto, M
  <2> QED
    BY <2>1
<1>2. ASSUME LookupDeleted \/ SweepContent PROVE PassInv'
  BY <1>2 DEF LookupDeleted, SweepContent, Return, Goto, M, reapVars
<1>3. ASSUME StartReap \/ ListExpired \/ NextExpired PROVE PassInv'
  BY <1>3 DEF StartReap, ListExpired, NextExpired, Goto, M
<1>4. ASSUME Tick PROVE PassInv'
  BY <1>4 DEF Tick, reapVars
<1>5. ASSUME NEW r \in Readers, GetPage(r) \/ CheckExpiry(r) \/ OpenSite(r) \/
             GetContent(r) \/ EndRead(r) PROVE PassInv'
  BY <1>5 DEF GetPage, Goto, CheckExpiry, OpenSite, GetContent, EndRead,
     reapVars
<1>6. ASSUME NEW g \in Goroutines, Snapshot(g) \/ Fetch(g) \/ InstallMap(g)
             PROVE PassInv'
  BY <1>6 DEF Snapshot, Fetch, InstallMap, reapVars
<1>7. ASSUME UNCHANGED vars PROVE PassInv'
  BY <1>7 DEF vars, reapVars
<1> QED
  BY <1>1, <1>2, <1>3, <1>4, <1>5, <1>6, <1>7 DEF Next, Push, Delete, Reap, Read

\* Nothing that the registry sees has changed.
LEMMA Stutters ==
    ASSUME UNCHANGED <<clock, bucket, published>>, Outstanding' = Outstanding
    PROVE  Simulated
  BY RegisteredSame DEF Simulated, Registry!vars

\* A call that is over without an effect was abandoned.
LEMMA GivesUp ==
    ASSUME UNCHANGED <<clock, bucket, published>>, Outstanding' = {}
    PROVE  Simulated
<1>1. CASE Outstanding = {}
  BY <1>1, Stutters
<1>2. CASE Outstanding # {}
  <2>1. Registry!Abandon
    BY <1>2, RegisteredSame DEF Registry!Abandon
  <2> QED
    BY <2>1 DEF Simulated, Registry!Next
<1> QED
  BY <1>1, <1>2

\* A push or a delete begins: the writer had nothing outstanding.
LEMMA StartSimulated ==
    ASSUME RefineInv, StartPush \/ StartDelete
    PROVE  Simulated
<1> USE ProcessType DEF RefineInv, IInv, TypeInv, TypeOK, FlowType, Goto, M
<1>1. Outstanding = {} /\ UNCHANGED <<clock, bucket, published>>
  BY OutstandingBefore DEF StartPush, StartDelete, storeVars, history
<1>2. site'[Mutator] \in Sites
  BY DEF StartPush, StartDelete
<1>3. CASE StartPush
  <2>1. Outstanding' = {PutCall'} /\ ttl' \in TTLs
    BY <1>3, OutstandingAfter DEF StartPush
  <2>2. PutCall' \in Registry!Requests
    BY <1>2, <2>1 DEF PutCall, Registry!Requests
  <2> QED
    BY <1>1, <2>1, <2>2, RegisteredSame DEF Simulated, Registry!Next, Registry!Ask
<1>4. CASE StartDelete
  <2>1. Outstanding' = {DeleteCall'}
    BY <1>4, OutstandingAfter DEF StartDelete, IInv, ReapInv, reaping, Reaping,
       reapVars
  <2>2. DeleteCall' \in Registry!Requests
    BY <1>2 DEF DeleteCall, Registry!Requests
  <2> QED
    BY <1>1, <2>1, <2>2, RegisteredSame DEF Simulated, Registry!Next, Registry!Ask
<1> QED
  BY <1>3, <1>4

\* Up to the flip the push is outstanding, whatever its requests meet.
LEMMA UploadSimulated ==
    ASSUME RefineInv, PutContent \/ LookupPrev
    PROVE  Simulated
<1> USE ProcessType DEF RefineInv, IInv, TypeInv, TypeOK, FlowType, Goto, M
<1>1. UNCHANGED <<clock, bucket, published>>
  BY DEF PutContent, LookupPrev, storeVars, history
<1>2. CASE pc'[Mutator] = "idle"
  BY <1>1, <1>2, OutstandingAfter, GivesUp
<1>3. CASE pc'[Mutator] # "idle"
  <2>1. /\ pc[Mutator] \in {"upload", "prev"} /\ pc'[Mutator] \in {"prev", "commit"}
        /\ UNCHANGED <<site, ttl>>
    BY <1>3 DEF PutContent, LookupPrev
  <2>2. PutCall' = PutCall
    BY <2>1 DEF PutCall
  <2> QED
    BY <1>1, <2>1, <2>2, OutstandingBefore, OutstandingAfter, Stutters
<1> QED
  BY <1>2, <1>3

\* The flip of the pointer is Publish, answered or not.
LEMMA CommitSimulated ==
    ASSUME RefineInv, CommitMeta
    PROVE  Simulated
<1> USE ProcessType DEF RefineInv, IInv, TypeInv, TypeOK, StoreType, FlowType,
        RequestType
<1>1. /\ pc[Mutator] = "commit" /\ Outstanding = {PutCall} /\ Outstanding' = {}
      /\ clock' = clock
  BY OutstandingBefore, OutstandingAfter DEF CommitMeta, Goto, M
<1>2. CASE UNCHANGED <<bucket, published>>
  BY <1>1, <1>2, GivesUp
<1>3. CASE FlipPointer
  <2>1. ver \in Versions \ published /\ Record \in Meta
    BY <1>1, MetaFields DEF Handles, Pushing, PushInv, Upload, Record
  <2>2. Registered' = Registry!Others(site[Mutator]) \cup {Entry(site[Mutator], Record)}
    BY <1>3, <2>1, RegisteredFlip DEF FlipPointer, M, Record
  <2>3. PICK t \in 0 .. clock : expires = IF ttl = Never THEN Never ELSE t + ttl
    BY <1>1 DEF DeadlineInv
  <2>4. Entry(site[Mutator], Record)
          = [name |-> PutCall.name, version |-> ver,
             expires |-> Registry!Deadline(t, PutCall.ttl)]
    BY <2>3 DEF Entry, Record, PutCall, Registry!Deadline
  <2>5. PutCall.op = "put" /\ PutCall.name = site[Mutator]
    BY DEF PutCall
  <2>6. Registry!Publish
    BY <1>1, <1>3, <2>1, <2>2, <2>3, <2>4, <2>5 DEF Registry!Publish, FlipPointer
  <2> QED
    BY <2>6 DEF Simulated, Registry!Next
<1> QED
  BY <1>2, <1>3 DEF CommitMeta, history

\* Nothing is outstanding once the pointer has been flipped or removed.
LEMMA AftermathSimulated ==
    ASSUME RefineInv,
           \/ CleanupContent \/ ApplyLocal \/ CollectPrev \/ CountSites
           \/ ForgetLocal \/ SweepContent \/ StartReap \/ ListExpired
    PROVE  Simulated
<1> USE ProcessType DEF RefineInv, IInv, TypeInv, TypeOK, FlowType
<1>1. UNCHANGED <<clock, bucket, published>>
  BY DEF CleanupContent, ApplyLocal, CollectPrev, CountSites, ForgetLocal,
     SweepContent, StartReap, ListExpired, storeVars, history
<1>2. pc'[Mutator] \notin {"upload", "prev", "commit", "gone", "unmeta"}
  BY DEF CleanupContent, ApplyLocal, CollectPrev, CountSites, ForgetLocal,
     SweepContent, StartReap, ListExpired, Return, Goto, M
<1> QED
  BY <1>1, <1>2, OutstandingAfter, GivesUp

\* A delete that finds nothing or fails to look is abandoned; one of the
\* expiry pass is no request at all.
LEMMA LookupSimulated ==
    ASSUME RefineInv, LookupDeleted \/ NextExpired
    PROVE  Simulated
<1> USE ProcessType DEF RefineInv, IInv, TypeInv, TypeOK, FlowType, Goto, M
<1>1. UNCHANGED <<clock, bucket, published>>
  BY DEF LookupDeleted, NextExpired, storeVars, history
<1>2. CASE pc'[Mutator] \notin {"gone", "unmeta"}
  <2>1. Outstanding' = {}
    BY <1>2, OutstandingAfter DEF LookupDeleted, NextExpired, Return
  <2> QED
    BY <1>1, <2>1, GivesUp
<1>3. CASE pc'[Mutator] = "unmeta"
  <2>1. /\ pc[Mutator] = "gone" /\ UNCHANGED <<site, job>>
    BY <1>3 DEF LookupDeleted, NextExpired, Return, reapVars
  <2>2. DeleteCall' = DeleteCall /\ reaping' = reaping
    BY <2>1 DEF DeleteCall, reaping
  <2> QED
    BY <1>1, <1>3, <2>1, <2>2, OutstandingBefore, OutstandingAfter, Stutters
<1>4. CASE pc'[Mutator] = "gone"
  <2>1. pc[Mutator] = "next" /\ UNCHANGED job
    BY <1>4 DEF LookupDeleted, NextExpired, Return
  <2>2. reaping /\ reaping'
    BY <2>1 DEF PassInv, reaping
  <2> QED
    BY <1>1, <1>4, <2>1, <2>2, OutstandingBefore, OutstandingAfter, Stutters
<1> QED
  BY <1>2, <1>3, <1>4

\* The removal of the pointer is Withdraw for a client's delete and Expire in
\* the expiry pass, answered or not.
LEMMA RemoveSimulated ==
    ASSUME RefineInv, RemoveMeta
    PROVE  Simulated
<1> USE ProcessType DEF RefineInv, IInv, TypeInv, TypeOK, StoreType, FlowType,
        RequestType
<1>1. pc[Mutator] = "unmeta" /\ pc'[Mutator] \in {"forget", "idle"}
  BY ReturnError DEF RemoveMeta, Goto, M
<1>2. Outstanding' = {} /\ UNCHANGED <<clock, published>>
  BY <1>1, OutstandingAfter DEF RemoveMeta
<1>3. CASE UNCHANGED bucket
  BY <1>2, <1>3, GivesUp
<1>4. CASE bucket' = [bucket EXCEPT ![site[Mutator]] = None]
  <2> DEFINE s == site[Mutator]
  <2>1. s \in Sites
    OBVIOUS
  <2>2. CASE bucket[s] = None
    <3>1. bucket' = bucket
      BY <1>4, <2>2 DEF Maps
    <3> QED
      BY <1>2, <3>1, GivesUp
  <2>3. CASE bucket[s] # None /\ reaping
    <3>1. Outstanding = {}
      BY <1>1, <2>3, OutstandingBefore
    <3>2. /\ Entry(s, bucket[s]) \in Registered
          /\ Registered' = Registered \ {Entry(s, bucket[s])}
      BY <1>4, <2>1, <2>3, RegisteredDrop
    <3>3. Elapsed(bucket[s].expires, now) /\ now <= clock
      BY <1>1, <2>3 DEF ReapInv, Overdue
    <3>4. bucket[s].expires \in Nat \cup {Never}
      BY <2>1, <2>3, MapsType, MetaFields
    <3>5. Registry!Elapsed(Entry(s, bucket[s]).expires, clock)
      BY <3>3, <3>4, TTLsAssumption DEF Elapsed, Registry!Elapsed, Entry
    <3> QED
      BY <1>2, <3>1, <3>2, <3>5 DEF Simulated, Registry!Next, Registry!Expire
  <2>4. CASE bucket[s] # None /\ ~reaping
    <3>1. Outstanding = {DeleteCall}
      BY <1>1, <2>4, OutstandingBefore
    <3>2. Registered' = Registry!Others(s) /\ Registered' # Registered
      BY <1>4, <2>1, <2>4, RegisteredDrop
    <3>3. DeleteCall.op = "delete" /\ DeleteCall.name = s
      BY DEF DeleteCall
    <3> QED
      BY <1>2, <3>1, <3>2, <3>3 DEF Simulated, Registry!Next, Registry!Withdraw
  <2> QED
    BY <2>2, <2>3, <2>4
<1> QED
  BY <1>3, <1>4 DEF RemoveMeta, Unpublish, M

\* Readers and refreshes of the maps are not seen: they leave the writer, its
\* request and the bucket alone.
LEMMA ReadersSimulated ==
    ASSUME RefineInv,
           \/ \E r \in Readers : Read(r)
           \/ \E g \in Goroutines : Snapshot(g) \/ Fetch(g) \/ InstallMap(g)
           \/ UNCHANGED vars
    PROVE  Simulated
<1> USE ProcessType DEF RefineInv, IInv, TypeInv, TypeOK, FlowType
<1> DEFINE WriterKept ==
             /\ UNCHANGED <<clock, bucket, published, ttl, job>>
             /\ pc'[Mutator] = pc[Mutator] /\ site'[Mutator] = site[Mutator]
<1>1. WriterKept
  <2>1. ASSUME NEW r \in Readers, Read(r) PROVE WriterKept
    BY <2>1 DEF Read, GetPage, CheckExpiry, OpenSite, GetContent, EndRead, Goto,
       storeVars, pushVars, reapVars, history
  <2>2. ASSUME NEW g \in Goroutines, Snapshot(g) \/ Fetch(g) \/ InstallMap(g)
        PROVE  WriterKept
    BY <2>2 DEF Snapshot, Fetch, InstallMap, storeVars, pushVars, reapVars,
       history
  <2>3. ASSUME UNCHANGED vars PROVE WriterKept
    BY <2>3 DEF vars, storeVars, pushVars, reapVars, history
  <2> QED
    BY <2>1, <2>2, <2>3
<1>2. PutCall' = PutCall /\ DeleteCall' = DeleteCall /\ reaping' = reaping
  BY <1>1 DEF PutCall, DeleteCall, reaping
<1>3. pc[Mutator] \in Stations
  OBVIOUS
<1>4. Outstanding' = Outstanding
  BY <1>1, <1>2, OutstandingBefore, OutstandingAfter
<1> QED
  BY <1>1, <1>4, Stutters

\* Time passes for both; a death of the broker abandons what it was doing.
LEMMA TickCrashSimulated ==
    ASSUME RefineInv, Tick \/ Crash
    PROVE  Simulated
<1> USE ProcessType DEF RefineInv, IInv, TypeInv, TypeOK, FlowType
<1>1. CASE Tick
  <2>1. clock' = clock + 1 /\ UNCHANGED <<bucket, published, pc, site, ttl, job>>
    BY <1>1 DEF Tick, storeVars, history, pushVars, reapVars
  <2>2. Outstanding' = Outstanding
    BY <2>1 DEF Outstanding, reaping
  <2> QED
    BY <2>1, <2>2, RegisteredSame DEF Simulated, Registry!Next, Registry!Tick
<1>2. CASE Crash
  <2>1. UNCHANGED <<clock, bucket, published>> /\ pc'[Mutator] = "boot"
    BY <1>2 DEF Crash, storeVars, history
  <2> QED
    BY <2>1, OutstandingAfter, GivesUp
<1> QED
  BY <1>1, <1>2

\* Every step of the store is a step of the registry or is not seen by it.
LEMMA StepSimulation == RefineInv /\ [Next]_vars => Simulated
  BY StartSimulated, UploadSimulated, CommitSimulated, AftermathSimulated,
     LookupSimulated, RemoveSimulated, ReadersSimulated, TickCrashSimulated
     DEF Next, Push, Delete, Reap

\* At startup nothing is published and nothing has been asked.
LEMMA InitSimulation == Init => Registry!Init /\ RefineInv
<1> SUFFICES ASSUME Init PROVE Registry!Init /\ RefineInv
  OBVIOUS
<1>1. IInv /\ pc[Mutator] = "boot"
  BY InitInv, ProcessType DEF Init
<1>2. Registered = {}
  BY DEF Init, Registered, Empty
<1>3. Outstanding = {}
  BY <1>1, OutstandingBefore
<1> QED
  BY <1>1, <1>2, <1>3 DEF Init, Registry!Init, RefineInv, DeadlineInv, PassInv

\* The strengthened invariant holds in every reachable state.
THEOREM RefineInvariance == Spec => []RefineInv
<1>1. RefineInv /\ [Next]_vars => DeadlineInv' /\ PassInv'
  BY DeadlineNext, PassNext
<1>2. Init => DeadlineInv /\ PassInv
  BY InitSimulation DEF RefineInv
<1> QED
  BY Invariance, <1>1, <1>2, PTL DEF Spec, RefineInv

\* The S3 store is the registry the server takes it for: through lost answers,
\* failed requests, stale maps and deaths of the broker between any two of its
\* writes, each request changes what is published at one instant or not at all.
THEOREM StoreIsRegistry == Spec => ImplementsRegistry
<1>1. RefineInv /\ [Next]_vars => [Registry!Next]_(Registry!vars)
  BY StepSimulation DEF Simulated
<1>2. Init => Registry!Init
  BY InitSimulation
<1> QED
  BY RefineInvariance, <1>1, <1>2, PTL DEF Spec, ImplementsRegistry, Registry!Spec

=============================================================================
